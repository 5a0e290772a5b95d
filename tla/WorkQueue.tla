------------------------------- MODULE WorkQueue -------------------------------
(***************************************************************************)
(* The work queue of one controller process: client-go's delaying queue    *)
(* (external, modelled from how the controller uses it) and the calls that *)
(* enqueueOBC and processNextItemInQueue make on it.  AddRateLimited puts  *)
(* a key into waiting; when its delay has run out it is added.  An added   *)
(* key is dirty; it stands in the queue, once, unless a worker is          *)
(* processing it, and then Done puts it there.  ShutDown stops additions   *)
(* and forgets the waiting keys; what is queued can still be taken.        *)
(***************************************************************************)
EXTENDS Sequences, Integers

CONSTANTS Keys, Workers, None

ASSUME QueueAssumption == None \notin Keys

VARIABLES
    queue,       \* keys ready to be taken, first in first out
    dirty,       \* keys that have to be processed
    processing,  \* keys some worker is processing
    waiting,     \* keys to be added when their delay runs out
    shutdown,    \* ShutDown was called
    serving      \* serving[w]: the key in worker w's hands

queueVars == <<queue, dirty, processing, waiting, shutdown, serving>>

QueueInit ==
    /\ queue = <<>>
    /\ dirty = {}
    /\ processing = {}
    /\ waiting = {}
    /\ shutdown = FALSE
    /\ serving = [w \in Workers |-> None]

\* A key is given to the limiter by an event handler, or by a worker whose
\* handler failed.
AddRateLimited(k) ==
    /\ waiting' = IF shutdown THEN waiting ELSE waiting \cup {k}
    /\ UNCHANGED <<queue, dirty, processing, shutdown, serving>>

\* Faulty variant: the key is queued although a worker is processing it.
AddBlindly(k) ==
    /\ k \in waiting
    /\ ~shutdown
    /\ waiting' = waiting \ {k}
    /\ dirty' = dirty \cup {k}
    /\ queue' = IF k \in dirty THEN queue ELSE Append(queue, k)
    /\ UNCHANGED <<processing, shutdown, serving>>

\* The delay of k has run out.
Add(k) ==
    /\ k \in waiting
    /\ ~shutdown
    /\ waiting' = waiting \ {k}
    /\ dirty' = dirty \cup {k}
    /\ queue' = IF k \in dirty \cup processing THEN queue ELSE Append(queue, k)
    /\ UNCHANGED <<processing, shutdown, serving>>

\* Get hands out the oldest key; it blocks while there is none.
Get(w) ==
    /\ serving[w] = None
    /\ queue # <<>>
    /\ serving' = [serving EXCEPT ![w] = Head(queue)]
    /\ queue' = Tail(queue)
    /\ processing' = processing \cup {Head(queue)}
    /\ dirty' = dirty \ {Head(queue)}
    /\ UNCHANGED <<waiting, shutdown>>

\* Faulty variant: a key that became dirty meanwhile is left to be added again.
DoneUnqueued(w) ==
    /\ serving[w] # None
    /\ serving' = [serving EXCEPT ![w] = None]
    /\ processing' = processing \ {serving[w]}
    /\ UNCHANGED <<queue, dirty, waiting, shutdown>>

\* The deferred Done: a key that became dirty meanwhile is queued again.
Done(w) ==
    /\ serving[w] # None
    /\ serving' = [serving EXCEPT ![w] = None]
    /\ processing' = processing \ {serving[w]}
    /\ queue' = IF serving[w] \in dirty THEN Append(queue, serving[w]) ELSE queue
    /\ UNCHANGED <<dirty, waiting, shutdown>>

ShutDown ==
    /\ shutdown' = TRUE
    /\ waiting' = {}
    /\ UNCHANGED <<queue, dirty, processing, serving>>

\* The process ends; another one starts with a queue of its own.
NewQueue ==
    /\ queue' = <<>>
    /\ dirty' = {}
    /\ processing' = {}
    /\ waiting' = {}
    /\ shutdown' = FALSE
    /\ serving' = [w \in Workers |-> None]

QueueNext ==
    \/ \E k \in Keys : AddRateLimited(k) \/ Add(k)
    \/ \E w \in Workers : Get(w) \/ Done(w)
    \/ ShutDown
    \/ NewQueue

QueueSpec == QueueInit /\ [][QueueNext]_queueVars

-------------------------------------------------------------------------------
\* A key that has to be processed is on its way: it stands in the queue, or a
\* worker is at it and will put it there.  Otherwise it would be stuck for good,
\* since adding a dirty key again does nothing.
DirtyIsComing ==
    \A k \in dirty : \/ \E i \in 1 .. Len(queue) : queue[i] = k
                     \/ \E w \in Workers : serving[w] = k

Contract == INSTANCE KeyQueue WITH
    pending <- dirty \cup waiting,
    busy    <- serving,
    open    <- ~shutdown

\* The queue keeps the promise the reconciler's workers rely on: no two of them
\* are at the same key, and a key that was handed to AddRateLimited stays pending
\* until a worker takes it, the queue is shut down or the process ends, even when
\* it was added while a worker was processing it.  After ShutDown none is lost.
QueueContract == Contract!Spec
===============================================================================
