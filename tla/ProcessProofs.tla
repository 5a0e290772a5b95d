----------------------------- MODULE ProcessProofs -----------------------------
(***************************************************************************)
(* The work queue implements KeyQueue and no dirty key is ever stuck.  A   *)
(* provisioner process uses its queue as WorkQueue specifies, works on no  *)
(* claim before its caches are filled or outside its namespace, and        *)
(* reports an error only if no worker was started; for every set of claims *)
(* and workers and every setting.                                          *)
(***************************************************************************)
EXTENDS Process, TLAPS

-------------------------------------------------------------------------------
(* The queue.  The inductive invariant says where a key can be: the queue  *)
(* holds each dirty key that nobody is processing, once, and the keys in   *)
(* processing are those the workers have.                                  *)

QueueType ==
    /\ queue \in Seq(Keys)
    /\ dirty \subseteq Keys
    /\ processing \subseteq Keys
    /\ waiting \subseteq Keys
    /\ shutdown \in BOOLEAN
    /\ serving \in [Workers -> Keys \cup {None}]

\* What stands in the queue is dirty and not being processed.
QueuedIsDirty ==
    \A i \in 1 .. Len(queue) : queue[i] \in dirty /\ queue[i] \notin processing

QueuedOnce ==
    \A i, j \in 1 .. Len(queue) : queue[i] = queue[j] => i = j

DirtyIsQueued ==
    \A k \in dirty : k \notin processing => \E i \in 1 .. Len(queue) : queue[i] = k

\* The keys being processed are those the workers have, each a different one.
ServedIsProcessing ==
    /\ \A w \in Workers : serving[w] # None => serving[w] \in processing
    /\ \A k \in processing : \E w \in Workers : serving[w] = k

ServedOnce ==
    \A v, w \in Workers : serving[v] # None /\ serving[v] = serving[w] => v = w

NothingWaits == shutdown => waiting = {}

QueueInv ==
    /\ QueueType
    /\ QueuedIsDirty
    /\ QueuedOnce
    /\ DirtyIsQueued
    /\ ServedIsProcessing
    /\ ServedOnce
    /\ NothingWaits

\* Appending a key to a sequence.
LEMMA AppendFacts ==
    ASSUME NEW S, NEW s \in Seq(S), NEW e \in S
    PROVE  /\ Append(s, e) \in Seq(S)
           /\ Len(Append(s, e)) = Len(s) + 1
           /\ Len(s) \in Nat
           /\ Append(s, e)[Len(s) + 1] = e
           /\ \A i \in 1 .. Len(s) : Append(s, e)[i] = s[i]
  OBVIOUS

\* The head and the tail of a sequence that is not empty.
LEMMA TailFacts ==
    ASSUME NEW S, NEW s \in Seq(S), s # <<>>
    PROVE  /\ Tail(s) \in Seq(S)
           /\ Len(s) \in Nat
           /\ Len(s) >= 1
           /\ Len(Tail(s)) = Len(s) - 1
           /\ Head(s) = s[1]
           /\ Head(s) \in S
           /\ \A i \in 1 .. Len(s) - 1 : Tail(s)[i] = s[i + 1]
  OBVIOUS

\* No key is in the empty queue.
LEMMA EmptyFacts == <<>> \in Seq(Keys) /\ 1 .. Len(<<>>) = {}
  OBVIOUS

\* The invariant holds of the empty queue.
LEMMA InitQueueInv == QueueInit => QueueInv
<1> SUFFICES ASSUME QueueInit PROVE QueueInv
  OBVIOUS
<1>1. QueueType
  BY EmptyFacts DEF QueueInit, QueueType
<1>2. 1 .. Len(queue) = {}
  BY EmptyFacts DEF QueueInit
<1>3. QueuedIsDirty /\ QueuedOnce
  BY <1>2 DEF QueuedIsDirty, QueuedOnce
<1>4. DirtyIsQueued /\ ServedIsProcessing /\ ServedOnce /\ NothingWaits
  BY DEF QueueInit, DirtyIsQueued, ServedIsProcessing, ServedOnce, NothingWaits
<1> QED BY <1>1, <1>3, <1>4 DEF QueueInv

\* An added key goes to the end of the queue unless it is there or processed.
LEMMA AddQueueInv ==
    ASSUME QueueInv, NEW k \in Keys, Add(k)
    PROVE  QueueInv'
<1>1. QueueType'
  BY AppendFacts DEF QueueInv, QueueType, Add
<1>2. CASE k \in dirty \cup processing
  <2>1. QueuedIsDirty' /\ QueuedOnce' /\ DirtyIsQueued'
    BY <1>2 DEF QueueInv, QueueType, QueuedIsDirty, QueuedOnce, DirtyIsQueued, Add
  <2>2. ServedIsProcessing' /\ ServedOnce' /\ NothingWaits'
    BY DEF QueueInv, QueueType, ServedIsProcessing, ServedOnce, NothingWaits, Add
  <2> QED BY <1>1, <2>1, <2>2 DEF QueueInv
<1>3. CASE k \notin dirty \cup processing
  <2>1. queue' = Append(queue, k) /\ dirty' = dirty \cup {k}
        /\ UNCHANGED <<processing, serving, shutdown>>
    BY <1>3 DEF Add
  <2>2. /\ Len(queue') = Len(queue) + 1
        /\ Len(queue) \in Nat
        /\ queue'[Len(queue) + 1] = k
        /\ \A i \in 1 .. Len(queue) : queue'[i] = queue[i]
    BY <2>1, AppendFacts DEF QueueInv, QueueType
  <2>3. QueuedIsDirty'
    BY <1>3, <2>1, <2>2 DEF QueueInv, QueueType, QueuedIsDirty
  <2>4. QueuedOnce'
    BY <1>3, <2>1, <2>2 DEF QueueInv, QueueType, QueuedIsDirty, QueuedOnce
  <2>5. DirtyIsQueued'
    BY <1>3, <2>1, <2>2 DEF QueueInv, QueueType, DirtyIsQueued
  <2>6. ServedIsProcessing' /\ ServedOnce' /\ NothingWaits'
    BY <2>1 DEF QueueInv, QueueType, ServedIsProcessing, ServedOnce, NothingWaits, Add
  <2> QED BY <1>1, <2>3, <2>4, <2>5, <2>6 DEF QueueInv
<1> QED BY <1>2, <1>3

\* A worker takes the head of the queue, which nobody is processing.
LEMMA GetQueueInv ==
    ASSUME QueueInv, NEW w \in Workers, Get(w)
    PROVE  QueueInv'
<1> DEFINE h == Head(queue)
<1>1. /\ Tail(queue) \in Seq(Keys)
      /\ Len(queue) \in Nat
      /\ Len(queue) >= 1
      /\ Len(queue') = Len(queue) - 1
      /\ h = queue[1]
      /\ h \in Keys
      /\ \A i \in 1 .. Len(queue) - 1 : queue'[i] = queue[i + 1]
  BY TailFacts DEF QueueInv, QueueType, Get
<1>2. h \in dirty /\ h \notin processing
  BY <1>1 DEF QueueInv, QueuedIsDirty
<1>3. /\ queue' = Tail(queue)
      /\ dirty' = dirty \ {h}
      /\ processing' = processing \cup {h}
      /\ serving' = [serving EXCEPT ![w] = h]
      /\ serving[w] = None
      /\ UNCHANGED <<waiting, shutdown>>
  BY DEF Get
<1> HIDE DEF h
<1>4. QueueType'
  BY <1>1, <1>3 DEF QueueInv, QueueType
<1>5. QueuedIsDirty'
  BY <1>1, <1>2, <1>3 DEF QueueInv, QueuedIsDirty, QueuedOnce
<1>6. QueuedOnce'
  BY <1>1, <1>3 DEF QueueInv, QueuedOnce
<1>7. DirtyIsQueued'
  <2> SUFFICES ASSUME NEW k \in dirty', k \notin processing'
               PROVE  \E i \in 1 .. Len(queue') : queue'[i] = k
    BY DEF DirtyIsQueued
  <2>1. PICK i \in 1 .. Len(queue) : queue[i] = k
    BY <1>3 DEF QueueInv, DirtyIsQueued
  <2>2. i # 1
    BY <1>1, <1>3, <2>1
  <2>3. i - 1 \in 1 .. Len(queue') /\ queue'[i - 1] = k
    BY <1>1, <2>1, <2>2
  <2> QED BY <2>3
<1>8. ServedIsProcessing' /\ ServedOnce'
  BY <1>1, <1>2, <1>3, QueueAssumption
     DEF QueueInv, QueueType, ServedIsProcessing, ServedOnce
<1>9. NothingWaits'
  BY <1>3 DEF QueueInv, NothingWaits
<1> QED BY <1>4, <1>5, <1>6, <1>7, <1>8, <1>9 DEF QueueInv

\* Done queues the key again if it became dirty while it was processed.
LEMMA DoneQueueInv ==
    ASSUME QueueInv, NEW w \in Workers, Done(w)
    PROVE  QueueInv'
<1> DEFINE k == serving[w]
<1>1. /\ k # None
      /\ k \in Keys
      /\ k \in processing
      /\ serving' = [serving EXCEPT ![w] = None]
      /\ processing' = processing \ {k}
      /\ queue' = IF k \in dirty THEN Append(queue, k) ELSE queue
      /\ UNCHANGED <<dirty, waiting, shutdown>>
  BY DEF Done, QueueInv, QueueType, ServedIsProcessing
<1>2. ServedIsProcessing' /\ ServedOnce'
  BY <1>1 DEF QueueInv, QueueType, ServedIsProcessing, ServedOnce
<1> HIDE DEF k
<1>3. NothingWaits'
  BY <1>1 DEF QueueInv, NothingWaits
<1>4. CASE k \notin dirty
  <2>1. QueuedIsDirty' /\ QueuedOnce' /\ DirtyIsQueued'
    BY <1>1, <1>4 DEF QueueInv, QueueType, QueuedIsDirty, QueuedOnce, DirtyIsQueued
  <2>2. QueueType'
    BY <1>1, <1>4 DEF QueueInv, QueueType
  <2> QED BY <1>2, <1>3, <2>1, <2>2 DEF QueueInv
<1>5. CASE k \in dirty
  <2>1. /\ queue' \in Seq(Keys)
        /\ Len(queue') = Len(queue) + 1
        /\ Len(queue) \in Nat
        /\ queue'[Len(queue) + 1] = k
        /\ \A i \in 1 .. Len(queue) : queue'[i] = queue[i]
    BY <1>1, <1>5, AppendFacts DEF QueueInv, QueueType
  <2>2. QueueType'
    BY <1>1, <2>1 DEF QueueInv, QueueType
  <2>3. QueuedIsDirty'
    BY <1>1, <1>5, <2>1 DEF QueueInv, QueuedIsDirty
  <2>4. QueuedOnce'
    BY <1>1, <2>1 DEF QueueInv, QueuedIsDirty, QueuedOnce
  <2>5. DirtyIsQueued'
    BY <1>1, <2>1 DEF QueueInv, DirtyIsQueued
  <2> QED BY <1>2, <1>3, <2>2, <2>3, <2>4, <2>5 DEF QueueInv
<1> QED BY <1>4, <1>5

\* Every step keeps the invariant.
LEMMA NextQueueInv == QueueInv /\ [QueueNext]_queueVars => QueueInv'
<1> SUFFICES ASSUME QueueInv, [QueueNext]_queueVars
             PROVE  QueueInv'
  OBVIOUS
<1> USE DEF QueueInv, QueueType, QueuedIsDirty, QueuedOnce, DirtyIsQueued,
            ServedIsProcessing, ServedOnce, NothingWaits
<1>1. ASSUME NEW k \in Keys, AddRateLimited(k) PROVE QueueInv'
  BY <1>1 DEF AddRateLimited
<1>2. CASE ShutDown
  BY <1>2 DEF ShutDown
<1>3. CASE NewQueue
  <2>1. QueueType'
    BY <1>3, EmptyFacts DEF NewQueue
  <2>2. (1 .. Len(queue))' = {}
    BY <1>3, EmptyFacts DEF NewQueue
  <2>3. QueuedIsDirty' /\ QueuedOnce'
    BY <2>2
  <2>4. DirtyIsQueued' /\ ServedIsProcessing' /\ ServedOnce' /\ NothingWaits'
    BY <1>3 DEF NewQueue
  <2> QED BY <2>1, <2>3, <2>4
<1>4. CASE UNCHANGED queueVars
  BY <1>4 DEF queueVars
<1> QED
  BY <1>1, <1>2, <1>3, <1>4, AddQueueInv, GetQueueInv, DoneQueueInv DEF QueueNext

\* Under the contract a taken key is pending and in no other worker's hands.
LEMMA GetTakes ==
    ASSUME QueueInv, NEW w \in Workers, Get(w)
    PROVE  Contract!Take(w, Head(queue)) /\ Head(queue) \in Keys
<1>1. /\ Len(queue) \in Nat
      /\ Len(queue) >= 1
      /\ Head(queue) = queue[1]
      /\ Head(queue) \in Keys
  BY TailFacts DEF QueueInv, QueueType, Get
<1>2. Head(queue) \in dirty /\ Head(queue) \notin processing
  BY <1>1 DEF QueueInv, QueuedIsDirty
<1>3. \A v \in Workers : serving[v] # Head(queue)
  BY <1>1, <1>2, QueueAssumption DEF QueueInv, ServedIsProcessing
<1>4. (dirty \cup waiting)' \in {dirty \cup waiting, (dirty \cup waiting) \ {Head(queue)}}
  <2>1. dirty' = dirty \ {Head(queue)} /\ waiting' = waiting
    BY DEF Get
  <2>2. CASE Head(queue) \in waiting
    BY <2>1, <2>2
  <2>3. CASE Head(queue) \notin waiting
    BY <2>1, <2>3
  <2> QED BY <2>2, <2>3
<1> QED BY <1>1, <1>2, <1>3, <1>4 DEF Contract!Take, Get

\* Every step of the queue is one the contract allows, or changes nothing it sees.
LEMMA StepsKeepContract ==
    QueueInv /\ [QueueNext]_queueVars => [Contract!Next]_(Contract!vars)
<1> SUFFICES ASSUME QueueInv, [QueueNext]_queueVars
             PROVE  Contract!Next \/ UNCHANGED Contract!vars
  OBVIOUS
<1>1. ASSUME NEW k \in Keys, AddRateLimited(k)
      PROVE  Contract!Submit(k) \/ UNCHANGED Contract!vars
  BY <1>1 DEF AddRateLimited, Contract!Submit, Contract!vars, QueueInv, QueueType
<1>2. ASSUME NEW k \in Keys, Add(k) PROVE UNCHANGED Contract!vars
  BY <1>2 DEF Add, Contract!vars
<1>3. ASSUME NEW w \in Workers, Done(w) PROVE Contract!Finish(w)
  BY <1>3 DEF Done, Contract!Finish
<1>4. ASSUME ShutDown PROVE Contract!Close \/ UNCHANGED Contract!vars
  <2>1. CASE shutdown
    BY <1>4, <2>1 DEF ShutDown, Contract!vars, QueueInv, NothingWaits
  <2>2. CASE ~shutdown
    BY <1>4, <2>2 DEF ShutDown, Contract!Close
  <2> QED BY <2>1, <2>2
<1>5. ASSUME NewQueue PROVE Contract!Restart
  BY <1>5 DEF NewQueue, Contract!Restart
<1>6. ASSUME UNCHANGED queueVars PROVE UNCHANGED Contract!vars
  BY <1>6 DEF queueVars, Contract!vars
<1> QED
  BY <1>1, <1>2, <1>3, <1>4, <1>5, <1>6, GetTakes DEF QueueNext, Contract!Next

\* The work queue keeps its contract: for any keys and workers, no two workers are
\* at the same key and no key that was added is lost before the queue is shut down.
THEOREM QueueKeepsContract == QueueSpec => QueueContract
<1>1. QueueInit => Contract!Init
  BY DEF QueueInit, Contract!Init
<1> QED
  BY <1>1, InitQueueInv, NextQueueInv, StepsKeepContract, PTL
     DEF QueueSpec, QueueContract, Contract!Spec

\* No dirty key is ever stuck: it stands in the queue or a worker is at it.
THEOREM NoKeyIsStuck == QueueSpec => []DirtyIsComing
<1>1. QueueInv => DirtyIsComing
  BY DEF QueueInv, DirtyIsQueued, ServedIsProcessing, DirtyIsComing
<1> QED
  BY <1>1, InitQueueInv, NextQueueInv, PTL DEF QueueSpec

-------------------------------------------------------------------------------
(* The process.  The inductive invariant ties the workers to the queue and *)
(* to Start, and the keys to the factory's scope.                          *)

WorkerStates == {"off", "until", "get", "sync", "failed", "over"}

WorkerType == worker \in [Workers -> WorkerStates]

\* A worker has a key exactly while it is processing one.
HandsFull ==
    \A w \in Workers : worker[w] \in {"sync", "failed"} <=> serving[w] # None

\* Workers are started by Start, once the caches are filled.
StartedSynced ==
    \A w \in Workers :
        worker[w] # "off" => starter \in {"running", "done"} /\ synced = Informers

\* A factory that is used has the namespace that NewProvisioner was given.
Scoped ==
    main = "setup" \/ factory.started # {} => factory.scope = Namespace

FactoryType == factory \in [scope: {None, Namespace}, informers: SUBSET Informers,
                            started: SUBSET Informers]

\* Before Run there is no Start.
NotStarted == main \in {"new", "setup"} => starter = "none"

KeysInScope ==
    /\ \A k \in dirty \cup waiting : Namespace \in {None, k.ns}
    /\ \A w \in Workers : serving[w] # None => Namespace \in {None, serving[w].ns}

\* An error, stored or returned, is Start's, which ended before there were workers.
ErrorInv ==
    "error" \in {err, result} => starter = "done" /\ \A w \in Workers : worker[w] = "off"

ProcessInv ==
    /\ QueueInv
    /\ WorkerType
    /\ HandsFull
    /\ StartedSynced
    /\ FactoryType
    /\ Scoped
    /\ NotStarted
    /\ KeysInScope
    /\ ErrorInv

\* The first state is as the invariant says.
LEMMA InitProcessInv == Init => ProcessInv
<1> SUFFICES ASSUME Init PROVE ProcessInv
  OBVIOUS
<1>1. QueueInv
  BY InitQueueInv DEF Init
<1>2. WorkerType /\ HandsFull /\ StartedSynced /\ ErrorInv
  BY DEF Init, QueueInit, WorkerType, WorkerStates, HandsFull, StartedSynced, ErrorInv
<1>3. FactoryType /\ Scoped /\ NotStarted
  BY DEF Init, NewSharedInformerFactory, FactoryType, Scoped, NotStarted
<1>4. KeysInScope
  BY DEF Init, QueueInit, KeysInScope
<1> QED BY <1>1, <1>2, <1>3, <1>4 DEF ProcessInv

\* What a step does to the queue is a step of WorkQueue.
LEMMA QueueSteps ==
    ProcessInv /\ [Next]_vars => [QueueNext]_queueVars
<1> SUFFICES ASSUME ProcessInv, [Next]_vars
             PROVE  QueueNext \/ UNCHANGED queueVars
  OBVIOUS
<1>1. ASSUME Host PROVE QueueNext \/ UNCHANGED queueVars
  BY <1>1 DEF Host, NewProvisioner, SetLabels, RunCalled, AskToStop, Exit, QueueNext
<1>2. ASSUME MainReturns PROVE UNCHANGED queueVars
  BY <1>2 DEF MainReturns, CloseStopCh, ReturnNil, RunReturns
<1>3. ASSUME StartStep PROVE QueueNext \/ UNCHANGED queueVars
  BY <1>3 DEF StartStep, WaitForCacheSync, StartReturns, QueueNext
<1>4. ASSUME NEW w \in Workers, WorkerStep(w) PROVE QueueNext \/ UNCHANGED queueVars
  <2>1. ASSUME SyncFails(w) PROVE QueueNext
    <3>1. serving[w] \in Keys
      BY <2>1 DEF SyncFails, ProcessInv, HandsFull, QueueInv, QueueType
    <3> QED BY <2>1, <3>1 DEF SyncFails, QueueNext
  <2> QED
    BY <1>4, <2>1 DEF WorkerStep, Until, GetItem, QueueClosed, SyncSucceeds,
                      DoneAfterError, QueueNext
<1>5. ASSUME NEW i \in Informers, HasSynced(i) PROVE UNCHANGED queueVars
  BY <1>5 DEF HasSynced
<1>6. ASSUME NEW k \in Keys, ChangeClaim(k) \/ enqueueOBC(k) \/ Ripe(k)
      PROVE  QueueNext \/ UNCHANGED queueVars
  BY <1>6 DEF ChangeClaim, enqueueOBC, Ripe, QueueNext
<1>7. ASSUME UNCHANGED vars PROVE UNCHANGED queueVars
  BY <1>7 DEF vars
<1> QED BY <1>1, <1>2, <1>3, <1>4, <1>5, <1>6, <1>7 DEF Next

\* What the host program's goroutine does keeps the invariant.
LEMMA HostProcessInv ==
    ASSUME ProcessInv, Host \/ MainReturns, QueueInv'
    PROVE  ProcessInv'
<1> USE DEF ProcessInv, WorkerType, HandsFull, StartedSynced, FactoryType, Scoped,
            NotStarted, KeysInScope, ErrorInv
<1>1. ASSUME NEW n \in Names, NewProvisioner(n) PROVE ProcessInv'
  BY <1>1 DEF NewProvisioner, setupInformerFactory, NewSharedInformerFactory,
              WithNamespace, InformerFor, Informers, queueVars
<1>2. ASSUME NEW vs \in Extra, SetLabels(vs) PROVE ProcessInv'
  BY <1>2 DEF SetLabels, queueVars
<1>3. ASSUME NEW e \in {"Run", "RunWithContext"}, RunCalled(e) PROVE ProcessInv'
  BY <1>3 DEF RunCalled, FactoryStart, queueVars
<1>4. ASSUME AskToStop PROVE ProcessInv'
  BY <1>4 DEF AskToStop, queueVars
<1>5. ASSUME Exit PROVE ProcessInv'
  BY <1>5 DEF Exit, NewQueue, NewSharedInformerFactory, WorkerStates
<1>6. ASSUME MainReturns PROVE ProcessInv'
  BY <1>6 DEF MainReturns, CloseStopCh, ReturnNil, RunReturns, queueVars
<1> QED BY <1>1, <1>2, <1>3, <1>4, <1>5, <1>6 DEF Host

\* What Start, the informers and the users do keeps the invariant.
LEMMA StartProcessInv ==
    ASSUME ProcessInv, QueueInv',
           \/ StartStep
           \/ \E i \in Informers : HasSynced(i)
           \/ \E k \in Keys : ChangeClaim(k) \/ enqueueOBC(k) \/ Ripe(k)
    PROVE  ProcessInv'
<1> USE DEF ProcessInv, WorkerType, HandsFull, StartedSynced, FactoryType, Scoped,
            NotStarted, KeysInScope, ErrorInv
<1>1. ASSUME WaitForCacheSync PROVE ProcessInv'
  BY <1>1 DEF WaitForCacheSync, queueVars, WorkerStates
<1>2. ASSUME StartReturns PROVE ProcessInv'
  BY <1>2 DEF StartReturns, ShutDown
<1>3. ASSUME NEW i \in Informers, HasSynced(i) PROVE ProcessInv'
  BY <1>3 DEF HasSynced, queueVars, life
<1>4. ASSUME NEW k \in Keys, ChangeClaim(k) PROVE ProcessInv'
  BY <1>4 DEF ChangeClaim, queueVars, life
<1>5. ASSUME NEW k \in Keys, enqueueOBC(k) PROVE ProcessInv'
  <2>1. Namespace \in {None, k.ns}
    BY <1>5 DEF enqueueOBC, InScope
  <2> QED BY <1>5, <2>1 DEF enqueueOBC, AddRateLimited, life
<1>6. ASSUME NEW k \in Keys, Ripe(k) PROVE ProcessInv'
  BY <1>6 DEF Ripe, Add, life
<1> QED BY <1>1, <1>2, <1>3, <1>4, <1>5, <1>6 DEF StartStep

\* What a worker does keeps the invariant.
LEMMA WorkerProcessInv ==
    ASSUME ProcessInv, QueueInv', NEW w \in Workers, WorkerStep(w)
    PROVE  ProcessInv'
<1> USE DEF ProcessInv, WorkerType, HandsFull, StartedSynced, FactoryType, Scoped,
            NotStarted, KeysInScope, ErrorInv, WorkerStates
<1>1. ASSUME Until(w) \/ QueueClosed(w) PROVE ProcessInv'
  BY <1>1 DEF Until, QueueClosed, queueVars, life
<1>2. ASSUME GetItem(w) PROVE ProcessInv'
  <2>1. Head(queue) \in dirty /\ Head(queue) \in Keys
    <3>1. Len(queue) >= 1 /\ Len(queue) \in Nat /\ Head(queue) = queue[1]
          /\ Head(queue) \in Keys
      BY <1>2, TailFacts DEF GetItem, Get, QueueInv, QueueType
    <3> QED BY <3>1 DEF QueueInv, QueuedIsDirty
  <2>2. /\ serving' = [serving EXCEPT ![w] = Head(queue)]
        /\ worker' = [worker EXCEPT ![w] = "sync"]
        /\ worker[w] = "get"
        /\ dirty' = dirty \ {Head(queue)}
        /\ UNCHANGED <<waiting, life, synced>>
    BY <1>2 DEF GetItem, Get
  <2>3. KeysInScope'
    BY <2>1, <2>2 DEF QueueInv, QueueType
  <2>4. WorkerType' /\ HandsFull' /\ StartedSynced'
    BY <2>1, <2>2, QueueAssumption DEF life, QueueInv, QueueType
  <2>5. FactoryType' /\ Scoped' /\ NotStarted' /\ ErrorInv'
    BY <2>2 DEF life
  <2> QED BY <2>3, <2>4, <2>5
<1>3. ASSUME SyncSucceeds(w) \/ DoneAfterError(w) PROVE ProcessInv'
  <2>1. /\ serving' = [serving EXCEPT ![w] = None]
        /\ worker' = [worker EXCEPT ![w] = "get"]
        /\ worker[w] # "off"
        /\ UNCHANGED <<dirty, waiting, life, synced>>
    BY <1>3 DEF SyncSucceeds, DoneAfterError, Done
  <2> QED BY <2>1 DEF life, QueueInv, QueueType
<1>4. ASSUME SyncFails(w) PROVE ProcessInv'
  <2>1. serving[w] # None
    BY <1>4 DEF SyncFails
  <2>2. /\ waiting' \subseteq waiting \cup {serving[w]}
        /\ worker' = [worker EXCEPT ![w] = "failed"]
        /\ worker[w] = "sync"
        /\ UNCHANGED <<dirty, serving, life, synced>>
    BY <1>4 DEF SyncFails, AddRateLimited
  <2> QED BY <2>1, <2>2 DEF life
<1> QED BY <1>1, <1>2, <1>3, <1>4 DEF WorkerStep

\* Every step keeps the invariant.
LEMMA NextProcessInv == ProcessInv /\ [Next]_vars => ProcessInv'
<1> SUFFICES ASSUME ProcessInv, [Next]_vars PROVE ProcessInv'
  OBVIOUS
<1>1. QueueInv'
  BY QueueSteps, NextQueueInv DEF ProcessInv
<1>2. ASSUME UNCHANGED vars PROVE ProcessInv'
  BY <1>1, <1>2 DEF vars, life, queueVars, ProcessInv, WorkerType, HandsFull,
                    StartedSynced, FactoryType, Scoped, NotStarted, KeysInScope, ErrorInv
<1> QED
  BY <1>1, <1>2, HostProcessInv, StartProcessInv, WorkerProcessInv DEF Next

\* A process uses its queue as the queue allows, so the queue keeps its contract
\* through every start, stop, exit and restart of the process.
THEOREM ProcessKeepsContract == Spec => QueueContract
<1>1. Init => QueueInit
  BY DEF Init
<1> QED
  BY <1>1, InitProcessInv, NextProcessInv, QueueSteps, QueueKeepsContract, PTL
     DEF Spec, QueueSpec

\* No worker is at a claim before both caches are filled, nor at a claim outside
\* the namespace that NewProvisioner was given.
THEOREM WorkStaysInBounds == Spec => []WorksInBounds
<1>1. ProcessInv => WorksInBounds
  BY DEF ProcessInv, HandsFull, StartedSynced, KeysInScope, WorksInBounds
<1> QED BY <1>1, InitProcessInv, NextProcessInv, PTL DEF Spec

\* Whichever of Start's goroutine and RunWithContext's "return nil" writes the named
\* result last, and whenever it is read, an error is reported only by a process that
\* has not started a worker.
THEOREM ErrorsMeanNoWork == Spec => []ErrorMeansNoWork
<1>1. ProcessInv => ErrorMeansNoWork
  BY DEF ProcessInv, ErrorInv, ErrorMeansNoWork
<1> QED BY <1>1, InitProcessInv, NextProcessInv, PTL DEF Spec

-------------------------------------------------------------------------------
(* Types, and what the loggers name.                                       *)

\* The informers are started by Run.
NoneStarted == main \in {"new", "setup"} => factory.started = {}

TypesInv == TypeOK /\ NoneStarted

LEMMA InitTypesInv == Init => TypesInv
<1> SUFFICES ASSUME Init PROVE TypesInv
  OBVIOUS
<1>1. dirty \cup waiting \cup unseen \cup todo \subseteq Keys
  BY DEF Init, QueueInit
<1> QED
  BY <1>1 DEF Init, NewSharedInformerFactory, TypesInv, TypeOK, NoneStarted

\* The keys of the queue are claims whatever happens.
LEMMA NextTypesInv == ProcessInv /\ TypesInv /\ ProcessInv' /\ [Next]_vars => TypesInv'
<1> SUFFICES ASSUME ProcessInv, TypesInv, ProcessInv', [Next]_vars PROVE TypesInv'
  OBVIOUS
<1>1. dirty' \cup waiting' \subseteq Keys /\ worker' \in [Workers -> WorkerStates]
  BY DEF ProcessInv, QueueInv, QueueType, WorkerType
<1>2. FactoryType'
  BY DEF ProcessInv
<1> USE DEF TypesInv, TypeOK, NoneStarted, WorkerStates, FactoryType
<1>3. ASSUME NEW n \in Names, NewProvisioner(n) PROVE TypesInv'
  <2>1. factory'.started = {} /\ factory.started = {} /\ synced' = {}
    BY <1>3
    DEF NewProvisioner, setupInformerFactory, NewSharedInformerFactory, WithNamespace,
        InformerFor
  <2>2. labels' \subseteq Labels
    BY <1>3, LabelAssumption DEF NewProvisioner, labelValue, Labels
  <2> QED
    BY <1>1, <1>2, <1>3, <2>1, <2>2 DEF NewProvisioner
<1>4. ASSUME NEW vs \in Extra, SetLabels(vs) PROVE TypesInv'
  <2>1. labels' \subseteq Labels
    BY <1>4, LabelAssumption DEF SetLabels
  <2> QED
    BY <1>1, <1>2, <1>4, <2>1 DEF SetLabels
<1>5. ASSUME NEW e \in {"Run", "RunWithContext"}, RunCalled(e) PROVE TypesInv'
  BY <1>1, <1>2, <1>5 DEF RunCalled, FactoryStart
<1>6. ASSUME AskToStop PROVE TypesInv'
  BY <1>1, <1>2, <1>6 DEF AskToStop
<1>7. ASSUME Exit PROVE TypesInv'
  BY <1>1, <1>2, <1>7 DEF Exit, NewSharedInformerFactory
<1>8. ASSUME MainReturns PROVE TypesInv'
  BY <1>1, <1>2, <1>8 DEF MainReturns, CloseStopCh, ReturnNil, RunReturns
<1>9. ASSUME StartStep PROVE TypesInv'
  BY <1>1, <1>2, <1>9 DEF StartStep, WaitForCacheSync, StartReturns
<1>10. ASSUME NEW w \in Workers, WorkerStep(w) PROVE TypesInv'
  <2>1. UNCHANGED life /\ UNCHANGED synced /\ UNCHANGED unseen /\ todo' \subseteq Keys
    <3>1. worker[w] = "sync" => serving[w] \in Keys
      BY DEF ProcessInv, HandsFull, QueueInv, QueueType
    <3> QED
      BY <1>10, <3>1
      DEF WorkerStep, Until, GetItem, QueueClosed, SyncSucceeds, SyncFails, DoneAfterError
  <2>2. log' \in Keys \cup {None}
    <3>1. CASE GetItem(w)
      BY <3>1, TailFacts
      DEF GetItem, Get, setLoggersWithRequest, ProcessInv, QueueInv, QueueType
    <3>2. CASE UNCHANGED log
      BY <3>2
    <3> QED
      BY <1>10, <3>1, <3>2
      DEF WorkerStep, Until, QueueClosed, SyncSucceeds, SyncFails, DoneAfterError
  <2> QED
    BY <1>1, <1>2, <2>1, <2>2 DEF life
<1>11. ASSUME NEW i \in Informers, HasSynced(i) PROVE TypesInv'
  BY <1>1, <1>2, <1>11 DEF HasSynced, life
<1>12. ASSUME NEW k \in Keys, ChangeClaim(k) \/ enqueueOBC(k) \/ Ripe(k) PROVE TypesInv'
  BY <1>1, <1>2, <1>12 DEF ChangeClaim, enqueueOBC, Ripe, life
<1>13. ASSUME UNCHANGED vars PROVE TypesInv'
  BY <1>1, <1>2, <1>13 DEF vars, life
<1> QED
  BY <1>3, <1>4, <1>5, <1>6, <1>7, <1>8, <1>9, <1>10, <1>11, <1>12, <1>13 DEF Next, Host

\* The host, Start, the informers and the workers, and whatever the host passes to
\* NewProvisioner and SetLabels, never put anything else into a variable than what
\* it is declared for; in particular no informer is waited for that was not started.
THEOREM ProcessTypes == Spec => []TypeOK
<1>1. TypesInv => TypeOK
  BY DEF TypesInv
<1> QED
  BY <1>1, InitTypesInv, NextTypesInv, InitProcessInv, NextProcessInv, PTL DEF Spec

\* No more workers are started than the setting says.
Counted == \A w \in Workers : worker[w] # "off" => w <= Count

LogInv == Counted /\ LogNamesRequest

\* Without a step of a worker nobody begins or ends a sync.
LEMMA QuietLogInv ==
    ASSUME LogInv, UNCHANGED <<setting, log, serving>>,
           \A w \in Workers : worker'[w] # "off" => worker[w] # "off" \/ w <= Count,
           \A w \in Workers : worker'[w] = "sync" => worker[w] = "sync"
    PROVE  LogInv'
<1>1. Count' = Count
  BY DEF Count
<1>2. Counted'
  BY <1>1 DEF LogInv, Counted
<1>3. LogNamesRequest'
  BY <1>1 DEF LogInv, LogNamesRequest
<1> QED
  BY <1>2, <1>3 DEF LogInv

LEMMA NextLogInv == ProcessInv /\ LogInv /\ [Next]_vars => LogInv'
<1> SUFFICES ASSUME ProcessInv, LogInv, [Next]_vars PROVE LogInv'
  OBVIOUS
<1>1. worker \in [Workers -> WorkerStates] /\ serving \in [Workers -> Keys \cup {None}]
  BY DEF ProcessInv, WorkerType, QueueInv, QueueType
<1>2. ASSUME Exit PROVE LogInv'
  BY <1>2 DEF Exit, LogInv, Counted, LogNamesRequest
<1>3. ASSUME Host \/ MainReturns, ~Exit PROVE LogInv'
  <2>1. UNCHANGED <<setting, log, serving, worker>>
    BY <1>3
    DEF Host, NewProvisioner, SetLabels, RunCalled, AskToStop, MainReturns, CloseStopCh,
        ReturnNil, RunReturns, queueVars
  <2> QED
    BY <2>1, QuietLogInv
<1>4. ASSUME StartStep PROVE LogInv'
  <2>1. /\ UNCHANGED <<setting, log, serving>>
        /\ \/ UNCHANGED worker
           \/ worker' = [w \in Workers |-> IF w <= Count THEN "until" ELSE "off"]
    BY <1>4 DEF StartStep, WaitForCacheSync, StartReturns, ShutDown, queueVars
  <2> QED
    BY <2>1, QuietLogInv
<1>5. ASSUME NEW w \in Workers, WorkerStep(w) PROVE LogInv'
  <2>1. UNCHANGED setting
    BY <1>5
    DEF WorkerStep, Until, GetItem, QueueClosed, SyncSucceeds, SyncFails, DoneAfterError, life
  <2>2. worker[w] # "off" /\ w <= Count
    BY <1>5
    DEF WorkerStep, Until, GetItem, QueueClosed, SyncSucceeds, SyncFails, DoneAfterError,
        LogInv, Counted
  <2>3. \E x : worker' = [worker EXCEPT ![w] = x]
    BY <1>5
    DEF WorkerStep, Until, GetItem, QueueClosed, SyncSucceeds, SyncFails, DoneAfterError
  <2>4. Counted'
    BY <1>1, <2>1, <2>2, <2>3 DEF LogInv, Counted, Count
  <2>5. CASE Count # 1
    BY <2>1, <2>4, <2>5 DEF LogInv, LogNamesRequest, Count
  \* The one worker there is.
  <2>6. CASE Count = 1
    <3>1. ASSUME NEW v \in Workers, worker'[v] = "sync" PROVE v = w
      <4>1. v <= Count /\ w <= Count
        BY <2>1, <2>2, <2>4, <3>1 DEF Counted, Count
      <4> QED
        BY <2>6, <4>1, ProcessAssumption
    <3>2. worker'[w] = "sync" => log' = serving'[w]
      <4>1. CASE GetItem(w)
        BY <1>1, <4>1 DEF GetItem, Get, setLoggersWithRequest
      <4>2. CASE ~GetItem(w)
        BY <1>1, <1>5, <4>2
        DEF WorkerStep, Until, QueueClosed, SyncSucceeds, SyncFails, DoneAfterError
      <4> QED
        BY <4>1, <4>2
    <3> QED
      BY <2>4, <3>1, <3>2 DEF LogInv, LogNamesRequest
  <2> QED
    BY <2>5, <2>6
<1>6. ASSUME NEW i \in Informers, HasSynced(i) PROVE LogInv'
  BY <1>6, QuietLogInv DEF HasSynced, life, queueVars
<1>7. ASSUME NEW k \in Keys, ChangeClaim(k) \/ enqueueOBC(k) \/ Ripe(k) PROVE LogInv'
  <2>1. UNCHANGED <<setting, log, serving, worker>>
    BY <1>7 DEF ChangeClaim, enqueueOBC, Ripe, AddRateLimited, Add, life, queueVars
  <2> QED
    BY <2>1, QuietLogInv
<1>8. ASSUME UNCHANGED vars PROVE LogInv'
  BY <1>8, QuietLogInv DEF vars, life, queueVars
<1> QED
  BY <1>2, <1>3, <1>4, <1>5, <1>6, <1>7, <1>8 DEF Next

\* The loggers are shared by all workers of the process and set by each of them; as
\* long as there is only one, they name the claim that is being synced, through
\* every retry, shutdown and restart.
THEOREM LogsNameRequest == Spec => []LogNamesRequest
<1>1. Init => LogInv
  BY DEF Init, LogInv, Counted, LogNamesRequest
<1>2. LogInv => LogNamesRequest
  BY DEF LogInv
<1> QED
  BY <1>1, <1>2, NextLogInv, InitProcessInv, NextProcessInv, PTL DEF Spec
===============================================================================
