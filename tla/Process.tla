-------------------------------- MODULE Process --------------------------------
(***************************************************************************)
(* The life of a provisioner process (src/pkg/provisioner/manager.go and   *)
(* the start, loop and stop of controller.go): the host program calls      *)
(* NewProvisioner, SetLabels and Run or RunWithContext, and later asks it  *)
(* to stop; the informers, the Start goroutine and the workers run beside  *)
(* it.  What syncHandler does to a claim is Reconciler's matter; here it   *)
(* returns nil or an error.                                                *)
(***************************************************************************)
EXTENDS WorkQueue

CONSTANTS
    Namespace,   \* the namespace given to NewProvisioner; None for all
    Names,       \* provisioner names, as label values: see Labels
    Extra,       \* the sets of label values, under keys of its own, that a host may
                 \* pass to SetLabels
    Settings,    \* what LIB_BUCKET_PROVISIONER_THREADS may be
    Limit        \* bounds: changes of claims, failing syncs, lives of the process

ASSUME ProcessAssumption ==
    /\ \A k \in Keys : k.ns # None
    /\ Workers \subseteq Nat \ {0}
    /\ Settings \subseteq [set: BOOLEAN, number: BOOLEAN, value: Int]
    /\ Limit \in [{"change", "fail", "life"} -> Nat]

VARIABLES
    main,        \* where the host program is: "new", "setup", the entry point it
                 \* is in, two places further on in RunWithContext, or "returned"
    factory,     \* the informer factory: [scope, informers, started]
    synced,      \* informers whose HasSynced is true
    asked,       \* the host has asked the process to stop
    stopCh,      \* stopCh is closed
    starter,     \* the goroutine that runs Start
    err,         \* the named result of Run or RunWithContext, which the goroutine
                 \* that runs Start assigns too
    result,      \* what Run or RunWithContext has returned
    worker,      \* worker[w]: where worker w is
    labels,      \* provisionerLabels: the values of its labels
    setting,     \* LIB_BUCKET_PROVISIONER_THREADS
    log,         \* the key the package's loggers name
    unseen,      \* claims the informer has not shown to the handlers since they
                 \* changed, or since the process started
    todo,        \* claims that have changed since a worker last took them, or
                 \* whose last sync failed or was cut off
    used         \* how much of Limit has been used

life == <<main, factory, asked, stopCh, starter, err, result, labels, setting>>
vars == <<queueVars, life, synced, worker, log, unseen, todo, used>>

Informers == {"obc", "ob"}

\* A label value is fine, has a "/" in it, is too long, or is wrong otherwise.
Labels == {"valid", "slashed", "long", "malformed"}

ASSUME LabelAssumption ==
    /\ Names \subseteq Labels
    /\ Extra \subseteq SUBSET Labels

\* What labelValue may make of a value: a cut or a replaced "/" may leave a value
\* that ends in a character labels may not end in.
labelValue(v) == IF v \in {"valid", "malformed"} THEN {v} ELSE {"valid", "malformed"}

\* strconv.Atoi, its error ignored.
Atoi(s) == IF s.number THEN s.value ELSE 0

\* Start's count of workers.
Count == IF setting.set THEN Atoi(setting) ELSE 1

Use(b) ==
    /\ used[b] < Limit[b]
    /\ used' = [used EXCEPT ![b] = @ + 1]

-------------------------------------------------------------------------------
(* The host program's goroutine.                                           *)

\* A factory without informers, for all namespaces; WithNamespace is the option
\* that limits it to one.
NewSharedInformerFactory == [scope |-> None, informers |-> {}, started |-> {}]

WithNamespace(f, ns) == [f EXCEPT !.scope = ns]

setupInformerFactory(ns) ==
    IF ns # None THEN WithNamespace(NewSharedInformerFactory, ns)
    ELSE NewSharedInformerFactory

InformerFor(f, i) == [f EXCEPT !.informers = @ \cup {i}]

\* The factory runs the informers that it knows, each once.
FactoryStart(f) == [f EXCEPT !.started = @ \cup f.informers]

\* NewController asks the factory for both informers, so that it knows them
\* before it is started.
NewProvisioner(name) ==
    /\ main = "new"
    /\ main' = "setup"
    /\ factory' = InformerFor(InformerFor(setupInformerFactory(Namespace), "obc"), "ob")
    /\ \E v \in labelValue(name) : labels' = {v}
    /\ UNCHANGED <<queueVars, synced, asked, stopCh, starter, err, result, worker,
                   setting, log, unseen, todo, used>>

\* SetLabels looks for errors in a list that only ever grows if it is not empty:
\* it refuses nothing.
SetLabels(vs) ==
    /\ main = "setup"
    /\ labels' = labels \cup vs
    /\ UNCHANGED <<queueVars, main, factory, synced, asked, stopCh, starter, err, result,
                   worker, setting, log, unseen, todo, used>>

\* Run and RunWithContext start the informers that the factory knows, and Start
\* in a goroutine of its own.
RunCalled(entry) ==
    /\ main = "setup"
    /\ main' = entry
    /\ factory' = FactoryStart(factory)
    /\ starter' = "waiting"
    /\ UNCHANGED <<queueVars, synced, asked, stopCh, err, result, worker, labels,
                   setting, log, unseen, todo, used>>

\* The host closes Run's stopCh, or cancels RunWithContext's context.
AskToStop ==
    /\ main \in {"Run", "RunWithContext"}
    /\ ~asked
    /\ asked' = TRUE
    /\ stopCh' = (main = "Run")
    /\ UNCHANGED <<queueVars, main, factory, synced, starter, err, result, worker,
                   labels, setting, log, unseen, todo, used>>

\* Nothing else closes stopCh, so the select takes the context's branch.
CloseStopCh ==
    /\ main = "RunWithContext"
    /\ asked
    /\ stopCh' = TRUE
    /\ main' = "closed"
    /\ UNCHANGED <<queueVars, factory, synced, asked, starter, err, result, worker,
                   labels, setting, log, unseen, todo, used>>

\* "return nil" stores nil in the named result; the deferred Flush is still to come.
ReturnNil ==
    /\ main = "closed"
    /\ main' = "leaving"
    /\ err' = "nil"
    /\ UNCHANGED <<queueVars, factory, synced, asked, stopCh, starter, result, worker,
                   labels, setting, log, unseen, todo, used>>

\* After Flush the caller is given what is in err by then.
RunReturns ==
    /\ (main = "Run" /\ stopCh) \/ main = "leaving"
    /\ main' = "returned"
    /\ result' = err
    /\ UNCHANGED <<queueVars, factory, synced, asked, stopCh, starter, err, worker,
                   labels, setting, log, unseen, todo, used>>

\* The process ends, because Run has returned or because it dies, whatever the
\* workers are doing.  The next process' informers list every claim.
Exit ==
    /\ main # "new"
    /\ Use("life")
    /\ NewQueue
    /\ main' = "new"
    /\ factory' = NewSharedInformerFactory
    /\ synced' = {}
    /\ asked' = FALSE
    /\ stopCh' = FALSE
    /\ starter' = "none"
    /\ err' = "nil"
    /\ result' = "nil"
    /\ worker' = [w \in Workers |-> "off"]
    /\ labels' = {}
    /\ setting' \in Settings
    /\ log' = None
    /\ unseen' = Keys
    /\ todo' = todo \cup {k \in Keys : \E w \in Workers : serving[w] = k}

-------------------------------------------------------------------------------
(* Users, and the informers.                                               *)

ChangeClaim(k) ==
    /\ Use("change")
    /\ unseen' = unseen \cup {k}
    /\ todo' = todo \cup {k}
    /\ UNCHANGED <<queueVars, life, synced, worker, log>>

\* The first list of a started informer is complete.
HasSynced(i) ==
    /\ i \in factory.started
    /\ i \notin synced
    /\ synced' = synced \cup {i}
    /\ UNCHANGED <<queueVars, life, worker, log, unseen, todo, used>>

InScope(k) == factory.scope \in {None, k.ns}

\* Faulty variant: an object without a key is enqueued all the same.
enqueueOBCKeyless(k) ==
    /\ "obc" \in factory.started
    /\ k \in unseen
    /\ InScope(k)
    /\ unseen' = unseen \ {k}
    /\ AddRateLimited(None)
    /\ UNCHANGED <<life, synced, worker, log, todo, used>>

\* Faulty variant: a claim that a worker is at is not enqueued.
enqueueOBCUnlessServed(k) ==
    /\ "obc" \in factory.started
    /\ k \in unseen
    /\ InScope(k)
    /\ unseen' = unseen \ {k}
    /\ IF k \in processing THEN UNCHANGED queueVars ELSE AddRateLimited(k)
    /\ UNCHANGED <<life, synced, worker, log, todo, used>>

\* An event handler calls enqueueOBC.
enqueueOBC(k) ==
    /\ "obc" \in factory.started
    /\ k \in unseen
    /\ InScope(k)
    /\ unseen' = unseen \ {k}
    /\ AddRateLimited(k)
    /\ UNCHANGED <<life, synced, worker, log, todo, used>>

\* A key's delay runs out.
Ripe(k) ==
    /\ Add(k)
    /\ UNCHANGED <<life, synced, worker, log, unseen, todo, used>>

-------------------------------------------------------------------------------
(* Start.                                                                  *)

\* Faulty variant: only the claims' cache is waited for.
WaitForClaimsSync ==
    /\ starter = "waiting"
    /\ "obc" \in synced
    /\ starter' = "running"
    /\ worker' = [w \in Workers |-> IF w <= Count THEN "until" ELSE "off"]
    /\ UNCHANGED <<queueVars, main, factory, synced, asked, stopCh, err, result,
                   labels, setting, log, unseen, todo, used>>

\* WaitForCacheSync returned true: the workers are started.
WaitForCacheSync ==
    /\ starter = "waiting"
    /\ synced = Informers
    /\ starter' = "running"
    /\ worker' = [w \in Workers |-> IF w <= Count THEN "until" ELSE "off"]
    /\ UNCHANGED <<queueVars, main, factory, synced, asked, stopCh, err, result,
                   labels, setting, log, unseen, todo, used>>

\* Faulty variant: the queue is not shut down.
StartReturnsOnly ==
    /\ starter \in {"waiting", "running"}
    /\ stopCh
    /\ starter' = "done"
    /\ err' = IF starter = "waiting" THEN "error" ELSE "nil"
    /\ UNCHANGED <<queueVars, main, factory, synced, asked, stopCh, result, worker,
                   labels, setting, log, unseen, todo, used>>

\* Faulty variant: every return of Start is an error.
StartReturnsError ==
    /\ starter \in {"waiting", "running"}
    /\ stopCh
    /\ ShutDown
    /\ starter' = "done"
    /\ err' = "error"
    /\ UNCHANGED <<main, factory, synced, asked, stopCh, result, worker, labels,
                   setting, log, unseen, todo, used>>

\* Start returns when stopCh is closed, with an error if it was still waiting
\* for the caches, and shuts the queue down.
StartReturns ==
    /\ starter \in {"waiting", "running"}
    /\ stopCh
    /\ ShutDown
    /\ starter' = "done"
    /\ err' = IF starter = "waiting" THEN "error" ELSE "nil"
    /\ UNCHANGED <<main, factory, synced, asked, stopCh, result, worker, labels,
                   setting, log, unseen, todo, used>>

-------------------------------------------------------------------------------
(* A worker: wait.Until(runWorker), and processNextItemInQueue.            *)

\* wait.Until runs runWorker unless stopCh is closed.
Until(w) ==
    /\ worker[w] = "until"
    /\ worker' = [worker EXCEPT ![w] = IF stopCh THEN "over" ELSE "get"]
    /\ UNCHANGED <<queueVars, life, synced, log, unseen, todo, used>>

\* Faulty variant: only loggers that name no request yet are replaced.
setLoggersOnce(k) == log' = IF log = None THEN k ELSE log

setLoggersWithRequest(k) == log' = k

\* A worker takes a key, and syncHandler puts it into the loggers.
GetItem(w) ==
    /\ worker[w] = "get"
    /\ Get(w)
    /\ worker' = [worker EXCEPT ![w] = "sync"]
    /\ setLoggersWithRequest(Head(queue))
    /\ todo' = todo \ {Head(queue)}
    /\ UNCHANGED <<life, synced, unseen, used>>

\* Get says that the queue is shut down and empty: runWorker returns.
QueueClosed(w) ==
    /\ worker[w] = "get"
    /\ queue = <<>>
    /\ shutdown
    /\ worker' = [worker EXCEPT ![w] = "until"]
    /\ UNCHANGED <<queueVars, life, synced, log, unseen, todo, used>>

\* syncHandler returned nil.
SyncSucceeds(w) ==
    /\ worker[w] = "sync"
    /\ Done(w)
    /\ worker' = [worker EXCEPT ![w] = "get"]
    /\ UNCHANGED <<life, synced, log, unseen, todo, used>>

\* syncHandler returned an error: the key is added again before Done is called.  The
\* API server refuses every object with a label that is not valid, so with one a
\* sync fails as often as it has something to write.
SyncFails(w) ==
    /\ worker[w] = "sync"
    /\ labels = {"valid"} => used.fail < Limit.fail
    /\ used' = [used EXCEPT !.fail = IF labels = {"valid"} THEN @ + 1 ELSE @]
    /\ AddRateLimited(serving[w])
    /\ worker' = [worker EXCEPT ![w] = "failed"]
    /\ todo' = todo \cup {serving[w]}
    /\ UNCHANGED <<life, synced, log, unseen>>

DoneAfterError(w) ==
    /\ worker[w] = "failed"
    /\ Done(w)
    /\ worker' = [worker EXCEPT ![w] = "get"]
    /\ UNCHANGED <<life, synced, log, unseen, todo, used>>

-------------------------------------------------------------------------------
Init ==
    /\ QueueInit
    /\ main = "new"
    /\ factory = NewSharedInformerFactory
    /\ synced = {}
    /\ asked = FALSE
    /\ stopCh = FALSE
    /\ starter = "none"
    /\ err = "nil"
    /\ result = "nil"
    /\ worker = [w \in Workers |-> "off"]
    /\ labels = {}
    /\ setting \in Settings
    /\ log = None
    /\ unseen = Keys
    /\ todo = Keys
    /\ used = [b \in {"change", "fail", "life"} |-> 0]

Host ==
    \/ \E n \in Names : NewProvisioner(n)
    \/ \E vs \in Extra : SetLabels(vs)
    \/ \E entry \in {"Run", "RunWithContext"} : RunCalled(entry)
    \/ AskToStop
    \/ Exit

MainReturns == CloseStopCh \/ ReturnNil \/ RunReturns

StartStep == WaitForCacheSync \/ StartReturns

WorkerStep(w) ==
    \/ Until(w) \/ GetItem(w) \/ QueueClosed(w) \/ SyncSucceeds(w) \/ SyncFails(w)
    \/ DoneAfterError(w)

Next ==
    \/ Host
    \/ MainReturns
    \/ StartStep
    \/ \E w \in Workers : WorkerStep(w)
    \/ \E i \in Informers : HasSynced(i)
    \/ \E k \in Keys : ChangeClaim(k) \/ enqueueOBC(k) \/ Ripe(k)

Spec == Init /\ [][Next]_vars

\* Goroutines run, delays run out, and the API server answers the informers.  The
\* host owes nothing: it may never call Run, never stop and never exit.
FairSpec ==
    /\ Spec
    /\ WF_vars(MainReturns)
    /\ WF_vars(StartStep)
    /\ \A w \in Workers : WF_vars(WorkerStep(w))
    /\ \A i \in Informers : WF_vars(HasSynced(i))
    /\ \A k \in Keys : WF_vars(enqueueOBC(k)) /\ WF_vars(Ripe(k))

-------------------------------------------------------------------------------
\* Every variable holds what it is declared to hold.
TypeOK ==
    /\ main \in {"new", "setup", "Run", "RunWithContext", "closed", "leaving", "returned"}
    /\ factory \in [scope: {None, Namespace}, informers: SUBSET Informers,
                    started: SUBSET Informers]
    /\ synced \subseteq factory.started
    /\ starter \in {"none", "waiting", "running", "done"}
    /\ {err, result} \subseteq {"nil", "error"}
    /\ worker \in [Workers -> {"off", "until", "get", "sync", "failed", "over"}]
    /\ labels \subseteq Labels
    /\ setting \in Settings
    /\ log \in Keys \cup {None}
    /\ dirty \cup waiting \cup unseen \cup todo \subseteq Keys

\* A worker is at a claim only after both caches have been filled, and only at a
\* claim of the namespace the process was told to keep to, whatever else changes.
WorksInBounds ==
    \A w \in Workers :
        serving[w] # None =>
            /\ synced = Informers
            /\ Namespace \in {None, serving[w].ns}

\* With a single worker, every line written by syncHandler names its claim.
LogNamesRequest ==
    Count = 1 => \A w \in Workers : worker[w] = "sync" => log = serving[w]

\* Run and RunWithContext report an error only if the process was stopped before any
\* worker was started, whoever writes their result last.
ErrorMeansNoWork ==
    result = "error" => \A w \in Workers : worker[w] = "off"

\* A sync of k is due, or has not returned nil yet.
Owed(k) == k \in todo \/ \E w \in Workers : serving[w] = k

\* A changed claim of the process' namespace is taken after its last change by a
\* sync that returns nil, whatever fails and whoever is at the claim when it changes,
\* unless the process is asked to stop or dies; but a process without workers, or
\* with a label that is not valid, may never get there.
ChangesAreServed ==
    \A k \in Keys :
        Owed(k) /\ main \in {"Run", "RunWithContext"} /\ Namespace \in {None, k.ns}
            ~> ~Owed(k) \/ asked \/ main = "new" \/ Count = 0 \/ labels # {"valid"}

\* A process that was asked to stop comes to rest: Run returns, Start returns, and
\* every worker finishes what it is at, drains the queue and ends.
StopEndsAll ==
    asked ~> \/ main = "new"
             \/ /\ main = "returned"
                /\ starter = "done"
                /\ \A w \in Workers : worker[w] \in {"off", "over"}
===============================================================================
