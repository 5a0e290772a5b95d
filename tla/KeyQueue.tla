------------------------------- MODULE KeyQueue -------------------------------
(***************************************************************************)
(* What the claim reconciler assumes of its work queue (its queue and      *)
(* GetItem, with Crash for Restart): a key is in the hands of one worker   *)
(* at a time, and a submitted key stays pending until a worker takes it,   *)
(* the queue is closed or the process ends.  A key may be handed out twice *)
(* for one submission, but never at the same time.                         *)
(***************************************************************************)
CONSTANTS Keys, Workers, None

VARIABLES
    pending,     \* keys some worker still has to take
    busy,        \* busy[w]: the key worker w is processing
    open         \* the queue accepts keys

vars == <<pending, busy, open>>

Init ==
    /\ pending = {}
    /\ busy = [w \in Workers |-> None]
    /\ open = TRUE

Submit(k) ==
    /\ open
    /\ pending' = pending \cup {k}
    /\ UNCHANGED <<busy, open>>

Take(w, k) ==
    /\ busy[w] = None
    /\ k \in pending
    /\ \A v \in Workers : busy[v] # k
    /\ busy' = [busy EXCEPT ![w] = k]
    /\ pending' \in {pending, pending \ {k}}
    /\ UNCHANGED open

Finish(w) ==
    /\ busy[w] # None
    /\ busy' = [busy EXCEPT ![w] = None]
    /\ UNCHANGED <<pending, open>>

\* Closing may drop keys that no worker has taken yet.
Close ==
    /\ open
    /\ open' = FALSE
    /\ pending' \subseteq pending
    /\ UNCHANGED busy

Restart ==
    /\ pending' = {}
    /\ busy' = [w \in Workers |-> None]
    /\ open' = TRUE

Next ==
    \/ \E k \in Keys : Submit(k)
    \/ \E w \in Workers : Finish(w) \/ \E k \in Keys : Take(w, k)
    \/ Close
    \/ Restart

Spec == Init /\ [][Next]_vars
===============================================================================
