---------------------------- MODULE ClaimLifecycle ----------------------------
(***************************************************************************)
(* What an ObjectBucketClaim goes through, whatever workers, crashes,      *)
(* conflicts and failing calls do to it: a claim is held by the library's  *)
(* finalizer before it is linked to an OB, linked before it is Bound, never *)
(* steps back, gets no further once it is marked for deletion, and while   *)
(* it is held it goes away only after it was marked.                       *)
(***************************************************************************)
CONSTANTS Keys, Uids

VARIABLE claim       \* claim[k]: [uid, stage, marked]

Absent == [uid |-> 0, stage |-> "absent", marked |-> FALSE]

Init == claim = [k \in Keys |-> Absent]

Create(k, u) ==
    /\ claim[k] = Absent
    /\ claim' = [claim EXCEPT ![k] = [uid |-> u, stage |-> "new", marked |-> FALSE]]

\* Deletion takes effect at once only for a claim that nothing holds.
Mark(k) ==
    /\ claim[k].stage # "absent"
    /\ ~claim[k].marked
    /\ \/ /\ claim[k].stage = "new"
          /\ claim' = [claim EXCEPT ![k] = Absent]
       \/ /\ claim[k].stage # "new"
          /\ claim' = [claim EXCEPT ![k].marked = TRUE]

Advance(k, from, to) ==
    /\ claim[k].stage = from
    /\ ~claim[k].marked
    /\ claim' = [claim EXCEPT ![k].stage = to]

Hold(k) == Advance(k, "new", "held")
Link(k) == Advance(k, "held", "linked")
Bind(k) == Advance(k, "linked", "bound")

Release(k) ==
    /\ claim[k].marked
    /\ claim' = [claim EXCEPT ![k] = Absent]

Next ==
    \E k \in Keys : \/ \E u \in Uids : Create(k, u)
                    \/ Mark(k) \/ Hold(k) \/ Link(k) \/ Bind(k) \/ Release(k)

Spec == Init /\ [][Next]_claim
===============================================================================
