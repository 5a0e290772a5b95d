----------------------------- MODULE EventHandlers -----------------------------
(***************************************************************************)
(* The event handlers NewController gives the informer of claims: which    *)
(* changes of a claim lead to a reconciliation.  A claim is a record with  *)
(* the fields uid, deleted, finalizer, class, bucket, generate, config, ob *)
(* and phase, or None.                                                     *)
(***************************************************************************)
EXTENDS Objects

\* The spec without additionalConfig.
ClaimSpec(o) == <<o.class, o.bucket, o.generate, o.ob>>

\* Faulty variant: additionalConfig edits are filtered out.
updateSupportedNoEdits(old, new) == new.deleted

\* Faulty variant: only spec changes are looked at, deletions are filtered out.
updateSupportedNoDeletes(old, new) ==
    old.config # new.config /\ ClaimSpec(old) = ClaimSpec(new)

\* updateSupported: deletions, and spec changes in additionalConfig alone.
updateSupported(old, new) ==
    \/ new.deleted
    \/ old.config # new.config /\ ClaimSpec(old) = ClaimSpec(new)

\* Which changes the handlers enqueue: AddFunc all, DeleteFunc none, UpdateFunc
\* those that pass its three filters.
Handled(old, new) ==
    /\ new # None
    /\ old # None => /\ old # new
                     /\ ~(old.deleted /\ new.deleted)
                     /\ updateSupported(old, new)
===============================================================================
