-------------------------------- MODULE Objects --------------------------------
(***************************************************************************)
(* Finalizers and deletion.  An object is a record with at least the       *)
(* fields deleted (it has a deletionTimestamp) and finalizer (it carries   *)
(* the library's finalizer), or None.  What the API server does with it is *)
(* external.                                                               *)
(***************************************************************************)
CONSTANT None        \* nil, or an empty string

\* What the server keeps of an object: nothing, once it is marked deleted and
\* its last finalizer is gone.
Stored(o) == IF o.deleted /\ ~o.finalizer THEN None ELSE o

\* A Delete call: immediate without finalizers, else a deletionTimestamp.
Deleting(o) == Stored([o EXCEPT !.deleted = TRUE])

\* The library's own finalizer; others are left alone.
addFinalizers(o) == [o EXCEPT !.finalizer = TRUE]

removeFinalizer(o) == Stored([o EXCEPT !.finalizer = FALSE])
===============================================================================
