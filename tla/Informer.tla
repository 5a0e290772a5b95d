------------------------------- MODULE Informer -------------------------------
(***************************************************************************)
(* How the changes of one claim reach the controller, or fail to: the      *)
(* generated informer lists and watches claims and hands the event         *)
(* handlers of NewController pairs of versions.  Reconciler enqueues a     *)
(* claim at the moment it changes; here the watch lags behind, a restarted *)
(* process lists afresh, and a watch that has fallen too far behind is     *)
(* replaced by a new list, which shows all changes since the last one as a *)
(* single one.  Claims are informed about independently of each other, so  *)
(* one is enough.  Of syncHandler only the writes to the claim matter, and *)
(* which additionalConfig it handed to the provisioner.                    *)
(***************************************************************************)
EXTENDS EventHandlers, Integers, Sequences

CONSTANT Limit       \* bounds: claims created, edits, lists, restarts, failing syncs

ASSUME LimitAssumption ==
    Limit \in [{"create", "edit", "relist", "restart", "fail"} -> Nat]

VARIABLES
    claim,       \* the claim in the API server
    events,      \* its versions the watch has still to deliver, oldest first
    shown,       \* the version in the informer's cache
    queued,      \* the claim's key is in the work queue
    pc, held,    \* the worker: its next call, and the copy of the claim it holds
    applied,     \* <<uid, config>> last given to Provision
    lost,        \* history: a list has hidden a change the handlers were to see
    used         \* how much of Limit has been used

vars == <<claim, events, shown, queued, pc, held, applied, lost, used>>

Claim == [uid: 1 .. Limit.create, deleted: BOOLEAN, finalizer: BOOLEAN,
          class: {"class"}, bucket: {None, "bucket"}, generate: {TRUE},
          config: 0 .. Limit.edit, ob: {None, "ob"}, phase: {None, "Pending", "Bound"}]

ASSUME NoneAssumption == None \notin Claim

Use(b) ==
    /\ used[b] < Limit[b]
    /\ used' = [used EXCEPT ![b] = @ + 1]

\* The server stores new, and tells the watch if that is a change.
Store(new) ==
    /\ claim' = new
    /\ events' = IF new = claim THEN events ELSE Append(events, new)

-------------------------------------------------------------------------------
(* Users.                                                                  *)

Create ==
    /\ claim = None
    /\ Use("create")
    /\ Store([uid |-> used.create + 1, deleted |-> FALSE, finalizer |-> FALSE,
              class |-> "class", bucket |-> None, generate |-> TRUE, config |-> 0,
              ob |-> None, phase |-> None])
    /\ UNCHANGED <<shown, queued, pc, held, applied, lost>>

Edit ==
    /\ claim # None
    /\ Use("edit")
    /\ Store([claim EXCEPT !.config = used.edit + 1])
    /\ UNCHANGED <<shown, queued, pc, held, applied, lost>>

Remove ==
    /\ claim # None
    /\ ~claim.deleted
    /\ Store(Deleting(claim))
    /\ UNCHANGED <<shown, queued, pc, held, applied, lost, used>>

-------------------------------------------------------------------------------
(* The informer.                                                           *)

\* The handlers see the claim go from one version to another.
Notify(old, new) == queued' = (queued \/ Handled(old, new))

\* WatchFunc: one change at a time.
Watch ==
    /\ events # <<>>
    /\ Notify(shown, Head(events))
    /\ shown' = Head(events)
    /\ events' = Tail(events)
    /\ UNCHANGED <<claim, pc, held, applied, lost, used>>

\* One of the changes still to be delivered would have been handled, but the
\* change from the first version to the last is not.
Hidden ==
    LET seen == <<shown>> \o events IN
    /\ ~Handled(shown, claim)
    /\ \E i \in 1 .. Len(events) : Handled(seen[i], seen[i + 1])

\* ListFunc, after the watch has expired: the changes since are shown as one.
Relist ==
    /\ Use("relist")
    /\ Notify(shown, claim)
    /\ shown' = claim
    /\ events' = <<>>
    /\ lost' = (lost \/ Hidden)
    /\ UNCHANGED <<claim, pc, held, applied>>

\* A new process: its first list shows the claim as added.
Restart ==
    /\ Use("restart")
    /\ shown' = claim
    /\ events' = <<>>
    /\ queued' = Handled(None, claim)
    /\ pc' = "idle"
    /\ held' = None
    /\ lost' = FALSE
    /\ UNCHANGED <<claim, applied>>

-------------------------------------------------------------------------------
(* The worker: processNextItemInQueue, syncHandler and the writes of       *)
(* handleProvisionClaim and handleDeleteClaim to the claim.                *)

At(p) == pc = p

Goto(p, o) ==
    /\ pc' = p
    /\ held' = o

\* Faulty variant: the error is reported, the key not put back.
RetryNever == Goto("idle", None) /\ UNCHANGED queued

\* The handler returned an error.
Retry ==
    /\ Goto("idle", None)
    /\ queued' = TRUE

GetItem ==
    /\ At("idle")
    /\ queued
    /\ queued' = FALSE
    /\ Goto("getClaim", None)
    /\ UNCHANGED <<claim, events, shown, applied, lost, used>>

\* The claim is read from the server, not from the cache.
GetClaim ==
    /\ At("getClaim")
    /\ Goto(CASE claim = None                               -> "idle"
              [] claim # None /\ claim.deleted             -> "getAgain"
              [] claim # None /\ ~claim.deleted
                              /\ claim.phase = None        -> "setPending"
              [] claim # None /\ ~claim.deleted
                              /\ claim.phase # None        -> "setMeta",
            claim)
    /\ UNCHANGED <<claim, events, shown, queued, applied, lost, used>>

\* releaseOBC, after the cleanup, reads the claim once more.
GetClaimToRelease ==
    /\ At("getAgain")
    /\ \/ claim # None /\ Goto("release", claim) /\ UNCHANGED queued
       \/ claim = None /\ Retry
    /\ UNCHANGED <<claim, events, shown, applied, lost, used>>

\* An update of the claim: refused if it is not the version the worker holds.
Update(p, new, next) ==
    /\ At(p)
    /\ \/ /\ claim = held
          /\ Store(new)
          /\ Goto(next, IF next = "idle" THEN None ELSE new)
          /\ UNCHANGED queued
       \/ /\ claim # held
          /\ Retry
          /\ UNCHANGED <<claim, events>>
    /\ UNCHANGED <<shown, applied, lost, used>>

SetPending == Update("setPending", [held EXCEPT !.phase = "Pending"], "setMeta")
SetMeta    == Update("setMeta", addFinalizers(held), "saveName")
BindClaim  == Update("bindClaim", [held EXCEPT !.ob = "ob"], "setBound")

\* Faulty variant: the claim is given an OB's phase.
SetReleased == Update("setBound", [held EXCEPT !.phase = "Released"], "idle")

SetBound   == Update("setBound", [held EXCEPT !.phase = "Bound"], "idle")
Release    == Update("release", removeFinalizer(held), "idle")

\* A claim that has a name already is not updated.
SaveName ==
    \/ /\ At("saveName")
       /\ held.bucket # None
       /\ Goto("provision", held)
       /\ UNCHANGED <<claim, events, shown, queued, applied, lost, used>>
    \/ /\ At("saveName")
       /\ held.bucket = None
       /\ Update("saveName", [held EXCEPT !.bucket = "bucket"], "provision")

\* Provision, and everything that is created before the claim is bound.
Provision ==
    /\ At("provision")
    /\ applied' = <<held.uid, held.config>>
    /\ Goto("bindClaim", held)
    /\ UNCHANGED <<claim, events, shown, queued, lost, used>>

SyncError ==
    /\ ~At("idle")
    /\ Use("fail")
    /\ Retry
    /\ UNCHANGED <<claim, events, shown, applied, lost>>

-------------------------------------------------------------------------------
Init ==
    /\ claim = None
    /\ events = <<>>
    /\ shown = None
    /\ queued = FALSE
    /\ pc = "idle" /\ held = None
    /\ applied = <<0, 0>>
    /\ lost = FALSE
    /\ used = [b \in {"create", "edit", "relist", "restart", "fail"} |-> 0]

WorkerStep ==
    \/ GetItem \/ GetClaim \/ SetPending \/ SetMeta \/ SaveName \/ Provision
    \/ BindClaim \/ SetBound \/ GetClaimToRelease \/ Release

Next ==
    \/ Create \/ Edit \/ Remove
    \/ Watch \/ Relist \/ Restart
    \/ WorkerStep \/ SyncError

\* The worker runs, and the watch delivers.
Spec == Init /\ [][Next]_vars /\ WF_vars(WorkerStep) /\ WF_vars(Watch)

-------------------------------------------------------------------------------
\* Every variable holds what it is declared to hold.
TypeOK ==
    /\ {claim, shown, held} \subseteq Claim \cup {None}
    /\ events \in Seq(Claim \cup {None})
    /\ queued \in BOOLEAN /\ lost \in BOOLEAN
    /\ pc \in {"idle", "getClaim", "setPending", "setMeta", "saveName", "provision",
               "bindClaim", "setBound", "getAgain", "release"}
    /\ used \in [DOMAIN Limit -> Nat]

\* The claim is as its user wants it: gone, or Bound with the configuration asked
\* for last.
Settled ==
    \/ claim = None
    \/ /\ ~claim.deleted
       /\ claim.phase = "Bound"
       /\ applied = <<claim.uid, claim.config>>

\* The controller is at rest only when there is nothing left to do: no change of a
\* claim slips through between the watch, the handlers' filters and a worker that
\* is at an older version, unless a list has hidden it.
RestMeansSettled ==
    events = <<>> /\ ~queued /\ At("idle") /\ ~lost => Settled

\* Unless a list hides a change, a claim that is new, edited or deleted is served.
EventuallySettled == ~Settled ~> Settled \/ lost

\* Every new, edited or deleted claim is served.
EveryEventAnswered == ~Settled ~> Settled
===============================================================================
