---------------------------- MODULE InformerProofs ----------------------------
(***************************************************************************)
(* However far the watch lags behind, whenever the process restarts or a   *)
(* sync fails: the controller rests only when the claim is settled, unless *)
(* a list has hidden a change.                                             *)
(***************************************************************************)
EXTENDS Informer, TLAPS

Provisioning == {"setPending", "setMeta", "saveName", "provision", "bindClaim", "setBound"}

\* The version the handlers have seen before events[i].
Before(i) == IF i = 1 THEN shown ELSE events[i - 1]

\* One of the changes still to be delivered will be handled.
Coming == \E i \in 1 .. Len(events) : Handled(Before(i), events[i])

\* The watch is on its way to the stored claim.
WatchCatchesUp == claim = (IF events = <<>> THEN shown ELSE events[Len(events)])

\* Edits are numbered, and deletion waits for the finalizer.
ClaimInv ==
    claim # None => /\ claim.config <= used.edit
                    /\ claim.deleted => claim.finalizer

\* The worker's copy: provisioning is for live claims only, with the configuration
\* that was applied; only a deleted claim is released.
WorkerInv ==
    /\ pc \in Provisioning => held \in Claim /\ ~held.deleted
    /\ pc \in {"bindClaim", "setBound"} => applied = <<held.uid, held.config>>
    /\ pc = "getAgain" => claim # None /\ claim.deleted
    /\ pc = "release" => held \in Claim /\ held.deleted

\* Whatever is left to do is in somebody's hands: the queue's, the worker's or the
\* watch's.
InHand == ~lost => Settled \/ queued \/ pc # "idle" \/ Coming

InformerInv ==
    /\ TypeOK
    /\ \A b \in DOMAIN Limit : used[b] <= Limit[b]
    /\ WatchCatchesUp
    /\ ClaimInv
    /\ WorkerInv
    /\ InHand

-------------------------------------------------------------------------------
Version == Claim \cup {None}

\* What the server stores reaches the watch, after everything that came before.
LEMMA StoreFacts ==
    ASSUME InformerInv, NEW new \in Version, Store(new), UNCHANGED shown
    PROVE  /\ claim' = new /\ events' \in Seq(Version)
           /\ WatchCatchesUp'
           /\ Coming => Coming'
           /\ new # claim /\ Handled(claim, new) => Coming'
<1>1. claim' = new /\ events \in Seq(Version) /\ shown \in Version
  BY DEF Store, InformerInv, TypeOK, Version
<1>2. CASE new = claim
  BY <1>1, <1>2 DEF Store, InformerInv, WatchCatchesUp, Coming, Before
<1>3. CASE new # claim
  <2> DEFINE n == Len(events)
  <2>1. /\ events' = Append(events, new) /\ n \in Nat
        /\ events' \in Seq(Version) /\ Len(events') = n + 1
        /\ events'[n + 1] = new /\ \A i \in 1 .. n : events'[i] = events[i]
        /\ events' # <<>>
    BY <1>1, <1>3 DEF Store
  <2>2. \A i \in 1 .. n + 1 : Before(i)' = IF i = n + 1 THEN claim ELSE Before(i)
    <3> SUFFICES ASSUME NEW i \in 1 .. n + 1
                 PROVE  (IF i = 1 THEN shown' ELSE events'[i - 1])
                            = IF i = n + 1 THEN claim ELSE Before(i)
      BY DEF Before
    <3>1. n = 0 => events = <<>>
      BY <1>1
    <3>2. n # 0 => events # <<>>
      BY <1>1
    <3>3. CASE i = n + 1
      BY <1>1, <2>1, <3>1, <3>2, <3>3 DEF InformerInv, WatchCatchesUp
    <3>4. CASE i # n + 1
      BY <1>1, <2>1, <3>4 DEF Before
    <3> QED
      BY <3>3, <3>4
  <2>3. Coming => Coming'
    <3> SUFFICES ASSUME NEW i \in 1 .. n, Handled(Before(i), events[i]) PROVE Coming'
      BY DEF Coming
    <3>1. i \in 1 .. n + 1 /\ i # n + 1
      BY <2>1
    <3>2. Before(i)' = Before(i) /\ events'[i] = events[i]
      BY <2>1, <2>2, <3>1
    <3>3. \E l \in 1 .. Len(events') : Handled(Before(l)', events'[l])
      BY <2>1, <3>1, <3>2
    <3> QED
      BY <3>3 DEF Coming
  <2>4. Handled(claim, new) => Coming'
    <3> SUFFICES ASSUME Handled(claim, new) PROVE Coming'
      OBVIOUS
    <3>1. \E l \in 1 .. Len(events') : Handled(Before(l)', events'[l])
      BY <2>1, <2>2
    <3> QED
      BY <3>1 DEF Coming
  <2>5. WatchCatchesUp'
    BY <1>1, <2>1 DEF WatchCatchesUp
  <2> QED
    BY <1>1, <2>1, <2>3, <2>4, <2>5
<1> QED
  BY <1>2, <1>3

\* An object survives its deletion only while its finalizer is there.
LEMMA DeletingClaim ==
    ASSUME NEW o \in Claim
    PROVE  /\ Deleting(o) \in Version
           /\ o.finalizer => /\ Deleting(o) \in Claim /\ Deleting(o).deleted
                             /\ Deleting(o).finalizer /\ Deleting(o).config = o.config
           /\ ~o.finalizer => Deleting(o) = None
BY DEF Deleting, Stored, Claim, Version

LEMMA UseFacts ==
    ASSUME InformerInv, NEW b \in DOMAIN Limit, Use(b)
    PROVE  /\ used' \in [DOMAIN Limit -> Nat] /\ \A c \in DOMAIN Limit : used'[c] <= Limit[c]
           /\ used'[b] = used[b] + 1 /\ used[b] \in Nat /\ used[b] < Limit[b] /\ Limit[b] \in Nat
           /\ \A c \in DOMAIN Limit : c # b => used'[c] = used[c]
<1>1. used \in [DOMAIN Limit -> Nat] /\ Limit \in [DOMAIN Limit -> Nat]
  BY LimitAssumption DEF InformerInv, TypeOK
<1> QED
  BY <1>1 DEF InformerInv, Use

LEMMA LimitFacts ==
    /\ DOMAIN Limit = {"create", "edit", "relist", "restart", "fail"}
    /\ Limit.create \in Nat /\ Limit.edit \in Nat
BY LimitAssumption

LEMMA InitInformer == Init => InformerInv
<1> SUFFICES ASSUME Init PROVE InformerInv
  OBVIOUS
<1>1. TypeOK
  <2>1. events \in Seq(Claim \cup {None})
    BY DEF Init
  <2>2. used \in [DOMAIN Limit -> Nat]
    BY LimitFacts DEF Init
  <2> QED
    BY <2>1, <2>2 DEF Init, TypeOK
<1>2. \A b \in DOMAIN Limit : used[b] <= Limit[b]
  BY LimitAssumption DEF Init
<1> QED
  BY <1>1, <1>2 DEF Init, InformerInv, WatchCatchesUp, ClaimInv, WorkerInv, InHand, Settled,
                    Provisioning

LEMMA CreateInformer ==
    ASSUME InformerInv, Create
    PROVE  InformerInv'
<1> DEFINE new == [uid |-> used.create + 1, deleted |-> FALSE, finalizer |-> FALSE,
                   class |-> "class", bucket |-> None, generate |-> TRUE, config |-> 0,
                   ob |-> None, phase |-> None]
<1>1. /\ used' \in [DOMAIN Limit -> Nat] /\ \A c \in DOMAIN Limit : used'[c] <= Limit[c]
      /\ used.create \in Nat /\ used.create < Limit.create /\ used'.edit \in Nat
  BY UseFacts, LimitFacts DEF Create
<1>2. new \in Claim
  BY <1>1, LimitFacts DEF Claim
<1>3. new.config = 0 /\ ~new.deleted
  OBVIOUS
<1>4. claim = None /\ Store(new) /\ UNCHANGED <<shown, queued, pc, held, applied, lost>>
  BY DEF Create
<1> HIDE DEF new
<1>5. Handled(claim, new) /\ new # None
  BY <1>2, <1>4, NoneAssumption DEF Handled
<1>6. claim' = new /\ events' \in Seq(Version) /\ WatchCatchesUp' /\ Coming'
  BY <1>2, <1>4, <1>5, StoreFacts DEF Version
<1>7. TypeOK'
  BY <1>1, <1>2, <1>4, <1>6 DEF InformerInv, TypeOK, Version
<1>8. ClaimInv' /\ WorkerInv'
  BY <1>1, <1>3, <1>4, <1>6 DEF InformerInv, ClaimInv, WorkerInv
<1> QED
  BY <1>1, <1>6, <1>7, <1>8 DEF InformerInv, InHand

LEMMA EditInformer ==
    ASSUME InformerInv, Edit
    PROVE  InformerInv'
<1> DEFINE next == used.edit + 1
           new == [claim EXCEPT !.config = next]
<1>1. /\ used' \in [DOMAIN Limit -> Nat] /\ \A c \in DOMAIN Limit : used'[c] <= Limit[c]
      /\ used.edit \in Nat /\ used'.edit = used.edit + 1 /\ used.edit < Limit.edit
  BY UseFacts, LimitFacts DEF Edit
<1>2. /\ claim \in Claim /\ claim # None /\ Store(new)
      /\ UNCHANGED <<shown, queued, pc, held, applied, lost>>
  BY DEF Edit, InformerInv, TypeOK
<1>3. new \in Claim
  <2>1. next \in 0 .. Limit.edit
    BY <1>1, LimitFacts
  <2> HIDE DEF next
  <2> QED
    BY <1>2, <2>1 DEF Claim
<1>4. /\ new.config = used.edit + 1 /\ new.deleted = claim.deleted
      /\ new.finalizer = claim.finalizer /\ ClaimSpec(new) = ClaimSpec(claim)
  BY <1>2 DEF Claim, ClaimSpec
<1> HIDE DEF new
<1>5. claim.config <= used.edit /\ claim.config \in Nat
  BY <1>2, LimitFacts DEF InformerInv, ClaimInv, Claim
<1>6. new # None /\ new # claim
  BY <1>1, <1>3, <1>4, <1>5, NoneAssumption
<1>7. ~claim.deleted => Handled(claim, new)
  BY <1>1, <1>4, <1>5, <1>6 DEF Handled, updateSupported
<1>8. /\ claim' = new /\ events' \in Seq(Version) /\ WatchCatchesUp'
      /\ Coming => Coming'
      /\ ~claim.deleted => Coming'
  BY <1>2, <1>3, <1>6, <1>7, StoreFacts DEF Version
<1>9. TypeOK'
  BY <1>1, <1>2, <1>3, <1>8 DEF InformerInv, TypeOK, Version
<1>10. ClaimInv' /\ WorkerInv'
  BY <1>1, <1>2, <1>4, <1>6, <1>8 DEF InformerInv, ClaimInv, WorkerInv
<1>11. InHand'
  <2>1. CASE ~claim.deleted
    BY <1>8, <2>1 DEF InHand
  <2>2. CASE claim.deleted
    <3>1. ~Settled
      BY <1>2, <2>2 DEF Settled
    <3>2. ~lost => queued \/ pc # "idle" \/ Coming
      BY <3>1 DEF InformerInv, InHand
    <3> QED
      BY <1>2, <1>8, <3>2, Zenon DEF InHand
  <2> QED
    BY <2>1, <2>2
<1> QED
  BY <1>1, <1>8, <1>9, <1>10, <1>11 DEF InformerInv

LEMMA RemoveInformer ==
    ASSUME InformerInv, Remove
    PROVE  InformerInv'
<1> DEFINE new == Deleting(claim)
<1>1. /\ claim \in Claim /\ claim # None /\ ~claim.deleted /\ Store(new)
      /\ UNCHANGED <<shown, queued, pc, held, applied, lost, used>>
  BY DEF Remove, InformerInv, TypeOK
<1>2. /\ new \in Version /\ (new # None => new \in Claim /\ new.deleted /\ new.finalizer)
      /\ new # None => new.config = claim.config
  BY <1>1, DeletingClaim
<1> HIDE DEF new
<1>3. new # claim
  BY <1>1, <1>2
<1>4. new # None => Handled(claim, new)
  BY <1>1, <1>2, <1>3 DEF Handled, updateSupported
<1>5. /\ claim' = new /\ events' \in Seq(Version) /\ WatchCatchesUp'
      /\ new # None => Coming'
  BY <1>1, <1>2, <1>3, <1>4, StoreFacts
<1>6. TypeOK'
  BY <1>1, <1>2, <1>5 DEF InformerInv, TypeOK, Version
<1>7. ClaimInv' /\ WorkerInv'
  BY <1>1, <1>2, <1>5 DEF InformerInv, ClaimInv, WorkerInv
<1>8. InHand'
  BY <1>5 DEF InHand, Settled
<1> QED
  BY <1>1, <1>5, <1>6, <1>7, <1>8 DEF InformerInv

LEMMA WatchInformer ==
    ASSUME InformerInv, Watch
    PROVE  InformerInv'
<1> DEFINE n == Len(events)
<1>1. /\ events \in Seq(Version) /\ events # <<>> /\ shown' = events[1]
      /\ events' = Tail(events) /\ UNCHANGED <<claim, pc, held, applied, lost, used>>
      /\ queued' = (queued \/ Handled(shown, events[1])) /\ queued \in BOOLEAN
  BY DEF Watch, Notify, InformerInv, TypeOK, Version
<1>2. /\ n \in Nat /\ n >= 1 /\ Len(events') = n - 1 /\ events' \in Seq(Version)
      /\ \A i \in 1 .. n - 1 : events'[i] = events[i + 1]
      /\ events[1] \in Version
  BY <1>1
<1>3. WatchCatchesUp'
  <2>1. claim = events[n]
    BY <1>1 DEF InformerInv, WatchCatchesUp
  <2>2. CASE n = 1
    BY <1>1, <1>2, <2>1, <2>2 DEF WatchCatchesUp
  <2>3. CASE n # 1
    <3>1. events' # <<>> /\ events'[n - 1] = events[n]
      BY <1>2, <2>3
    <3> QED
      BY <1>1, <1>2, <2>1, <3>1 DEF WatchCatchesUp
  <2> QED
    BY <2>2, <2>3
<1>4. Coming => Handled(shown, events[1]) \/ Coming'
  <2> SUFFICES ASSUME NEW i \in 1 .. n, Handled(Before(i), events[i]), i # 1
               PROVE  Coming'
    BY DEF Coming, Before
  <2>1. i - 1 \in 1 .. n - 1 /\ events'[i - 1] = events[i]
    BY <1>2
  <2>2. Before(i - 1)' = Before(i)
    BY <1>1, <1>2, <2>1 DEF Before
  <2>3. \E l \in 1 .. Len(events') : Handled(Before(l)', events'[l])
    BY <1>2, <2>1, <2>2
  <2> QED
    BY <2>3 DEF Coming
<1>5. TypeOK'
  BY <1>1, <1>2 DEF InformerInv, TypeOK, Version
<1>6. queued \/ Handled(shown, events[1]) => queued'
  BY <1>1
<1>7. InHand'
  BY <1>1, <1>4, <1>6 DEF InformerInv, InHand, Settled
<1> QED
  BY <1>1, <1>3, <1>5, <1>7 DEF InformerInv, ClaimInv, WorkerInv

LEMMA RelistInformer ==
    ASSUME InformerInv, Relist
    PROVE  InformerInv'
<1>1. /\ shown' = claim /\ events' = <<>> /\ UNCHANGED <<claim, pc, held, applied>>
      /\ queued' = (queued \/ Handled(shown, claim)) /\ lost' = (lost \/ Hidden)
  BY DEF Relist, Notify
<1>2. /\ used' \in [DOMAIN Limit -> Nat] /\ \A c \in DOMAIN Limit : used'[c] <= Limit[c]
      /\ used'.edit = used.edit
  BY UseFacts, LimitFacts DEF Relist
<1>3. Coming => Handled(shown, claim) \/ Hidden
  <2> SUFFICES ASSUME NEW i \in 1 .. Len(events), Handled(Before(i), events[i])
               PROVE  \E l \in 1 .. Len(events) :
                          Handled((<<shown>> \o events)[l], (<<shown>> \o events)[l + 1])
    BY DEF Coming, Hidden
  <2>1. events \in Seq(Version)
    BY DEF InformerInv, TypeOK, Version
  <2>2. (<<shown>> \o events)[i] = Before(i) /\ (<<shown>> \o events)[i + 1] = events[i]
    BY <2>1 DEF Before
  <2> QED
    BY <2>2
<1>4. queued \in BOOLEAN /\ lost \in BOOLEAN
  BY DEF InformerInv, TypeOK
<1>5. (queued \/ Handled(shown, claim) => queued') /\ (lost \/ Hidden => lost')
  BY <1>1
<1>6. <<>> \in Seq(Claim \cup {None})
  OBVIOUS
<1>7. TypeOK'
  BY <1>1, <1>2, <1>6 DEF InformerInv, TypeOK
<1>8. InHand'
  BY <1>1, <1>3, <1>4, <1>5 DEF InformerInv, InHand, Settled
<1>9. ClaimInv' /\ WorkerInv' /\ WatchCatchesUp'
  BY <1>1, <1>2 DEF InformerInv, ClaimInv, WorkerInv, WatchCatchesUp
<1> QED
  BY <1>2, <1>7, <1>8, <1>9 DEF InformerInv

LEMMA RestartInformer ==
    ASSUME InformerInv, Restart
    PROVE  InformerInv'
<1>1. /\ shown' = claim /\ events' = <<>> /\ UNCHANGED <<claim, applied>>
      /\ queued' = Handled(None, claim) /\ pc' = "idle" /\ held' = None /\ lost' = FALSE
  BY DEF Restart
<1>2. /\ used' \in [DOMAIN Limit -> Nat] /\ \A c \in DOMAIN Limit : used'[c] <= Limit[c]
      /\ used'.edit = used.edit
  BY UseFacts, LimitFacts DEF Restart
<1>3. claim # None => queued'
  BY <1>1 DEF Handled
<1>4. queued' \in BOOLEAN /\ <<>> \in Seq(Claim \cup {None})
  BY <1>1 DEF Handled
<1>5. TypeOK'
  BY <1>1, <1>2, <1>4 DEF InformerInv, TypeOK
<1>6. InHand'
  BY <1>1, <1>3 DEF InHand, Settled
<1>7. ClaimInv' /\ WorkerInv' /\ WatchCatchesUp'
  BY <1>1, <1>2 DEF InformerInv, ClaimInv, WorkerInv, WatchCatchesUp, Provisioning
<1> QED
  BY <1>2, <1>5, <1>6, <1>7 DEF InformerInv

-------------------------------------------------------------------------------
(* The worker.                                                             *)

\* A step that leaves the claim alone and the work in somebody's hands.
LEMMA ReadInformer ==
    ASSUME InformerInv, UNCHANGED <<claim, events, shown, lost>>,
           used' \in [DOMAIN Limit -> Nat], \A c \in DOMAIN Limit : used'[c] <= Limit[c],
           used'.edit = used.edit, queued' \in BOOLEAN, held' \in Version,
           pc' \in {"idle", "getClaim"} \cup Provisioning \cup {"getAgain", "release"},
           WorkerInv', Settled' \/ queued' \/ pc' # "idle"
    PROVE  InformerInv'
<1>1. TypeOK'
  BY DEF InformerInv, TypeOK, Version, Provisioning
<1>2. WatchCatchesUp' /\ ClaimInv' /\ InHand'
  BY DEF InformerInv, WatchCatchesUp, ClaimInv, InHand
<1> QED
  BY <1>1, <1>2 DEF InformerInv

LEMMA RetryInformer ==
    ASSUME InformerInv, Retry, UNCHANGED <<claim, events, shown, applied, lost>>,
           used' \in [DOMAIN Limit -> Nat], \A c \in DOMAIN Limit : used'[c] <= Limit[c],
           used'.edit = used.edit
    PROVE  InformerInv'
<1>1. WorkerInv'
  BY DEF Retry, Goto, WorkerInv, Provisioning
<1> QED
  BY <1>1, ReadInformer DEF Retry, Goto, Version

\* An update goes through only on the version the worker holds.
LEMMA UpdateInformer ==
    ASSUME InformerInv, NEW p, NEW new \in Version, NEW next, Update(p, new, next),
           next \in {"idle"} \cup Provisioning,
           claim = held => /\ new # None => /\ ~new.deleted
                                            /\ held \in Claim /\ new.config = held.config
                           /\ next \in Provisioning => new \in Claim
                           /\ next = "idle" => \/ new = None
                                               \/ /\ new.phase = "Bound"
                                                  /\ applied = <<new.uid, new.config>>
                           /\ next \in {"bindClaim", "setBound"} =>
                                  applied = <<new.uid, new.config>>
    PROVE  InformerInv'
<1>1. /\ UNCHANGED <<shown, applied, lost, used>> /\ used \in [DOMAIN Limit -> Nat]
      /\ \A c \in DOMAIN Limit : used[c] <= Limit[c]
  BY DEF Update, InformerInv, TypeOK
<1>2. CASE claim # held
  BY <1>1, <1>2, RetryInformer DEF Update
<1>3. CASE claim = held
  <2>1. /\ Store(new) /\ pc' = next /\ held' = (IF next = "idle" THEN None ELSE new)
        /\ UNCHANGED queued
    BY <1>3 DEF Update, Goto
  <2>2. claim' = new /\ events' \in Seq(Version) /\ WatchCatchesUp'
    BY <1>1, <2>1, StoreFacts
  <2>3. TypeOK'
    BY <1>1, <2>1, <2>2 DEF InformerInv, TypeOK, Version, Provisioning
  <2>4. ClaimInv'
    BY <1>1, <1>3, <2>2, NoneAssumption DEF InformerInv, ClaimInv
  <2>5. WorkerInv'
    BY <1>1, <1>3, <2>1, <2>2, NoneAssumption DEF WorkerInv, Provisioning
  <2>6. InHand'
    BY <1>1, <1>3, <2>1, <2>2 DEF InHand, Settled, Provisioning
  <2> QED
    BY <1>1, <2>2, <2>3, <2>4, <2>5, <2>6 DEF InformerInv
<1> QED
  BY <1>2, <1>3

LEMMA WorkerInformer ==
    ASSUME InformerInv, WorkerStep
    PROVE  InformerInv'
<1>1. /\ used \in [DOMAIN Limit -> Nat] /\ \A c \in DOMAIN Limit : used[c] <= Limit[c]
      /\ claim \in Version /\ held \in Version /\ queued \in BOOLEAN
  BY DEF InformerInv, TypeOK, Version
<1> USE DEF At
<1>2. CASE GetItem
  <2>1. WorkerInv'
    BY <1>2 DEF GetItem, Goto, WorkerInv, Provisioning
  <2> QED
    BY <1>1, <1>2, <2>1, ReadInformer DEF GetItem, Goto, Version
<1>3. CASE GetClaim
  <2>1. /\ claim # None => claim \in Claim /\ claim.deleted \in BOOLEAN
        /\ held' = claim /\ UNCHANGED <<claim, events, shown, queued, applied, lost, used>>
    BY <1>1, <1>3 DEF GetClaim, Goto, Version, Claim
  <2>2. \/ claim = None /\ pc' = "idle"
        \/ claim # None /\ claim.deleted /\ pc' = "getAgain"
        \/ claim # None /\ ~claim.deleted /\ pc' = "setPending"
        \/ claim # None /\ ~claim.deleted /\ pc' = "setMeta"
    BY <1>3 DEF GetClaim, Goto
  <2>3. WorkerInv'
    BY <2>1, <2>2 DEF WorkerInv, Provisioning
  <2>4. Settled' \/ pc' # "idle"
    BY <2>1, <2>2 DEF Settled
  <2> QED
    BY <1>1, <2>1, <2>2, <2>3, <2>4, ReadInformer DEF Provisioning
<1>4. CASE GetClaimToRelease
  <2>1. CASE Retry
    BY <1>1, <1>4, <2>1, RetryInformer DEF GetClaimToRelease
  <2>2. CASE Goto("release", claim) /\ UNCHANGED queued
    <3>1. claim \in Claim /\ claim.deleted
      BY <1>1, <1>4 DEF InformerInv, WorkerInv, GetClaimToRelease, Version
    <3>2. WorkerInv'
      BY <2>2, <3>1 DEF Goto, WorkerInv, Provisioning
    <3> QED
      BY <1>1, <1>4, <2>2, <3>2, ReadInformer DEF GetClaimToRelease, Goto, Provisioning
  <2> QED
    BY <1>4, <2>1, <2>2 DEF GetClaimToRelease
<1>5. ASSUME pc \in Provisioning
      PROVE  held \in Claim /\ held # None /\ held.deleted = FALSE
  BY <1>5, NoneAssumption DEF InformerInv, WorkerInv, Claim
<1>6. CASE SetPending
  <2> DEFINE new == [held EXCEPT !.phase = "Pending"]
  <2>1. held \in Claim /\ held.deleted = FALSE
    BY <1>5, <1>6 DEF SetPending, Update, Provisioning
  <2>2. new \in Claim /\ new.deleted = FALSE /\ new.config = held.config
    BY <2>1 DEF Claim
  <2> HIDE DEF new
  <2> QED
    BY <1>6, <2>1, <2>2, UpdateInformer DEF SetPending, Version, Provisioning, new
<1>7. CASE SetMeta
  <2> DEFINE new == addFinalizers(held)
  <2>1. held \in Claim /\ held.deleted = FALSE
    BY <1>5, <1>7 DEF SetMeta, Update, Provisioning
  <2>2. new \in Claim /\ new.deleted = FALSE /\ new.config = held.config
    BY <2>1 DEF Claim, addFinalizers
  <2> HIDE DEF new
  <2> QED
    BY <1>7, <2>1, <2>2, UpdateInformer DEF SetMeta, Version, Provisioning, new
<1>8. CASE SaveName
  <2> DEFINE new == [held EXCEPT !.bucket = "bucket"]
  <2>1. held \in Claim /\ held.deleted = FALSE
    BY <1>5, <1>8 DEF SaveName, Provisioning
  <2>2. new \in Claim /\ new.deleted = FALSE /\ new.config = held.config
    BY <2>1 DEF Claim
  <2> HIDE DEF new
  <2> QED
    <3>1. CASE held.bucket = None
      BY <1>8, <2>1, <2>2, <3>1, UpdateInformer DEF SaveName, Version, Provisioning, new
    <3>2. CASE held.bucket # None
      <4>1. WorkerInv'
        BY <1>8, <2>1, <3>2 DEF SaveName, Goto, WorkerInv, Provisioning
      <4> QED
        BY <1>1, <1>8, <2>1, <3>2, <4>1, ReadInformer DEF SaveName, Goto, Provisioning
    <3> QED
      BY <3>1, <3>2
<1>9. CASE Provision
  <2>1. held \in Claim /\ held.deleted = FALSE
    BY <1>5, <1>9 DEF Provision, Provisioning
  <2>2. WorkerInv'
    BY <1>9, <2>1 DEF Provision, Goto, WorkerInv, Provisioning
  <2> QED
    BY <1>1, <1>9, <2>1, <2>2, ReadInformer DEF Provision, Goto, Provisioning
<1>10. CASE BindClaim
  <2> DEFINE new == [held EXCEPT !.ob = "ob"]
  <2>1. held \in Claim /\ held.deleted = FALSE /\ applied = <<held.uid, held.config>>
    BY <1>5, <1>10 DEF BindClaim, Update, Provisioning, InformerInv, WorkerInv
  <2>2. /\ new \in Claim /\ new.deleted = FALSE
        /\ new.config = held.config /\ new.uid = held.uid
    BY <2>1 DEF Claim
  <2> HIDE DEF new
  <2> QED
    BY <1>10, <2>1, <2>2, UpdateInformer DEF BindClaim, Version, Provisioning, new
<1>11. CASE SetBound
  <2> DEFINE new == [held EXCEPT !.phase = "Bound"]
  <2>1. held \in Claim /\ held.deleted = FALSE /\ applied = <<held.uid, held.config>>
    BY <1>5, <1>11 DEF SetBound, Update, Provisioning, InformerInv, WorkerInv
  <2>2. /\ new \in Claim /\ new.deleted = FALSE /\ new.phase = "Bound"
        /\ new.config = held.config /\ new.uid = held.uid
    BY <2>1 DEF Claim
  <2> HIDE DEF new
  <2> QED
    BY <1>11, <2>1, <2>2, UpdateInformer DEF SetBound, Version, Provisioning, new
<1>12. CASE Release
  <2> DEFINE new == removeFinalizer(held)
  <2>1. held \in Claim /\ held.deleted
    BY <1>12 DEF Release, Update, InformerInv, WorkerInv
  <2>2. new = None
    BY <2>1 DEF Claim, removeFinalizer, Stored
  <2> HIDE DEF new
  <2> QED
    BY <1>12, <2>2, UpdateInformer DEF Release, Version, Provisioning, new
<1> QED
  BY <1>2, <1>3, <1>4, <1>6, <1>7, <1>8, <1>9, <1>10, <1>11, <1>12 DEF WorkerStep

LEMMA NextInformer == InformerInv /\ [Next]_vars => InformerInv'
<1> SUFFICES ASSUME InformerInv, [Next]_vars PROVE InformerInv'
  OBVIOUS
<1>1. CASE SyncError
  BY <1>1, UseFacts, LimitFacts, RetryInformer DEF SyncError
<1>2. CASE UNCHANGED vars
  BY <1>2
  DEF vars, InformerInv, TypeOK, WatchCatchesUp, ClaimInv, WorkerInv, InHand, Settled, Coming,
      Before
<1> QED
  BY <1>1, <1>2, CreateInformer, EditInformer, RemoveInformer, WatchInformer, RelistInformer,
     RestartInformer, WorkerInformer
  DEF Next

LEMMA InformerInvariance == Spec => []InformerInv
BY InitInformer, NextInformer, PTL DEF Spec

\* The claim's versions on their way from the server over the watch and the cache to
\* the worker are always claims, or nothing, whatever is lost or repeated.
THEOREM InformerTypes == Spec => []TypeOK
BY InformerInvariance, PTL DEF InformerInv

\* For any number of claims created, edits, lists, restarts and failing syncs: when
\* the queue is empty, the worker idle and the watch has delivered everything, the
\* claim is gone or Bound with the configuration asked for last, unless a list has
\* hidden a change from the event handlers.
THEOREM RestIsSettled == Spec => []RestMeansSettled
<1>1. InformerInv => RestMeansSettled
  BY DEF InformerInv, InHand, Coming, RestMeansSettled, At
<1> QED
  BY <1>1, InformerInvariance, PTL
===============================================================================
