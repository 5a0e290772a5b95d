---------------------------- MODULE LifecycleProofs ----------------------------
(***************************************************************************)
(* With a single controller process, for any number of claims, workers,    *)
(* crashes and failing calls: every claim lives the life that              *)
(* ClaimLifecycle promises.                                                *)
(***************************************************************************)
EXTENDS ReconcilerProofs

\* All workers share one queue, which hands a key to one of them at a time.
SingleProcess == \A v, w \in Workers : HostOf[v] = HostOf[w]

\* What setOBCMetaFields leaves behind it: the finalizer on the claim.
Held == Provisioning \ {"setPending", "setMeta"}

\* What holds of a stored claim and of every copy of one: deletion waits for the
\* finalizer, and nothing is recorded in a claim before it is held.
ClaimSound(o) ==
    /\ o.deleted => o.finalizer
    /\ ~o.finalizer => o.ob = None /\ o.phase # "Bound"

\* The stored claim o is what the copy says, but for an edit or a deletion.
SameClaim(o, copy) ==
    /\ o # None
    /\ o.uid = copy.uid /\ o.finalizer = copy.finalizer /\ o.class = copy.class
    /\ o.bucket = copy.bucket /\ o.generate = copy.generate
    /\ o.ob = copy.ob /\ o.phase = copy.phase

\* A job and the stored claim it works on.
JobClaim(j, o) ==
    /\ j.pc \notin {"idle", "getClaim"} => ClaimSound(j.obc)
    /\ j.pc \in Provisioning => ~j.obc.deleted
    /\ j.pc = "setPending" => j.obc.phase = None
    /\ j.pc \in Held => j.obc.finalizer
    /\ j.pc = "setBound" => j.obc.ob # None
    /\ j.pc \in Binding => j.ob.claim = j.obc.uid
    /\ j.pc \in {"getClass"} \cup Provisioning /\ j.obc.finalizer => SameClaim(o, j.obc)
    /\ j.pc \in Deprovisioning \/ (j.pc = "getClass" /\ j.obc.deleted)
          => o # None /\ o.deleted /\ o.finalizer

\* No two workers are busy with the same claim.
Apart ==
    \A v, w \in Workers : job[v].key = job[w].key /\ job[v].key # None => v = w

ClaimInv ==
    /\ Apart
    /\ \A k \in Keys : obc[k] # None => ClaimSound(obc[k])
    /\ \A w \in Workers : job[w].pc # "idle" => JobClaim(job[w], obc[job[w].key])

-------------------------------------------------------------------------------
LEMMA PcFacts ==
    /\ Held \subseteq Provisioning /\ Binding \subseteq Held
    /\ Provisioning \cap Deprovisioning = {}
    /\ Provisioning \cap {"idle", "getClaim", "getClass"} = {}
    /\ Deprovisioning \cap {"idle", "getClaim", "getClass"} = {}
    /\ "setPending" \in Provisioning \ Held /\ "setBound" \in Binding
BY DEF Held, Provisioning, Deprovisioning, Naming, Artifacts, Binding, Unbinding

\* A step of handleProvisionClaim that leaves the job's claim alone.
LEMMA ProvisioningMove ==
    ASSUME NEW j, NEW i, NEW o, JobClaim(j, o), j.pc \in Held, i.obc = j.obc,
           i.pc \in Held \ {"setBound"}, i.pc \in Binding => i.ob.claim = i.obc.uid
    PROVE  JobClaim(i, o)
BY PcFacts DEF JobClaim

\* A step of handleDeleteClaim: what matters is only that the claim is deleted.
LEMMA DeprovisioningMove ==
    ASSUME NEW j, NEW i, NEW o, JobClaim(j, o), j.pc \in Deprovisioning,
           i.pc \in Deprovisioning, ClaimSound(i.obc)
    PROVE  JobClaim(i, o)
BY PcFacts DEF JobClaim

\* Worker w, busy with some claim, is the only one who is: what it does to the
\* claim and to its own variables disturbs no other worker.
LEMMA WorkerClaims ==
    ASSUME TypeInv, ClaimInv, NEW w \in Workers, NEW i, job[w].pc # "idle",
           job' = [job EXCEPT ![w] = i],
           i.key = job[w].key \/ (i.key = None /\ i.pc = "idle"),
           \A k \in Keys : k # job[w].key => obc'[k] = obc[k],
           obc'[job[w].key] # None => ClaimSound(obc'[job[w].key]),
           i.pc # "idle" => JobClaim(i, obc'[job[w].key])
    PROVE  ClaimInv'
<1>1. job \in [Workers -> Job] /\ \A v \in Workers : job[v].pc # "idle" => job[v].key \in Keys
  BY DEF TypeInv, ControllerInv, JobShape
<1>2. job'[w] = i /\ \A v \in Workers : v # w => job'[v] = job[v]
  BY <1>1
<1>3. Apart'
  BY <1>2 DEF ClaimInv, Apart
<1>4. \A k \in Keys : obc'[k] # None => ClaimSound(obc'[k])
  BY DEF ClaimInv
<1>5. ASSUME NEW v \in Workers, job'[v].pc # "idle"
      PROVE  JobClaim(job'[v], obc'[job'[v].key])
  <2>1. CASE v = w
    BY <1>2, <1>5, <2>1
  <2>2. CASE v # w
    <3>1. job[v].key \in Keys /\ job[v].key # job[w].key
      BY <1>1, <1>2, <1>5, <2>2, NoneAssumption DEF ClaimInv, Apart
    <3> QED
      BY <1>2, <1>5, <2>2, <3>1 DEF ClaimInv
  <2> QED
    BY <2>1, <2>2
<1> QED
  BY <1>3, <1>4, <1>5 DEF ClaimInv

LEMMA IdleKey == IdleJob.pc = "idle" /\ IdleJob.key = None
BY DEF IdleJob

\* The steps that leave the claims alone.
LEMMA ReadClaims ==
    ASSUME TypeInv, ClaimInv, NEW w \in Workers, NEW i, job[w].pc # "idle",
           job' = [job EXCEPT ![w] = i], UNCHANGED obc,
           i = IdleJob \/ (i.key = job[w].key /\ JobClaim(i, obc[job[w].key]))
    PROVE  ClaimInv'
<1>1. job[w].key \in Keys
  BY DEF TypeInv, ControllerInv, JobShape
<1> QED
  BY <1>1, IdleKey, WorkerClaims DEF ClaimInv

\* An update of the claim the worker holds goes through only if the claim still
\* is what the worker's copy says.
LEMMA UpdateClaimClaims ==
    ASSUME TypeInv, ClaimInv, NEW w \in Workers, NEW pc, NEW new, NEW next, pc # "idle",
           UpdateClaim(w, pc, new, next), ClaimSound(new),
           next = IdleJob \/ (next.key = job[w].key /\ JobClaim(next, new))
    PROVE  ClaimInv'
<1>1. job[w].key \in Keys /\ job[w].pc # "idle" /\ obc \in [Keys -> Claim \cup {None}]
  BY DEF UpdateClaim, At, TypeInv, ControllerInv, JobShape, ClusterTypeOK
<1>2. CASE obc' = [obc EXCEPT ![job[w].key] = new] /\ job' = [job EXCEPT ![w] = next]
  BY <1>1, <1>2, IdleKey, WorkerClaims
<1>3. CASE Requeue(w) /\ UNCHANGED obc
  BY <1>1, <1>3, ReadClaims DEF Requeue
<1> QED
  BY <1>2, <1>3 DEF UpdateClaim

LEMMA ProvisionStepClaims ==
    ASSUME TypeInv, ClaimInv, NEW w \in Workers, ProvisionStep(w)
    PROVE  ClaimInv'
<1> DEFINE j == job[w]
           o == obc[j.key]
<1>1. j \in Job /\ JobShape(j) /\ (j.pc # "idle" => JobClaim(j, o))
  BY DEF TypeInv, ControllerInv, ClaimInv
<1> USE DEF At
\* Most steps either go on within handleProvisionClaim, or give up.
<1>2. ASSUME Requeue(w) \/ Done(w), j.pc # "idle", UNCHANGED obc
      PROVE  ClaimInv'
  BY <1>2, ReadClaims DEF Requeue, Done
<1>3. ASSUME NEW i, Continue(w, i), UNCHANGED obc, j.pc \in Held, i.pc \in Held \ {"setBound"},
             i.key = j.key, i.obc = j.obc, i.pc \in Binding => i.ob.claim = i.obc.uid
      PROVE  ClaimInv'
  <2>1. JobClaim(i, o) /\ j.pc # "idle"
    BY <1>1, <1>3, ProvisioningMove, PcFacts
  <2> QED
    BY <1>3, <2>1, ReadClaims DEF Continue
<1>4. CASE GetClaim(w)
  <2> DEFINE i == [j EXCEPT !.pc = "getClass", !.obc = o]
  <2>1. UNCHANGED obc /\ j.pc = "getClaim" /\ j.key \in Keys
    BY <1>1, <1>4 DEF GetClaim, kube, JobShape
  <2>2. ASSUME o # None
        PROVE  i.key = j.key /\ JobClaim(i, o)
    <3>1. i.pc = "getClass" /\ i.key = j.key /\ i.obc = o
      BY <1>1 DEF Job
    <3>2. ClaimSound(o)
      BY <2>1, <2>2 DEF ClaimInv
    <3> QED
      BY <2>2, <3>1, <3>2, PcFacts DEF JobClaim, ClaimSound, SameClaim
  <2> QED
    BY <1>2, <1>4, <2>1, <2>2, ReadClaims DEF GetClaim, claimForKey, Continue
<1>5. CASE GetClass(w)
  <2> DEFINE c == class[j.obc.class]
             i == [j EXCEPT !.pc = AfterClass(j.obc), !.class = c]
  <2>1. UNCHANGED obc /\ j.pc = "getClass" /\ j.obc \in Claim
    BY <1>1, <1>5 DEF GetClass, kube, JobShape
  <2>2. i.key = j.key /\ i.obc = j.obc /\ i.pc = AfterClass(j.obc)
    BY <1>1 DEF Job
  <2>3. JobClaim(i, o)
    <3>1. CASE j.obc.deleted
      BY <1>1, <2>1, <2>2, <3>1, PcFacts DEF AfterClass, JobClaim, Deprovisioning
    <3>2. CASE ~j.obc.deleted
      <4>1. \/ i.pc = "setPending" /\ j.obc.phase = None
            \/ i.pc = "setMeta"
        BY <2>1, <2>2, <3>2 DEF AfterClass, Claim
      <4>2. i.pc \in Provisioning /\ i.pc \notin Held
        BY <4>1 DEF Provisioning, Held
      <4> QED
        BY <1>1, <2>1, <2>2, <3>2, <4>1, <4>2, PcFacts DEF JobClaim
    <3> QED
      BY <3>1, <3>2
  <2> HIDE DEF i
  <2> QED
    BY <1>2, <1>5, <2>1, <2>2, <2>3, ReadClaims
    DEF GetClass, storageClassForClaim, Continue, i
<1>6. CASE SetPending(w)
  <2> DEFINE new == [j.obc EXCEPT !.phase = "Pending"]
             i == [j EXCEPT !.pc = "setMeta", !.obc = new]
  <2>1. j.pc = "setPending" /\ j.obc \in Claim
    BY <1>1, <1>6 DEF SetPending, UpdateClaim, JobShape
  <2>2. i.pc = "setMeta" /\ i.key = j.key /\ i.obc = new
    BY <1>1 DEF Job
  <2>3. ClaimSound(new) /\ new # None /\ ~new.deleted
    BY <1>1, <2>1, PcFacts, NoneAssumption DEF JobClaim, ClaimSound, Claim
  <2>4. JobClaim(i, new)
    <3>1. i.pc \in Provisioning /\ i.pc \notin Held
      BY <2>2 DEF Provisioning, Held
    <3> HIDE DEF new, i
    <3> QED
      BY <2>2, <2>3, <3>1, PcFacts DEF JobClaim, SameClaim
  <2> QED
    BY <1>6, <2>2, <2>3, <2>4, UpdateClaimClaims DEF SetPending
<1>7. ASSUME NEW new \in Claim, NEW i, i.key = j.key, i.obc = new, i.pc \in Held,
             new.finalizer, ~new.deleted, i.pc = "setBound" => new.ob # None,
             i.pc \in Binding => i.ob.claim = new.uid
      PROVE  ClaimSound(new) /\ JobClaim(i, new)
  BY <1>7, PcFacts, NoneAssumption DEF ClaimSound, JobClaim, SameClaim
<1>8. CASE SetMeta(w)
  <2> DEFINE new == addFinalizers(j.obc)
             i == [j EXCEPT !.pc = "getOb", !.obc = new]
  <2>1. j.pc = "setMeta" /\ j.obc \in Claim /\ ~j.obc.deleted
    BY <1>1, <1>8 DEF SetMeta, UpdateClaim, JobShape, JobClaim, Provisioning
  <2>2. i.pc = "getOb" /\ i.key = j.key /\ i.obc = new
    BY <1>1 DEF Job
  <2>3. new \in Claim /\ new.finalizer /\ ~new.deleted
    BY <2>1 DEF addFinalizers, Claim
  <2>4. i.pc \in Held /\ i.pc \notin Binding
    BY <2>2 DEF Held, Provisioning, Binding
  <2> HIDE DEF new, i
  <2>5. ClaimSound(new) /\ JobClaim(i, new)
    BY <1>7, <2>2, <2>3, <2>4
  <2> QED
    BY <1>8, <2>2, <2>5, UpdateClaimClaims DEF SetMeta, new, i
<1>9. CASE GetOb(w)
  <2>1. UNCHANGED obc /\ j.pc = "getOb" /\ j.pc \in Held
    BY <1>9 DEF GetOb, kube, Held, Provisioning
  <2>2. CASE Requeue(w)
    BY <1>2, <2>1, <2>2
  <2>3. ASSUME NEW n, NEW pc \in Naming, Continue(w, [j EXCEPT !.pc = pc, !.name = n])
        PROVE  ClaimInv'
    <3> DEFINE i == [j EXCEPT !.pc = pc, !.name = n]
    <3>1. i.pc = pc /\ i.key = j.key /\ i.obc = j.obc
      BY <1>1 DEF Job
    <3>2. pc \in Held \ {"setBound"} /\ pc \notin Binding
      BY DEF Held, Provisioning, Naming, Binding
    <3> QED
      BY <1>3, <2>1, <2>3, <3>1, <3>2
  <2> QED
    BY <1>9, <2>2, <2>3 DEF GetOb, Naming
<1>10. CASE SaveName(w)
  <2> DEFINE new == [j.obc EXCEPT !.bucket = j.name]
             i == [j EXCEPT !.pc = "provision", !.obc = new]
  <2>1. j.pc = "saveName" /\ j.obc \in Claim /\ j.name \in Buckets
    BY <1>1, <1>10 DEF SaveName, UpdateClaim, JobShape, Naming
  <2>2. i.pc = "provision" /\ i.key = j.key /\ i.obc = new
    BY <1>1 DEF Job
  <2>3. ~j.obc.deleted /\ j.obc.finalizer
    BY <1>1, <2>1 DEF JobClaim, Held, Provisioning, Naming
  <2>4. new \in Claim /\ new.finalizer /\ ~new.deleted
    BY <2>1, <2>3 DEF Claim
  <2>5. i.pc \in Held /\ i.pc \notin Binding
    BY <2>2 DEF Held, Provisioning, Naming, Binding
  <2> HIDE DEF new, i
  <2>6. ClaimSound(new) /\ JobClaim(i, new)
    BY <1>7, <2>2, <2>4, <2>5
  <2> QED
    BY <1>10, <2>2, <2>6, UpdateClaimClaims DEF SaveName, new, i
<1>11. CASE Provision(w) \/ Grant(w)
  <2> DEFINE i == [j EXCEPT !.pc = "createSecret", !.ob = ReturnedOb(j)]
  <2>1. UNCHANGED obc /\ j.pc = "provision" /\ j.pc \in Held
    BY <1>11 DEF Provision, Grant, kube, Held, Provisioning, Naming
  <2>2. i.pc = "createSecret" /\ i.key = j.key /\ i.obc = j.obc
    BY <1>1 DEF Job
  <2>3. i.pc \in Held \ {"setBound"} /\ i.pc \notin Binding
    BY <2>2 DEF Held, Provisioning, Artifacts, Binding
  <2>4. Requeue(w) \/ Continue(w, i)
    BY <1>11 DEF Provision, Grant
  <2> QED
    BY <1>2, <1>3, <2>1, <2>2, <2>3, <2>4
<1>12. ASSUME NEW kind \in Kinds, CreateArtifact(w, kind) \/ UpdateArtifact(w, kind)
       PROVE  ClaimInv'
  <2>1. UNCHANGED obc /\ j.pc \in Held
    BY <1>12
    DEF CreateArtifact, UpdateArtifact, CreatePc, UpdatePc, Kinds, Held, Provisioning, Artifacts
  <2>2. ASSUME NEW pc \in Artifacts, Continue(w, [j EXCEPT !.pc = pc])
        PROVE  ClaimInv'
    <3>1. pc \in Held \ {"setBound"} /\ pc \notin Binding
      BY DEF Held, Provisioning, Artifacts, Binding
    <3> DEFINE i == [j EXCEPT !.pc = pc]
    <3>2. i.pc = pc /\ i.key = j.key /\ i.obc = j.obc
      BY <1>1 DEF Job
    <3> QED
      BY <1>3, <2>1, <2>2, <3>1, <3>2
  <2>3. AfterPc[kind] \in Artifacts /\ UpdatePc[kind] \in Artifacts
    BY DEF AfterPc, UpdatePc, Kinds, Artifacts
  <2> QED
    BY <1>2, <1>12, <2>1, <2>2, <2>3, PcFacts DEF CreateArtifact, UpdateArtifact
<1>13. CASE ClaimRef(w)
  <2> DEFINE b == addFinalizers([j.ob EXCEPT !.class = j.obc.class,
                                            !.policy = PolicyFor(j), !.claim = o.uid])
             i == [j EXCEPT !.pc = "createOb", !.ob = b]
  <2>1. UNCHANGED obc /\ j.pc = "claimRef" /\ j.pc \in Held /\ j.ob \in ObjectBucket
    BY <1>1, <1>13 DEF ClaimRef, kube, Held, Provisioning, Artifacts, JobShape
  <2>2. i.pc = "createOb" /\ i.key = j.key /\ i.obc = j.obc /\ i.ob = b
    BY <1>1 DEF Job
  <2>3. i.pc \in Held \ {"setBound"}
    BY <2>2 DEF Held, Provisioning, Binding
  <2>4. b.claim = j.obc.uid
    <3>1. o.uid = j.obc.uid
      BY <1>1, <2>1, PcFacts DEF JobClaim, SameClaim
    <3> QED
      BY <2>1, <3>1 DEF addFinalizers, ObjectBucket
  <2>5. Requeue(w) \/ Continue(w, i)
    BY <1>13 DEF ClaimRef, claimForKey, ContinueIfFound
  <2> HIDE DEF b, i
  <2> QED
    BY <1>2, <1>3, <2>1, <2>2, <2>3, <2>4, <2>5, PcFacts
<1>14. ASSUME NEW pc \in Binding \ {"setBound"}, j.pc \in Binding,
              NEW b, b.claim = j.ob.claim, NEW base, UNCHANGED obc,
              \/ Continue(w, [j EXCEPT !.pc = pc])
              \/ Continue(w, [j EXCEPT !.pc = pc, !.base = base])
              \/ Continue(w, [j EXCEPT !.pc = pc, !.ob = b, !.base = base])
       PROVE  ClaimInv'
  <2>1. PICK i : /\ Continue(w, i) /\ i.pc = pc /\ i.key = j.key /\ i.obc = j.obc
                 /\ i.ob.claim = j.ob.claim
    <3>1. LET i == [j EXCEPT !.pc = pc]
          IN  i.pc = pc /\ i.key = j.key /\ i.obc = j.obc /\ i.ob = j.ob
      BY <1>1 DEF Job
    <3>2. LET i == [j EXCEPT !.pc = pc, !.base = base]
          IN  i.pc = pc /\ i.key = j.key /\ i.obc = j.obc /\ i.ob = j.ob
      BY <1>1 DEF Job
    <3>3. LET i == [j EXCEPT !.pc = pc, !.ob = b, !.base = base]
          IN  i.pc = pc /\ i.key = j.key /\ i.obc = j.obc /\ i.ob = b
      BY <1>1 DEF Job
    <3> QED
      BY <1>14, <3>1, <3>2, <3>3
  <2>2. j.ob.claim = j.obc.uid
    BY <1>1, <1>14, PcFacts DEF JobClaim
  <2> QED
    BY <1>3, <1>14, <2>1, <2>2, PcFacts
<1>15. CASE CreateOb(w) \/ GetCurrentOb(w)
  <2>1. UNCHANGED obc /\ j.pc \in Binding
    BY <1>15 DEF CreateOb, GetCurrentOb, Binding, kube
  <2>2. {"obBound", "getCurrentOb", "updateOb"} \subseteq Binding \ {"setBound"}
    BY DEF Binding
  <2> QED
    BY <1>2, <1>14, <1>15, <2>1, <2>2, PcFacts DEF CreateOb, GetCurrentOb, ContinueIfFound
<1>16. ASSUME NEW old, NEW new, NEW pc \in Binding, NEW next \in Binding \ {"setBound"},
              new.claim = j.ob.claim, ReplaceOb(w, pc, old, new, next)
       PROVE  ClaimInv'
  BY <1>2, <1>14, <1>16, PcFacts DEF ReplaceOb
<1>17. CASE UpdateOb(w) \/ ObBound(w)
  <2>1. /\ "updateOb" \in Binding /\ "obBound" \in Binding \ {"setBound"}
        /\ "bindClaim" \in Binding \ {"setBound"}
    BY DEF Binding
  <2>2. j.ob \in ObjectBucket
    BY <1>1, <1>17, <2>1 DEF UpdateOb, ObBound, ReplaceOb, JobShape
  <2>3. /\ [j.ob EXCEPT !.phase = j.base.phase, !.deleted = j.base.deleted].claim = j.ob.claim
        /\ [j.ob EXCEPT !.phase = "Bound"].claim = j.ob.claim
    BY <2>2 DEF ObjectBucket
  <2>4. CASE UpdateOb(w)
    BY <1>16, <2>1, <2>3, <2>4 DEF UpdateOb
  <2>5. CASE ObBound(w)
    BY <1>16, <2>1, <2>3, <2>5 DEF ObBound
  <2> QED
    BY <1>17, <2>4, <2>5
<1>18. CASE BindClaim(w)
  <2> DEFINE n == ObjectBucketName(j.key)
             new == [j.obc EXCEPT !.ob = n, !.bucket = j.name]
             i == [j EXCEPT !.pc = "setBound", !.obc = new]
  <2>1. j.pc = "bindClaim" /\ j.obc \in Claim /\ j.name \in Buckets /\ n \in ObNames
    BY <1>1, <1>18 DEF BindClaim, UpdateClaim, JobShape, Binding, ObNames
  <2>2. i.pc = "setBound" /\ i.key = j.key /\ i.obc = new /\ i.ob = j.ob
    BY <1>1 DEF Job
  <2>3. ~j.obc.deleted /\ j.obc.finalizer /\ j.ob.claim = j.obc.uid
    BY <1>1, <2>1 DEF JobClaim, Held, Provisioning, Binding
  <2> HIDE DEF n
  <2>4. /\ new \in Claim /\ new.finalizer /\ ~new.deleted /\ new.ob # None
        /\ new.uid = j.obc.uid
    BY <2>1, <2>3, NoneAssumption DEF Claim
  <2> HIDE DEF new, i
  <2>5. ClaimSound(new) /\ JobClaim(i, new)
    BY <1>7, <2>2, <2>3, <2>4, PcFacts
  <2> QED
    BY <1>18, <2>2, <2>5, UpdateClaimClaims DEF BindClaim, new, i, n
<1>19. CASE SetBound(w)
  <2> DEFINE new == [j.obc EXCEPT !.phase = "Bound"]
  <2>1. j.pc = "setBound" /\ j.obc \in Claim
    BY <1>1, <1>19 DEF SetBound, UpdateClaim, JobShape, Binding
  <2>2. ~j.obc.deleted /\ j.obc.finalizer
    BY <1>1, <2>1 DEF JobClaim, Held, Provisioning, Binding
  <2>3. ClaimSound(new)
    BY <2>1, <2>2 DEF Claim, ClaimSound
  <2> QED
    BY <1>19, <2>3, UpdateClaimClaims DEF SetBound
<1> QED
  BY <1>4, <1>5, <1>6, <1>8, <1>9, <1>10, <1>11, <1>12, <1>13, <1>15, <1>17, <1>18, <1>19
  DEF ProvisionStep
\* A step of handleDeleteClaim before releaseOBC: the worker goes on, with the same
\* key and claim, or gives up.
CleanupStep(w) ==
    \/ FindOb(w) \/ FindCm(w) \/ FindSecret(w) \/ MarkReleased(w) \/ GetObClass(w)
    \/ Delete(w) \/ Revoke(w) \/ DropObFinalizer(w) \/ DeleteOb(w)
    \/ GetArtifact(w) \/ DropFinalizer(w)

LEMMA CleanupStepJob ==
    ASSUME TypeInv, NEW w \in Workers, CleanupStep(w)
    PROVE  /\ UNCHANGED obc /\ job[w].pc \in Deprovisioning
           /\ job' = [job EXCEPT ![w] = job'[w]]
           /\ \/ job'[w] = IdleJob
              \/ /\ job'[w].pc \in Deprovisioning
                 /\ job'[w].key = job[w].key /\ job'[w].obc = job[w].obc
<1> DEFINE j == job[w]
           Goes == /\ job' = [job EXCEPT ![w] = job'[w]]
                   /\ \/ job'[w] = IdleJob
                      \/ /\ job'[w].pc \in Deprovisioning
                         /\ job'[w].key = j.key /\ job'[w].obc = j.obc
<1> USE DEF At
<1>1. job \in [Workers -> Job] /\ j \in Job
  BY DEF TypeInv, ControllerInv
<1>2. UNCHANGED obc /\ j.pc \in Deprovisioning
  BY DEF CleanupStep, FindOb, FindCm, FindSecret, MarkReleased, ReplaceOb, GetObClass, Delete,
         Revoke, DropObFinalizer, DeleteOb, GetArtifact, DropFinalizer, kube, Deprovisioning,
         Unbinding
<1> SUFFICES Goes
  BY <1>2
<1>3. ASSUME Requeue(w) \/ Done(w) PROVE Goes
  BY <1>1, <1>3 DEF Requeue, Done
<1>4. ASSUME NEW i, Continue(w, i), i.pc \in Deprovisioning, i.key = j.key, i.obc = j.obc
      PROVE  Goes
  BY <1>1, <1>4 DEF Continue
<1>5. ASSUME NEW pc \in Deprovisioning, NEW b, NEW base, NEW f,
             \/ Continue(w, [j EXCEPT !.pc = pc])
             \/ Continue(w, [j EXCEPT !.pc = pc, !.ob = b])
             \/ Continue(w, [j EXCEPT !.pc = pc, !.found = f])
             \/ Continue(w, [j EXCEPT !.pc = pc, !.ob = b, !.base = base])
      PROVE  Goes
  <2>1. /\ [j EXCEPT !.pc = pc].pc = pc
        /\ [j EXCEPT !.pc = pc].key = j.key
        /\ [j EXCEPT !.pc = pc].obc = j.obc
    BY <1>1 DEF Job
  <2>2. /\ [j EXCEPT !.pc = pc, !.ob = b].pc = pc
        /\ [j EXCEPT !.pc = pc, !.ob = b].key = j.key
        /\ [j EXCEPT !.pc = pc, !.ob = b].obc = j.obc
    BY <1>1 DEF Job
  <2>3. /\ [j EXCEPT !.pc = pc, !.found = f].pc = pc
        /\ [j EXCEPT !.pc = pc, !.found = f].key = j.key
        /\ [j EXCEPT !.pc = pc, !.found = f].obc = j.obc
    BY <1>1 DEF Job
  <2>4. /\ [j EXCEPT !.pc = pc, !.ob = b, !.base = base].pc = pc
        /\ [j EXCEPT !.pc = pc, !.ob = b, !.base = base].key = j.key
        /\ [j EXCEPT !.pc = pc, !.ob = b, !.base = base].obc = j.obc
    BY <1>1 DEF Job
  <2> QED
    BY <1>4, <1>5, <2>1, <2>2, <2>3, <2>4
<1>6. {"findCm", "findSecret", "release", "markReleased", "getObClass", "delete",
       "revoke"} \subseteq Deprovisioning
  BY DEF Deprovisioning, Unbinding
<1>7. CASE Delete(w) \/ Revoke(w) \/ DropObFinalizer(w) \/ DeleteOb(w)
  BY <1>1, <1>7
  DEF Delete, Revoke, DropObFinalizer, DeleteOb, SkipOb, Deprovisioning, Unbinding, Job
<1>8. CASE GetArtifact(w) \/ DropFinalizer(w)
  BY <1>1, <1>8 DEF GetArtifact, DropFinalizer, Released, Deprovisioning, Job
<1> HIDE DEF Goes
<1>9. CASE FindOb(w)
  BY <1>5, <1>6, <1>9 DEF FindOb
<1>10. CASE FindCm(w)
  BY <1>5, <1>6, <1>10 DEF FindCm
<1>11. CASE FindSecret(w)
  BY <1>3, <1>5, <1>6, <1>11 DEF FindSecret
<1>12. CASE MarkReleased(w)
  BY <1>3, <1>5, <1>6, <1>12 DEF MarkReleased, ReplaceOb
<1>13. CASE GetObClass(w)
  BY <1>5, <1>6, <1>13 DEF GetObClass
<1> QED
  BY <1>7, <1>8, <1>9, <1>10, <1>11, <1>12, <1>13 DEF CleanupStep

LEMMA DeleteStepClaims ==
    ASSUME TypeInv, ClaimInv, NEW w \in Workers, DeleteStep(w)
    PROVE  ClaimInv'
<1> DEFINE j == job[w]
           o == obc[j.key]
<1>1. j \in Job /\ JobShape(j) /\ (j.pc # "idle" => JobClaim(j, o))
  BY DEF TypeInv, ControllerInv, ClaimInv
<1> USE DEF At
<1>2. ASSUME Requeue(w) \/ Done(w), j.pc # "idle", UNCHANGED obc
      PROVE  ClaimInv'
  BY <1>2, ReadClaims DEF Requeue, Done
<1>3. ASSUME NEW i, job' = [job EXCEPT ![w] = i], UNCHANGED obc, j.pc \in Deprovisioning,
             i.pc \in Deprovisioning, i.key = j.key, i.obc = j.obc
      PROVE  ClaimInv'
  <2>1. ClaimSound(i.obc) /\ j.pc # "idle"
    BY <1>1, <1>3, PcFacts DEF JobClaim
  <2>2. JobClaim(i, o)
    BY <1>1, <1>3, <2>1, DeprovisioningMove
  <2> QED
    BY <1>3, <2>1, <2>2, ReadClaims
<1>4. CASE CleanupStep(w)
  BY <1>3, <1>4, CleanupStepJob, ReadClaims, PcFacts
<1>5. CASE GetClaimToRelease(w)
  <2> DEFINE i == [j EXCEPT !.pc = "dropClaimFinalizer", !.obc = o]
  <2>1. UNCHANGED obc /\ j.pc = "release" /\ j.key \in Keys
    BY <1>1, <1>5 DEF GetClaimToRelease, kube, JobShape
  <2>2. ASSUME o # None
        PROVE  i.key = j.key /\ JobClaim(i, o)
    <3>1. i.key = j.key /\ i.obc = o /\ i.pc = "dropClaimFinalizer"
      BY <1>1 DEF Job
    <3>2. ClaimSound(o)
      BY <2>1, <2>2 DEF ClaimInv
    <3>3. j.pc \in Deprovisioning /\ i.pc \in Deprovisioning
      BY <2>1, <3>1 DEF Deprovisioning
    <3> QED
      BY <1>1, <3>1, <3>2, <3>3, DeprovisioningMove, PcFacts
  <2> QED
    BY <1>2, <1>5, <2>1, <2>2, ReadClaims DEF GetClaimToRelease, ContinueIfFound, Continue
<1>6. CASE DropClaimFinalizer(w)
  <2>1. j.pc = "dropClaimFinalizer" /\ j.key \in Keys /\ obc \in [Keys -> Claim \cup {None}]
    BY <1>1, <1>6 DEF DropClaimFinalizer, JobShape, TypeInv, ClusterTypeOK
  <2>2. CASE o = j.obc /\ obc' = [obc EXCEPT ![j.key] = removeFinalizer(j.obc)]
             /\ job' = [job EXCEPT ![w] = IdleJob]
    <3>1. obc'[j.key] = None
      <4>1. o \in Claim /\ o.deleted
        BY <1>1, <2>1 DEF JobClaim, Deprovisioning
      <4> QED
        BY <2>1, <2>2, <4>1 DEF removeFinalizer, Stored, Claim
    <3> QED
      BY <2>1, <2>2, <3>1, IdleKey, WorkerClaims
  <2>3. CASE Requeue(w) /\ UNCHANGED obc
    BY <1>2, <2>1, <2>3
  <2> QED
    BY <1>6, <2>2, <2>3 DEF DropClaimFinalizer
<1> QED
  BY <1>4, <1>5, <1>6 DEF DeleteStep, CleanupStep

\* The queue hands a key to a worker only while no other of its process has it.
LEMMA GetItemClaims ==
    ASSUME TypeInv, ClaimInv, SingleProcess, NEW w \in Workers, NEW k \in Keys, GetItem(w, k)
    PROVE  ClaimInv'
<1> DEFINE i == [IdleJob EXCEPT !.pc = "getClaim", !.key = k]
<1>1. job \in [Workers -> Job] /\ UNCHANGED obc
  BY DEF TypeInv, ControllerInv, GetItem, kube
<1>2. i.pc = "getClaim" /\ i.key = k
  BY DEF IdleJob
<1>3. job'[w] = i /\ \A v \in Workers : v # w => job'[v] = job[v]
  BY <1>1 DEF GetItem
<1>4. \A v \in Workers : job[v].key # k
  BY DEF GetItem, SingleProcess
<1> HIDE DEF i
<1>5. Apart'
  BY <1>2, <1>3, <1>4 DEF ClaimInv, Apart
<1>6. \A o : JobClaim(i, o)
  BY <1>2, PcFacts DEF JobClaim
<1>7. \A v \in Workers : job'[v].pc # "idle" => JobClaim(job'[v], obc'[job'[v].key])
  BY <1>1, <1>3, <1>6 DEF ClaimInv
<1> QED
  BY <1>1, <1>5, <1>7 DEF ClaimInv

\* While a worker is busy with a claim that is held, users can only edit it and
\* ask for its deletion; a claim that is not held may go and come back.
LEMMA UserClaims ==
    ASSUME TypeInv, ClaimInv, NEW k \in Keys, NEW new,
           obc' = [obc EXCEPT ![k] = new], UNCHANGED job,
           new # None => ClaimSound(new),
           obc[k] # None /\ obc[k].finalizer =>
               SameClaim(new, obc[k]) /\ (obc[k].deleted => new.deleted)
    PROVE  ClaimInv'
<1>1. obc \in [Keys -> Claim \cup {None}]
  BY DEF TypeInv, ClusterTypeOK
<1>2. ASSUME NEW w \in Workers, job[w].pc # "idle"
      PROVE  JobClaim(job[w], obc'[job[w].key])
  <2>1. job[w].key \in Keys /\ JobClaim(job[w], obc[job[w].key])
    BY <1>2 DEF ClaimInv, TypeInv, ControllerInv, JobShape
  <2>2. CASE job[w].key # k
    BY <1>1, <2>1, <2>2
  <2>3. CASE job[w].key = k
    <3>1. obc'[k] = new
      BY <1>1
    <3> QED
      BY <2>1, <2>3, <3>1 DEF JobClaim, SameClaim
  <2> QED
    BY <2>2, <2>3
<1>3. \A l \in Keys : obc'[l] # None => ClaimSound(obc'[l])
  BY <1>1 DEF ClaimInv
<1> QED
  BY <1>2, <1>3 DEF ClaimInv, Apart

LEMMA EnvironmentClaims ==
    ASSUME TypeInv, ClaimInv, EnvironmentStep
    PROVE  ClaimInv'
<1>1. obc \in [Keys -> Claim \cup {None}] /\ UNCHANGED job
  BY DEF TypeInv, ClusterTypeOK, EnvironmentStep
<1>2. ASSUME NEW k \in Keys, NEW r \in Requests, CreateClaim(k, r)
      PROVE  ClaimInv'
  <2> DEFINE new == [uid |-> spent.create + 1, deleted |-> FALSE, finalizer |-> FALSE,
                     class |-> r.class, bucket |-> r.bucket, generate |-> r.generate,
                     config |-> 0, ob |-> None, phase |-> None]
  <2>1. obc' = [obc EXCEPT ![k] = new] /\ obc[k] = None
    BY <1>2 DEF CreateClaim
  <2>2. ClaimSound(new)
    BY NoneAssumption DEF ClaimSound
  <2> QED
    BY <1>1, <2>1, <2>2, UserClaims
<1>3. ASSUME NEW k \in Keys, DeleteClaim(k)
      PROVE  ClaimInv'
  <2> DEFINE new == Deleting(obc[k])
  <2>1. obc' = [obc EXCEPT ![k] = new] /\ obc[k] \in Claim
    BY <1>1, <1>3 DEF DeleteClaim
  <2>2. /\ new # None => ClaimSound(new)
        /\ obc[k].finalizer => SameClaim(new, obc[k]) /\ new.deleted
    <3>1. [obc[k] EXCEPT !.deleted = TRUE] \in Claim
      BY <2>1 DEF Claim
    <3> QED
      BY <2>1, <3>1, NoneAssumption DEF Deleting, Stored, ClaimSound, SameClaim, Claim
  <2> QED
    BY <1>1, <2>1, <2>2, UserClaims
<1>4. ASSUME NEW k \in Keys, EditClaim(k)
      PROVE  ClaimInv'
  <2> DEFINE new == [obc[k] EXCEPT !.config = spent.edit + 1]
  <2>1. obc' = [obc EXCEPT ![k] = new] /\ obc[k] \in Claim
    BY <1>1, <1>4 DEF EditClaim
  <2>2. ClaimSound(obc[k])
    BY <1>4 DEF EditClaim, ClaimInv
  <2>3. new # None
    BY <1>4, EditTypes, NoneAssumption DEF TypeInv
  <2>4. ClaimSound(new) /\ SameClaim(new, obc[k]) /\ new.deleted = obc[k].deleted
    BY <2>1, <2>2, <2>3 DEF Claim, ClaimSound, SameClaim
  <2> QED
    BY <1>1, <2>1, <2>4, UserClaims
<1>5. ASSUME UNCHANGED obc
      PROVE  ClaimInv'
  BY <1>1, <1>5 DEF ClaimInv, Apart
<1> QED
  BY <1>2, <1>3, <1>4, <1>5
  DEF EnvironmentStep, Environment, DeleteClass, CreateClass, Collect

LEMMA FaultClaims ==
    ASSUME TypeInv, ClaimInv, Fault
    PROVE  ClaimInv'
<1>0. job \in [Workers -> Job]
  BY DEF TypeInv, ControllerInv
<1>1. ASSUME NEW w \in Workers, ProvisionError(w) \/ DeprovisionError(w)
      PROVE  ClaimInv'
  <2>1. UNCHANGED obc /\ job' = [job EXCEPT ![w] = IdleJob] /\ job[w].pc # "idle"
    BY <1>1 DEF ProvisionError, DeprovisionError, kube, Requeue, At
  <2> QED
    BY <2>1, ReadClaims
<1>2. ASSUME NEW w \in Workers, ApiError(w)
      PROVE  ClaimInv'
  <2> DEFINE j == job[w]
  <2>1. UNCHANGED obc /\ j \in Job /\ j.pc # "idle" /\ JobClaim(j, obc[j.key])
    BY <1>0, <1>2 DEF ApiError, kube, ClaimInv
  <2>2. CASE Requeue(w)
    BY <2>1, <2>2, ReadClaims DEF Requeue
  <2>3. CASE ~Requeue(w)
    <3>1. /\ j.pc \in Deprovisioning
          /\ job' = [job EXCEPT ![w] = job'[w]]
          /\ job'[w].pc \in Deprovisioning /\ job'[w].key = j.key /\ job'[w].obc = j.obc
      BY <1>0, <1>2, <2>1, <2>3
      DEF ApiError, Continue, SkipOb, Released, Deprovisioning, Unbinding, Job
    <3>2. JobClaim(job'[w], obc[j.key])
      BY <2>1, <3>1, DeprovisioningMove, PcFacts DEF JobClaim
    <3> QED
      BY <2>1, <3>1, <3>2, ReadClaims
  <2> QED
    BY <2>2, <2>3
<1>3. ASSUME NEW i \in Instances, Crash(i)
      PROVE  ClaimInv'
  <2>1. UNCHANGED obc /\ \A v \in Workers : job'[v] = IdleJob \/ job'[v] = job[v]
    BY <1>3 DEF Crash, kube
  <2> QED
    BY <2>1, IdleKey DEF ClaimInv, Apart
<1> QED
  BY <1>1, <1>2, <1>3 DEF Fault

LEMMA InitClaims == Init => ClaimInv
BY IdleKey DEF Init, ClusterInit, ClaimInv, Apart

LEMMA NextClaims ==
    ASSUME SingleProcess
    PROVE  TypeInv /\ ClaimInv /\ [Next]_vars => ClaimInv'
<1> SUFFICES ASSUME TypeInv, ClaimInv, [Next]_vars PROVE ClaimInv'
  OBVIOUS
<1>1. CASE UNCHANGED vars
  BY <1>1 DEF vars, ClaimInv, Apart
<1> QED
  BY <1>1, ProvisionStepClaims, DeleteStepClaims, GetItemClaims, EnvironmentClaims,
     FaultClaims
  DEF Next, WorkerStep

LEMMA ClaimInvariance ==
    ASSUME SingleProcess
    PROVE  Spec => []ClaimInv
<1>1. TypeInv /\ ClaimInv /\ [Next]_vars => ClaimInv'
  BY NextClaims
<1> QED
  BY <1>1, InitClaims, Invariance, PTL DEF Spec

-------------------------------------------------------------------------------
(* Reconciler implements ClaimLifecycle.                                   *)

\* What the abstract specification sees of a stored claim.
View(o) ==
    IF o = None THEN [uid |-> 0, stage |-> "absent", marked |-> FALSE]
    ELSE [uid |-> o.uid, stage |-> Stage(o), marked |-> o.deleted]

Claims == [k \in Keys |-> View(obc[k])]

\* The steps of the abstract specification, for the claim k becoming new.
LEMMA OneClaim ==
    ASSUME TypeInv, NEW k \in Keys, NEW new, obc' = [obc EXCEPT ![k] = new]
    PROVE  Claims' = [Claims EXCEPT ![k] = View(new)]
<1>1. obc \in [Keys -> Claim \cup {None}]
  BY DEF TypeInv, ClusterTypeOK
<1> QED
  BY <1>1 DEF Claims

LEMMA StageValues ==
    ASSUME NEW o \in Claim
    PROVE  /\ o # None
           /\ Stage(o) = IF ~o.finalizer THEN "new"
                         ELSE IF o.phase = "Bound" THEN "bound"
                         ELSE IF o.ob # None THEN "linked" ELSE "held"
BY NoneAssumption DEF Stage, Claim
LEMMA ViewIsMapping ==
    /\ Lifecycle!Init <=> Claims = [k \in Keys |-> View(None)]
    /\ \A k \in Keys :
          /\ \A u \in Uids :
                Lifecycle!Create(k, u) <=>
                    /\ Claims[k] = View(None)
                    /\ Claims' = [Claims EXCEPT ![k] = [uid |-> u, stage |-> "new",
                                                        marked |-> FALSE]]
          /\ Lifecycle!Mark(k) <=>
                /\ Claims[k].stage # "absent"
                /\ ~Claims[k].marked
                /\ \/ /\ Claims[k].stage = "new"
                      /\ Claims' = [Claims EXCEPT ![k] = View(None)]
                   \/ /\ Claims[k].stage # "new"
                      /\ Claims' = [Claims EXCEPT ![k].marked = TRUE]
          /\ \A from, to :
                Lifecycle!Advance(k, from, to) <=>
                    /\ Claims[k].stage = from
                    /\ ~Claims[k].marked
                    /\ Claims' = [Claims EXCEPT ![k].stage = to]
          /\ Lifecycle!Release(k) <=>
                /\ Claims[k].marked
                /\ Claims' = [Claims EXCEPT ![k] = View(None)]
<1>1. Lifecycle!Absent = View(None)
  BY DEF Lifecycle!Absent, View
<1>2. Claims = [k \in Keys |->
                  IF obc[k] = None
                  THEN [uid |-> 0, stage |-> "absent", marked |-> FALSE]
                  ELSE [uid |-> obc[k].uid, stage |-> Stage(obc[k]),
                        marked |-> obc[k].deleted]]
  BY DEF Claims, View
<1>3. Claims' = [k \in Keys |->
                  IF obc'[k] = None
                  THEN [uid |-> 0, stage |-> "absent", marked |-> FALSE]
                  ELSE [uid |-> obc'[k].uid, stage |-> Stage(obc'[k]),
                        marked |-> obc'[k].deleted]]
  BY DEF Claims, View
<1> QED
  BY <1>1, <1>2, <1>3
  DEF Lifecycle!Init, Lifecycle!Create, Lifecycle!Mark, Lifecycle!Advance, Lifecycle!Release
\* The abstract step, if any, that the change of one stored claim is.
LEMMA ChangeOfClaim ==
    ASSUME TypeInv, NEW k \in Keys, NEW new, obc' = [obc EXCEPT ![k] = new],
           \/ View(new) = View(obc[k])
           \/ /\ obc[k] = None
              /\ \E u \in Uids : View(new) = [uid |-> u, stage |-> "new", marked |-> FALSE]
           \/ /\ obc[k] \in Claim /\ ~obc[k].deleted /\ new = Deleting(obc[k])
           \/ /\ obc[k] \in Claim /\ ~obc[k].deleted
              /\ \E p \in {<<"new", "held">>, <<"held", "linked">>, <<"linked", "bound">>} :
                    /\ Stage(obc[k]) = p[1]
                    /\ View(new) = [View(obc[k]) EXCEPT !.stage = p[2]]
           \/ /\ obc[k] \in Claim /\ obc[k].deleted /\ new = None
    PROVE  Lifecycle!Next \/ Claims' = Claims
<1>1. Claims' = [Claims EXCEPT ![k] = View(new)] /\ Claims[k] = View(obc[k])
  BY OneClaim DEF Claims
<1>2. CASE View(new) = View(obc[k])
  BY <1>1, <1>2 DEF Claims
<1>3. CASE /\ obc[k] = None
           /\ \E u \in Uids : View(new) = [uid |-> u, stage |-> "new", marked |-> FALSE]
  BY <1>1, <1>3, ViewIsMapping DEF Lifecycle!Next
<1>4. CASE obc[k] \in Claim /\ ~obc[k].deleted /\ new = Deleting(obc[k])
  <2> DEFINE o == obc[k]
             d == [o EXCEPT !.deleted = TRUE]
  <2>1. View(o) = [uid |-> o.uid, stage |-> Stage(o), marked |-> o.deleted]
        /\ View(o).stage = Stage(o) /\ ~View(o).marked
        /\ Stage(o) # "absent" /\ (Stage(o) = "new" <=> ~o.finalizer)
    BY <1>4, StageValues DEF View
  <2>2. CASE ~o.finalizer
    <3>1. new = None
      BY <1>4, <2>2 DEF Deleting, Stored, Claim
    <3>2. Lifecycle!Mark(k)
      BY <1>1, <2>1, <2>2, <3>1, ViewIsMapping
    <3> QED
      BY <3>2 DEF Lifecycle!Next
  <2>3. CASE o.finalizer
    <3>1. new = d /\ d \in Claim /\ d.uid = o.uid /\ d.deleted = TRUE
          /\ d.finalizer = o.finalizer /\ d.phase = o.phase /\ d.ob = o.ob
      BY <1>4, <2>3 DEF Deleting, Stored, Claim
    <3> HIDE DEF d
    <3>2. Stage(d) = Stage(o)
      BY <1>4, <3>1, StageValues
    <3>3. View(new) = [View(o) EXCEPT !.marked = TRUE]
      <4> DEFINE yes == TRUE
      <4>1. View(d) = [uid |-> d.uid, stage |-> Stage(d), marked |-> d.deleted]
        BY <3>1, StageValues DEF View
      <4>2. d.deleted = yes
        BY <3>1
      <4> HIDE DEF yes
      <4>3. d.uid = o.uid /\ View(o) = [uid |-> o.uid, stage |-> Stage(o), marked |-> o.deleted]
        BY <2>1, <3>1
      <4>4. View(d) = [View(o) EXCEPT !.marked = yes]
        BY <3>2, <4>1, <4>2, <4>3
      <4> QED
        BY <3>1, <4>4 DEF yes
    <3>4. Claims' = [Claims EXCEPT ![k].marked = TRUE]
      BY <1>1, <3>3
    <3>5. Lifecycle!Mark(k)
      BY <1>1, <2>1, <2>3, <3>4, ViewIsMapping
    <3> QED
      BY <3>5 DEF Lifecycle!Next
  <2> QED
    BY <2>2, <2>3, <1>4 DEF Claim
<1>5. ASSUME obc[k] \in Claim, ~obc[k].deleted, NEW from, NEW to,
             Stage(obc[k]) = from, View(new) = [View(obc[k]) EXCEPT !.stage = to]
      PROVE  Lifecycle!Advance(k, from, to)
  <2>1. View(obc[k]).stage = from /\ ~View(obc[k]).marked
    BY <1>5, StageValues DEF View
  <2>2. Claims' = [Claims EXCEPT ![k].stage = to]
    BY <1>1, <1>5
  <2> QED
    BY <1>1, <2>1, <2>2, ViewIsMapping
<1>6. CASE /\ obc[k] \in Claim /\ ~obc[k].deleted
           /\ \E p \in {<<"new", "held">>, <<"held", "linked">>, <<"linked", "bound">>} :
                 /\ Stage(obc[k]) = p[1]
                 /\ View(new) = [View(obc[k]) EXCEPT !.stage = p[2]]
  BY <1>5, <1>6
  DEF Lifecycle!Next, Lifecycle!Hold, Lifecycle!Link, Lifecycle!Bind
<1>7. CASE obc[k] \in Claim /\ obc[k].deleted /\ new = None
  <2>1. View(obc[k]).marked
    BY <1>7, StageValues DEF View
  <2> QED
    BY <1>1, <1>7, <2>1, ViewIsMapping DEF Lifecycle!Next
<1> QED
  BY <1>2, <1>3, <1>4, <1>6, <1>7

\* A claim that is not marked keeps its stage or reaches the next one.
LEMMA ForwardOfClaim ==
    ASSUME TypeInv, NEW k \in Keys, obc[k] \in Claim, ~obc[k].deleted, NEW new \in Claim,
           obc' = [obc EXCEPT ![k] = new], new.uid = obc[k].uid, new.deleted = obc[k].deleted,
           \/ Stage(new) = Stage(obc[k])
           \/ <<Stage(obc[k]), Stage(new)>> \in
                 {<<"new", "held">>, <<"held", "linked">>, <<"linked", "bound">>}
    PROVE  Lifecycle!Next \/ Claims' = Claims
<1> DEFINE o == obc[k]
<1>1. /\ View(o) = [uid |-> o.uid, stage |-> Stage(o), marked |-> o.deleted]
      /\ View(new) = [uid |-> o.uid, stage |-> Stage(new), marked |-> o.deleted]
  BY StageValues DEF View
<1>2. View(new) = [View(o) EXCEPT !.stage = Stage(new)]
  BY <1>1
<1>3. CASE Stage(new) = Stage(o)
  BY <1>1, <1>3, ChangeOfClaim
<1>4. CASE <<Stage(o), Stage(new)>> \in
              {<<"new", "held">>, <<"held", "linked">>, <<"linked", "bound">>}
  <2>1. \E p \in {<<"new", "held">>, <<"held", "linked">>, <<"linked", "bound">>} :
           Stage(o) = p[1] /\ View(new) = [View(o) EXCEPT !.stage = p[2]]
    BY <1>2, <1>4
  <2> QED
    BY <2>1, ChangeOfClaim
<1> QED
  BY <1>3, <1>4

\* A worker's update of a claim: only setOBCMetaFields, the link to the OB and the
\* phase Bound show, each at most once, and all of them on a claim that is not
\* marked.
LEMMA UpdateLifecycle ==
    ASSUME TypeInv, ClaimInv, NEW w \in Workers, NEW pc \in Provisioning, NEW new \in Claim,
           NEW next, UpdateClaim(w, pc, new, next),
           new.uid = job[w].obc.uid, new.deleted = job[w].obc.deleted,
           \/ Stage(new) = Stage(job[w].obc)
           \/ <<Stage(job[w].obc), Stage(new)>> \in
                 {<<"new", "held">>, <<"held", "linked">>, <<"linked", "bound">>}
    PROVE  Lifecycle!Next \/ Claims' = Claims
<1> DEFINE k == job[w].key
<1>1. k \in Keys /\ job[w].obc \in Claim /\ ~job[w].obc.deleted
  BY PcFacts DEF UpdateClaim, At, TypeInv, ControllerInv, JobShape, ClaimInv, JobClaim
<1>2. CASE UNCHANGED obc
  BY <1>2 DEF Claims
<1>3. CASE obc[k] = job[w].obc /\ obc' = [obc EXCEPT ![k] = new]
  BY <1>1, <1>3, ForwardOfClaim
<1> QED
  BY <1>2, <1>3 DEF UpdateClaim

LEMMA WorkerLifecycle ==
    ASSUME TypeInv, ClaimInv, NEW w \in Workers, WorkerStep(w)
    PROVE  Lifecycle!Next \/ Claims' = Claims
<1> DEFINE j == job[w]
<1>1. j \in Job /\ JobShape(j) /\ (j.pc # "idle" => JobClaim(j, obc[j.key]))
  BY DEF TypeInv, ControllerInv, ClaimInv
<1>2. {"setPending", "setMeta", "saveName", "bindClaim", "setBound"} \subseteq Provisioning
      /\ {"saveName", "bindClaim", "setBound"} \subseteq Held
  BY DEF Held, Provisioning, Naming, Binding
<1> USE DEF At
<1>3. CASE SetPending(w)
  <2> DEFINE new == [j.obc EXCEPT !.phase = "Pending"]
  <2>1. j.obc \in Claim /\ j.obc.phase = None
    BY <1>1, <1>3 DEF SetPending, UpdateClaim, JobShape, JobClaim
  <2>2. new \in Claim /\ new.uid = j.obc.uid /\ new.deleted = j.obc.deleted
        /\ new.finalizer = j.obc.finalizer /\ new.ob = j.obc.ob /\ new.phase = "Pending"
    BY <2>1 DEF Claim
  <2> HIDE DEF new
  <2>3. Stage(new) = Stage(j.obc)
    BY <2>1, <2>2, StageValues, NoneAssumption
  <2> QED
    BY <1>2, <1>3, <2>2, <2>3, UpdateLifecycle DEF SetPending, new
<1>4. CASE SetMeta(w)
  <2> DEFINE new == addFinalizers(j.obc)
  <2>1. j.obc \in Claim /\ ClaimSound(j.obc)
    BY <1>1, <1>4 DEF SetMeta, UpdateClaim, JobShape, JobClaim
  <2>2. new \in Claim /\ new.uid = j.obc.uid /\ new.deleted = j.obc.deleted
        /\ new.finalizer /\ new.ob = j.obc.ob /\ new.phase = j.obc.phase
    BY <2>1 DEF Claim, addFinalizers
  <2> HIDE DEF new
  <2>3. Stage(new) = Stage(j.obc) \/ (Stage(j.obc) = "new" /\ Stage(new) = "held")
    BY <2>1, <2>2, StageValues DEF ClaimSound
  <2> QED
    BY <1>2, <1>4, <2>2, <2>3, UpdateLifecycle DEF SetMeta, new
<1>5. CASE SaveName(w)
  <2> DEFINE new == [j.obc EXCEPT !.bucket = j.name]
  <2>1. j.obc \in Claim /\ j.name \in Buckets
    BY <1>1, <1>5 DEF SaveName, UpdateClaim, JobShape, Naming
  <2>2. new \in Claim /\ new.uid = j.obc.uid /\ new.deleted = j.obc.deleted
        /\ new.finalizer = j.obc.finalizer /\ new.ob = j.obc.ob /\ new.phase = j.obc.phase
    BY <2>1 DEF Claim
  <2> HIDE DEF new
  <2>3. Stage(new) = Stage(j.obc)
    BY <2>1, <2>2, StageValues
  <2> QED
    BY <1>2, <1>5, <2>2, <2>3, UpdateLifecycle DEF SaveName, new
<1>6. CASE BindClaim(w)
  <2> DEFINE n == ObjectBucketName(j.key)
             new == [j.obc EXCEPT !.ob = n, !.bucket = j.name]
  <2>1. j.obc \in Claim /\ j.name \in Buckets /\ n \in ObNames /\ j.obc.finalizer
    BY <1>1, <1>2, <1>6
    DEF BindClaim, UpdateClaim, JobShape, Binding, ObNames, JobClaim
  <2> HIDE DEF n
  <2>2. new \in Claim /\ new.uid = j.obc.uid /\ new.deleted = j.obc.deleted
        /\ new.finalizer = j.obc.finalizer /\ new.ob # None /\ new.phase = j.obc.phase
    BY <2>1, NoneAssumption DEF Claim
  <2> HIDE DEF new
  <2>3. Stage(new) = Stage(j.obc) \/ (Stage(j.obc) = "held" /\ Stage(new) = "linked")
    BY <2>1, <2>2, StageValues
  <2> QED
    BY <1>2, <1>6, <2>2, <2>3, UpdateLifecycle DEF BindClaim, new, n
<1>7. CASE SetBound(w)
  <2> DEFINE new == [j.obc EXCEPT !.phase = "Bound"]
  <2>1. j.obc \in Claim /\ j.obc.finalizer /\ j.obc.ob # None
    BY <1>1, <1>2, <1>7 DEF SetBound, UpdateClaim, JobShape, JobClaim
  <2>2. new \in Claim /\ new.uid = j.obc.uid /\ new.deleted = j.obc.deleted
        /\ new.finalizer = j.obc.finalizer /\ new.phase = "Bound"
    BY <2>1 DEF Claim
  <2> HIDE DEF new
  <2>3. Stage(new) = Stage(j.obc) \/ (Stage(j.obc) = "linked" /\ Stage(new) = "bound")
    BY <2>1, <2>2, StageValues
  <2> QED
    BY <1>2, <1>7, <2>2, <2>3, UpdateLifecycle DEF SetBound, new
<1>8. CASE DropClaimFinalizer(w)
  <2>1. j.key \in Keys /\ j.pc = "dropClaimFinalizer"
    BY <1>1, <1>8 DEF DropClaimFinalizer, JobShape
  <2>2. obc[j.key] # None /\ obc[j.key].deleted /\ obc[j.key] \in Claim
    BY <1>1, <2>1 DEF JobClaim, Deprovisioning, TypeInv, ClusterTypeOK
  <2>3. CASE obc[j.key] = j.obc /\ obc' = [obc EXCEPT ![j.key] = removeFinalizer(j.obc)]
    <3>1. removeFinalizer(j.obc) = None
      BY <2>2, <2>3 DEF removeFinalizer, Stored, Claim
    <3> QED
      BY <2>1, <2>2, <2>3, <3>1, ChangeOfClaim
  <2>4. CASE UNCHANGED obc
    BY <2>4 DEF Claims
  <2> QED
    BY <1>8, <2>3, <2>4 DEF DropClaimFinalizer
<1>9. CASE UNCHANGED obc
  BY <1>9 DEF Claims
<1> QED
  BY <1>3, <1>4, <1>5, <1>6, <1>7, <1>8, <1>9
  DEF WorkerStep, ProvisionStep, DeleteStep, GetClaim, GetClass, GetOb, Provision, Grant,
      CreateArtifact, UpdateArtifact, ClaimRef, CreateOb, GetCurrentOb, UpdateOb, ObBound,
      ReplaceOb, FindOb, FindCm, FindSecret, MarkReleased, GetObClass, Delete, Revoke,
      DropObFinalizer, DeleteOb, GetArtifact, DropFinalizer, GetClaimToRelease, kube

LEMMA EnvironmentLifecycle ==
    ASSUME TypeInv, EnvironmentStep
    PROVE  Lifecycle!Next \/ Claims' = Claims
<1>1. obc \in [Keys -> Claim \cup {None}]
  BY DEF TypeInv, ClusterTypeOK
<1>2. ASSUME NEW k \in Keys, NEW r \in Requests, CreateClaim(k, r)
      PROVE  Lifecycle!Next \/ Claims' = Claims
  <2> DEFINE new == [uid |-> spent.create + 1, deleted |-> FALSE, finalizer |-> FALSE,
                     class |-> r.class, bucket |-> r.bucket, generate |-> r.generate,
                     config |-> 0, ob |-> None, phase |-> None]
  <2>1. obc' = [obc EXCEPT ![k] = new] /\ obc[k] = None
    BY <1>2 DEF CreateClaim
  <2>2. new \in Claim
    BY <1>2, CreateTypes DEF TypeInv
  <2>3. new.uid \in Uids /\ ~new.finalizer /\ ~new.deleted
    BY <2>2 DEF Claim
  <2> HIDE DEF new
  <2>4. View(new) = [uid |-> new.uid, stage |-> "new", marked |-> FALSE]
    BY <2>2, <2>3, StageValues DEF View, Claim
  <2> QED
    BY <2>1, <2>3, <2>4, ChangeOfClaim
<1>3. ASSUME NEW k \in Keys, DeleteClaim(k)
      PROVE  Lifecycle!Next \/ Claims' = Claims
  BY <1>1, <1>3, ChangeOfClaim DEF DeleteClaim
<1>4. ASSUME NEW k \in Keys, EditClaim(k)
      PROVE  Lifecycle!Next \/ Claims' = Claims
  <2> DEFINE new == [obc[k] EXCEPT !.config = spent.edit + 1]
  <2>1. obc' = [obc EXCEPT ![k] = new] /\ obc[k] \in Claim /\ new \in Claim
    BY <1>1, <1>4, EditTypes DEF EditClaim, TypeInv
  <2>2. /\ new.uid = obc[k].uid /\ new.deleted = obc[k].deleted /\ new.ob = obc[k].ob
        /\ new.finalizer = obc[k].finalizer /\ new.phase = obc[k].phase
    BY <2>1 DEF Claim
  <2> HIDE DEF new
  <2>3. View(new) = View(obc[k])
    BY <2>1, <2>2, StageValues DEF View
  <2> QED
    BY <2>1, <2>3, ChangeOfClaim
<1>5. CASE UNCHANGED obc
  BY <1>5 DEF Claims
<1> QED
  BY <1>2, <1>3, <1>4, <1>5
  DEF EnvironmentStep, Environment, DeleteClass, CreateClass, Collect

\* With a single controller process, whatever its workers, users, the garbage
\* collector, crashes and failing calls do, every stored claim goes through its
\* life in order: held by the finalizer before it is linked to an OB, linked before
\* it is Bound, never back, no further once it is marked for deletion, and gone,
\* once held, only after it was marked.
THEOREM LifecycleImplemented ==
    ASSUME SingleProcess
    PROVE  Spec => ClaimContract
<1>1. Init => Lifecycle!Init
  <2> SUFFICES ASSUME Init PROVE Lifecycle!Init
    OBVIOUS
  <2> QED
    BY ViewIsMapping DEF Init, ClusterInit, Claims
<1>2. TypeInv /\ ClaimInv /\ [Next]_vars => Lifecycle!Next \/ Claims' = Claims
  <2> SUFFICES ASSUME TypeInv, ClaimInv, [Next]_vars
               PROVE  Lifecycle!Next \/ Claims' = Claims
    OBVIOUS
  <2>1. CASE UNCHANGED obc
    BY <2>1 DEF Claims
  <2> QED
    BY <2>1, WorkerLifecycle, EnvironmentLifecycle
    DEF Next, GetItem, Fault, ProvisionError, DeprovisionError, ApiError, Crash, kube, vars
<1>3. TypeInv /\ ClaimInv /\ [Next]_vars =>
          [Lifecycle!Next]_([k \in Keys |->
                 IF obc[k] = None
                 THEN [uid |-> 0, stage |-> "absent", marked |-> FALSE]
                 ELSE [uid |-> obc[k].uid, stage |-> Stage(obc[k]),
                       marked |-> obc[k].deleted]])
  BY <1>2 DEF Claims, View
<1>4. Spec => []ClaimInv
  BY ClaimInvariance
<1> QED
  BY <1>1, <1>3, <1>4, Invariance, PTL DEF Spec, ClaimContract, Lifecycle!Spec
===============================================================================
