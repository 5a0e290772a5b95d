----------------------------- MODULE OrphanProofs -----------------------------
(***************************************************************************)
(* With a single controller process, nothing that was created for a claim  *)
(* outlives it, unless an API call failed: a proof for any number of       *)
(* claims, workers, crashes and failures of the provisioner.               *)
(***************************************************************************)
EXTENDS LifecycleProofs

\* No two claims share the name of their OB.
ObNamesUnique ==
    \A k, l \in Keys : ObjectBucketName(k) = ObjectBucketName(l) => k = l

-------------------------------------------------------------------------------
(* What a step of one worker cannot reach.                                 *)

\* The part of handleDeleteClaim in which a job has looked for the OB already.
Cleaning == Deprovisioning \ {"findOb"}

LEMMA CleaningFacts ==
    /\ Cleaning \cap (Provisioning \cup {"idle", "getClaim", "getClass", "findOb"}) = {}
    /\ Cleaning \subseteq Deprovisioning
BY DEF Cleaning, Deprovisioning, Provisioning, Naming, Artifacts, Binding, Unbinding

\* A step moves one worker, which goes on with the same key or is done with it.
LEMMA ProvisionStepJob ==
    ASSUME TypeInv, NEW w \in Workers, ProvisionStep(w)
    PROVE  /\ job[w].pc # "idle" /\ job[w].key \in Keys
           /\ job' = [job EXCEPT ![w] = job'[w]]
           /\ \/ job'[w] = IdleJob
              \/ job'[w].key = job[w].key /\ job'[w].pc \notin Cleaning
<1> DEFINE j == job[w]
           Goes == /\ j.pc # "idle"
                   /\ job' = [job EXCEPT ![w] = job'[w]]
                   /\ \/ job'[w] = IdleJob
                      \/ job'[w].key = j.key /\ job'[w].pc \notin Cleaning
<1>1. job \in [Workers -> Job] /\ j \in Job /\ JobShape(j)
  BY DEF TypeInv, ControllerInv
<1> SUFFICES Goes
  BY <1>1 DEF JobShape
<1> USE DEF At
<1>2. ASSUME j.pc # "idle", Requeue(w) \/ Done(w) PROVE Goes
  BY <1>1, <1>2 DEF Requeue, Done
<1>3. ASSUME j.pc # "idle", NEW i, Continue(w, i) \/ job' = [job EXCEPT ![w] = i],
             i.key = j.key, i.pc \notin Cleaning
      PROVE  Goes
  BY <1>1, <1>3 DEF Continue
<1>4. ASSUME j.pc # "idle", NEW pc, pc \notin Cleaning, NEW b, NEW base, NEW o, NEW n, NEW c,
             \/ Continue(w, [j EXCEPT !.pc = pc])
             \/ Continue(w, [j EXCEPT !.pc = pc, !.obc = o])
             \/ job' = [job EXCEPT ![w] = [j EXCEPT !.pc = pc, !.obc = o]]
             \/ Continue(w, [j EXCEPT !.pc = pc, !.class = c])
             \/ Continue(w, [j EXCEPT !.pc = pc, !.name = n])
             \/ Continue(w, [j EXCEPT !.pc = pc, !.ob = b])
             \/ Continue(w, [j EXCEPT !.pc = pc, !.base = base])
             \/ Continue(w, [j EXCEPT !.pc = pc, !.ob = b, !.base = base])
      PROVE  Goes
  <2>1. [j EXCEPT !.pc = pc].key = j.key /\ [j EXCEPT !.pc = pc].pc = pc
    BY <1>1 DEF Job
  <2>2. /\ [j EXCEPT !.pc = pc, !.obc = o].key = j.key
        /\ [j EXCEPT !.pc = pc, !.obc = o].pc = pc
    BY <1>1 DEF Job
  <2>3. /\ [j EXCEPT !.pc = pc, !.class = c].key = j.key
        /\ [j EXCEPT !.pc = pc, !.class = c].pc = pc
    BY <1>1 DEF Job
  <2>4. /\ [j EXCEPT !.pc = pc, !.name = n].key = j.key
        /\ [j EXCEPT !.pc = pc, !.name = n].pc = pc
    BY <1>1 DEF Job
  <2>5. /\ [j EXCEPT !.pc = pc, !.ob = b].key = j.key
        /\ [j EXCEPT !.pc = pc, !.ob = b].pc = pc
    BY <1>1 DEF Job
  <2>6. /\ [j EXCEPT !.pc = pc, !.base = base].key = j.key
        /\ [j EXCEPT !.pc = pc, !.base = base].pc = pc
    BY <1>1 DEF Job
  <2>7. /\ [j EXCEPT !.pc = pc, !.ob = b, !.base = base].key = j.key
        /\ [j EXCEPT !.pc = pc, !.ob = b, !.base = base].pc = pc
    BY <1>1 DEF Job
  <2> QED
    BY <1>3, <1>4, <2>1, <2>2, <2>3, <2>4, <2>5, <2>6, <2>7
<1>5. /\ "getClass" \notin Cleaning /\ "findOb" \notin Cleaning /\ "setPending" \notin Cleaning
      /\ "setMeta" \notin Cleaning /\ "getOb" \notin Cleaning /\ "saveName" \notin Cleaning
      /\ "provision" \notin Cleaning /\ "createSecret" \notin Cleaning
      /\ "updateSecret" \notin Cleaning /\ "createCm" \notin Cleaning
      /\ "updateCm" \notin Cleaning /\ "claimRef" \notin Cleaning
      /\ "createOb" \notin Cleaning /\ "getCurrentOb" \notin Cleaning
      /\ "updateOb" \notin Cleaning /\ "obBound" \notin Cleaning
      /\ "bindClaim" \notin Cleaning /\ "setBound" \notin Cleaning
  BY DEF Cleaning, Deprovisioning, Unbinding
<1> HIDE DEF Goes
<1>6. CASE GetClaim(w)
  BY <1>2, <1>4, <1>5, <1>6 DEF GetClaim
<1>7. CASE GetClass(w)
  <2>1. j.obc \in Claim /\ j.pc = "getClass"
    BY <1>1, <1>7 DEF GetClass, JobShape
  <2>2. AfterClass(j.obc) \notin Cleaning
    BY <1>5, <2>1 DEF AfterClass, Claim
  <2> QED
    BY <1>2, <1>4, <1>7, <2>1, <2>2 DEF GetClass
<1>8. CASE SetPending(w) \/ SetMeta(w)
  BY <1>2, <1>4, <1>5, <1>8 DEF UpdateClaim, SetPending, SetMeta
<1>9. CASE SaveName(w) \/ BindClaim(w)
  BY <1>2, <1>4, <1>5, <1>9 DEF UpdateClaim, SaveName, BindClaim
<1>10. CASE SetBound(w)
  BY <1>1, <1>2, <1>10 DEF SetBound, UpdateClaim, Goes
<1>11. CASE GetOb(w)
  BY <1>2, <1>4, <1>5, <1>11 DEF GetOb
<1>12. CASE Provision(w) \/ Grant(w)
  BY <1>2, <1>4, <1>5, <1>12 DEF Provision, Grant
<1>13. ASSUME NEW kind \in Kinds, CreateArtifact(w, kind) \/ UpdateArtifact(w, kind)
       PROVE  Goes
  <2>1. /\ CreatePc[kind] # "idle" /\ UpdatePc[kind] # "idle"
        /\ AfterPc[kind] \notin Cleaning /\ UpdatePc[kind] \notin Cleaning
    BY <1>5 DEF CreatePc, UpdatePc, AfterPc, Kinds
  <2> QED
    BY <1>2, <1>4, <1>13, <2>1 DEF CreateArtifact, UpdateArtifact
<1>14. CASE ClaimRef(w)
  BY <1>2, <1>4, <1>5, <1>14 DEF ClaimRef, ContinueIfFound
<1>15. CASE CreateOb(w) \/ GetCurrentOb(w)
  BY <1>2, <1>4, <1>5, <1>15 DEF CreateOb, GetCurrentOb, ContinueIfFound
<1>16. CASE UpdateOb(w) \/ ObBound(w)
  BY <1>2, <1>4, <1>5, <1>16 DEF UpdateOb, ObBound, ReplaceOb
<1> QED
  BY <1>6, <1>7, <1>8, <1>9, <1>10, <1>11, <1>12, <1>13, <1>14, <1>15, <1>16 DEF ProvisionStep

LEMMA DeleteStepJob ==
    ASSUME TypeInv, NEW w \in Workers, DeleteStep(w)
    PROVE  /\ job[w].pc # "idle" /\ job[w].key \in Keys
           /\ job' = [job EXCEPT ![w] = job'[w]]
           /\ job'[w] = IdleJob \/ job'[w].key = job[w].key
<1> DEFINE j == job[w]
<1>1. job \in [Workers -> Job] /\ j \in Job /\ JobShape(j)
  BY DEF TypeInv, ControllerInv
<1>2. CASE CleanupStep(w)
  BY <1>1, <1>2, CleanupStepJob, PcFacts DEF JobShape
<1>3. CASE GetClaimToRelease(w) \/ DropClaimFinalizer(w)
  <2>1. j.pc # "idle"
    BY <1>3 DEF GetClaimToRelease, DropClaimFinalizer, At
  <2>2. \/ job' = [job EXCEPT ![w] = IdleJob]
        \/ job' = [job EXCEPT ![w] = [j EXCEPT !.pc = "dropClaimFinalizer", !.obc = obc[j.key]]]
    BY <1>3
    DEF GetClaimToRelease, DropClaimFinalizer, ContinueIfFound, Continue, Requeue
  <2>3. [j EXCEPT !.pc = "dropClaimFinalizer", !.obc = obc[j.key]].key = j.key
    BY <1>1 DEF Job
  <2> QED
    BY <1>1, <2>1, <2>2, <2>3 DEF JobShape
<1> QED
  BY <1>2, <1>3 DEF DeleteStep, CleanupStep

\* What belongs to the other claims stays as it is.
LEMMA StepFrame ==
    ASSUME TypeInv, ObNamesUnique, NEW w \in Workers, WorkerStep(w),
           NEW l \in Keys, l # job[w].key
    PROVE  /\ obc'[l] = obc[l]
           /\ ob'[ObjectBucketName(l)] = ob[ObjectBucketName(l)]
           /\ \A kind \in Kinds : artifact'[kind][l] = artifact[kind][l]
<1> DEFINE k == job[w].key
           n == ObjectBucketName(k)
<1>1. job[w].pc # "idle" /\ k \in Keys
  BY ProvisionStepJob, DeleteStepJob DEF WorkerStep
<1>2. /\ obc \in [Keys -> Claim \cup {None}]
      /\ ob \in [ObNames -> ObjectBucket \cup {None}]
      /\ artifact \in [Kinds -> [Keys -> Artifact \cup {None}]]
      /\ ObjectBucketName(l) \in ObNames /\ n \in ObNames /\ ObjectBucketName(l) # n
  BY <1>1 DEF TypeInv, ClusterTypeOK, ObNames, ObNamesUnique
<1>3. UNCHANGED obc \/ \E new : obc' = [obc EXCEPT ![k] = new]
  BY DEF WorkerStep, ProvisionStep, DeleteStep, GetClaim, GetClass, SetPending, SetMeta, GetOb,
         SaveName, Provision, Grant, CreateArtifact, UpdateArtifact, ClaimRef, CreateOb,
         GetCurrentOb, UpdateOb, ObBound, ReplaceOb, BindClaim, SetBound, UpdateClaim, FindOb,
         FindCm, FindSecret, MarkReleased, GetObClass, Delete, Revoke, DropObFinalizer,
         DeleteOb, GetArtifact, DropFinalizer, GetClaimToRelease, DropClaimFinalizer, kube
<1>4. UNCHANGED ob \/ \E new : ob' = [ob EXCEPT ![n] = new]
  BY DEF WorkerStep, ProvisionStep, DeleteStep, GetClaim, GetClass, SetPending, SetMeta, GetOb,
         SaveName, Provision, Grant, CreateArtifact, UpdateArtifact, ClaimRef, CreateOb,
         GetCurrentOb, UpdateOb, ObBound, ReplaceOb, BindClaim, SetBound, UpdateClaim, FindOb,
         FindCm, FindSecret, MarkReleased, GetObClass, Delete, Revoke, DropObFinalizer,
         DeleteOb, GetArtifact, DropFinalizer, GetClaimToRelease, DropClaimFinalizer, kube
<1>5. \/ UNCHANGED artifact
      \/ \E kind \in Kinds : \E new : artifact' = [artifact EXCEPT ![kind][k] = new]
  <2>1. Current(job[w]) \in Kinds
    BY DEF Current, Kinds
  <2> QED
    BY <2>1
    DEF WorkerStep, ProvisionStep, DeleteStep, GetClaim, GetClass, SetPending, SetMeta, GetOb,
         SaveName, Provision, Grant, CreateArtifact, UpdateArtifact, ClaimRef, CreateOb,
         GetCurrentOb, UpdateOb, ObBound, ReplaceOb, BindClaim, SetBound, UpdateClaim, FindOb,
         FindCm, FindSecret, MarkReleased, GetObClass, Delete, Revoke, DropObFinalizer,
         DeleteOb, GetArtifact, DropFinalizer, GetClaimToRelease, DropClaimFinalizer, kube
<1> QED
  BY <1>1, <1>2, <1>3, <1>4, <1>5

-------------------------------------------------------------------------------
(* The inductive invariant.                                                *)

Guarded(a) == a # None /\ a.finalizer

\* The claim o is there and held, and it is the one with this uid.
Holds(o, uid) == o # None /\ o.finalizer /\ o.uid = uid

\* The secret and the configmap under key k, in a map of all of them.
ArtifactsOf(all, k) == [kind \in Kinds |-> all[kind][k]]

\* A job of handleDeleteClaim and what it has to clean up: the OB b and the secret
\* and configmap, a[kind], of its claim.  What it found is still what is there, and
\* what it did not find, or has dealt with, is not guarded.
Cleanup(j, b, a) ==
    /\ j.pc \in {"findCm", "findSecret"} \cup (Unbinding \ {"deleteOb"}) => j.ob = b
    /\ j.pc = "deleteOb" => ~Guarded(b)
    /\ j.pc \in {"release", "dropFinalizer", "dropClaimFinalizer"} => b = None
    /\ j.pc = "findSecret" => (Guarded(a["cm"]) => "cm" \in j.found)
    /\ j.pc \in Unbinding \cup {"release", "dropFinalizer", "dropClaimFinalizer"}
          => \A kind \in Kinds : Guarded(a[kind]) => kind \in j.found
    /\ j.pc = "dropFinalizer" =>
          /\ j.found # {}
          /\ Guarded(a[Current(j)]) => a[Current(j)] = j.base
    /\ j.pc = "dropClaimFinalizer" => j.found = {}

\* What is stored for a claim with key k belongs to the stored claim.
Owned(o, b, a) ==
    /\ \A kind \in Kinds : Guarded(a[kind]) => Holds(o, a[kind].owner)
    /\ b # None => Holds(o, b.claim)

OrphanInv ==
    /\ \A k \in Keys : Owned(obc[k], ob[ObjectBucketName(k)], ArtifactsOf(artifact, k))
    /\ \A w \in Workers :
          job[w].pc # "idle" =>
              Cleanup(job[w], ob[ObjectBucketName(job[w].key)], ArtifactsOf(artifact, job[w].key))

LEMMA NothingToClean ==
    ASSUME NEW j, NEW b, NEW a, j.pc \notin Cleaning
    PROVE  Cleanup(j, b, a)
BY DEF Cleanup, Cleaning, Deprovisioning, Unbinding

\* A step of worker w disturbs what concerns its own claim only.
LEMMA WorkerOrphans ==
    ASSUME TypeInv, ClaimInv, OrphanInv, ObNamesUnique, NEW w \in Workers, WorkerStep(w),
           LET k == job[w].key
               b == ob'[ObjectBucketName(k)]
           IN  /\ Owned(obc'[k], b, ArtifactsOf(artifact', k))
               /\ job'[w].pc \in Cleaning => Cleanup(job'[w], b, ArtifactsOf(artifact', k))
    PROVE  OrphanInv'
<1> DEFINE k == job[w].key
<1>1. /\ job[w].pc # "idle" /\ k \in Keys
      /\ job' = [job EXCEPT ![w] = job'[w]]
      /\ job'[w] = IdleJob \/ job'[w].key = k
  BY ProvisionStepJob, DeleteStepJob DEF WorkerStep
<1>2. \A l \in Keys : l # k => /\ obc'[l] = obc[l]
                               /\ ob'[ObjectBucketName(l)] = ob[ObjectBucketName(l)]
                               /\ ArtifactsOf(artifact', l) = ArtifactsOf(artifact, l)
  BY StepFrame DEF ArtifactsOf
<1>3. \A l \in Keys : Owned(obc'[l], ob'[ObjectBucketName(l)], ArtifactsOf(artifact', l))
  BY <1>2 DEF OrphanInv
<1>4. ASSUME NEW v \in Workers, job'[v].pc # "idle"
      PROVE  Cleanup(job'[v], ob'[ObjectBucketName(job'[v].key)], ArtifactsOf(artifact', job'[v].key))
  <2>1. CASE v = w
    BY <1>1, <1>4, <2>1, IdleKey, NothingToClean
  <2>2. CASE v # w
    <3>1. job'[v] = job[v]
      BY <1>1, <2>2 DEF TypeInv, ControllerInv
    <3>2. job[v].key \in Keys /\ job[v].key # k
      BY <1>1, <1>4, <2>2, <3>1, NoneAssumption
      DEF ClaimInv, Apart, TypeInv, ControllerInv, JobShape
    <3> QED
      BY <1>2, <1>4, <3>1, <3>2 DEF OrphanInv
  <2> QED
    BY <2>1, <2>2
<1> QED
  BY <1>3, <1>4 DEF OrphanInv

LEMMA ProvisionStepOrphans ==
    ASSUME TypeInv, ClaimInv, OrphanInv, ObNamesUnique, NEW w \in Workers, ProvisionStep(w)
    PROVE  OrphanInv'
<1> DEFINE j == job[w]
           k == j.key
           n == ObjectBucketName(k)
           o == obc[k]
<1>1. /\ j \in Job /\ JobShape(j) /\ j.pc # "idle" /\ k \in Keys /\ n \in ObNames
      /\ JobClaim(j, o) /\ Owned(o, ob[n], ArtifactsOf(artifact, k))
      /\ obc \in [Keys -> Claim \cup {None}]
      /\ ob \in [ObNames -> ObjectBucket \cup {None}]
      /\ artifact \in [Kinds -> [Keys -> Artifact \cup {None}]]
  BY ProvisionStepJob
  DEF TypeInv, ControllerInv, ClaimInv, OrphanInv, ClusterTypeOK, ObNames
<1>2. job'[w].pc \notin Cleaning
  BY ProvisionStepJob, IdleKey, CleaningFacts
<1> SUFFICES Owned(obc'[k], ob'[n], ArtifactsOf(artifact', k))
  BY <1>2, WorkerOrphans DEF WorkerStep
<1>3. CASE UNCHANGED <<obc, ob, artifact>>
  BY <1>1, <1>3 DEF ArtifactsOf
\* What the job creates belongs to the claim it holds.
<1>4. ASSUME j.pc \in Held
      PROVE  Holds(o, j.obc.uid)
  BY <1>1, <1>4, PcFacts DEF JobClaim, SameClaim, Holds
<1>5. ASSUME NEW pc, NEW new, NEW next, UpdateClaim(w, pc, new, next),
             new.uid = j.obc.uid, j.obc.finalizer => new.finalizer, new # None
      PROVE  Owned(obc'[k], ob'[n], ArtifactsOf(artifact', k))
  <2>1. UNCHANGED <<ob, artifact>>
    BY <1>5 DEF UpdateClaim
  <2>2. obc'[k] = o \/ (o = j.obc /\ obc'[k] = new)
    BY <1>1, <1>5 DEF UpdateClaim
  <2> QED
    BY <1>1, <1>5, <2>1, <2>2 DEF Owned, Holds, ArtifactsOf
<1> USE DEF At
<1>6. CASE SetPending(w) \/ SetMeta(w) \/ SaveName(w) \/ BindClaim(w) \/ SetBound(w)
  <2>1. j.obc \in Claim
    BY <1>1, <1>6
    DEF SetPending, SetMeta, SaveName, BindClaim, SetBound, UpdateClaim, JobShape
  <2>2. ASSUME NEW x \in {"Pending", "Bound"}
        PROVE  LET new == [j.obc EXCEPT !.phase = x]
               IN  new # None /\ new.uid = j.obc.uid /\ new.finalizer = j.obc.finalizer
    <3>1. [j.obc EXCEPT !.phase = x] \in Claim
      BY <2>1 DEF Claim
    <3> QED
      BY <2>1, <3>1, NoneAssumption DEF Claim
  <2>3. CASE SetPending(w)
    BY <1>5, <2>2, <2>3 DEF SetPending
  <2>4. CASE SetMeta(w)
    <3>1. addFinalizers(j.obc) \in Claim
      BY <2>1 DEF Claim, addFinalizers
    <3>2. /\ addFinalizers(j.obc) # None /\ addFinalizers(j.obc).uid = j.obc.uid
          /\ addFinalizers(j.obc).finalizer
      BY <2>1, <3>1, NoneAssumption DEF Claim, addFinalizers
    <3> QED
      BY <1>5, <2>4, <3>2 DEF SetMeta
  <2>5. CASE SaveName(w)
    <3> DEFINE new == [j.obc EXCEPT !.bucket = j.name]
    <3>1. j.name \in Buckets
      BY <1>1, <2>5 DEF SaveName, UpdateClaim, JobShape, Naming
    <3>2. new \in Claim
      BY <2>1, <3>1 DEF Claim
    <3>3. new # None /\ new.uid = j.obc.uid /\ new.finalizer = j.obc.finalizer
      BY <2>1, <3>2, NoneAssumption DEF Claim
    <3> QED
      BY <1>5, <2>5, <3>3 DEF SaveName
  <2>6. CASE BindClaim(w)
    <3> DEFINE new == [j.obc EXCEPT !.ob = n, !.bucket = j.name]
    <3>1. j.name \in Buckets
      BY <1>1, <2>6 DEF BindClaim, UpdateClaim, JobShape, Binding
    <3>2. new \in Claim
      BY <1>1, <2>1, <3>1 DEF Claim
    <3>3. new # None /\ new.uid = j.obc.uid /\ new.finalizer = j.obc.finalizer
      BY <2>1, <3>2, NoneAssumption DEF Claim
    <3> QED
      BY <1>5, <2>6, <3>3 DEF BindClaim
  <2>7. CASE SetBound(w)
    BY <1>5, <2>2, <2>7 DEF SetBound
  <2> QED
    BY <1>6, <2>3, <2>4, <2>5, <2>6, <2>7
<1>7. ASSUME NEW kind \in Kinds, CreateArtifact(w, kind) \/ UpdateArtifact(w, kind)
      PROVE  Owned(obc'[k], ob'[n], ArtifactsOf(artifact', k))
  <2>1. UNCHANGED <<obc, ob>> /\ j.pc \in Held /\ j.obc \in Claim
    BY <1>1, <1>7
    DEF CreateArtifact, UpdateArtifact, CreatePc, UpdatePc, Kinds, Held, Provisioning,
        Artifacts, JobShape
  <2>2. \/ UNCHANGED artifact
        \/ \E a : a.owner = j.obc.uid /\ artifact' = [artifact EXCEPT ![kind][k] = a]
    <3>1. \A d : [NewArtifact(j) EXCEPT !.deleted = d].owner = j.obc.uid
      BY DEF NewArtifact
    <3>2. NewArtifact(j).owner = j.obc.uid
      BY DEF NewArtifact
    <3> QED
      BY <1>7, <3>1, <3>2 DEF CreateArtifact, UpdateArtifact
  <2>3. ASSUME NEW a, a.owner = j.obc.uid, artifact' = [artifact EXCEPT ![kind][k] = a]
        PROVE  Owned(o, ob[n], ArtifactsOf(artifact', k))
    <3>1. ArtifactsOf(artifact', k) = [ArtifactsOf(artifact, k) EXCEPT ![kind] = a]
      BY <1>1, <2>3 DEF ArtifactsOf
    <3> QED
      BY <1>1, <1>4, <2>1, <2>3, <3>1 DEF Owned, ArtifactsOf
  <2> QED
    BY <1>1, <2>1, <2>2, <2>3 DEF ArtifactsOf
<1>8. ASSUME NEW b, b.claim = j.ob.claim, ob' = [ob EXCEPT ![n] = b],
             j.pc \in Binding, UNCHANGED <<obc, artifact>>
      PROVE  Owned(obc'[k], ob'[n], ArtifactsOf(artifact', k))
  <2>1. Holds(o, j.ob.claim)
    BY <1>1, <1>4, <1>8, PcFacts DEF JobClaim
  <2> QED
    BY <1>1, <1>8, <2>1 DEF Owned, ArtifactsOf
<1>9. CASE CreateOb(w) \/ UpdateOb(w) \/ ObBound(w)
  <2>1. j.pc \in Binding /\ j.ob \in ObjectBucket
    BY <1>1, <1>9 DEF CreateOb, UpdateOb, ObBound, ReplaceOb, Binding, JobShape
  <2>2. /\ \A d, e : [j.ob EXCEPT !.phase = d, !.deleted = e].claim = j.ob.claim
        /\ \A d : [j.ob EXCEPT !.phase = d].claim = j.ob.claim
    BY <2>1 DEF ObjectBucket
  <2>3. UNCHANGED <<obc, artifact>>
    BY <1>9 DEF CreateOb, UpdateOb, ObBound, ReplaceOb
  <2>4. CASE CreateOb(w)
    BY <1>3, <1>8, <2>1, <2>3, <2>4 DEF CreateOb
  <2>5. CASE UpdateOb(w)
    <3> DEFINE new == [j.ob EXCEPT !.phase = j.base.phase, !.deleted = j.base.deleted]
    <3>1. ob' = ob \/ ob' = [ob EXCEPT ![n] = new]
      BY <2>5 DEF UpdateOb, ReplaceOb
    <3>2. new.claim = j.ob.claim
      BY <2>2
    <3> HIDE DEF new
    <3> QED
      BY <1>3, <1>8, <2>1, <2>3, <3>1, <3>2
  <2>6. CASE ObBound(w)
    <3> DEFINE new == [j.ob EXCEPT !.phase = "Bound"]
    <3>1. ob' = ob \/ ob' = [ob EXCEPT ![n] = new]
      BY <2>6 DEF ObBound, ReplaceOb
    <3>2. new.claim = j.ob.claim
      BY <2>2
    <3> HIDE DEF new
    <3> QED
      BY <1>3, <1>8, <2>1, <2>3, <3>1, <3>2
  <2> QED
    BY <1>9, <2>4, <2>5, <2>6
<1> QED
  BY <1>3, <1>6, <1>7, <1>9
  DEF ProvisionStep, GetClaim, GetClass, GetOb, Provision, Grant, ClaimRef, GetCurrentOb, kube

\* What deleteResources does next is decided by what it still has to release.
LEMMA CurrentIsFound ==
    ASSUME NEW j \in Job, j.found # {}
    PROVE  Current(j) \in j.found /\ Current(j) \in Kinds
BY DEF Current, Kinds, Job

LEMMA DeleteStepOrphans ==
    ASSUME TypeInv, ClaimInv, OrphanInv, ObNamesUnique, NEW w \in Workers, DeleteStep(w)
    PROVE  OrphanInv'
<1> DEFINE j == job[w]
           k == j.key
           n == ObjectBucketName(k)
           o == obc[k]
           i == job'[w]
           art == ArtifactsOf(artifact, k)
<1>1. /\ j \in Job /\ JobShape(j) /\ j.pc # "idle" /\ k \in Keys /\ n \in ObNames
      /\ JobClaim(j, o) /\ Owned(o, ob[n], art) /\ Cleanup(j, ob[n], art)
      /\ obc \in [Keys -> Claim \cup {None}]
      /\ ob \in [ObNames -> ObjectBucket \cup {None}]
      /\ artifact \in [Kinds -> [Keys -> Artifact \cup {None}]]
      /\ job \in [Workers -> Job]
  BY DeleteStepJob
  DEF TypeInv, ControllerInv, ClaimInv, OrphanInv, ClusterTypeOK, ObNames
<1>2. art["cm"] = artifact["cm"][k] /\ art["secret"] = artifact["secret"][k]
      /\ \A kind \in Kinds : art[kind] = artifact[kind][k]
  BY DEF ArtifactsOf, Kinds
<1>3. ASSUME Owned(obc'[k], ob'[n], ArtifactsOf(artifact', k)),
             i.pc \in Cleaning => Cleanup(i, ob'[n], ArtifactsOf(artifact', k))
      PROVE  OrphanInv'
  BY <1>3, WorkerOrphans DEF WorkerStep
<1>4. ASSUME UNCHANGED <<obc, ob, artifact>>, i.pc \in Cleaning => Cleanup(i, ob[n], art)
      PROVE  OrphanInv'
  BY <1>1, <1>3, <1>4
<1>5. ASSUME Requeue(w) \/ Done(w), UNCHANGED <<obc, ob, artifact>>
      PROVE  OrphanInv'
  BY <1>1, <1>4, <1>5, IdleKey, CleaningFacts DEF Requeue, Done
<1> USE DEF At
<1>6. CASE FindOb(w)
  <2>1. i.pc = "findCm" /\ i.ob = ob[n] /\ UNCHANGED <<obc, ob, artifact>>
    BY <1>1, <1>6 DEF FindOb, Continue, Job, kube
  <2>2. Cleanup(i, ob[n], art)
    BY <2>1 DEF Cleanup, Unbinding
  <2> QED
    BY <1>4, <2>1, <2>2
<1>7. CASE FindCm(w)
  <2>1. /\ j.pc = "findCm" /\ i.pc = "findSecret" /\ i.ob = j.ob
        /\ i.found = IfStored("cm", k) /\ UNCHANGED <<obc, ob, artifact>>
    BY <1>1, <1>7 DEF FindCm, Continue, Job, kube
  <2>2. Guarded(art["cm"]) => "cm" \in i.found
    BY <1>2, <2>1 DEF Guarded, IfStored
  <2>3. Cleanup(i, ob[n], art)
    BY <1>1, <2>1, <2>2 DEF Cleanup, Unbinding
  <2> QED
    BY <1>4, <2>1, <2>3
<1>8. CASE FindSecret(w)
  <2>1. j.pc = "findSecret" /\ UNCHANGED <<obc, ob, artifact>>
    BY <1>8 DEF FindSecret, kube
  <2>2. CASE Done(w)
    BY <1>5, <2>1, <2>2
  <2>3. CASE ~Done(w)
    <3> DEFINE pc == IF j.ob = None THEN "release" ELSE "markReleased"
               more == IfStored("secret", k)
    <3>1. job' = [job EXCEPT ![w] = [j EXCEPT !.pc = pc, !.found = j.found \cup more]]
      BY <1>1, <1>8, <2>3 DEF FindSecret, Continue
    <3> HIDE DEF pc, more
    <3>2. i.found = j.found \cup more /\ i.ob = j.ob /\ i.pc = pc
      BY <1>1, <3>1 DEF Job
    <3>3. (i.pc = "release" /\ j.ob = None) \/ i.pc = "markReleased"
      BY <3>2 DEF pc
    <3>4. \A kind \in Kinds : Guarded(art[kind]) => kind \in i.found
      BY <1>1, <1>2, <2>1, <3>2 DEF Cleanup, Guarded, IfStored, Kinds, more
    <3>5. j.ob = ob[n]
      BY <1>1, <2>1 DEF Cleanup
    <3>6. Cleanup(i, ob[n], art)
      BY <3>2, <3>3, <3>4, <3>5 DEF Cleanup, Unbinding
    <3> QED
      BY <1>4, <2>1, <3>6
  <2> QED
    BY <2>2, <2>3
<1>9. CASE MarkReleased(w)
  <2> DEFINE new == [j.ob EXCEPT !.phase = "Released"]
  <2>1. j.pc = "markReleased" /\ j.ob \in ObjectBucket /\ UNCHANGED <<obc, artifact>>
    BY <1>1, <1>9 DEF MarkReleased, ReplaceOb, JobShape, Unbinding
  <2>2. CASE Requeue(w) /\ UNCHANGED ob
    BY <1>5, <2>1, <2>2
  <2>3. CASE ob[n] = j.ob /\ ob' = [ob EXCEPT ![n] = new]
             /\ Continue(w, [j EXCEPT !.pc = "getObClass", !.ob = new, !.base = None])
    <3>1. ob'[n] = new /\ new.claim = j.ob.claim /\ j.ob # None
      BY <1>1, <2>1, <2>3, NoneAssumption DEF ObjectBucket
    <3>2. i.pc = "getObClass" /\ i.ob = new /\ i.found = j.found
      BY <1>1, <2>3 DEF Continue, Job
    <3> HIDE DEF new
    <3>3. Owned(o, ob'[n], art)
      BY <1>1, <2>3, <3>1 DEF Owned
    <3>4. Cleanup(i, ob'[n], art)
      BY <1>1, <2>1, <3>1, <3>2 DEF Cleanup, Unbinding
    <3> QED
      BY <1>3, <2>1, <3>3, <3>4
  <2> QED
    BY <1>9, <2>2, <2>3 DEF MarkReleased, ReplaceOb
<1>10. CASE GetObClass(w) \/ Delete(w) \/ Revoke(w)
  <2>1. /\ j.pc \in {"getObClass", "delete", "revoke"} /\ UNCHANGED <<obc, ob, artifact>>
        /\ i.pc \in {"delete", "revoke", "dropObFinalizer"}
        /\ i.ob = j.ob /\ i.found = j.found
    BY <1>1, <1>10 DEF GetObClass, Delete, Revoke, Continue, Job, kube
  <2>2. Cleanup(i, ob[n], art)
    BY <1>1, <2>1 DEF Cleanup, Unbinding
  <2> QED
    BY <1>4, <2>1, <2>2
<1>11. CASE DropObFinalizer(w)
  <2>1. j.pc = "dropObFinalizer" /\ j.ob = ob[n] /\ UNCHANGED <<obc, artifact>>
        /\ j.ob \in ObjectBucket
    BY <1>1, <1>11 DEF DropObFinalizer, Cleanup, Unbinding, JobShape
  <2>2. ob'[n] = removeFinalizer(j.ob) /\ i.pc = "deleteOb" /\ i.found = j.found
    BY <1>1, <1>11, <2>1 DEF DropObFinalizer, Job
  <2>3. ~Guarded(ob'[n]) /\ (ob'[n] # None => ob'[n].claim = j.ob.claim)
    BY <2>1, <2>2 DEF removeFinalizer, Stored, Guarded, ObjectBucket
  <2>4. Owned(o, ob'[n], art)
    BY <1>1, <2>1, <2>3, NoneAssumption DEF Owned
  <2>5. Cleanup(i, ob'[n], art)
    BY <1>1, <2>1, <2>2, <2>3 DEF Cleanup, Unbinding
  <2> QED
    BY <1>3, <2>1, <2>4, <2>5
<1>12. CASE DeleteOb(w)
  <2>1. j.pc = "deleteOb" /\ ~Guarded(ob[n]) /\ UNCHANGED <<obc, artifact>>
    BY <1>1, <1>12 DEF DeleteOb, Cleanup
  <2>2. i.pc = "release" /\ i.found = j.found
    BY <1>1, <1>12 DEF DeleteOb, Job
  <2>3. ob'[n] = None
    <3>1. ob'[n] = IF ob[n] = None THEN None ELSE Deleting(ob[n])
      BY <1>1, <1>12 DEF DeleteOb
    <3>2. ob[n] \in ObjectBucket => (~ob[n].finalizer => Deleting(ob[n]) = None)
      BY DEF Deleting, Stored, ObjectBucket
    <3> QED
      BY <1>1, <2>1, <3>1, <3>2 DEF Guarded
  <2>4. Owned(o, ob'[n], art)
    BY <1>1, <2>3 DEF Owned
  <2>5. Cleanup(i, ob'[n], art)
    BY <1>1, <2>1, <2>2, <2>3 DEF Cleanup, Unbinding
  <2> QED
    BY <1>3, <2>1, <2>4, <2>5
\* An artifact is done with once it is not guarded.
<1>13. ASSUME NEW failed, Released(w, failed), j.found # {},
              j.pc \in {"release", "dropFinalizer"}, UNCHANGED <<obc, ob>>,
              \A kind \in Kinds : kind # Current(j) => artifact'[kind][k] = artifact[kind][k],
              ~Guarded(artifact'[Current(j)][k])
       PROVE  OrphanInv'
  <2> DEFINE art2 == ArtifactsOf(artifact', k)
  <2>1. i.pc = "release" /\ i.found = j.found \ {Current(j)}
    BY <1>1, <1>13 DEF Released, Job
  <2>2. \A kind \in Kinds : Guarded(art2[kind]) => kind # Current(j) /\ art2[kind] = art[kind]
    BY <1>13 DEF ArtifactsOf
  <2> HIDE DEF art2
  <2>3. \A kind \in Kinds : Guarded(art2[kind]) => kind \in i.found
    BY <1>1, <1>13, <2>1, <2>2 DEF Cleanup
  <2>4. ob[n] = None
    BY <1>1, <1>13 DEF Cleanup
  <2>5. Cleanup(i, ob[n], art2)
    BY <2>1, <2>3, <2>4 DEF Cleanup, Unbinding
  <2>6. Owned(o, ob[n], art2)
    BY <1>1, <2>2, <2>4 DEF Owned
  <2> QED
    BY <1>3, <1>13, <2>5, <2>6 DEF art2
<1>14. CASE GetArtifact(w)
  <2>1. j.pc = "release" /\ j.found # {} /\ UNCHANGED <<obc, ob, artifact>>
    BY <1>14 DEF GetArtifact, kube
  <2>2. Current(j) \in j.found /\ Current(j) \in Kinds
    BY <1>1, <2>1, CurrentIsFound
  <2>3. CASE artifact[Current(j)][k] = None /\ Released(w, TRUE)
    BY <1>13, <2>1, <2>3 DEF Guarded
  <2>4. CASE job' = [job EXCEPT ![w].pc = "dropFinalizer",
                                ![w].base = artifact[Current(j)][k]]
    <3>1. i.pc = "dropFinalizer" /\ i.base = artifact[Current(j)][k] /\ i.found = j.found
      BY <1>1, <2>4 DEF Job
    <3>2. Current(i) = Current(j)
      BY <3>1 DEF Current
    <3>3. art[Current(i)] = i.base
      BY <1>2, <2>2, <3>1, <3>2
    <3>4. Cleanup(i, ob[n], art)
      BY <1>1, <2>1, <3>1, <3>3 DEF Cleanup, Unbinding
    <3> QED
      BY <1>4, <2>1, <3>4
  <2> QED
    BY <1>14, <2>3, <2>4 DEF GetArtifact
<1>15. CASE DropFinalizer(w)
  <2> DEFINE cur == Current(j)
  <2>1. j.pc = "dropFinalizer" /\ j.found # {} /\ UNCHANGED <<obc, ob>> /\ j.base \in Artifact
    BY <1>1, <1>15 DEF DropFinalizer, Cleanup, JobShape
  <2>2. cur \in Kinds
    BY <1>1, <2>1, CurrentIsFound
  <2>3. PICK failed : Released(w, failed)
    BY <1>15 DEF DropFinalizer
  <2>4. \/ artifact' = [artifact EXCEPT ![cur][k] = removeFinalizer(j.base)]
        \/ artifact[cur][k] # j.base /\ artifact' = artifact
    BY <1>15 DEF DropFinalizer
  <2>5. ~Guarded(removeFinalizer(j.base))
    BY <2>1 DEF Guarded, removeFinalizer, Stored, Artifact
  <2>6. artifact[cur][k] # j.base => ~Guarded(artifact[cur][k])
    BY <1>1, <1>2, <2>1, <2>2 DEF Cleanup
  <2> HIDE DEF cur
  <2>7. /\ ~Guarded(artifact'[cur][k])
        /\ \A kind \in Kinds : kind # cur => artifact'[kind][k] = artifact[kind][k]
    BY <1>1, <2>2, <2>4, <2>5, <2>6
  <2> QED
    BY <1>13, <2>1, <2>3, <2>7 DEF cur
<1>16. CASE GetClaimToRelease(w)
  <2>1. j.pc = "release" /\ j.found = {} /\ UNCHANGED <<obc, ob, artifact>>
    BY <1>16 DEF GetClaimToRelease, kube
  <2>2. CASE Requeue(w)
    BY <1>5, <2>1, <2>2
  <2>3. CASE ~Requeue(w)
    <3> DEFINE x == obc[k]
    <3>1. i = [j EXCEPT !.pc = "dropClaimFinalizer", !.obc = x]
      BY <1>1, <1>16, <2>3 DEF GetClaimToRelease, ContinueIfFound, Continue
    <3> HIDE DEF x
    <3>2. i.pc = "dropClaimFinalizer" /\ i.found = j.found
      BY <1>1, <3>1 DEF Job
    <3>3. Cleanup(i, ob[n], art)
      BY <1>1, <2>1, <3>2 DEF Cleanup, Unbinding
    <3> QED
      BY <1>4, <2>1, <3>3
  <2> QED
    BY <2>2, <2>3
<1>17. CASE DropClaimFinalizer(w)
  <2>1. j.pc = "dropClaimFinalizer" /\ UNCHANGED <<ob, artifact>> /\ i = IdleJob
    BY <1>1, <1>17 DEF DropClaimFinalizer, Requeue
  <2>2. ob[n] = None /\ \A kind \in Kinds : ~Guarded(art[kind])
    BY <1>1, <2>1 DEF Cleanup
  <2>3. Owned(obc'[k], ob[n], art)
    BY <2>2 DEF Owned
  <2> QED
    BY <1>3, <2>1, <2>3, IdleKey, CleaningFacts
<1> QED
  BY <1>6, <1>7, <1>8, <1>9, <1>10, <1>11, <1>12, <1>14, <1>15, <1>16, <1>17 DEF DeleteStep

\* A worker that takes a key has looked at nothing yet.
LEMMA GetItemOrphans ==
    ASSUME TypeInv, OrphanInv, NEW w \in Workers, NEW k \in Keys, GetItem(w, k)
    PROVE  OrphanInv'
<1> DEFINE i == [IdleJob EXCEPT !.pc = "getClaim", !.key = k]
<1>1. /\ job \in [Workers -> Job] /\ job' = [job EXCEPT ![w] = i]
      /\ UNCHANGED <<obc, ob, artifact>>
  BY DEF TypeInv, ControllerInv, GetItem, kube
<1>2. i.pc \notin Cleaning
  BY CleaningFacts DEF IdleJob
<1> HIDE DEF i
<1>3. job'[w] = i /\ \A v \in Workers : v # w => job'[v] = job[v]
  BY <1>1
<1>4. ASSUME NEW v \in Workers, job'[v].pc # "idle"
      PROVE  Cleanup(job'[v], ob'[ObjectBucketName(job'[v].key)], ArtifactsOf(artifact', job'[v].key))
  BY <1>1, <1>2, <1>3, <1>4, NothingToClean DEF OrphanInv
<1> QED
  BY <1>1, <1>4 DEF OrphanInv

\* Users and administrators take no claim away that the finalizer holds.
LEMMA UserOrphans ==
    ASSUME OrphanInv, UNCHANGED <<ob, artifact, job>>,
           \A k \in Keys, uid \in Uids \cup {None} : Holds(obc[k], uid) => Holds(obc'[k], uid),
           TypeInv
    PROVE  OrphanInv'
<1>1. ASSUME NEW k \in Keys
      PROVE  Owned(obc'[k], ob[ObjectBucketName(k)], ArtifactsOf(artifact, k))
  <2>1. /\ ob[ObjectBucketName(k)] # None => ob[ObjectBucketName(k)].claim \in Uids \cup {None}
        /\ \A kind \in Kinds : artifact[kind][k] # None => artifact[kind][k].owner \in Uids
    BY DEF TypeInv, ClusterTypeOK, ObNames, ObjectBucket, Artifact
  <2> QED
    BY <2>1 DEF OrphanInv, Owned, Guarded, ArtifactsOf
<1> QED
  BY <1>1 DEF OrphanInv

\* The garbage collector finds nothing that is guarded.
LEMMA CollectOrphans ==
    ASSUME TypeInv, OrphanInv, NEW kind \in Kinds, NEW k \in Keys, Collect(kind, k), UNCHANGED job
    PROVE  OrphanInv'
<1> DEFINE a == artifact[kind][k]
<1>1. /\ artifact \in [Kinds -> [Keys -> Artifact \cup {None}]]
      /\ artifact' = [artifact EXCEPT ![kind][k] = Deleting(a)] /\ UNCHANGED <<obc, ob>>
      /\ a \in Artifact /\ (obc[k] # None => obc[k].uid # a.owner)
  BY DEF TypeInv, ClusterTypeOK, Collect
<1>2. ~Guarded(a)
  BY <1>1 DEF OrphanInv, Owned, Holds, ArtifactsOf
<1>3. ~Guarded(Deleting(a))
  BY <1>1, <1>2, NoneAssumption DEF Deleting, Stored, Guarded, Artifact
<1>4. ASSUME NEW l \in Keys
      PROVE  \A x \in Kinds : Guarded(artifact'[x][l]) =>
                              Guarded(artifact[x][l]) /\ artifact'[x][l] = artifact[x][l]
  <2> SUFFICES ASSUME NEW x \in Kinds, Guarded(artifact'[x][l])
               PROVE  artifact'[x][l] = artifact[x][l]
    OBVIOUS
  <2>1. CASE x = kind /\ l = k
    BY <1>1, <1>3, <2>1
  <2> QED
    BY <1>1, <2>1
<1>5. ASSUME NEW l \in Keys
      PROVE  Owned(obc'[l], ob'[ObjectBucketName(l)], ArtifactsOf(artifact', l))
  BY <1>1, <1>4 DEF OrphanInv, Owned, ArtifactsOf
<1>6. ASSUME NEW v \in Workers, job[v].pc # "idle"
      PROVE  Cleanup(job[v], ob[ObjectBucketName(job[v].key)], ArtifactsOf(artifact', job[v].key))
  <2> DEFINE j == job[v]
             old == ArtifactsOf(artifact, j.key)
             new == ArtifactsOf(artifact', j.key)
  <2>1. j \in Job /\ j.key \in Keys
    BY <1>6 DEF TypeInv, ControllerInv, JobShape
  <2>2. \A x \in Kinds : Guarded(new[x]) => Guarded(old[x]) /\ new[x] = old[x]
    BY <1>4, <2>1 DEF ArtifactsOf
  <2>3. Cleanup(j, ob[ObjectBucketName(j.key)], old)
    BY <1>6 DEF OrphanInv
  <2>4. "cm" \in Kinds /\ Current(j) \in Kinds
    BY DEF Kinds, Current
  <2> HIDE DEF j, old, new
  <2>5. Cleanup(j, ob[ObjectBucketName(j.key)], new)
    BY <2>2, <2>3, <2>4 DEF Cleanup
  <2> QED
    BY <2>5 DEF j, new
<1> QED
  BY <1>1, <1>5, <1>6 DEF OrphanInv

LEMMA EnvironmentOrphans ==
    ASSUME TypeInv, OrphanInv, EnvironmentStep
    PROVE  OrphanInv'
<1>1. obc \in [Keys -> Claim \cup {None}] /\ UNCHANGED job
  BY DEF TypeInv, ClusterTypeOK, EnvironmentStep
<1>2. ASSUME NEW k \in Keys, NEW new, obc' = [obc EXCEPT ![k] = new], UNCHANGED <<ob, artifact>>,
             \A uid : Holds(obc[k], uid) => Holds(new, uid)
      PROVE  OrphanInv'
  BY <1>1, <1>2, UserOrphans
<1>3. ASSUME NEW k \in Keys, NEW r \in Requests, CreateClaim(k, r)
      PROVE  OrphanInv'
  BY <1>2, <1>3 DEF CreateClaim, Holds
<1>4. ASSUME NEW k \in Keys, DeleteClaim(k)
      PROVE  OrphanInv'
  <2>1. obc[k] \in Claim
    BY <1>1, <1>4 DEF DeleteClaim
  <2>2. \A uid : Holds(obc[k], uid) => Holds(Deleting(obc[k]), uid)
    BY <2>1, NoneAssumption DEF Holds, Deleting, Stored, Claim
  <2> QED
    BY <1>2, <1>4, <2>2 DEF DeleteClaim
<1>5. ASSUME NEW k \in Keys, EditClaim(k)
      PROVE  OrphanInv'
  <2> DEFINE new == [obc[k] EXCEPT !.config = spent.edit + 1]
  <2>1. obc' = [obc EXCEPT ![k] = new] /\ obc[k] \in Claim /\ new \in Claim
    BY <1>1, <1>5, EditTypes DEF EditClaim, TypeInv
  <2>2. new.uid = obc[k].uid /\ new.finalizer = obc[k].finalizer
    BY <2>1 DEF Claim
  <2> HIDE DEF new
  <2> QED
    BY <1>2, <1>5, <2>1, <2>2, NoneAssumption DEF EditClaim, Holds
<1>6. ASSUME NEW k \in Keys, NEW kind \in Kinds, Collect(kind, k)
      PROVE  OrphanInv'
  BY <1>1, <1>6, CollectOrphans
<1>7. CASE UNCHANGED <<obc, ob, artifact>>
  BY <1>1, <1>7 DEF OrphanInv
<1> QED
  BY <1>3, <1>4, <1>5, <1>6, <1>7
  DEF EnvironmentStep, Environment, DeleteClass, CreateClass

\* A crash, or an error of the provisioner, ends jobs and changes no API object.
LEMMA FaultOrphans ==
    ASSUME TypeInv, OrphanInv, Fault, spent'["apiError"] = spent["apiError"]
    PROVE  OrphanInv'
<1>1. job \in [Workers -> Job] /\ spent \in [Budgets -> Nat]
  BY DEF TypeInv, ControllerInv, ClusterTypeOK
<1>2. ~\E w \in Workers : ApiError(w)
  <2>1. ~Spend("apiError")
    BY <1>1 DEF Spend, Budgets
  <2> QED
    BY <2>1 DEF ApiError
<1>3. \A w \in Workers : job'[w] = job[w] \/ job'[w] = IdleJob
  BY <1>1, <1>2 DEF Fault, ProvisionError, DeprovisionError, Crash, Requeue
<1>4. UNCHANGED <<obc, ob, artifact>>
  BY <1>2 DEF Fault, ProvisionError, DeprovisionError, Crash, kube
<1> QED
  BY <1>3, <1>4, IdleKey DEF OrphanInv

LEMMA InitOrphans == Init => OrphanInv
<1> SUFFICES ASSUME Init PROVE OrphanInv
  OBVIOUS
<1>1. \A k \in Keys : /\ ob[ObjectBucketName(k)] = None
                     /\ \A kind \in Kinds : ~Guarded(ArtifactsOf(artifact, k)[kind])
  BY DEF Init, ClusterInit, Guarded, ArtifactsOf, ObNames
<1>2. \A w \in Workers : job[w].pc = "idle"
  BY IdleKey DEF Init
<1> QED
  BY <1>1, <1>2 DEF OrphanInv, Owned

LEMMA ErrorsCount ==
    ASSUME TypeInv, [Next]_vars
    PROVE  /\ spent["apiError"] \in Nat /\ spent'["apiError"] \in Nat
           /\ spent["apiError"] <= spent'["apiError"]
           /\ ~Fault => spent'["apiError"] = spent["apiError"]
<1>1. spent \in [Budgets -> Nat]
  BY DEF TypeInv, ClusterTypeOK
<1>2. \A b \in Budgets : Spend(b) => spent'[b] = spent[b] + 1
                              /\ \A c \in Budgets : c # b => spent'[c] = spent[c]
  BY <1>1 DEF Spend
<1> QED
  BY <1>1, <1>2, SpentGrows DEF Budgets

LEMMA NextOrphans ==
    ASSUME TypeInv, ClaimInv, ObNamesUnique, [Next]_vars,
           spent["apiError"] = 0 => OrphanInv
    PROVE  spent'["apiError"] = 0 => OrphanInv'
<1> SUFFICES ASSUME spent'["apiError"] = 0 PROVE OrphanInv'
  OBVIOUS
<1>1. OrphanInv /\ spent'["apiError"] = spent["apiError"]
  BY ErrorsCount
<1>2. CASE \E w \in Workers : WorkerStep(w)
  BY <1>1, <1>2, ProvisionStepOrphans, DeleteStepOrphans DEF WorkerStep
<1>3. CASE \E w \in Workers, k \in Keys : GetItem(w, k)
  BY <1>1, <1>3, GetItemOrphans
<1>4. CASE EnvironmentStep
  BY <1>1, <1>4, EnvironmentOrphans
<1>5. CASE Fault
  BY <1>1, <1>5, FaultOrphans
<1>6. CASE UNCHANGED vars
  BY <1>1, <1>6 DEF vars, OrphanInv
<1> QED
  BY <1>2, <1>3, <1>4, <1>5, <1>6 DEF Next

\* With a single controller process and OB names that tell the claims apart, as long
\* as no API call has failed: whatever the library has created and guards, the OB
\* included, belongs to a stored claim that the finalizer still holds.  Crashes,
\* conflicting updates, class changes and failures of the provisioner are included.
THEOREM NothingIsOrphaned ==
    ASSUME SingleProcess, ObNamesUnique
    PROVE  Spec => [](spent["apiError"] = 0 => NothingOrphaned)
<1> DEFINE Inv == spent["apiError"] = 0 => OrphanInv
<1>1. Init => Inv
  BY InitOrphans
<1>2. TypeInv /\ ClaimInv /\ Inv /\ [Next]_vars => Inv'
  BY NextOrphans
<1>3. OrphanInv => NothingOrphaned
  <2> SUFFICES ASSUME OrphanInv PROVE NothingOrphaned
    OBVIOUS
  <2>1. ASSUME NEW kind \in Kinds, NEW k \in Keys, Guarded(artifact[kind][k])
        PROVE  Holds(obc[k], artifact[kind][k].owner)
    BY <2>1 DEF OrphanInv, Owned, ArtifactsOf
  <2>2. NoOrphanedObs
    BY DEF OrphanInv, Owned, Holds, NoOrphanedObs, ObNames
  <2> QED
    BY <2>1, <2>2 DEF NothingOrphaned, Guarded, Holds
<1>4. Spec => []ClaimInv
  BY ClaimInvariance
<1> QED
  BY <1>1, <1>2, <1>3, <1>4, Invariance, PTL DEF Spec
===============================================================================
