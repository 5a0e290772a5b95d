----------------------------- MODULE RolloutProofs -----------------------------
(***************************************************************************)
(* Several controller processes at once, as during a rollout: any number   *)
(* of them, of workers, claims, crashes and failing calls.  A live claim   *)
(* that says Bound is ready to be used, only buckets that are to be        *)
(* reclaimed are deleted, and a claim never steps back, provided that a    *)
(* claim is created again under the same key only when no worker of any    *)
(* process still handles the one before it.                                *)
(***************************************************************************)
EXTENDS ReadyProofs

\* The worker has read a claim.
HasCopy(j) == j.pc \notin {"idle", "getClaim"}

\* A claim is created under a key only when no worker has a copy of an earlier
\* claim of that key on which it would act, which is one that has the finalizer.
CleanHandOver ==
    \A k \in Keys :
        obc[k] = None /\ obc'[k] # None =>
            \A w \in Workers :
                job[w].key = k /\ HasCopy(job[w]) => ~job[w].obc.finalizer

-------------------------------------------------------------------------------
(* Claims and copies of claims.                                            *)

\* A copy c that has the finalizer is an earlier version of the stored claim o, or
\* of one that is gone.
CopyFits(o, c) ==
    o # None /\ c.finalizer =>
        o.uid = c.uid /\ o.class = c.class /\ o.finalizer /\ (c.deleted => o.deleted)

JobCopy(j, o) ==
    HasCopy(j) =>
        /\ ClaimSound(j.obc)
        /\ CopyFits(o, j.obc)
        /\ j.pc \in Provisioning => ~j.obc.deleted
        /\ j.pc \in Held => j.obc.finalizer
        /\ j.pc \in Deprovisioning => j.obc.deleted

CopyInv ==
    /\ \A k \in Keys : obc[k] # None => ClaimSound(obc[k])
    /\ \A w \in Workers : JobCopy(job[w], obc[job[w].key])

-------------------------------------------------------------------------------
(* What a live claim and the jobs on it have written.                      *)

ObFor(b, uid, name) ==
    b # None /\ b.phase = "Bound" /\ b.claim = uid /\ b.bucket = name

\* The OB b and the artifacts a of a live claim o, and the OB's name n.
Ready(o, b, a, n) ==
    o.phase = "Bound" =>
        /\ o.ob = n
        /\ ObFor(b, o.uid, o.bucket)
        /\ \A kind \in Kinds : ArtifactFor(a[kind], o.uid, o.bucket)

\* What a job's local variables have to do with each other.
JobOwn(j, n) ==
    /\ j.pc \in Chosen => (j.class.bucket # None => j.name = j.class.bucket)
    /\ j.pc \in Supplied => j.ob.bucket = j.name /\ j.ob.user = j.key
    /\ j.pc \in Binding => j.ob.class = j.obc.class /\ j.ob.claim = j.obc.uid
    /\ j.pc = "setBound" => j.obc.ob = n /\ j.obc.bucket = j.name

\* What a job on a live claim has written, or another one has, is there.
JobDone(j, b, a) ==
    /\ j.pc \in {"createCm", "updateCm", "claimRef"} \cup Binding =>
          ArtifactFor(a["secret"], j.obc.uid, j.name)
    /\ j.pc \in {"claimRef"} \cup Binding => ArtifactFor(a["cm"], j.obc.uid, j.name)
    /\ j.pc \in {"bindClaim", "setBound"} => ObFor(b, j.obc.uid, j.name)

ClaimObjects(o, b, a, n) ==
    o # None => Linked(o) /\ (~o.deleted => Ready(o, b, a, n))

JobObjects(j, o, b, a, n) ==
    j.pc # "idle" => JobOwn(j, n) /\ (o # None /\ ~o.deleted => JobDone(j, b, a))

ObjectInv ==
    /\ \A k \in Keys :
          LET n == ObjectBucketName(k)
          IN  ClaimObjects(obc[k], ob[n], ArtifactsOf(artifact, k), n)
    /\ \A w \in Workers :
          LET k == job[w].key
              n == ObjectBucketName(k)
          IN  JobObjects(job[w], obc[k], ob[n], ArtifactsOf(artifact, k), n)

-------------------------------------------------------------------------------
(* Who has a generated name.                                               *)

\* Where handleDeleteClaim has an OB in hand, if it found one.
Sought == {"findCm", "findSecret"} \cup Unbinding

\* The name that a job has chosen, for whom, and the policy that goes with it.
ChosenRecord(j) == <<j.name, j.key, Kept(ClassPolicy(j.obc.class))>>

\* A name is with the key of each claim, copy, job, OB and bucket that has it.
Holdings ==
    {ClaimRecord(obc[k], k) : k \in {x \in Keys : obc[x] # None}}
    \cup {ClaimRecord(job[w].obc, job[w].key) : w \in {x \in Workers : HasCopy(job[x])}}
    \cup {ChosenRecord(job[w]) : w \in {x \in Workers : job[x].pc \in Chosen}}
    \cup {ObRecord(job[w].ob, job[w].key) :
             w \in {x \in Workers : job[x].pc \in Sought /\ job[x].ob # None}}
    \cup {ObRecord(ob[ObjectBucketName(k)], k) :
             k \in {x \in Keys : ob[ObjectBucketName(x)] # None}}
    \cup {BucketRecord(n, bucket[n]) : n \in {x \in Buckets : bucket[x] # None}}

\* A generated name is with one key, for buckets of one policy.
OneKeyPerName ==
    \A r, s \in Holdings : r[1] = s[1] /\ r[1] \in GenNames => r = s

Named(o) == o.bucket # None => NameFits(o.bucket, o.class)

JobNamed(j, names) ==
    /\ HasCopy(j) => Named(j.obc)
    /\ j.pc \in Chosen => NameFits(j.name, j.obc.class)
    /\ j.pc \in Supplied => (j.name \in GenNames => j.name \in names)
    /\ j.pc \in Binding => Kept(j.ob.policy) = Kept(ClassPolicy(j.obc.class))
    /\ j.pc \in Sought /\ j.ob # None => ObStore(j.ob, j.key, names)
    /\ j.pc = "delete" => j.ob.bucket \in GenNames /\ j.ob.policy = "Delete"

HolderInv ==
    /\ OneKeyPerName
    /\ \A k \in Keys : obc[k] # None => Named(obc[k])
    /\ \A k \in Keys : ob[ObjectBucketName(k)] # None =>
                           ObStore(ob[ObjectBucketName(k)], k, AskedNames)
    /\ \A n \in GenNames : bucket[n] # None => n \in AskedNames
    /\ \A w \in Workers : JobNamed(job[w], AskedNames)

-------------------------------------------------------------------------------
(* The bucket is there for a live claim.                                   *)

UseInv ==
    /\ \A k \in Keys : Live(k) /\ obc[k].phase = "Bound" =>
                           Usable(bucket, access, k, obc[k].bucket)
    /\ \A w \in Workers : job[w].pc \in Supplied /\ Live(job[w].key) =>
                              Usable(bucket, access, job[w].key, job[w].name)

-------------------------------------------------------------------------------
(* What a step of handleProvisionClaim does to the worker's variables and to *)
(* the API objects of its key.  Below, j is the job before it and i after it. *)

\* The job goes on with the same claim, class and bucket name.
Carries(j, i) == i.key = j.key /\ i.obc = j.obc /\ i.class = j.class /\ i.name = j.name

Stops(w) == job'[w] = IdleJob /\ UNCHANGED <<obc, ob, artifact>>

ReadsClaim(j, i, o) ==
    j.pc = "getClaim" /\ i.pc = "getClass" /\ i.key = j.key /\ i.obc = o /\ o # None

ReadsClass(j, i, c) ==
    /\ j.pc = "getClass" /\ i.pc = AfterClass(j.obc)
    /\ i.key = j.key /\ i.obc = j.obc /\ i.class = c /\ c # None

ChoosesName(j, i, names) ==
    /\ j.pc = "getOb" /\ i.pc = IF j.obc.bucket = None THEN "saveName" ELSE "provision"
    /\ i.key = j.key /\ i.obc = j.obc /\ i.class = j.class /\ i.name \in names

IsSupplied(j, i) ==
    /\ j.pc = "provision" /\ i.pc = "createSecret" /\ Carries(j, i)
    /\ i.ob.bucket = j.name /\ i.ob.user = j.key

RefersTo(j, i, o) ==
    /\ j.pc = "claimRef" /\ i.pc = "createOb" /\ Carries(j, i) /\ o # None
    /\ i.ob.bucket = j.ob.bucket /\ i.ob.user = j.ob.user
    /\ i.ob.class = j.obc.class /\ i.ob.claim = o.uid /\ i.ob.policy = PolicyFor(j)

\* AlreadyExists, or the version to overwrite is read.
GoesOn(j, i) ==
    /\ <<j.pc, i.pc>> \in {<<"createSecret", "updateSecret">>, <<"createCm", "updateCm">>,
                           <<"createOb", "getCurrentOb">>, <<"getCurrentOb", "updateOb">>}
    /\ Carries(j, i) /\ i.ob = j.ob

WritesArtifact(j, i, kind, a) ==
    /\ j.pc \in {CreatePc[kind], UpdatePc[kind]} /\ i.pc = AfterPc[kind]
    /\ Carries(j, i) /\ i.ob = j.ob
    /\ a # None /\ a.finalizer /\ a.owner = j.obc.uid /\ a.bucket = j.ob.bucket

\* The OB b is replaced by the job's.
WritesOb(j, i, b) ==
    /\ <<j.pc, i.pc>> \in {<<"createOb", "obBound">>, <<"updateOb", "obBound">>,
                           <<"obBound", "bindClaim">>}
    /\ Carries(j, i) /\ i.ob \in ObjectBucket
    /\ i.ob.bucket = j.ob.bucket /\ i.ob.user = j.ob.user
    /\ i.ob.class = j.ob.class /\ i.ob.claim = j.ob.claim /\ i.ob.policy = j.ob.policy
    /\ i.pc = "bindClaim" \/ (b # None /\ b.phase = "Bound") => i.ob.phase = "Bound"

\* The claim new, which differs from the job's copy in its finalizer, bucket, OB or
\* phase, is stored.
WritesClaim(j, i, new, n) ==
    /\ new \in Claim
    /\ new.uid = j.obc.uid /\ new.class = j.obc.class /\ new.deleted = j.obc.deleted
    /\ j.obc.finalizer => new.finalizer
    /\ i = IdleJob \/ (i.key = j.key /\ i.obc = new /\ i.class = j.class /\ i.name = j.name)
    /\ \/ /\ j.pc = "setPending" /\ i.pc = "setMeta"
          /\ new.bucket = j.obc.bucket /\ new.ob = j.obc.ob /\ new.phase = "Pending"
       \/ /\ j.pc = "setMeta" /\ i.pc = "getOb" /\ new.finalizer
          /\ new.bucket = j.obc.bucket /\ new.ob = j.obc.ob /\ new.phase = j.obc.phase
       \/ /\ j.pc = "saveName" /\ i.pc = "provision"
          /\ new.bucket = j.name /\ new.ob = j.obc.ob /\ new.phase = j.obc.phase
       \/ /\ j.pc = "bindClaim" /\ i.pc = "setBound" /\ i.ob = j.ob
          /\ new.bucket = j.name /\ new.ob = n /\ new.phase = j.obc.phase
       \/ /\ j.pc = "setBound" /\ i = IdleJob
          /\ new.bucket = j.obc.bucket /\ new.ob = j.obc.ob /\ new.phase = "Bound"

ProvisionMove(w) ==
    LET j == job[w]
        i == job'[w]
        k == j.key
        n == ObjectBucketName(k)
    IN  \/ Stops(w)
        \/ /\ UNCHANGED <<obc, ob, artifact>>
           /\ \/ ReadsClaim(j, i, obc[k]) \/ ReadsClass(j, i, class[j.obc.class])
              \/ ChoosesName(j, i, NamesFor(j.class, j.obc)) \/ IsSupplied(j, i)
              \/ RefersTo(j, i, obc[k]) \/ GoesOn(j, i)
        \/ /\ UNCHANGED <<obc, ob>>
           /\ \E kind \in Kinds : \E a :
                 /\ artifact' = [artifact EXCEPT ![kind][k] = a]
                 /\ WritesArtifact(j, i, kind, a)
        \/ /\ UNCHANGED <<obc, artifact>>
           /\ ob' = [ob EXCEPT ![n] = i.ob] /\ WritesOb(j, i, ob[n])
        \/ /\ UNCHANGED <<ob, artifact>> /\ obc[k] = j.obc
           /\ \E new : obc' = [obc EXCEPT ![k] = new] /\ WritesClaim(j, i, new, n)

LEMMA ReadingMoves ==
    ASSUME TypeInv, NEW w \in Workers,
           GetClaim(w) \/ GetClass(w) \/ GetOb(w) \/ Provision(w) \/ Grant(w) \/ ClaimRef(w)
    PROVE  ProvisionMove(w)
<1> DEFINE j == job[w]
           i == job'[w]
           k == j.key
           o == obc[k]
<1> USE DEF At
<1>1. j \in Job /\ job \in [Workers -> Job] /\ JobShape(j)
  BY DEF TypeInv, ControllerInv
<1>2. UNCHANGED <<obc, ob, artifact>>
  BY DEF GetClaim, GetClass, GetOb, Provision, Grant, ClaimRef, kube
<1>3. ASSUME Requeue(w) \/ Done(w) PROVE ProvisionMove(w)
  BY <1>1, <1>2, <1>3 DEF Requeue, Done, Stops, ProvisionMove
<1>4. CASE GetClaim(w)
  <2>1. CASE o # None /\ Continue(w, [j EXCEPT !.pc = "getClass", !.obc = o])
    <3>1. i = [j EXCEPT !.pc = "getClass", !.obc = o] /\ j.pc = "getClaim"
      BY <1>1, <1>4, <2>1 DEF Continue, GetClaim
    <3>2. i.pc = "getClass" /\ i.key = j.key /\ i.obc = o
      BY <1>1, <3>1 DEF Job
    <3>3. ReadsClaim(j, i, o)
      BY <2>1, <3>1, <3>2 DEF ReadsClaim
    <3> QED
      BY <1>2, <3>3 DEF ProvisionMove
  <2> QED
    BY <1>3, <1>4, <2>1 DEF GetClaim, claimForKey
<1>5. CASE GetClass(w)
  <2> DEFINE c == class[j.obc.class]
             pc == AfterClass(j.obc)
  <2>1. CASE c # None /\ Continue(w, [j EXCEPT !.pc = pc, !.class = c])
    <3>1. i = [j EXCEPT !.pc = pc, !.class = c] /\ j.pc = "getClass"
      BY <1>1, <1>5, <2>1 DEF Continue, GetClass
    <3> HIDE DEF c, pc
    <3>2. i.pc = pc /\ i.key = j.key /\ i.obc = j.obc /\ i.class = c
      BY <1>1, <3>1 DEF Job
    <3>3. ReadsClass(j, i, c)
      BY <2>1, <3>1, <3>2 DEF ReadsClass, pc
    <3> QED
      BY <1>2, <3>3 DEF ProvisionMove, c
  <2> QED
    BY <1>3, <1>5, <2>1 DEF GetClass, storageClassForClaim
<1>6. CASE GetOb(w)
  <2> DEFINE pc == IF j.obc.bucket = None THEN "saveName" ELSE "provision"
             names == NamesFor(j.class, j.obc)
  <2>1. ASSUME NEW name \in names, Continue(w, [j EXCEPT !.pc = pc, !.name = name])
        PROVE  ProvisionMove(w)
    <3>1. i = [j EXCEPT !.pc = pc, !.name = name] /\ j.pc = "getOb"
      BY <1>1, <1>6, <2>1 DEF Continue, GetOb
    <3> HIDE DEF pc, names
    <3>2. i.pc = pc /\ i.key = j.key /\ i.obc = j.obc /\ i.class = j.class /\ i.name = name
      BY <1>1, <3>1 DEF Job
    <3>3. ChoosesName(j, i, names)
      BY <2>1, <3>1, <3>2 DEF ChoosesName, pc
    <3> QED
      BY <1>2, <3>3 DEF ProvisionMove, names
  <2> QED
    BY <1>3, <1>6, <2>1 DEF GetOb
<1>7. CASE Provision(w) \/ Grant(w)
  <2> DEFINE b == ReturnedOb(j)
  <2>1. CASE Continue(w, [j EXCEPT !.pc = "createSecret", !.ob = b])
    <3>1. i = [j EXCEPT !.pc = "createSecret", !.ob = b] /\ j.pc = "provision"
      BY <1>1, <1>7, <2>1 DEF Continue, Provision, Grant
    <3>2. b.bucket = j.name /\ b.user = j.key
      BY DEF ReturnedOb, UserID
    <3> HIDE DEF b
    <3>3. i.pc = "createSecret" /\ Carries(j, i) /\ i.ob = b
      BY <1>1, <3>1 DEF Job, Carries
    <3>4. IsSupplied(j, i)
      BY <3>1, <3>2, <3>3 DEF IsSupplied
    <3> QED
      BY <1>2, <3>4 DEF ProvisionMove
  <2> QED
    BY <1>3, <1>7, <2>1 DEF Provision, Grant
<1>8. CASE ClaimRef(w)
  <2> DEFINE b == addFinalizers([j.ob EXCEPT !.class = j.obc.class, !.policy = PolicyFor(j),
                                             !.claim = o.uid])
  <2>1. CASE o # None /\ Continue(w, [j EXCEPT !.pc = "createOb", !.ob = b])
    <3>1. i = [j EXCEPT !.pc = "createOb", !.ob = b] /\ j.pc = "claimRef"
      BY <1>1, <1>8, <2>1 DEF Continue, ClaimRef
    <3>2. j.ob \in ObjectBucket
      BY <1>1, <3>1 DEF JobShape, Artifacts
    <3>3. /\ b.bucket = j.ob.bucket /\ b.user = j.ob.user
          /\ b.class = j.obc.class /\ b.claim = o.uid /\ b.policy = PolicyFor(j)
      BY <3>2 DEF addFinalizers, ObjectBucket
    <3> HIDE DEF b
    <3>4. i.pc = "createOb" /\ Carries(j, i) /\ i.ob = b
      BY <1>1, <3>1 DEF Job, Carries
    <3>5. RefersTo(j, i, o)
      BY <2>1, <3>1, <3>3, <3>4 DEF RefersTo
    <3> QED
      BY <1>2, <3>5 DEF ProvisionMove
  <2> QED
    BY <1>3, <1>8, <2>1 DEF ClaimRef, claimForKey, ContinueIfFound
<1> QED
  BY <1>4, <1>5, <1>6, <1>7, <1>8

LEMMA ArtifactMoves ==
    ASSUME TypeInv, NEW w \in Workers, NEW kind \in Kinds,
           CreateArtifact(w, kind) \/ UpdateArtifact(w, kind)
    PROVE  ProvisionMove(w)
<1> DEFINE j == job[w]
           i == job'[w]
           k == j.key
<1> USE DEF At
<1>1. j \in Job /\ job \in [Workers -> Job] /\ JobShape(j)
  BY DEF TypeInv, ControllerInv
<1>2. UNCHANGED <<obc, ob>> /\ j.pc \in {CreatePc[kind], UpdatePc[kind]} /\ j.pc \in Artifacts
  BY DEF CreateArtifact, UpdateArtifact, CreatePc, UpdatePc, Kinds, Artifacts
<1>3. j.obc \in Claim /\ j.ob \in ObjectBucket /\ k \in Keys
  BY <1>1, <1>2 DEF JobShape, Artifacts
<1>4. CASE Requeue(w) /\ UNCHANGED artifact
  BY <1>1, <1>2, <1>4 DEF Requeue, Stops, ProvisionMove
<1>5. ASSUME NEW pc, Continue(w, [j EXCEPT !.pc = pc])
      PROVE  i.pc = pc /\ Carries(j, i) /\ i.ob = j.ob
  <2>1. i = [j EXCEPT !.pc = pc]
    BY <1>1, <1>5 DEF Continue
  <2> QED
    BY <1>1, <2>1 DEF Carries, Job
<1>6. ASSUME NEW a, a \in Artifact, a.finalizer, a.owner = j.obc.uid, a.bucket = j.ob.bucket,
             artifact' = [artifact EXCEPT ![kind][k] = a],
             Continue(w, [j EXCEPT !.pc = AfterPc[kind]])
      PROVE  ProvisionMove(w)
  <2>1. WritesArtifact(j, i, kind, a)
    BY <1>2, <1>5, <1>6, NoneAssumption DEF WritesArtifact
  <2> QED
    BY <1>2, <1>6, <2>1 DEF ProvisionMove
<1>7. CASE CreateArtifact(w, kind)
  <2> DEFINE a == NewArtifact(j)
  <2>1. a \in Artifact /\ a.finalizer /\ a.owner = j.obc.uid /\ a.bucket = j.ob.bucket
    BY <1>3 DEF NewArtifact, Artifact, Claim, ObjectBucket
  <2> HIDE DEF a
  <2>2. CASE artifact' = [artifact EXCEPT ![kind][k] = a]
             /\ Continue(w, [j EXCEPT !.pc = AfterPc[kind]])
    BY <1>6, <2>1, <2>2
  <2>3. CASE UNCHANGED artifact /\ Continue(w, [j EXCEPT !.pc = UpdatePc[kind]])
    <3>1. <<j.pc, UpdatePc[kind]>> \in {<<"createSecret", "updateSecret">>, <<"createCm", "updateCm">>}
      BY <1>7 DEF CreateArtifact, CreatePc, UpdatePc, Kinds
    <3>2. GoesOn(j, i)
      BY <1>5, <2>3, <3>1 DEF GoesOn
    <3> QED
      BY <1>2, <2>3, <3>2 DEF ProvisionMove
  <2> QED
    BY <1>7, <2>2, <2>3 DEF CreateArtifact, a
<1>8. CASE UpdateArtifact(w, kind)
  <2> DEFINE x == artifact[kind][k]
             a == [NewArtifact(j) EXCEPT !.deleted = x.deleted]
  <2>1. CASE x # None /\ artifact' = [artifact EXCEPT ![kind][k] = a]
             /\ Continue(w, [j EXCEPT !.pc = AfterPc[kind]])
    <3>1. x \in Artifact
      BY <1>3, <2>1 DEF TypeInv, ClusterTypeOK
    <3>2. a \in Artifact /\ a.finalizer /\ a.owner = j.obc.uid /\ a.bucket = j.ob.bucket
      BY <1>3, <3>1 DEF NewArtifact, Artifact, Claim, ObjectBucket
    <3> HIDE DEF a
    <3> QED
      BY <1>6, <2>1, <3>2
  <2> QED
    BY <1>4, <1>8, <2>1 DEF UpdateArtifact
<1> QED
  BY <1>7, <1>8

LEMMA ObMoves ==
    ASSUME TypeInv, NEW w \in Workers,
           CreateOb(w) \/ GetCurrentOb(w) \/ UpdateOb(w) \/ ObBound(w)
    PROVE  ProvisionMove(w)
<1> DEFINE j == job[w]
           i == job'[w]
           k == j.key
           n == ObjectBucketName(k)
<1> USE DEF At
<1>1. j \in Job /\ job \in [Workers -> Job] /\ JobShape(j)
  BY DEF TypeInv, ControllerInv
<1>2. UNCHANGED <<obc, artifact>> /\ j.pc \in Binding
  BY DEF CreateOb, GetCurrentOb, UpdateOb, ObBound, ReplaceOb, Binding, kube
<1>3. j.ob \in ObjectBucket /\ k \in Keys
  BY <1>1, <1>2 DEF JobShape, Binding
<1>4. CASE Requeue(w) /\ UNCHANGED ob
  BY <1>1, <1>2, <1>4 DEF Requeue, Stops, ProvisionMove
<1>5. CASE CreateOb(w)
  <2>1. ASSUME NEW pc, Continue(w, [j EXCEPT !.pc = pc])
        PROVE  i.pc = pc /\ Carries(j, i) /\ i.ob = j.ob
    <3>1. i = [j EXCEPT !.pc = pc]
      BY <1>1, <2>1 DEF Continue
    <3> QED
      BY <1>1, <3>1 DEF Carries, Job
  <2>2. CASE ob[n] = None /\ ob' = [ob EXCEPT ![n] = j.ob]
             /\ Continue(w, [j EXCEPT !.pc = "obBound"])
    <3>1. WritesOb(j, i, ob[n])
      BY <1>3, <1>5, <2>1, <2>2 DEF WritesOb, CreateOb
    <3> QED
      BY <1>2, <2>1, <2>2, <3>1 DEF ProvisionMove
  <2>3. CASE Continue(w, [j EXCEPT !.pc = "getCurrentOb"]) /\ UNCHANGED ob
    <3>1. GoesOn(j, i)
      BY <1>5, <2>1, <2>3 DEF GoesOn, CreateOb
    <3> QED
      BY <1>2, <2>3, <3>1 DEF ProvisionMove
  <2> QED
    BY <1>5, <2>2, <2>3 DEF CreateOb
<1>6. CASE GetCurrentOb(w)
  <2> DEFINE b == ob[n]
  <2>1. CASE Continue(w, [j EXCEPT !.pc = "updateOb", !.base = b])
    <3>1. i = [j EXCEPT !.pc = "updateOb", !.base = b] /\ j.pc = "getCurrentOb" /\ UNCHANGED ob
      BY <1>1, <1>6, <2>1 DEF Continue, GetCurrentOb, kube
    <3> HIDE DEF b
    <3>2. i.pc = "updateOb" /\ Carries(j, i) /\ i.ob = j.ob
      BY <1>1, <3>1 DEF Carries, Job
    <3>3. GoesOn(j, i)
      BY <3>1, <3>2 DEF GoesOn
    <3> QED
      BY <1>2, <3>1, <3>3 DEF ProvisionMove
  <2> QED
    BY <1>4, <1>6, <2>1 DEF GetCurrentOb, ContinueIfFound, kube
<1>7. ASSUME NEW new \in ObjectBucket, NEW next, next \in {"obBound", "bindClaim"},
             ob' = [ob EXCEPT ![n] = new],
             Continue(w, [j EXCEPT !.pc = next, !.ob = new, !.base = None])
      PROVE  i.pc = next /\ Carries(j, i) /\ i.ob = new
  <2>1. i = [j EXCEPT !.pc = next, !.ob = new, !.base = None]
    BY <1>1, <1>7 DEF Continue
  <2> QED
    BY <1>1, <2>1 DEF Carries, Job
<1>8. CASE UpdateOb(w)
  <2> DEFINE new == [j.ob EXCEPT !.phase = j.base.phase, !.deleted = j.base.deleted]
  <2>1. CASE ob[n] = j.base /\ ob' = [ob EXCEPT ![n] = new]
             /\ Continue(w, [j EXCEPT !.pc = "obBound", !.ob = new, !.base = None])
    <3>1. j.pc = "updateOb" /\ j.base \in ObjectBucket
      BY <1>1, <1>8 DEF UpdateOb, ReplaceOb, JobShape
    <3>2. /\ new \in ObjectBucket /\ new.bucket = j.ob.bucket /\ new.user = j.ob.user
          /\ new.class = j.ob.class /\ new.claim = j.ob.claim /\ new.policy = j.ob.policy
          /\ new.phase = j.base.phase
      BY <1>3, <3>1 DEF ObjectBucket
    <3> HIDE DEF new
    <3>3. WritesOb(j, i, ob[n]) /\ i.ob = new
      BY <1>7, <2>1, <3>1, <3>2 DEF WritesOb
    <3> QED
      BY <1>2, <2>1, <3>3 DEF ProvisionMove
  <2> QED
    BY <1>4, <1>8, <2>1 DEF UpdateOb, ReplaceOb
<1>9. CASE ObBound(w)
  <2> DEFINE new == [j.ob EXCEPT !.phase = "Bound"]
  <2>1. CASE ob' = [ob EXCEPT ![n] = new]
             /\ Continue(w, [j EXCEPT !.pc = "bindClaim", !.ob = new, !.base = None])
    <3>1. j.pc = "obBound"
      BY <1>9 DEF ObBound, ReplaceOb
    <3>2. /\ new \in ObjectBucket /\ new.bucket = j.ob.bucket /\ new.user = j.ob.user
          /\ new.class = j.ob.class /\ new.claim = j.ob.claim /\ new.policy = j.ob.policy
          /\ new.phase = "Bound"
      BY <1>3 DEF ObjectBucket
    <3> HIDE DEF new
    <3>3. WritesOb(j, i, ob[n]) /\ i.ob = new
      BY <1>7, <2>1, <3>1, <3>2 DEF WritesOb
    <3> QED
      BY <1>2, <2>1, <3>3 DEF ProvisionMove
  <2> QED
    BY <1>4, <1>9, <2>1 DEF ObBound, ReplaceOb
<1> QED
  BY <1>5, <1>6, <1>8, <1>9

LEMMA ClaimMoves ==
    ASSUME TypeInv, NEW w \in Workers,
           SetPending(w) \/ SetMeta(w) \/ SaveName(w) \/ BindClaim(w) \/ SetBound(w)
    PROVE  ProvisionMove(w)
<1> DEFINE j == job[w]
           i == job'[w]
           k == j.key
           n == ObjectBucketName(k)
<1> USE DEF At
<1>1. j \in Job /\ job \in [Workers -> Job] /\ JobShape(j)
  BY DEF TypeInv, ControllerInv
<1>2. UNCHANGED <<ob, artifact>> /\ j.obc \in Claim /\ k \in Keys /\ n \in ObNames
  BY <1>1
  DEF SetPending, SetMeta, SaveName, BindClaim, SetBound, UpdateClaim, JobShape, ObNames
<1>3. ASSUME NEW pc, NEW new, NEW next, UpdateClaim(w, pc, new, next)
      PROVE  \/ Stops(w)
             \/ /\ obc[k] = j.obc /\ obc' = [obc EXCEPT ![k] = new]
                /\ job' = [job EXCEPT ![w] = next] /\ j.pc = pc
  BY <1>1, <1>2, <1>3 DEF UpdateClaim, Requeue, Stops
<1>4. ASSUME NEW new, obc[k] = j.obc, obc' = [obc EXCEPT ![k] = new], WritesClaim(j, i, new, n)
      PROVE  ProvisionMove(w)
  BY <1>2, <1>4 DEF ProvisionMove
<1>5. ASSUME NEW pc, NEW new, job' = [job EXCEPT ![w] = [j EXCEPT !.pc = pc, !.obc = new]]
      PROVE  /\ i.pc = pc /\ i.key = k /\ i.obc = new /\ i.class = j.class /\ i.name = j.name
             /\ i.ob = j.ob
  <2>1. i = [j EXCEPT !.pc = pc, !.obc = new]
    BY <1>1, <1>5
  <2> QED
    BY <1>1, <2>1 DEF Job
<1>6. CASE SetPending(w)
  <2> DEFINE new == [j.obc EXCEPT !.phase = "Pending"]
             next == [j EXCEPT !.pc = "setMeta", !.obc = new]
  <2>1. UpdateClaim(w, "setPending", new, next)
    BY <1>6 DEF SetPending
  <2>2. /\ new \in Claim /\ new.uid = j.obc.uid /\ new.class = j.obc.class
        /\ new.deleted = j.obc.deleted /\ new.finalizer = j.obc.finalizer
        /\ new.bucket = j.obc.bucket /\ new.ob = j.obc.ob /\ new.phase = "Pending"
    BY <1>2 DEF Claim
  <2> HIDE DEF new
  <2>3. ASSUME job' = [job EXCEPT ![w] = next], j.pc = "setPending"
        PROVE  WritesClaim(j, i, new, n)
    <3>1. /\ i.pc = next.pc /\ i.key = k /\ i.obc = new /\ i.class = j.class /\ i.name = j.name
          /\ i.ob = j.ob /\ next.pc = "setMeta"
      BY <1>1, <1>5, <2>3 DEF Job
    <3> HIDE DEF next
    <3> QED
      BY <2>2, <2>3, <3>1 DEF WritesClaim
  <2> HIDE DEF next
  <2> QED
    BY <1>3, <1>4, <2>1, <2>3 DEF ProvisionMove
<1>7. CASE SetMeta(w)
  <2> DEFINE new == addFinalizers(j.obc)
             next == [j EXCEPT !.pc = "getOb", !.obc = new]
  <2>1. UpdateClaim(w, "setMeta", new, next)
    BY <1>7 DEF SetMeta
  <2>2. /\ new \in Claim /\ new.uid = j.obc.uid /\ new.class = j.obc.class
        /\ new.deleted = j.obc.deleted /\ new.finalizer
        /\ new.bucket = j.obc.bucket /\ new.ob = j.obc.ob /\ new.phase = j.obc.phase
    BY <1>2 DEF addFinalizers, Claim
  <2> HIDE DEF new
  <2>3. ASSUME job' = [job EXCEPT ![w] = next], j.pc = "setMeta"
        PROVE  WritesClaim(j, i, new, n)
    <3>1. /\ i.pc = next.pc /\ i.key = k /\ i.obc = new /\ i.class = j.class /\ i.name = j.name
          /\ i.ob = j.ob /\ next.pc = "getOb"
      BY <1>1, <1>5, <2>3 DEF Job
    <3> HIDE DEF next
    <3> QED
      BY <2>2, <2>3, <3>1 DEF WritesClaim
  <2> HIDE DEF next
  <2> QED
    BY <1>3, <1>4, <2>1, <2>3 DEF ProvisionMove
<1>8. CASE SaveName(w)
  <2> DEFINE new == [j.obc EXCEPT !.bucket = j.name]
             next == [j EXCEPT !.pc = "provision", !.obc = new]
  <2>1. UpdateClaim(w, "saveName", new, next) /\ j.name \in Buckets
    BY <1>1, <1>8 DEF SaveName, UpdateClaim, JobShape, Naming
  <2>2. /\ new \in Claim /\ new.uid = j.obc.uid /\ new.class = j.obc.class
        /\ new.deleted = j.obc.deleted /\ new.finalizer = j.obc.finalizer
        /\ new.bucket = j.name /\ new.ob = j.obc.ob /\ new.phase = j.obc.phase
    BY <1>2, <2>1 DEF Claim
  <2> HIDE DEF new
  <2>3. ASSUME job' = [job EXCEPT ![w] = next], j.pc = "saveName"
        PROVE  WritesClaim(j, i, new, n)
    <3>1. /\ i.pc = next.pc /\ i.key = k /\ i.obc = new /\ i.class = j.class /\ i.name = j.name
          /\ i.ob = j.ob /\ next.pc = "provision"
      BY <1>1, <1>5, <2>3 DEF Job
    <3> HIDE DEF next
    <3> QED
      BY <2>2, <2>3, <3>1 DEF WritesClaim
  <2> HIDE DEF next
  <2> QED
    BY <1>3, <1>4, <2>1, <2>3 DEF ProvisionMove
<1>9. CASE BindClaim(w)
  <2> DEFINE new == [j.obc EXCEPT !.ob = n, !.bucket = j.name]
             next == [j EXCEPT !.pc = "setBound", !.obc = new]
  <2>1. UpdateClaim(w, "bindClaim", new, next) /\ j.name \in Buckets
    BY <1>1, <1>9 DEF BindClaim, UpdateClaim, JobShape, Binding
  <2> HIDE DEF n
  <2>2. /\ new \in Claim /\ new.uid = j.obc.uid /\ new.class = j.obc.class
        /\ new.deleted = j.obc.deleted /\ new.finalizer = j.obc.finalizer
        /\ new.bucket = j.name /\ new.ob = n /\ new.phase = j.obc.phase
    BY <1>2, <2>1 DEF Claim
  <2> HIDE DEF new
  <2>3. ASSUME job' = [job EXCEPT ![w] = next], j.pc = "bindClaim"
        PROVE  WritesClaim(j, i, new, n)
    <3>1. /\ i.pc = next.pc /\ i.key = k /\ i.obc = new /\ i.class = j.class /\ i.name = j.name
          /\ i.ob = j.ob /\ next.pc = "setBound"
      BY <1>1, <1>5, <2>3 DEF Job
    <3> HIDE DEF next
    <3> QED
      BY <2>2, <2>3, <3>1 DEF WritesClaim
  <2> HIDE DEF next
  <2> QED
    BY <1>3, <1>4, <2>1, <2>3 DEF ProvisionMove
<1>10. CASE SetBound(w)
  <2> DEFINE new == [j.obc EXCEPT !.phase = "Bound"]
  <2>1. UpdateClaim(w, "setBound", new, IdleJob)
    BY <1>10 DEF SetBound
  <2>2. /\ new \in Claim /\ new.uid = j.obc.uid /\ new.class = j.obc.class
        /\ new.deleted = j.obc.deleted /\ new.finalizer = j.obc.finalizer
        /\ new.bucket = j.obc.bucket /\ new.ob = j.obc.ob /\ new.phase = "Bound"
    BY <1>2 DEF Claim
  <2> HIDE DEF new
  <2>3. job' = [job EXCEPT ![w] = IdleJob] => i = IdleJob
    BY <1>1
  <2> QED
    BY <1>3, <1>4, <2>1, <2>2, <2>3 DEF WritesClaim, ProvisionMove
<1> QED
  BY <1>6, <1>7, <1>8, <1>9, <1>10

LEMMA ProvisionMoves ==
    ASSUME TypeInv, NEW w \in Workers, ProvisionStep(w)
    PROVE  ProvisionMove(w)
BY ReadingMoves, ArtifactMoves, ObMoves, ClaimMoves DEF ProvisionStep

\* A step of handleDeleteClaim.
DeleteMove(w) ==
    LET j == job[w]
        i == job'[w]
        k == j.key
        n == ObjectBucketName(k)
    IN  /\ j.pc \in Deprovisioning
        /\ \/ i = IdleJob
           \/ /\ i.pc \in Cleaning /\ i.key = k
              /\ i.obc = j.obc \/ (i.obc = obc[k] /\ obc[k] # None)
        /\ \/ UNCHANGED obc
           \/ obc[k] = j.obc /\ obc' = [obc EXCEPT ![k] = removeFinalizer(j.obc)]
        /\ \/ UNCHANGED ob
           \/ \E b : ob' = [ob EXCEPT ![n] = b] /\ (b # None => SameOb(ob[n], b))
        /\ i.pc \in Sought =>
              \/ i.ob = ob[n]
              \/ j.pc \in Sought /\ (i.ob = j.ob \/ SameOb(j.ob, i.ob))
        /\ i.pc = "delete" => isNewBucket(j.ob) /\ j.ob.policy = "Delete" /\ i.ob = j.ob

LEMMA DeleteMoves ==
    ASSUME TypeInv, NEW w \in Workers, DeleteStep(w)
    PROVE  DeleteMove(w)
<1> DEFINE j == job[w]
           i == job'[w]
           k == j.key
           n == ObjectBucketName(k)
           Writes == \E b : ob' = [ob EXCEPT ![n] = b] /\ (b # None => SameOb(ob[n], b))
           Seeks == i.pc \in Sought =>
                       \/ i.ob = ob[n]
                       \/ j.pc \in Sought /\ (i.ob = j.ob \/ SameOb(j.ob, i.ob))
           Deletes == i.pc = "delete" => isNewBucket(j.ob) /\ j.ob.policy = "Delete" /\ i.ob = j.ob
<1> USE DEF At
<1>1. j \in Job /\ job \in [Workers -> Job] /\ JobShape(j)
  BY DEF TypeInv, ControllerInv
<1>2. IdleJob.pc \notin Sought /\ IdleJob.pc # "delete" /\ IdleJob.pc # "findOb"
  BY IdleKey DEF Sought, Unbinding
<1>3. ASSUME i = IdleJob PROVE Seeks /\ Deletes /\ i.pc # "findOb"
  BY <1>2, <1>3
<1>4. ASSUME (UNCHANGED ob) \/ Writes, Seeks, Deletes, i.pc # "findOb"
      PROVE  DeleteMove(w)
  <2>1. CASE CleanupStep(w)
    <3>1. /\ UNCHANGED obc /\ j.pc \in Deprovisioning
          /\ i = IdleJob \/ (i.pc \in Deprovisioning /\ i.key = k /\ i.obc = j.obc)
      BY <2>1, CleanupStepJob
    <3> QED
      BY <1>4, <3>1 DEF DeleteMove, Cleaning
  <2>2. CASE GetClaimToRelease(w)
    <3> DEFINE o == obc[k]
    <3>1. UNCHANGED obc /\ j.pc = "release"
      BY <2>2 DEF GetClaimToRelease, kube
    <3>2. i = IdleJob \/ (o # None /\ i = [j EXCEPT !.pc = "dropClaimFinalizer", !.obc = o])
      BY <1>1, <2>2 DEF GetClaimToRelease, ContinueIfFound, Continue, Requeue
    <3> HIDE DEF o
    <3>3. i = IdleJob \/ (o # None /\ i.pc = "dropClaimFinalizer" /\ i.key = k /\ i.obc = o)
      BY <1>1, <3>2 DEF Job
    <3>4. "release" \in Deprovisioning /\ "dropClaimFinalizer" \in Cleaning
      BY DEF Deprovisioning, Cleaning
    <3> QED
      BY <1>4, <3>1, <3>3, <3>4 DEF DeleteMove, o
  <2>3. CASE DropClaimFinalizer(w)
    <3>1. /\ i = IdleJob /\ j.pc = "dropClaimFinalizer"
          /\ \/ UNCHANGED obc
             \/ obc[k] = j.obc /\ obc' = [obc EXCEPT ![k] = removeFinalizer(j.obc)]
      BY <1>1, <2>3 DEF DropClaimFinalizer, Requeue
    <3> QED
      BY <1>4, <3>1 DEF DeleteMove, Deprovisioning
  <2> QED
    BY <2>1, <2>2, <2>3 DEF DeleteStep, CleanupStep
<1> HIDE DEF Writes
<1>5. CASE FindOb(w)
  <2> DEFINE b == ob[n]
  <2>1. i = [j EXCEPT !.pc = "findCm", !.ob = b] /\ UNCHANGED ob
    BY <1>1, <1>5 DEF FindOb, Continue, kube
  <2> HIDE DEF b
  <2>2. i.pc = "findCm" /\ i.ob = b
    BY <1>1, <2>1 DEF Job
  <2> QED
    BY <1>4, <2>1, <2>2 DEF b
<1>6. ASSUME NEW pc, i.pc = pc, i.ob = j.ob, pc \in Sought => j.pc \in Sought,
             pc \notin {"delete", "findOb"},
             UNCHANGED ob \/ Writes
      PROVE  DeleteMove(w)
  BY <1>4, <1>6
<1>7. CASE FindCm(w)
  <2> DEFINE f == IfStored("cm", k)
  <2>1. i = [j EXCEPT !.pc = "findSecret", !.found = f] /\ UNCHANGED ob /\ j.pc = "findCm"
    BY <1>1, <1>7 DEF FindCm, Continue, kube
  <2> HIDE DEF f
  <2>2. i.pc = "findSecret" /\ i.ob = j.ob
    BY <1>1, <2>1 DEF Job
  <2> QED
    BY <1>6, <2>1, <2>2 DEF Sought
<1>8. CASE FindSecret(w)
  <2> DEFINE pc == IF j.ob = None THEN "release" ELSE "markReleased"
             f == j.found \cup IfStored("secret", k)
  <2>1. /\ i = IdleJob \/ i = [j EXCEPT !.pc = pc, !.found = f]
        /\ UNCHANGED ob /\ j.pc = "findSecret"
    BY <1>1, <1>8 DEF FindSecret, Continue, Done, kube
  <2>2. pc \notin {"delete", "findOb"}
    OBVIOUS
  <2> HIDE DEF pc, f
  <2>3. i = IdleJob \/ (i.pc = pc /\ i.ob = j.ob)
    BY <1>1, <2>1 DEF Job
  <2> QED
    BY <1>3, <1>4, <1>6, <2>1, <2>2, <2>3 DEF Sought
<1>9. CASE MarkReleased(w)
  <2> DEFINE new == [j.ob EXCEPT !.phase = "Released"]
  <2>1. /\ \/ i = IdleJob /\ UNCHANGED ob
           \/ /\ ob[n] = j.ob /\ ob' = [ob EXCEPT ![n] = new]
              /\ i = [j EXCEPT !.pc = "getObClass", !.ob = new, !.base = None]
        /\ j.pc = "markReleased" /\ j.ob \in ObjectBucket
    BY <1>1, <1>9 DEF MarkReleased, ReplaceOb, Continue, Requeue, JobShape, Unbinding
  <2>2. SameOb(j.ob, new)
    BY <2>1, NoneAssumption DEF SameOb, ObjectBucket
  <2> HIDE DEF new
  <2>3. i = [j EXCEPT !.pc = "getObClass", !.ob = new, !.base = None] =>
            i.pc = "getObClass" /\ i.ob = new
    BY <1>1 DEF Job
  <2>4. j.pc \in Sought
    BY <2>1 DEF Sought, Unbinding
  <2> QED
    BY <1>3, <1>4, <2>1, <2>2, <2>3, <2>4 DEF Writes
<1>10. CASE GetObClass(w)
  <2> DEFINE pc == IF isNewBucket(j.ob) /\ j.ob.policy = "Delete" THEN "delete" ELSE "revoke"
  <2>1. i = [j EXCEPT !.pc = pc] /\ UNCHANGED ob /\ j.pc = "getObClass"
    BY <1>1, <1>10 DEF GetObClass, Continue, kube
  <2>2. pc # "findOb" /\ (pc = "delete" => isNewBucket(j.ob) /\ j.ob.policy = "Delete")
    OBVIOUS
  <2> HIDE DEF pc
  <2>3. i.pc = pc /\ i.ob = j.ob
    BY <1>1, <2>1 DEF Job
  <2>4. j.pc \in Sought
    BY <2>1 DEF Sought, Unbinding
  <2> QED
    BY <1>4, <2>1, <2>2, <2>3, <2>4
<1>11. CASE Delete(w) \/ Revoke(w)
  <2>1. i = [j EXCEPT !.pc = "dropObFinalizer"] /\ UNCHANGED ob /\ j.pc \in {"delete", "revoke"}
    BY <1>1, <1>11 DEF Delete, Revoke, kube
  <2>2. i.pc = "dropObFinalizer" /\ i.ob = j.ob
    BY <1>1, <2>1 DEF Job
  <2>3. j.pc \in Sought
    BY <2>1 DEF Sought, Unbinding
  <2> QED
    BY <1>6, <2>1, <2>2, <2>3
<1>12. CASE DropObFinalizer(w)
  <2> DEFINE new == removeFinalizer(j.ob)
  <2>1. /\ j.pc = "dropObFinalizer" /\ j.ob \in ObjectBucket /\ j.pc \in Sought
        /\ \/ UNCHANGED ob
           \/ ob[n] = j.ob /\ ob' = [ob EXCEPT ![n] = new]
    BY <1>1, <1>12 DEF DropObFinalizer, JobShape, Unbinding, Sought
  <2>2. new # None => SameOb(j.ob, new)
    BY <2>1, NoneAssumption DEF SameOb, ObjectBucket, removeFinalizer, Stored
  <2>3. i.pc \in {"deleteOb", "release"} /\ i.ob = j.ob
    BY <1>1, <1>12 DEF DropObFinalizer, SkipOb, Job
  <2> HIDE DEF new
  <2> QED
    BY <1>6, <2>1, <2>2, <2>3 DEF Writes
<1>13. CASE DeleteOb(w)
  <2> DEFINE new == IF ob[n] = None THEN None ELSE Deleting(ob[n])
  <2>1. j.pc = "deleteOb" /\ ob' = [ob EXCEPT ![n] = new] /\ j.pc \in Sought /\ k \in Keys
    BY <1>1, <1>13 DEF DeleteOb, Unbinding, Sought, JobShape
  <2>2. ob[n] \in ObjectBucket \cup {None}
    BY <2>1 DEF TypeInv, ClusterTypeOK, ObNames
  <2>3. new # None => SameOb(ob[n], new)
    BY <2>2, NoneAssumption DEF SameOb, ObjectBucket, Deleting, Stored
  <2>4. i.pc = "release" /\ i.ob = j.ob
    BY <1>1, <1>13 DEF DeleteOb, Job
  <2> HIDE DEF new
  <2> QED
    BY <1>6, <2>1, <2>3, <2>4 DEF Writes
\* What is left does not look at OBs.
<1>14. ASSUME UNCHANGED ob, i = IdleJob \/ i.pc \in {"release", "dropFinalizer", "dropClaimFinalizer"}
       PROVE  DeleteMove(w)
  BY <1>3, <1>4, <1>14 DEF Sought, Unbinding
<1>15. CASE GetArtifact(w) \/ DropFinalizer(w)
  <2>1. UNCHANGED ob
    BY <1>15 DEF GetArtifact, DropFinalizer, kube
  <2>2. ASSUME NEW failed, Released(w, failed) PROVE i.pc = "release"
    BY <1>1, <2>2 DEF Released, Job
  <2>3. CASE DropFinalizer(w)
    BY <1>14, <2>1, <2>2, <2>3 DEF DropFinalizer
  <2>4. CASE GetArtifact(w)
    <3> DEFINE a == artifact[Current(j)][k]
    <3>1. Released(w, TRUE) \/ job' = [job EXCEPT ![w].pc = "dropFinalizer", ![w].base = a]
      BY <2>4 DEF GetArtifact
    <3> HIDE DEF a
    <3>2. job' = [job EXCEPT ![w].pc = "dropFinalizer", ![w].base = a] => i.pc = "dropFinalizer"
      BY <1>1 DEF Job
    <3> QED
      BY <1>14, <2>1, <2>2, <3>1, <3>2
  <2> QED
    BY <1>15, <2>3, <2>4
<1>16. CASE GetClaimToRelease(w)
  <2> DEFINE o == obc[k]
  <2>1. /\ i = IdleJob \/ i = [j EXCEPT !.pc = "dropClaimFinalizer", !.obc = o]
        /\ UNCHANGED ob
    BY <1>1, <1>16 DEF GetClaimToRelease, ContinueIfFound, Continue, Requeue, kube
  <2> HIDE DEF o
  <2>2. i = IdleJob \/ i.pc = "dropClaimFinalizer"
    BY <1>1, <2>1 DEF Job
  <2> QED
    BY <1>14, <2>1, <2>2
<1>17. CASE DropClaimFinalizer(w)
  <2>1. i = IdleJob /\ UNCHANGED ob
    BY <1>1, <1>17 DEF DropClaimFinalizer, Requeue
  <2> QED
    BY <1>14, <2>1
<1> QED
  BY <1>5, <1>7, <1>8, <1>9, <1>10, <1>11, <1>12, <1>13, <1>15, <1>16, <1>17 DEF DeleteStep

\* A failed call in handleDeleteClaim is remembered, and the job goes on.
GoesOnAfterError(j, i) ==
    /\ j.pc \in Deprovisioning /\ i.pc \in Cleaning \ {"delete"}
    /\ i.key = j.key /\ i.obc = j.obc /\ i.ob = j.ob
    /\ i.pc \in Sought => j.pc \in Sought

\* A key is taken, jobs end, or a failed call is ignored.
QuietMove ==
    /\ UNCHANGED <<obc, ob, artifact>>
    /\ \A w \in Workers :
          \/ job'[w] = job[w]
          \/ job'[w] = IdleJob
          \/ job'[w].pc = "getClaim" /\ job'[w].key \in Keys
          \/ GoesOnAfterError(job[w], job'[w])

LEMMA QuietMoves ==
    ASSUME TypeInv,
           \/ Fault
           \/ \E w \in Workers, k \in Keys : GetItem(w, k)
           \/ UNCHANGED vars
    PROVE  QuietMove
<1>1. job \in [Workers -> Job]
  BY DEF TypeInv, ControllerInv
<1>2. CASE UNCHANGED vars
  BY <1>2 DEF vars, QuietMove
<1>3. ASSUME NEW w \in Workers, NEW k \in Keys, GetItem(w, k)
      PROVE  QuietMove
  <2> DEFINE i == [IdleJob EXCEPT !.pc = "getClaim", !.key = k]
  <2>1. i.pc = "getClaim" /\ i.key \in Keys
    BY DEF IdleJob
  <2>2. UNCHANGED <<obc, ob, artifact>> /\ job' = [job EXCEPT ![w] = i]
    BY <1>3 DEF GetItem, kube
  <2> HIDE DEF i
  <2>3. job'[w] = i /\ \A v \in Workers : v # w => job'[v] = job[v]
    BY <1>1, <2>2
  <2> QED
    BY <2>1, <2>2, <2>3 DEF QuietMove
<1>4. ASSUME NEW p, Crash(p)
      PROVE  QuietMove
  BY <1>4 DEF Crash, kube, QuietMove
<1>5. ASSUME NEW w \in Workers, ProvisionError(w) \/ DeprovisionError(w) \/ ApiError(w)
      PROVE  QuietMove
  <2> DEFINE j == job[w]
             i == job'[w]
  <2>1. UNCHANGED <<obc, ob, artifact>>
    BY <1>5 DEF ProvisionError, DeprovisionError, ApiError, kube
  <2>2. CASE Requeue(w)
    BY <1>1, <2>1, <2>2 DEF Requeue, QuietMove
  <2>3. ASSUME NEW m, job' = [job EXCEPT ![w] = m], GoesOnAfterError(j, m)
        PROVE  QuietMove
    BY <1>1, <2>1, <2>3 DEF QuietMove
  <2>4. j \in Job
    BY <1>1
  <2>5. CASE j.pc = "getObClass" /\ Continue(w, [j EXCEPT !.pc = "revoke"])
    <3> DEFINE m == [j EXCEPT !.pc = "revoke"]
    <3>1. m.pc = "revoke" /\ m.key = j.key /\ m.obc = j.obc /\ m.ob = j.ob
      BY <2>4 DEF Job
    <3>2. job' = [job EXCEPT ![w] = m]
      BY <2>5 DEF Continue
    <3> HIDE DEF m
    <3>3. GoesOnAfterError(j, m)
      BY <2>5, <3>1 DEF GoesOnAfterError, Deprovisioning, Cleaning, Unbinding, Sought
    <3> QED
      BY <2>3, <3>2, <3>3
  <2>6. CASE j.pc \in Deprovisioning /\ (SkipOb(w) \/ Released(w, TRUE))
    <3>1. job' = [job EXCEPT ![w] = i]
      BY <1>1, <2>6 DEF SkipOb, Released
    <3>2. i.pc = "release" /\ i.key = j.key /\ i.obc = j.obc /\ i.ob = j.ob
      BY <1>1, <2>4, <2>6 DEF SkipOb, Released, Job
    <3>3. GoesOnAfterError(j, i)
      BY <2>6, <3>2 DEF GoesOnAfterError, Deprovisioning, Cleaning, Unbinding, Sought
    <3> QED
      BY <2>3, <3>1, <3>3
  <2>7. CASE ApiError(w)
    <3>1. {"dropObFinalizer", "deleteOb", "release", "dropFinalizer"} \subseteq Deprovisioning
      BY DEF Deprovisioning, Unbinding
    <3> QED
      BY <2>2, <2>5, <2>6, <2>7, <3>1 DEF ApiError
  <2> QED
    BY <1>5, <2>2, <2>7 DEF ProvisionError, DeprovisionError
<1> QED
  BY <1>2, <1>3, <1>4, <1>5 DEF Fault

-------------------------------------------------------------------------------
(* Copies that have the finalizer stay true.                               *)

\* The stored claim o becomes p: it vanishes or is a later version.
Later(o, p) ==
    p # None =>
        /\ o # None /\ p.uid = o.uid /\ p.class = o.class
        /\ o.finalizer => p.finalizer
        /\ o.deleted => p.deleted

LEMMA CopyStays ==
    ASSUME NEW j, NEW o, NEW p, JobCopy(j, o),
           Later(o, p) \/ (HasCopy(j) => ~j.obc.finalizer)
    PROVE  JobCopy(j, p)
BY DEF JobCopy, CopyFits, Later

\* A step of handleProvisionClaim.
LEMMA ProvisionCopy ==
    ASSUME TypeInv, CopyInv, NEW w \in Workers, ProvisionStep(w)
    PROVE  LET k == job[w].key
               p == obc'[k]
           IN  /\ p # None => ClaimSound(p)
               /\ Later(obc[k], p)
               /\ \A l \in Keys : l # k => obc'[l] = obc[l]
               /\ JobCopy(job'[w], p)
<1> DEFINE j == job[w]
           i == job'[w]
           k == j.key
           o == obc[k]
           p == obc'[k]
           n == ObjectBucketName(k)
           Goal == /\ p # None => ClaimSound(p)
                   /\ Later(o, p)
                   /\ \A l \in Keys : l # k => obc'[l] = obc[l]
                   /\ JobCopy(i, p)
<1> SUFFICES Goal
  OBVIOUS
<1>1. k \in Keys /\ JobShape(j) /\ JobCopy(j, o) /\ (o # None => ClaimSound(o) /\ o \in Claim)
  BY ProvisionStepJob DEF TypeInv, ControllerInv, CopyInv, ClusterTypeOK
<1>2. ProvisionMove(w)
  BY ProvisionMoves
<1>3. JobCopy(IdleJob, p)
  BY IdleKey DEF JobCopy, HasCopy
<1>4. ASSUME UNCHANGED obc, JobCopy(i, o)
      PROVE  Goal
  BY <1>1, <1>4 DEF Later
<1>5. CASE Stops(w)
  BY <1>3, <1>4, <1>5 DEF Stops
<1>6. CASE UNCHANGED obc /\ ReadsClaim(j, i, o)
  BY <1>1, <1>4, <1>6 DEF ReadsClaim, JobCopy, CopyFits, Provisioning, Held, Naming, Artifacts,
                          Binding, Deprovisioning, Unbinding
<1>7. CASE UNCHANGED obc /\ ReadsClass(j, i, class[j.obc.class])
  <2>1. j.obc \in Claim /\ i.obc = j.obc /\ HasCopy(j)
    BY <1>1, <1>7 DEF ReadsClass, JobShape, HasCopy
  <2>2. i.pc = AfterClass(j.obc)
    BY <1>7 DEF ReadsClass
  <2>3. \/ i.pc = "findOb" /\ j.obc.deleted
        \/ i.pc \in {"setPending", "setMeta"} /\ ~j.obc.deleted
    BY <2>1, <2>2 DEF AfterClass, Claim
  <2>4. i.pc \notin Held /\ (i.pc \in Deprovisioning => i.pc = "findOb")
        /\ (i.pc \in Provisioning => i.pc # "findOb")
    BY <2>3 DEF Provisioning, Held, Naming, Artifacts, Binding, Deprovisioning, Unbinding
  <2>5. JobCopy(i, o)
    BY <1>1, <2>1, <2>3, <2>4 DEF JobCopy
  <2> QED
    BY <1>4, <1>7, <2>5
\* The job goes on with the same copy.
<1>8. ASSUME UNCHANGED obc, j.pc \in Held, i.pc \in Held, i.obc = j.obc
      PROVE  Goal
  <2>1. HasCopy(j) /\ j.pc \in Provisioning /\ i.pc \in Provisioning /\ i.pc \notin Deprovisioning
    BY <1>8, PcFacts DEF HasCopy
  <2> QED
    BY <1>1, <1>4, <1>8, <2>1 DEF JobCopy
<1>9. CASE UNCHANGED obc /\ (\/ ChoosesName(j, i, NamesFor(j.class, j.obc)) \/ IsSupplied(j, i)
                             \/ RefersTo(j, i, o) \/ GoesOn(j, i))
  <2>1. j.pc \in Held /\ i.pc \in Held /\ i.obc = j.obc
    BY <1>9 DEF ChoosesName, IsSupplied, RefersTo, GoesOn, Carries, Held, Provisioning, Naming,
                Artifacts, Binding
  <2> QED
    BY <1>8, <1>9, <2>1
<1>10. ASSUME UNCHANGED obc, NEW kind \in Kinds, NEW a, WritesArtifact(j, i, kind, a)
       PROVE  Goal
  <2>1. j.pc \in Held /\ i.pc \in Held /\ i.obc = j.obc
    BY <1>10 DEF WritesArtifact, Carries, Kinds, CreatePc, UpdatePc, AfterPc, Held, Provisioning,
                 Naming, Artifacts, Binding
  <2> QED
    BY <1>8, <1>10, <2>1
<1>11. CASE UNCHANGED obc /\ WritesOb(j, i, ob[n])
  <2>1. j.pc \in Held /\ i.pc \in Held /\ i.obc = j.obc
    BY <1>11 DEF WritesOb, Carries, Held, Provisioning, Naming, Artifacts, Binding
  <2> QED
    BY <1>8, <1>11, <2>1
<1>12. ASSUME o = j.obc, NEW new, obc' = [obc EXCEPT ![k] = new], WritesClaim(j, i, new, n)
       PROVE  Goal
  <2>1. p = new /\ (\A l \in Keys : l # k => obc'[l] = obc[l]) /\ new # None
    BY <1>1, <1>12, NoneAssumption DEF WritesClaim, TypeInv, ClusterTypeOK
  <2>2. j.pc \in {"setPending", "setMeta", "saveName", "bindClaim", "setBound"}
    BY <1>12 DEF WritesClaim
  <2>3. HasCopy(j) /\ j.pc \in Provisioning /\ (j.pc \notin {"setPending", "setMeta"} => j.pc \in Held)
    BY <2>2 DEF HasCopy, Held, Provisioning, Naming, Binding
  <2>4. ~j.obc.deleted /\ ClaimSound(j.obc) /\ (j.pc \in Held => j.obc.finalizer) /\ j.obc # None
    BY <1>1, <2>3, NoneAssumption DEF JobCopy, JobShape, HasCopy
  <2>5. ~new.deleted /\ (j.pc # "setPending" => new.finalizer)
    BY <1>12, <2>2, <2>3, <2>4 DEF WritesClaim
  <2>6. ClaimSound(new)
    BY <1>12, <2>4, <2>5 DEF WritesClaim, ClaimSound
  <2>7. Later(o, new)
    BY <1>12, <2>4 DEF WritesClaim, Later
  <2>8. JobCopy(i, new)
    <3>1. CASE i = IdleJob
      BY <1>3, <2>1, <3>1
    <3>2. CASE i # IdleJob
      <4>1. i.obc = new /\ i.pc \in {"setMeta", "getOb", "provision", "setBound"}
            /\ (j.pc = "setPending" => i.pc = "setMeta")
        BY <1>12, <3>2 DEF WritesClaim
      <4>2. i.pc \notin Deprovisioning /\ (i.pc = "setMeta" => i.pc \notin Held)
        BY <4>1 DEF Held, Deprovisioning, Unbinding
      <4>3. i.pc # "setMeta" => j.pc # "setPending"
        BY <4>1
      <4> QED
        BY <2>5, <2>6, <4>1, <4>2, <4>3 DEF JobCopy, CopyFits
    <3> QED
      BY <3>1, <3>2
  <2> QED
    BY <2>1, <2>6, <2>7, <2>8
<1> HIDE DEF Goal
<1>13. CASE UNCHANGED <<obc, ob, artifact>>
  <2>1. CASE \/ Stops(w) \/ ReadsClaim(j, i, o) \/ ReadsClass(j, i, class[j.obc.class])
             \/ ChoosesName(j, i, NamesFor(j.class, j.obc)) \/ IsSupplied(j, i)
             \/ RefersTo(j, i, o) \/ GoesOn(j, i)
    BY <1>5, <1>6, <1>7, <1>9, <1>13, <2>1
  <2> QED
    BY <1>2, <1>10, <1>11, <1>12, <2>1 DEF ProvisionMove
<1>14. CASE ~UNCHANGED <<obc, ob, artifact>>
  BY <1>2, <1>5, <1>10, <1>11, <1>12, <1>14 DEF ProvisionMove
<1> QED
  BY <1>13, <1>14

\* A step of handleDeleteClaim: the claim it drops is gone, for it was deleted.
LEMMA DeleteCopy ==
    ASSUME TypeInv, CopyInv, NEW w \in Workers, DeleteStep(w)
    PROVE  LET k == job[w].key
               p == obc'[k]
           IN  /\ p # None => p = obc[k] /\ ClaimSound(p) /\ p.deleted
               /\ Later(obc[k], p)
               /\ \A l \in Keys : l # k => obc'[l] = obc[l]
               /\ JobCopy(job'[w], p)
<1> DEFINE j == job[w]
           i == job'[w]
           k == j.key
           o == obc[k]
           p == obc'[k]
           Same == \A l \in Keys : l # k => obc'[l] = obc[l]
<1>1. /\ k \in Keys /\ JobShape(j) /\ JobCopy(j, o) /\ (o # None => ClaimSound(o))
      /\ obc \in [Keys -> Claim \cup {None}]
  BY DeleteStepJob DEF TypeInv, ControllerInv, CopyInv, ClusterTypeOK
<1>2. DeleteMove(w)
  BY DeleteMoves
<1>3. j.pc \in Deprovisioning /\ HasCopy(j) /\ j.obc \in Claim
  BY <1>1, <1>2 DEF DeleteMove, HasCopy, Deprovisioning, Unbinding, JobShape
<1>4. ClaimSound(j.obc) /\ j.obc.deleted /\ j.obc.finalizer /\ CopyFits(o, j.obc)
  BY <1>1, <1>3 DEF JobCopy, ClaimSound
<1>5. o # None => o.deleted
  BY <1>4 DEF CopyFits
<1>6. p \in {o, None} /\ Same
  <2>1. CASE UNCHANGED obc
    BY <2>1
  <2>2. CASE obc' = [obc EXCEPT ![k] = removeFinalizer(j.obc)]
    <3>1. removeFinalizer(j.obc) = None
      BY <1>3, <1>4 DEF removeFinalizer, Stored, Claim
    <3> QED
      BY <1>1, <2>2, <3>1
  <2> QED
    BY <1>2, <2>1, <2>2 DEF DeleteMove
<1>7. Later(o, p)
  BY <1>6 DEF Later
<1>8. JobCopy(i, o)
  <2>1. CASE i = IdleJob
    BY <2>1, IdleKey DEF JobCopy, HasCopy
  <2>2. CASE i.pc \in Cleaning /\ (i.obc = j.obc \/ (i.obc = o /\ o # None))
    <3>1. i.pc \in Deprovisioning /\ i.pc \notin Provisioning /\ i.pc \notin Held
      BY <2>2, CleaningFacts, PcFacts
    <3>2. i.obc = o /\ o # None => ClaimSound(i.obc) /\ i.obc.deleted /\ CopyFits(o, i.obc)
      BY <1>1, <1>5 DEF CopyFits
    <3>3. ClaimSound(i.obc) /\ i.obc.deleted /\ CopyFits(o, i.obc)
      BY <1>4, <2>2, <3>2
    <3> QED
      BY <3>1, <3>3 DEF JobCopy
  <2> QED
    BY <1>2, <2>1, <2>2 DEF DeleteMove
<1>9. JobCopy(i, p)
  BY <1>7, <1>8, CopyStays
<1> QED
  BY <1>1, <1>5, <1>6, <1>7, <1>9

\* A claim is created, a later version of it is stored, or it vanishes.
ClaimMove(k) ==
    \/ Later(obc[k], obc'[k])
    \/ \A w \in Workers : job[w].key = k /\ HasCopy(job[w]) => ~job[w].obc.finalizer

\* Users.
LEMMA UserCopy ==
    ASSUME TypeInv, CopyInv, CleanHandOver, EnvironmentStep, NEW k \in Keys
    PROVE  ClaimMove(k) /\ (obc'[k] # None => ClaimSound(obc'[k]))
<1> DEFINE o == obc[k]
           p == obc'[k]
<1>1. obc \in [Keys -> Claim \cup {None}] /\ (o # None => ClaimSound(o) /\ o \in Claim)
  BY DEF TypeInv, ClusterTypeOK, CopyInv
<1>2. CASE p = o
  BY <1>1, <1>2 DEF ClaimMove, Later
<1>3. ASSUME NEW l \in Keys, NEW r \in Requests, CreateClaim(l, r), p # o
      PROVE  ClaimMove(k) /\ (p # None => ClaimSound(p))
  <2>1. o = None /\ p = [uid |-> spent.create + 1, deleted |-> FALSE, finalizer |-> FALSE,
                         class |-> r.class, bucket |-> r.bucket, generate |-> r.generate,
                         config |-> 0, ob |-> None, phase |-> None]
    BY <1>1, <1>3 DEF CreateClaim
  <2>2. \A w \in Workers : job[w].key = k /\ HasCopy(job[w]) => ~job[w].obc.finalizer
    BY <1>3, <2>1 DEF CleanHandOver
  <2>3. ClaimSound(p)
    BY <2>1, NoneAssumption DEF ClaimSound
  <2> QED
    BY <2>2, <2>3 DEF ClaimMove
<1>4. CASE o # None /\ p = Deleting(o)
  <2>1. \/ p = None
        \/ p = [o EXCEPT !.deleted = TRUE] /\ p.finalizer
    BY <1>1, <1>4 DEF Deleting, Stored
  <2>2. p # None => /\ p.uid = o.uid /\ p.class = o.class /\ p.finalizer = o.finalizer /\ p.deleted
                    /\ p.ob = o.ob /\ p.phase = o.phase /\ p.finalizer
    BY <1>1, <1>4, <2>1 DEF Claim
  <2> QED
    BY <1>1, <1>4, <2>2 DEF ClaimMove, Later, ClaimSound
<1>5. ASSUME o # None, NEW c, p = [o EXCEPT !.config = c]
      PROVE  ClaimMove(k) /\ (p # None => ClaimSound(p))
  <2>1. /\ p.uid = o.uid /\ p.class = o.class /\ p.finalizer = o.finalizer
        /\ p.deleted = o.deleted /\ p.ob = o.ob /\ p.phase = o.phase
    BY <1>1, <1>5 DEF Claim
  <2> QED
    BY <1>1, <1>5, <2>1 DEF ClaimMove, Later, ClaimSound
<1>6. ASSUME NEW l \in Keys, DeleteClaim(l), p # o
      PROVE  o # None /\ p = Deleting(o)
  BY <1>1, <1>6 DEF DeleteClaim
<1>7. ASSUME NEW l \in Keys, EditClaim(l), p # o
      PROVE  o # None /\ p = [o EXCEPT !.config = spent.edit + 1]
  BY <1>1, <1>7 DEF EditClaim
<1>8. CASE UNCHANGED obc
  BY <1>2, <1>8
<1>9. \/ UNCHANGED obc
      \/ \E l \in Keys : DeleteClaim(l) \/ EditClaim(l)
      \/ \E l \in Keys, r \in Requests : CreateClaim(l, r)
  BY DEF EnvironmentStep, Environment, DeleteClass, CreateClass, Collect
<1> QED
  BY <1>2, <1>3, <1>4, <1>5, <1>6, <1>7, <1>8, <1>9

\* What becomes of a claim, whoever takes a step.
LEMMA ClaimMoveOf ==
    ASSUME TypeInv, CopyInv, CleanHandOver, [Next]_vars, NEW k \in Keys
    PROVE  ClaimMove(k) /\ (obc'[k] # None => ClaimSound(obc'[k]))
<1>1. obc[k] # None => ClaimSound(obc[k])
  BY DEF CopyInv
<1>2. CASE obc'[k] = obc[k]
  BY <1>1, <1>2 DEF ClaimMove, Later
<1>3. ASSUME NEW w \in Workers, WorkerStep(w)
      PROVE  ClaimMove(k) /\ (obc'[k] # None => ClaimSound(obc'[k]))
  BY <1>2, <1>3, ProvisionCopy, DeleteCopy DEF WorkerStep, ClaimMove
<1>4. CASE QuietMove
  BY <1>2, <1>4 DEF QuietMove
<1> QED
  BY <1>3, <1>4, UserCopy, QuietMoves DEF Next

LEMMA NextCopy ==
    ASSUME TypeInv, CopyInv, CleanHandOver, [Next]_vars
    PROVE  CopyInv'
<1>1. \A k \in Keys : obc'[k] # None => ClaimSound(obc'[k])
  BY ClaimMoveOf
\* A worker that takes no step.
<1>2. ASSUME NEW v \in Workers, job'[v] = job[v]
      PROVE  JobCopy(job'[v], obc'[job'[v].key])
  <2>1. CASE HasCopy(job[v])
    <3>1. job[v].key \in Keys
      BY <2>1 DEF TypeInv, ControllerInv, JobShape, HasCopy
    <3>2. ClaimMove(job[v].key)
      BY <3>1, ClaimMoveOf
    <3> QED
      BY <1>2, <3>2, CopyStays DEF ClaimMove, CopyInv
  <2>2. CASE ~HasCopy(job[v])
    BY <1>2, <2>2 DEF JobCopy
  <2> QED
    BY <2>1, <2>2
<1>3. ASSUME NEW w \in Workers, WorkerStep(w), NEW v \in Workers
      PROVE  JobCopy(job'[v], obc'[job'[v].key])
  <2>1. /\ job' = [job EXCEPT ![w] = job'[w]] /\ job \in [Workers -> Job]
        /\ job'[w] = IdleJob \/ job'[w].key = job[w].key
    BY <1>3, ProvisionStepJob, DeleteStepJob DEF WorkerStep, TypeInv, ControllerInv
  <2>2. CASE v = w
    <3>1. JobCopy(IdleJob, obc'[IdleJob.key])
      BY IdleKey DEF JobCopy, HasCopy
    <3>2. JobCopy(job'[w], obc'[job[w].key])
      BY <1>3, ProvisionCopy, DeleteCopy DEF WorkerStep
    <3> QED
      BY <2>1, <2>2, <3>1, <3>2
  <2>3. CASE v # w
    <3>1. job'[v] = job[v]
      BY <2>1, <2>3
    <3> QED
      BY <1>2, <3>1
  <2> QED
    BY <2>2, <2>3
<1>4. ASSUME QuietMove, NEW v \in Workers
      PROVE  JobCopy(job'[v], obc'[job'[v].key])
  <2> DEFINE j == job[v]
             i == job'[v]
  <2>1. CASE i = IdleJob \/ i.pc = "getClaim"
    BY <2>1, IdleKey DEF JobCopy, HasCopy
  <2>2. CASE GoesOnAfterError(j, i)
    <3>1. /\ i.pc \in Deprovisioning /\ i.pc \notin Provisioning /\ i.pc \notin Held
          /\ j.pc \in Deprovisioning /\ HasCopy(j) /\ i.obc = j.obc /\ i.key = j.key
      BY <2>2, CleaningFacts, PcFacts DEF GoesOnAfterError, HasCopy
    <3>2. JobCopy(j, obc[j.key]) /\ UNCHANGED obc
      BY <1>4 DEF QuietMove, CopyInv
    <3> QED
      BY <3>1, <3>2 DEF JobCopy
  <2> QED
    BY <1>2, <1>4, <2>1, <2>2 DEF QuietMove
<1>5. CASE EnvironmentStep
  BY <1>1, <1>2, <1>5 DEF EnvironmentStep, CopyInv
<1> QED
  BY <1>1, <1>3, <1>4, <1>5, QuietMoves DEF Next, CopyInv

LEMMA InitCopy == Init => CopyInv
BY IdleKey DEF Init, ClusterInit, CopyInv, JobCopy, HasCopy

-------------------------------------------------------------------------------
(* What is written for a live claim is all for one bucket.                 *)

\* The bucket of a claim with this uid and class is called name.
NameIs(uid, c, name) ==
    /\ Greenfield(c) => <<uid, name>> \in KnownNames
    /\ \A d \in ClassDefs[c] : d.bucket # None => name = d.bucket

LEMMA OneName ==
    ASSUME NamesInv, NEW uid, NEW c, NEW x, NEW y, NameIs(uid, c, x), NameIs(uid, c, y)
    PROVE  x = y
<1>1. CASE Greenfield(c)
  <2>1. \A p, q \in KnownNames : p[1] = q[1] => p[2] = q[2]
    BY DEF NamesInv, OneNamePerClaim
  <2>2. <<uid, x>> \in KnownNames /\ <<uid, y>> \in KnownNames
    BY <1>1 DEF NameIs
  <2>3. <<uid, x>>[1] = <<uid, y>>[1] /\ <<uid, x>>[2] = x /\ <<uid, y>>[2] = y
    OBVIOUS
  <2> QED
    BY <2>1, <2>2, <2>3
<1>2. CASE ~Greenfield(c)
  BY <1>2 DEF Greenfield, NameIs
<1> QED
  BY <1>1, <1>2

LEMMA NameOfClaim ==
    ASSUME NEW k \in Keys, obc[k] # None, Linked(obc[k]), obc[k].ob # None
    PROVE  NameIs(obc[k].uid, obc[k].class, obc[k].bucket)
BY CopiesKnown DEF NameIs, Linked, HasName

LEMMA NameOfWorker ==
    ASSUME TypeInv, NamesInv, ClassesKeepTheirBucket, NEW w \in Workers, NEW n,
           job[w].pc \in {"provision"} \cup Supplied, JobOwn(job[w], n)
    PROVE  NameIs(job[w].obc.uid, job[w].obc.class, job[w].name)
<1> DEFINE j == job[w]
           c == j.obc.class
<1>1. j.pc \in Chosen /\ JobShape(j) /\ JobNames(j) /\ j.pc \in {"provision"} \cup Artifacts \cup Binding
  BY DEF TypeInv, ControllerInv, NamesInv, Chosen, Supplied, Naming
<1>2. j.obc \in Claim /\ j.name \in Buckets /\ j.class \in ClassDefs[c] /\ c \in Classes
  BY <1>1 DEF JobShape, JobNames, Naming, Artifacts, Binding, Claim
<1>3. Greenfield(c) => <<j.obc.uid, j.name>> \in KnownNames
  <2>1. ASSUME Greenfield(c) PROVE HasName(j.obc) /\ j.obc.bucket = j.name
    BY <1>1, <1>2, <2>1, NoneAssumption DEF JobNames, HasName
  <2> QED
    BY <2>1, CopiesKnown
<1>4. ASSUME NEW d \in ClassDefs[c], d.bucket # None
      PROVE  j.name = d.bucket
  <2>1. j.class.bucket = d.bucket
    BY <1>2 DEF ClassesKeepTheirBucket
  <2> QED
    BY <1>1, <1>4, <2>1 DEF JobOwn
<1> QED
  BY <1>3, <1>4 DEF NameIs

\* The OB b and the artifacts a become b2 and a2: what there was for the claim with
\* this uid and the bucket called name, there is.
Keeps(b, a, b2, a2, uid, name) ==
    /\ ObFor(b, uid, name) => ObFor(b2, uid, name)
    /\ \A kind \in Kinds : ArtifactFor(a[kind], uid, name) => ArtifactFor(a2[kind], uid, name)

\* The claim o becomes p, the same one as far as the objects are concerned.
LEMMA ClaimStaysReady ==
    ASSUME NEW o, NEW b, NEW a, NEW n, NEW p, NEW b2, NEW a2, ClaimObjects(o, b, a, n), o # None,
           p # None =>
               /\ p.uid = o.uid /\ p.class = o.class /\ p.bucket = o.bucket /\ p.ob = o.ob
               /\ p.phase = o.phase /\ (o.deleted => p.deleted)
               /\ ~p.deleted /\ o.phase = "Bound" => Keeps(b, a, b2, a2, o.uid, o.bucket)
    PROVE  ClaimObjects(p, b2, a2, n)
<1>1. p # None => Linked(p)
  BY DEF ClaimObjects, Linked
<1>2. ASSUME p # None, ~p.deleted, p.phase = "Bound"
      PROVE  Ready(p, b2, a2, n)
  <2>1. Ready(o, b, a, n) /\ Keeps(b, a, b2, a2, o.uid, o.bucket)
    BY <1>2 DEF ClaimObjects
  <2> QED
    BY <1>2, <2>1 DEF Ready, Keeps
<1> QED
  BY <1>1, <1>2 DEF ClaimObjects, Ready

LEMMA SuppliedFacts ==
    /\ Supplied \subseteq Held /\ Chosen \subseteq Held /\ Held \subseteq Provisioning
    /\ {"createCm", "updateCm", "claimRef"} \cup Binding \subseteq Supplied
    /\ "provision" \in Chosen /\ Supplied \subseteq Chosen
    /\ \A pc \in Chosen : pc \notin {"idle", "getClaim", "getClass", "getOb"} \cup Deprovisioning
BY DEF Supplied, Chosen, Held, Provisioning, Naming, Artifacts, Binding, Deprovisioning, Unbinding

LEMMA JobStaysReady ==
    ASSUME NEW j, NEW o, NEW b, NEW a, NEW n, NEW p, NEW b2, NEW a2,
           JobObjects(j, o, b, a, n), JobCopy(j, o),
           Later(o, p) \/ (HasCopy(j) => ~j.obc.finalizer),
           p # None /\ ~p.deleted /\ j.pc \in Supplied /\ CopyFits(o, j.obc) /\ Later(o, p) =>
               Keeps(b, a, b2, a2, j.obc.uid, j.name)
    PROVE  JobObjects(j, p, b2, a2, n)
<1>1. ASSUME p # None, ~p.deleted, j.pc # "idle"
      PROVE  JobDone(j, b2, a2)
  <2>1. CASE j.pc \in Supplied
    <3>1. j.obc.finalizer /\ HasCopy(j) /\ CopyFits(o, j.obc)
      BY <2>1, SuppliedFacts DEF JobCopy, HasCopy
    <3>2. Later(o, p)
      BY <3>1
    <3>3. o # None /\ ~o.deleted
      BY <1>1, <3>2 DEF Later
    <3>4. JobDone(j, b, a) /\ Keeps(b, a, b2, a2, j.obc.uid, j.name)
      BY <1>1, <2>1, <3>1, <3>2, <3>3 DEF JobObjects
    <3>5. "secret" \in Kinds /\ "cm" \in Kinds
      BY DEF Kinds
    <3> QED
      BY <3>4, <3>5 DEF JobDone, Keeps
  <2>2. CASE j.pc \notin Supplied
    BY <2>2, SuppliedFacts DEF JobDone, Binding
  <2> QED
    BY <2>1, <2>2
<1> QED
  BY <1>1 DEF JobObjects

\* The job of a worker that has the bucket, and the stored claim.
LEMMA WorkerAgrees ==
    ASSUME TypeInv, NamesInv, CopyInv, ObjectInv, ClassesKeepTheirBucket,
           NEW w \in Workers, job[w].pc \in {"provision"} \cup Supplied, obc[job[w].key] # None
    PROVE  LET j == job[w]
               o == obc[j.key]
           IN  /\ o.uid = j.obc.uid /\ o.class = j.obc.class
               /\ \A name : NameIs(o.uid, o.class, name) => name = j.name
<1> DEFINE j == job[w]
           o == obc[j.key]
           n == ObjectBucketName(j.key)
<1>1. j.pc \in Held /\ HasCopy(j) /\ j.pc # "idle"
  BY SuppliedFacts DEF HasCopy
<1>2. CopyFits(o, j.obc) /\ j.obc.finalizer
  BY <1>1 DEF CopyInv, JobCopy
<1>3. JobOwn(j, n)
  BY <1>1 DEF ObjectInv, JobObjects
<1>4. NameIs(j.obc.uid, j.obc.class, j.name)
  BY <1>3, NameOfWorker
<1>5. o.uid = j.obc.uid /\ o.class = j.obc.class
  BY <1>2 DEF CopyFits
<1> QED
  BY <1>4, <1>5, OneName

LEMMA ProvisionKeeps ==
    ASSUME TypeInv, NamesInv, CopyInv, ObjectInv, ClassesKeepTheirBucket,
           NEW w \in Workers, ProvisionStep(w), obc[job[w].key] # None, NEW name,
           NameIs(obc[job[w].key].uid, obc[job[w].key].class, name)
    PROVE  LET k == job[w].key
               n == ObjectBucketName(k)
           IN  Keeps(ob[n], ArtifactsOf(artifact, k), ob'[n], ArtifactsOf(artifact', k),
                     obc[k].uid, name)
<1> DEFINE j == job[w]
           i == job'[w]
           k == j.key
           n == ObjectBucketName(k)
           o == obc[k]
           b == ob[n]
           b2 == ob'[n]
           a == ArtifactsOf(artifact, k)
           a2 == ArtifactsOf(artifact', k)
<1> SUFFICES Keeps(b, a, b2, a2, o.uid, name)
  OBVIOUS
<1>1. /\ k \in Keys /\ n \in ObNames
      /\ ob \in [ObNames -> ObjectBucket \cup {None}]
      /\ artifact \in [Kinds -> [Keys -> Artifact \cup {None}]]
  BY ProvisionStepJob DEF TypeInv, ClusterTypeOK, ObNames
<1>2. ProvisionMove(w)
  BY ProvisionMoves
<1>3. CASE UNCHANGED <<ob, artifact>>
  BY <1>3 DEF Keeps
<1>4. ASSUME j.pc \in Supplied
      PROVE  name = j.name /\ o.uid = j.obc.uid /\ j.ob.bucket = j.name
  <2>1. j.ob.bucket = j.name
    BY <1>4, SuppliedFacts DEF ObjectInv, JobObjects, JobOwn
  <2> QED
    BY <1>4, <2>1, WorkerAgrees
<1>5. ASSUME UNCHANGED ob, NEW kind \in Kinds, NEW x,
             artifact' = [artifact EXCEPT ![kind][k] = x], WritesArtifact(j, i, kind, x)
      PROVE  Keeps(b, a, b2, a2, o.uid, name)
  <2>1. j.pc \in Supplied
    BY <1>5 DEF WritesArtifact, Supplied, Artifacts, CreatePc, UpdatePc, Kinds
  <2>2. ArtifactFor(x, o.uid, name)
    BY <1>4, <1>5, <2>1 DEF WritesArtifact, ArtifactFor
  <2>3. \A kd \in Kinds : a2[kd] = IF kd = kind THEN x ELSE a[kd]
    BY <1>1, <1>5 DEF ArtifactsOf
  <2> QED
    BY <1>5, <2>2, <2>3 DEF Keeps
<1>6. CASE UNCHANGED artifact /\ ob' = [ob EXCEPT ![n] = i.ob] /\ WritesOb(j, i, b)
  <2>1. j.pc \in Binding
    BY <1>6 DEF WritesOb, Binding
  <2>2. j.pc \in Supplied /\ j.pc # "idle"
    BY <2>1, SuppliedFacts
  <2>3. j.ob.claim = j.obc.uid
    BY <2>1, <2>2 DEF ObjectInv, JobObjects, JobOwn
  <2>4. b2 = i.ob /\ i.ob # None
    BY <1>1, <1>6, NoneAssumption DEF WritesOb
  <2>5. ObFor(b, o.uid, name) => ObFor(i.ob, o.uid, name)
    BY <1>4, <1>6, <2>2, <2>3, <2>4 DEF WritesOb, ObFor
  <2> QED
    BY <1>6, <2>4, <2>5 DEF Keeps
<1> QED
  BY <1>2, <1>3, <1>5, <1>6 DEF ProvisionMove, Stops

\* The worker's own claim and variables.
LEMMA ProvisionObjects ==
    ASSUME TypeInv, NamesInv, CopyInv, ObjectInv, ClassesKeepTheirBucket,
           NEW w \in Workers, ProvisionStep(w)
    PROVE  LET k == job[w].key
               n == ObjectBucketName(k)
               b == ob'[n]
               a == ArtifactsOf(artifact', k)
           IN  ClaimObjects(obc'[k], b, a, n) /\ JobObjects(job'[w], obc'[k], b, a, n)
<1> DEFINE j == job[w]
           i == job'[w]
           k == j.key
           n == ObjectBucketName(k)
           o == obc[k]
           p == obc'[k]
           b == ob[n]
           b2 == ob'[n]
           a == ArtifactsOf(artifact, k)
           a2 == ArtifactsOf(artifact', k)
           Goal == ClaimObjects(p, b2, a2, n) /\ JobObjects(i, p, b2, a2, n)
<1> SUFFICES Goal
  OBVIOUS
<1>1. /\ k \in Keys /\ n \in ObNames /\ JobShape(j) /\ JobCopy(j, o) /\ j.pc # "idle"
      /\ ClaimObjects(o, b, a, n) /\ JobObjects(j, o, b, a, n)
      /\ obc \in [Keys -> Claim \cup {None}]
      /\ ob \in [ObNames -> ObjectBucket \cup {None}]
      /\ artifact \in [Kinds -> [Keys -> Artifact \cup {None}]]
  BY ProvisionStepJob DEF TypeInv, ClusterTypeOK, ObNames, ControllerInv, CopyInv, ObjectInv
<1>2. ProvisionMove(w)
  BY ProvisionMoves
<1>3. UNCHANGED obc => ClaimObjects(p, b2, a2, n)
  <2>1. CASE o = None
    BY <2>1 DEF ClaimObjects
  <2>2. CASE o # None /\ o.phase = "Bound" /\ ~o.deleted
    <3>1. Linked(o) /\ o.ob # None
      BY <1>1, <2>2, NoneAssumption DEF ClaimObjects, Ready
    <3>2. NameIs(o.uid, o.class, o.bucket)
      BY <1>1, <2>2, <3>1, NameOfClaim
    <3>3. Keeps(b, a, b2, a2, o.uid, o.bucket)
      BY <2>2, <3>2, ProvisionKeeps
    <3> QED
      BY <1>1, <2>2, <3>3, ClaimStaysReady
  <2>3. CASE o # None /\ ~(o.phase = "Bound" /\ ~o.deleted)
    BY <1>1, <2>3 DEF ClaimObjects, Ready
  <2> QED
    BY <2>1, <2>2, <2>3
<1>4. JobObjects(IdleJob, p, b2, a2, n)
  BY IdleKey DEF JobObjects
\* A job that has not chosen its bucket yet.
<1>5. ASSUME i.pc \notin Chosen
      PROVE  JobObjects(i, p, b2, a2, n)
  BY <1>5, SuppliedFacts DEF JobObjects, JobOwn, JobDone, Binding
<1>6. CASE Stops(w)
  BY <1>3, <1>4, <1>6 DEF Stops
<1>7. CASE UNCHANGED obc /\ (ReadsClaim(j, i, o) \/ ReadsClass(j, i, class[j.obc.class]))
  <2>1. i.pc \notin Chosen
    BY <1>1, <1>7 DEF ReadsClaim, ReadsClass, AfterClass, JobShape, Claim, Chosen, Naming, Supplied,
                 Artifacts, Binding
  <2> QED
    BY <1>3, <1>5, <1>7, <2>1
<1>8. CASE UNCHANGED obc /\ ChoosesName(j, i, NamesFor(j.class, j.obc))
  <2>1. i.pc \in Naming /\ i.name \in NamesFor(j.class, j.obc) /\ i.class = j.class
    BY <1>8 DEF ChoosesName, Naming
  <2>2. i.class.bucket # None => i.name = i.class.bucket
    BY <2>1 DEF NamesFor
  <2>3. i.pc \notin Supplied
    BY <2>1 DEF Naming, Supplied, Artifacts, Binding
  <2>4. JobObjects(i, p, b2, a2, n)
    BY <2>2, <2>3, SuppliedFacts DEF JobObjects, JobOwn, JobDone, Binding
  <2> QED
    BY <1>3, <1>8, <2>4
\* From here on the job goes on for the same bucket.
<1>9. j.pc \in Chosen => JobOwn(j, n) /\ HasCopy(j) /\ j.obc.finalizer
  BY <1>1, SuppliedFacts DEF JobObjects, JobCopy, HasCopy
<1>10. CASE UNCHANGED obc /\ IsSupplied(j, i)
  <2>1. /\ i.pc = "createSecret" /\ Carries(j, i) /\ i.ob.bucket = j.name /\ i.ob.user = j.key
        /\ j.pc \in Chosen
    BY <1>10 DEF IsSupplied, Chosen, Naming
  <2>2. JobObjects(i, p, b2, a2, n)
    BY <1>9, <2>1 DEF JobObjects, JobOwn, JobDone, Carries, Binding
  <2> QED
    BY <1>3, <1>10, <2>2
<1>11. ASSUME p # None, ~p.deleted, j.pc \in Supplied, Later(o, p)
       PROVE  /\ JobDone(j, b2, a2) /\ o.uid = j.obc.uid
              /\ j.ob.bucket = j.name
  <2>1. o # None /\ ~o.deleted
    BY <1>11 DEF Later
  <2>2. o.uid = j.obc.uid /\ o.class = j.obc.class
    BY <1>11, <2>1, WorkerAgrees
  <2>3. NameIs(o.uid, o.class, j.name)
    BY <1>9, <1>11, <2>2, NameOfWorker, SuppliedFacts
  <2>4. Keeps(b, a, b2, a2, j.obc.uid, j.name)
    BY <2>1, <2>2, <2>3, ProvisionKeeps
  <2>5. JobObjects(j, p, b2, a2, n)
    BY <1>1, <1>11, <2>4, JobStaysReady
  <2> QED
    BY <1>1, <1>9, <1>11, <2>2, <2>5, SuppliedFacts DEF JobObjects, JobOwn
<1>12. Later(o, p)
  BY ProvisionCopy
<1>13. CASE UNCHANGED obc /\ (RefersTo(j, i, o) \/ GoesOn(j, i))
  <2>1. j.pc \in Supplied /\ i.pc \in Supplied /\ Carries(j, i)
    BY <1>13 DEF RefersTo, GoesOn, Supplied, Artifacts, Binding
  <2>2. j.pc \in Chosen /\ i.pc # "setBound"
    BY <1>13, <2>1, SuppliedFacts DEF RefersTo, GoesOn
  <2>3. JobOwn(i, n)
    <3>1. CASE RefersTo(j, i, o)
      <4>1. o.uid = j.obc.uid
        BY <2>1, <3>1, WorkerAgrees DEF RefersTo
      <4> QED
        BY <1>9, <2>1, <2>2, <3>1, <4>1, SuppliedFacts DEF RefersTo, JobOwn, Carries
    <3>2. CASE GoesOn(j, i)
      <4>1. i.ob = j.ob /\ (i.pc \in Binding => j.pc \in Binding)
        BY <3>2 DEF GoesOn, Binding
      <4> QED
        BY <1>9, <2>1, <2>2, <4>1, SuppliedFacts DEF JobOwn, Carries
    <3> QED
      BY <1>13, <3>1, <3>2
  <2>4. /\ i.pc \in {"createCm", "updateCm", "claimRef"} \cup Binding =>
               j.pc \in {"createCm", "updateCm", "claimRef"} \cup Binding
        /\ i.pc \in {"claimRef"} \cup Binding => j.pc \in {"claimRef"} \cup Binding
        /\ i.pc \notin {"bindClaim", "setBound"}
    BY <1>13 DEF RefersTo, GoesOn, Binding
  <2>5. p # None /\ ~p.deleted => JobDone(i, b2, a2)
    BY <1>11, <1>12, <2>1, <2>4 DEF JobDone, Carries
  <2> QED
    BY <1>3, <1>13, <2>3, <2>5 DEF JobObjects
<1>14. ASSUME UNCHANGED obc, NEW kind \in Kinds, NEW x,
              artifact' = [artifact EXCEPT ![kind][k] = x], WritesArtifact(j, i, kind, x)
       PROVE  Goal
  <2>1. /\ j.pc \in Artifacts /\ i.pc = AfterPc[kind] /\ Carries(j, i) /\ i.ob = j.ob
        /\ i.pc \in {"createCm", "claimRef"}
        /\ kind = "cm" => j.pc \in {"createCm", "updateCm"}
        /\ kind = "secret" => i.pc = "createCm"
    BY <1>14 DEF WritesArtifact, Artifacts, CreatePc, UpdatePc, AfterPc, Kinds
  <2>2. j.pc \in Supplied /\ j.pc \in Chosen /\ i.pc \notin Binding
    BY <2>1 DEF Supplied, Chosen, Binding
  <2>3. JobOwn(i, n)
    BY <1>9, <2>1, <2>2, SuppliedFacts DEF JobOwn, Carries
  <2>4. ASSUME p # None, ~p.deleted PROVE JobDone(i, b2, a2)
    <3>1. JobDone(j, b2, a2) /\ j.ob.bucket = j.name
      BY <1>11, <1>12, <2>2, <2>4
    <3>2. ArtifactFor(x, j.obc.uid, j.name)
      BY <1>14, <3>1 DEF WritesArtifact, ArtifactFor
    <3>3. a2[kind] = x
      BY <1>1, <1>14 DEF ArtifactsOf
    <3>4. kind \in {"secret", "cm"}
      BY DEF Kinds
    <3> QED
      BY <2>1, <2>2, <3>1, <3>2, <3>3, <3>4 DEF JobDone, Carries
  <2> QED
    BY <1>3, <1>14, <2>3, <2>4 DEF JobObjects
<1>15. CASE UNCHANGED <<obc, artifact>> /\ ob' = [ob EXCEPT ![n] = i.ob] /\ WritesOb(j, i, b)
  <2>1. /\ j.pc \in Binding /\ i.pc \in {"obBound", "bindClaim"} /\ Carries(j, i)
        /\ i.ob # None /\ i.ob.bucket = j.ob.bucket /\ i.ob.user = j.ob.user
        /\ i.ob.class = j.ob.class /\ i.ob.claim = j.ob.claim
        /\ i.pc = "bindClaim" => i.ob.phase = "Bound"
    BY <1>15, NoneAssumption DEF WritesOb, Binding
  <2>2. j.pc \in Supplied /\ j.pc \in Chosen /\ i.pc \in Binding
    BY <2>1, SuppliedFacts DEF Binding
  <2>3. JobOwn(i, n)
    BY <1>9, <2>1, <2>2 DEF JobOwn, Carries
  <2>4. ASSUME p # None, ~p.deleted PROVE JobDone(i, b2, a2)
    <3>1. JobDone(j, b2, a2) /\ j.ob.bucket = j.name
      BY <1>11, <1>12, <2>2, <2>4
    <3>2. j.ob.claim = j.obc.uid /\ b2 = i.ob
      BY <1>1, <1>9, <1>15, <2>1, <2>2 DEF JobOwn
    <3>3. i.pc = "bindClaim" => ObFor(b2, j.obc.uid, j.name)
      BY <2>1, <3>1, <3>2 DEF ObFor
    <3> QED
      BY <2>1, <3>1, <3>3 DEF JobDone, Carries
  <2> QED
    BY <1>3, <1>15, <2>3, <2>4 DEF JobObjects
\* An update of the claim goes through if the copy is up to date.
<1>16. ASSUME UNCHANGED <<ob, artifact>>, o = j.obc, NEW new, obc' = [obc EXCEPT ![k] = new],
              WritesClaim(j, i, new, n)
       PROVE  Goal
  <2>1. /\ p = new /\ new # None /\ b2 = b /\ a2 = a
        /\ new.uid = o.uid /\ new.class = o.class /\ new.deleted = o.deleted
    BY <1>1, <1>16, NoneAssumption DEF WritesClaim
  <2>2. o # None /\ ~o.deleted /\ Linked(o) /\ Ready(o, b, a, n)
    <3>1. j.pc \in Provisioning /\ HasCopy(j)
      BY <1>16 DEF WritesClaim, Provisioning, Naming, Binding, HasCopy
    <3>2. o # None /\ ~o.deleted
      BY <1>1, <1>16, <3>1, NoneAssumption DEF JobShape, JobCopy, HasCopy
    <3> QED
      BY <1>1, <3>2 DEF ClaimObjects
  <2>3. CASE j.pc \in {"setPending", "setMeta"}
    <3>1. i.pc \notin Chosen
      BY <1>16, <2>3 DEF WritesClaim, Chosen, Naming, Supplied, Artifacts, Binding
    <3>2. new.bucket = o.bucket /\ new.ob = o.ob /\ new.phase \in {o.phase, "Pending"}
      BY <1>16, <2>3 DEF WritesClaim
    <3>3. Linked(new)
      BY <2>1, <2>2, <3>2 DEF Linked
    <3>4. Ready(new, b, a, n)
      BY <2>1, <2>2, <3>2 DEF Ready
    <3> QED
      BY <1>5, <2>1, <3>1, <3>3, <3>4 DEF ClaimObjects
  <2>4. CASE j.pc = "saveName"
    <3>1. /\ new.bucket = j.name /\ new.ob = o.ob /\ new.phase = o.phase
          /\ i.pc = "provision" /\ i.class = j.class /\ i.name = j.name
      BY <1>16, <2>4, IdleKey DEF WritesClaim
    <3>2. o.bucket = None
      BY <1>16, <2>4 DEF NamesInv, JobNames
    <3>3. o.ob = None /\ o.phase # "Bound"
      BY <1>1, <2>2, <3>2, NoneAssumption DEF Linked, Ready
    <3>4. ClaimObjects(new, b, a, n)
      BY <3>1, <3>3 DEF ClaimObjects, Linked, Ready
    <3>5. i.pc \notin Supplied /\ j.pc \in Chosen
      BY <2>4, <3>1 DEF Supplied, Artifacts, Binding, Chosen, Naming
    <3>6. JobObjects(i, p, b2, a2, n)
      BY <1>9, <3>1, <3>5, SuppliedFacts DEF JobObjects, JobOwn, JobDone, Binding
    <3> QED
      BY <2>1, <3>4, <3>6
  <2>5. ASSUME j.pc \in {"bindClaim", "setBound"}
        PROVE  /\ JobDone(j, b, a) /\ JobOwn(j, n) /\ NameIs(o.uid, o.class, j.name)
               /\ j.name \in Buckets /\ j.name # None
    <3>1. j.pc \in Supplied /\ j.pc \in Chosen /\ j.pc \in Binding
      BY <2>5, SuppliedFacts DEF Binding
    <3>2. JobDone(j, b, a) /\ JobOwn(j, n)
      BY <1>1, <2>2 DEF JobObjects
    <3>3. NameIs(o.uid, o.class, j.name)
      BY <1>16, <3>1, <3>2, NameOfWorker
    <3> QED
      BY <1>1, <3>1, <3>2, <3>3, NoneAssumption DEF JobShape
  <2>6. CASE j.pc = "bindClaim"
    <3>1. /\ new.bucket = j.name /\ new.ob = n /\ new.phase = o.phase
          /\ i.pc = "setBound" /\ i.ob = j.ob /\ i.key = j.key /\ i.class = j.class
          /\ i.name = j.name /\ i.obc = new
      BY <1>16, <2>6, IdleKey DEF WritesClaim
    <3>2. Linked(new)
      BY <2>1, <2>5, <2>6, <3>1 DEF Linked, NameIs
    <3>3. ASSUME o.phase = "Bound" PROVE o.bucket = j.name
      <4>1. o.ob # None
        BY <1>1, <2>2, <3>3, NoneAssumption DEF Ready
      <4>2. NameIs(o.uid, o.class, o.bucket)
        BY <1>1, <2>2, <4>1, NameOfClaim
      <4> QED
        BY <2>5, <2>6, <4>2, OneName
    <3>4. Ready(new, b, a, n)
      BY <2>1, <2>2, <3>1, <3>3 DEF Ready
    <3>5. j.pc \in Supplied /\ j.pc \in Chosen /\ j.pc \in Binding
      BY <2>6, SuppliedFacts DEF Binding
    <3>6. JobOwn(i, n)
      BY <1>16, <2>1, <2>5, <2>6, <3>1, <3>5 DEF JobOwn
    <3>7. JobDone(i, b, a)
      BY <1>16, <2>1, <2>5, <2>6, <3>1 DEF JobDone, Binding
    <3> QED
      BY <2>1, <3>2, <3>4, <3>6, <3>7 DEF ClaimObjects, JobObjects
  <2>7. CASE j.pc = "setBound"
    <3>1. new.bucket = o.bucket /\ new.ob = o.ob /\ new.phase = "Bound" /\ i = IdleJob
      BY <1>16, <2>7 DEF WritesClaim
    <3>2. o.ob = n /\ o.bucket = j.name
      BY <1>16, <2>5, <2>7 DEF JobOwn
    <3>3. Linked(new)
      BY <2>1, <2>2, <3>1 DEF Linked
    <3>4. /\ ObFor(b, o.uid, j.name)
          /\ ArtifactFor(a["secret"], o.uid, j.name) /\ ArtifactFor(a["cm"], o.uid, j.name)
      BY <1>16, <2>5, <2>7 DEF JobDone, Binding
    <3>5. Ready(new, b, a, n)
      BY <2>1, <3>1, <3>2, <3>4 DEF Ready, Kinds
    <3> QED
      BY <1>4, <2>1, <3>1, <3>3, <3>5 DEF ClaimObjects
  <2> QED
    BY <1>16, <2>3, <2>4, <2>6, <2>7 DEF WritesClaim
<1> HIDE DEF Goal
<1>17. CASE UNCHANGED <<obc, ob, artifact>>
  <2>1. CASE \/ Stops(w) \/ ReadsClaim(j, i, o) \/ ReadsClass(j, i, class[j.obc.class])
             \/ ChoosesName(j, i, NamesFor(j.class, j.obc)) \/ IsSupplied(j, i)
             \/ RefersTo(j, i, o) \/ GoesOn(j, i)
    BY <1>6, <1>7, <1>8, <1>10, <1>13, <1>17, <2>1
  <2> QED
    BY <1>2, <1>14, <1>15, <1>16, <2>1 DEF ProvisionMove
<1>18. CASE ~UNCHANGED <<obc, ob, artifact>>
  BY <1>2, <1>6, <1>14, <1>15, <1>16, <1>18 DEF ProvisionMove
<1> QED
  BY <1>17, <1>18

\* Nobody takes away what there is for a claim that stays alive.
LEMMA NextKeeps ==
    ASSUME TypeInv, NamesInv, CopyInv, ObjectInv, ClassesKeepTheirBucket, ObNamesUnique,
           [Next]_vars, NEW k \in Keys, obc[k] # None, obc'[k] # None, ~obc'[k].deleted,
           NEW name, NameIs(obc[k].uid, obc[k].class, name)
    PROVE  LET n == ObjectBucketName(k)
           IN  Keeps(ob[n], ArtifactsOf(artifact, k), ob'[n], ArtifactsOf(artifact', k),
                     obc[k].uid, name)
<1> DEFINE n == ObjectBucketName(k)
           o == obc[k]
           b == ob[n]
           b2 == ob'[n]
           a == ArtifactsOf(artifact, k)
           a2 == ArtifactsOf(artifact', k)
<1> SUFFICES Keeps(b, a, b2, a2, o.uid, name)
  OBVIOUS
<1>1. ASSUME b2 = b, \A kind \in Kinds : artifact'[kind][k] = artifact[kind][k]
      PROVE  Keeps(b, a, b2, a2, o.uid, name)
  <2>1. a2 = a
    BY <1>1 DEF ArtifactsOf
  <2> QED
    BY <1>1, <2>1 DEF Keeps
<1>2. CASE UNCHANGED <<ob, artifact>>
  BY <1>1, <1>2
<1>3. ASSUME NEW w \in Workers, WorkerStep(w)
      PROVE  Keeps(b, a, b2, a2, o.uid, name)
  <2>1. CASE k # job[w].key
    BY <1>1, <1>3, <2>1, StepFrame
  <2>2. CASE k = job[w].key /\ ProvisionStep(w)
    BY <2>2, ProvisionKeeps
  <2>3. CASE k = job[w].key /\ DeleteStep(w)
    BY <2>3, DeleteCopy
  <2> QED
    BY <1>3, <2>1, <2>2, <2>3 DEF WorkerStep
<1>4. ASSUME NEW kind \in Kinds, NEW l \in Keys, Collect(kind, l)
      PROVE  Keeps(b, a, b2, a2, o.uid, name)
  <2> DEFINE x == Deleting(artifact[kind][l])
  <2>1. UNCHANGED ob /\ artifact' = [artifact EXCEPT ![kind][l] = x]
    BY <1>4 DEF Collect
  <2>2. artifact \in [Kinds -> [Keys -> Artifact \cup {None}]]
    BY DEF TypeInv, ClusterTypeOK
  <2>3. l = k => ~ArtifactFor(artifact[kind][k], o.uid, name)
    BY <1>4 DEF Collect, ArtifactFor
  <2> HIDE DEF x
  <2>4. \A kd \in Kinds : ~(kd = kind /\ l = k) => a2[kd] = a[kd]
    BY <2>1, <2>2 DEF ArtifactsOf
  <2>5. \A kd \in Kinds : a[kd] = artifact[kd][k]
    BY DEF ArtifactsOf
  <2> QED
    BY <2>1, <2>3, <2>4, <2>5 DEF Keeps
<1>5. CASE EnvironmentStep
  BY <1>2, <1>4, <1>5 DEF EnvironmentStep, Environment, CreateClaim, DeleteClaim, EditClaim,
                          DeleteClass, CreateClass
<1>6. CASE QuietMove
  BY <1>2, <1>6 DEF QuietMove
<1> QED
  BY <1>3, <1>5, <1>6, QuietMoves DEF Next

\* Users write no claim that says more than it did.
LEMMA UserWrites ==
    ASSUME TypeInv, EnvironmentStep, NEW k \in Keys, obc'[k] # None
    PROVE  LET o == obc[k]
               p == obc'[k]
           IN  \/ p.ob = None /\ p.phase # "Bound" /\ p.bucket \in UserNames \cup {None}
                  /\ \E r \in Requests : p.class = r.class /\ p.bucket = r.bucket
               \/ /\ o # None
                  /\ p.uid = o.uid /\ p.class = o.class /\ p.bucket = o.bucket
                  /\ p.ob = o.ob /\ p.phase = o.phase /\ (o.deleted => p.deleted)
<1> DEFINE o == obc[k]
           p == obc'[k]
           Same == /\ o # None
                   /\ p.uid = o.uid /\ p.class = o.class /\ p.bucket = o.bucket
                   /\ p.ob = o.ob /\ p.phase = o.phase /\ (o.deleted => p.deleted)
           New == /\ p.ob = None /\ p.phase # "Bound" /\ p.bucket \in UserNames \cup {None}
                  /\ \E r \in Requests : p.class = r.class /\ p.bucket = r.bucket
<1> SUFFICES New \/ Same
  OBVIOUS
<1>1. obc \in [Keys -> Claim \cup {None}]
  BY DEF TypeInv, ClusterTypeOK
<1>2. CASE p = o
  BY <1>2
<1>3. ASSUME NEW l \in Keys, NEW r \in Requests, CreateClaim(l, r), p # o
      PROVE  New
  <2>1. p = [uid |-> spent.create + 1, deleted |-> FALSE, finalizer |-> FALSE,
             class |-> r.class, bucket |-> r.bucket, generate |-> r.generate,
             config |-> 0, ob |-> None, phase |-> None]
    BY <1>1, <1>3 DEF CreateClaim
  <2>2. p.class = r.class /\ p.bucket = r.bucket /\ p.ob = None /\ p.phase = None
    BY <2>1
  <2>3. r.bucket \in UserNames \cup {None} /\ None # "Bound"
    BY ConstantsAssumption, NoneAssumption
  <2> QED
    BY <2>2, <2>3
<1>4. ASSUME NEW l \in Keys, DeleteClaim(l), p # o
      PROVE  Same
  <2>1. o \in Claim /\ o # None /\ p = Deleting(o)
    BY <1>1, <1>4 DEF DeleteClaim
  <2>2. p = [o EXCEPT !.deleted = TRUE]
    BY <2>1 DEF Deleting, Stored
  <2> QED
    BY <2>1, <2>2 DEF Claim
<1>5. ASSUME NEW l \in Keys, EditClaim(l), p # o
      PROVE  Same
  <2>1. o \in Claim /\ o # None /\ p = [o EXCEPT !.config = spent.edit + 1]
    BY <1>1, <1>5 DEF EditClaim
  <2> QED
    BY <2>1 DEF Claim
<1>6. \/ UNCHANGED obc
      \/ \E l \in Keys : DeleteClaim(l) \/ EditClaim(l)
      \/ \E l \in Keys, r \in Requests : CreateClaim(l, r)
  BY DEF EnvironmentStep, Environment, DeleteClass, CreateClass, Collect
<1> QED
  BY <1>2, <1>3, <1>4, <1>5, <1>6

LEMMA NextObjects ==
    ASSUME TypeInv, NamesInv, CopyInv, ObjectInv, ClassesKeepTheirBucket, ObNamesUnique,
           CleanHandOver, [Next]_vars
    PROVE  ObjectInv'
<1> DEFINE ClaimOK(k) == LET n == ObjectBucketName(k)
                         IN  ClaimObjects(obc'[k], ob'[n], ArtifactsOf(artifact', k), n)
           JobOK(w) == LET k == job'[w].key
                           n == ObjectBucketName(k)
                       IN  JobObjects(job'[w], obc'[k], ob'[n], ArtifactsOf(artifact', k), n)
<1> SUFFICES (\A k \in Keys : ClaimOK(k)) /\ (\A w \in Workers : JobOK(w))
  BY DEF ObjectInv
\* A claim that nobody takes further.
<1>1. ASSUME NEW k \in Keys, obc[k] # None,
             obc'[k] # None =>
                 LET o == obc[k]
                     p == obc'[k]
                 IN  /\ p.uid = o.uid /\ p.class = o.class /\ p.bucket = o.bucket
                     /\ p.ob = o.ob /\ p.phase = o.phase /\ (o.deleted => p.deleted)
      PROVE  ClaimOK(k)
  <2> DEFINE n == ObjectBucketName(k)
             o == obc[k]
             p == obc'[k]
             b == ob[n]
             b2 == ob'[n]
             a == ArtifactsOf(artifact, k)
             a2 == ArtifactsOf(artifact', k)
  <2>1. ClaimObjects(o, b, a, n) /\ n # None
    BY NoneAssumption DEF ObjectInv, ObNames
  <2>2. ASSUME p # None, ~p.deleted, o.phase = "Bound"
        PROVE  Keeps(b, a, b2, a2, o.uid, o.bucket)
    <3>1. Linked(o) /\ o.ob # None
      BY <1>1, <2>1, <2>2 DEF ClaimObjects, Ready
    <3>2. NameIs(o.uid, o.class, o.bucket)
      BY <1>1, <3>1, NameOfClaim
    <3> QED
      BY <1>1, <2>2, <3>2, NextKeeps
  <2> QED
    BY <1>1, <2>1, <2>2, ClaimStaysReady
<1>2. ASSUME NEW k \in Keys, obc'[k] = obc[k]
      PROVE  ClaimOK(k)
  BY <1>1, <1>2 DEF ClaimObjects
\* A worker that takes no step.
<1>3. ASSUME NEW v \in Workers, job'[v] = job[v]
      PROVE  JobOK(v)
  <2> DEFINE j == job[v]
             k == j.key
             n == ObjectBucketName(k)
             o == obc[k]
             p == obc'[k]
             b == ob[n]
             b2 == ob'[n]
             a == ArtifactsOf(artifact, k)
             a2 == ArtifactsOf(artifact', k)
  <2>1. CASE j.pc = "idle"
    BY <1>3, <2>1 DEF JobObjects
  <2>2. CASE j.pc # "idle"
    <3>1. k \in Keys /\ JobObjects(j, o, b, a, n) /\ JobCopy(j, o)
      BY <2>2 DEF TypeInv, ControllerInv, JobShape, ObjectInv, CopyInv
    <3>2. Later(o, p) \/ (HasCopy(j) => ~j.obc.finalizer)
      BY <3>1, ClaimMoveOf DEF ClaimMove
    <3>3. ASSUME p # None, ~p.deleted, j.pc \in Supplied, Later(o, p)
          PROVE  Keeps(b, a, b2, a2, j.obc.uid, j.name)
      <4>1. o # None
        BY <3>3 DEF Later
      <4>2. o.uid = j.obc.uid /\ o.class = j.obc.class
        BY <3>3, <4>1, WorkerAgrees
      <4>3. NameIs(o.uid, o.class, j.name)
        BY <2>2, <3>1, <3>3, <4>2, NameOfWorker DEF JobObjects
      <4> QED
        BY <3>1, <3>3, <4>1, <4>2, <4>3, NextKeeps
    <3>4. JobObjects(j, p, b2, a2, n)
      BY <3>1, <3>2, <3>3, JobStaysReady
    <3> QED
      BY <1>3, <3>4
  <2> QED
    BY <2>1, <2>2
\* A job that has chosen no bucket.
<1>4. ASSUME NEW v \in Workers, job'[v].pc \notin Chosen
      PROVE  JobOK(v)
  BY <1>4, SuppliedFacts DEF JobObjects, JobOwn, JobDone, Binding
<1>5. ASSUME NEW v \in Workers, job'[v] = IdleJob
      PROVE  JobOK(v)
  BY <1>4, <1>5, IdleNeeds
<1>6. ASSUME NEW w \in Workers, WorkerStep(w)
      PROVE  (\A k \in Keys : ClaimOK(k)) /\ (\A v \in Workers : JobOK(v))
  <2> DEFINE k == job[w].key
             i == job'[w]
  <2>1. /\ job' = [job EXCEPT ![w] = i] /\ job \in [Workers -> Job] /\ k \in Keys
        /\ i = IdleJob \/ i.key = k
    BY <1>6, ProvisionStepJob, DeleteStepJob DEF WorkerStep, TypeInv, ControllerInv
  <2>2. \A v \in Workers : v # w => job'[v] = job[v]
    BY <2>1
  <2>3. ASSUME NEW l \in Keys, l # k PROVE ClaimOK(l)
    BY <1>2, <1>6, <2>3, StepFrame
  <2>4. CASE ProvisionStep(w)
    <3>1. ClaimOK(k)
      BY <2>4, ProvisionObjects
    <3>2. i.key = k => JobOK(w)
      BY <2>4, ProvisionObjects
    <3> QED
      BY <1>3, <1>5, <2>1, <2>2, <2>3, <3>1, <3>2
  <2>5. CASE DeleteStep(w)
    <3>1. obc'[k] # None => obc'[k] = obc[k]
      BY <2>5, DeleteCopy
    <3>2. ClaimOK(k)
      BY <1>2, <2>1, <3>1 DEF ClaimObjects
    <3>3. i = IdleJob \/ i.pc \in Cleaning
      BY <2>5, DeleteMoves DEF DeleteMove
    <3>4. i.pc \in Cleaning => i.pc \notin Chosen
      BY SuppliedFacts, CleaningFacts
    <3> QED
      BY <1>3, <1>4, <1>5, <2>2, <2>3, <3>2, <3>3, <3>4
  <2> QED
    BY <1>6, <2>4, <2>5 DEF WorkerStep
<1>7. CASE QuietMove
  <2>1. \A k \in Keys : ClaimOK(k)
    BY <1>2, <1>7 DEF QuietMove
  <2>2. "getClaim" \notin Chosen /\ \A pc \in Cleaning : pc \notin Chosen
    BY SuppliedFacts, CleaningFacts
  <2>3. ASSUME NEW v \in Workers PROVE JobOK(v)
    <3>1. CASE job'[v].pc = "getClaim" \/ job'[v].pc \in Cleaning
      BY <1>4, <2>2, <3>1
    <3> QED
      BY <1>3, <1>5, <1>7, <3>1 DEF QuietMove, GoesOnAfterError
  <2> QED
    BY <2>1, <2>3
<1>8. CASE EnvironmentStep
  <2>1. \A v \in Workers : JobOK(v)
    BY <1>3, <1>8 DEF EnvironmentStep
  <2>2. ASSUME NEW k \in Keys PROVE ClaimOK(k)
    <3>1. CASE obc'[k] = None
      BY <3>1 DEF ClaimObjects
    <3>2. CASE obc'[k] # None /\ obc'[k].ob = None /\ obc'[k].phase # "Bound"
      BY <3>2 DEF ClaimObjects, Linked, Ready
    <3> QED
      BY <1>1, <1>8, <3>1, <3>2, UserWrites
  <2> QED
    BY <2>1, <2>2
<1> HIDE DEF ClaimOK, JobOK
<1> QED
  BY <1>6, <1>7, <1>8, QuietMoves DEF Next

LEMMA InitObjects == Init => ObjectInv
BY IdleKey DEF Init, ClusterInit, ObjectInv, ClaimObjects, JobObjects

-------------------------------------------------------------------------------
(* A generated name stays with its key.                                    *)

LEMMA HoldingFacts ==
    /\ \A k \in Keys : obc[k] # None => ClaimRecord(obc[k], k) \in Holdings
    /\ \A w \in Workers : HasCopy(job[w]) => ClaimRecord(job[w].obc, job[w].key) \in Holdings
    /\ \A w \in Workers : job[w].pc \in Chosen => ChosenRecord(job[w]) \in Holdings
    /\ \A w \in Workers : job[w].pc \in Sought /\ job[w].ob # None =>
                              ObRecord(job[w].ob, job[w].key) \in Holdings
    /\ \A k \in Keys : ob[ObjectBucketName(k)] # None =>
                           ObRecord(ob[ObjectBucketName(k)], k) \in Holdings
    /\ \A n \in Buckets : bucket[n] # None => BucketRecord(n, bucket[n]) \in Holdings
BY DEF Holdings

LEMMA RecordParts ==
    /\ \A o, k : ClaimRecord(o, k)[1] = o.bucket /\ ClaimRecord(o, k)[2] = k
    /\ \A j : ChosenRecord(j)[1] = j.name /\ ChosenRecord(j)[2] = j.key
    /\ \A b, k : ObRecord(b, k)[1] = b.bucket /\ ObRecord(b, k)[2] = k
    /\ \A b, k : ObRecord(b, k)[3] = Kept(b.policy)
    /\ \A n, x : BucketRecord(n, x)[1] = n /\ BucketRecord(n, x)[2] = x.owner
    /\ \A n, x : BucketRecord(n, x)[3] = Kept(x.policy)
BY DEF ClaimRecord, ChosenRecord, ObRecord, BucketRecord

\* The record is there already, is about no generated name, or is the new one about a
\* name that nobody had.
Placed(r, new) ==
    \/ r \in Holdings
    \/ r[1] \notin GenNames
    \/ r = new /\ \A s \in Holdings : s[1] # r[1]

ClaimPlaced(o, k, new) == o # None => Named(o) /\ Placed(ClaimRecord(o, k), new)

ObPlaced(b, k, names, new) == b # None => ObStore(b, k, names) /\ Placed(ObRecord(b, k), new)

BucketPlaced(x, n, names, new) ==
    x # None => (n \in GenNames => n \in names) /\ Placed(BucketRecord(n, x), new)

JobPlaced(j, names, new) ==
    /\ JobNamed(j, names)
    /\ HasCopy(j) => Placed(ClaimRecord(j.obc, j.key), new)
    /\ j.pc \in Chosen => Placed(ChosenRecord(j), new)
    /\ j.pc \in Sought /\ j.ob # None => Placed(ObRecord(j.ob, j.key), new)

\* Where everything is placed after a step, the names are as they should be.
LEMMA AllPlaced ==
    ASSUME OneKeyPerName, NEW new,
           \A k \in Keys : ClaimPlaced(obc'[k], k, new),
           \A k \in Keys : ObPlaced(ob'[ObjectBucketName(k)], k, AskedNames', new),
           \A n \in Buckets : BucketPlaced(bucket'[n], n, AskedNames', new),
           \A w \in Workers : JobPlaced(job'[w], AskedNames', new),
           GeneratedNames
    PROVE  HolderInv'
<1>1. \A r \in Holdings' : Placed(r, new)
  BY DEF Holdings, ClaimPlaced, ObPlaced, BucketPlaced, JobPlaced
<1>2. OneKeyPerName'
  BY <1>1 DEF OneKeyPerName, Placed
<1>3. \A n \in GenNames : bucket'[n] # None => n \in AskedNames'
  BY StoreNames DEF BucketPlaced
<1> QED
  BY <1>2, <1>3 DEF HolderInv, ClaimPlaced, ObPlaced, JobPlaced

\* Provision was asked for more and more.
LEMMA AskedGrows ==
    ASSUME [Next]_vars
    PROVE  AskedNames \subseteq AskedNames'
<1>1. asked \subseteq asked'
  <2>1. CASE UNCHANGED asked
    BY <2>1
  <2>2. ASSUME NEW w \in Workers, StoreChange(job[w])
        PROVE  asked \subseteq asked'
    BY <2>2 DEF StoreChange, Asked, store
  <2>3. CASE \E w \in Workers : WorkerStep(w)
    BY <2>2, <2>3, WorkerStoreChange
  <2>4. CASE Fault
    BY <2>1, <2>2, <2>4, WorkerStoreChange DEF Fault, ApiError, Crash, store
  <2>5. CASE EnvironmentStep
    BY <2>1, <2>5 DEF EnvironmentStep, Environment, CreateClaim, DeleteClaim, EditClaim,
                      DeleteClass, CreateClass, Collect, store
  <2>6. CASE \E w \in Workers, k \in Keys : GetItem(w, k)
    BY <2>1, <2>6 DEF GetItem, store
  <2> QED
    BY <2>1, <2>3, <2>4, <2>5, <2>6 DEF Next, vars
<1> QED
  BY <1>1 DEF AskedNames

\* What does not change stays where it is.
LEMMA StaysPlaced ==
    ASSUME HolderInv, AskedNames \subseteq AskedNames', NEW new
    PROVE  /\ \A k \in Keys : ClaimPlaced(obc[k], k, new)
           /\ \A k \in Keys : ObPlaced(ob[ObjectBucketName(k)], k, AskedNames', new)
           /\ \A n \in Buckets : BucketPlaced(bucket[n], n, AskedNames', new)
           /\ \A w \in Workers : JobPlaced(job[w], AskedNames', new)
           /\ JobPlaced(IdleJob, AskedNames', new)
           /\ \A j : j.pc = "getClaim" => JobPlaced(j, AskedNames', new)
<1>1. \A k \in Keys : ClaimPlaced(obc[k], k, new)
  BY HoldingFacts DEF HolderInv, ClaimPlaced, Placed
<1>2. \A k \in Keys : ObPlaced(ob[ObjectBucketName(k)], k, AskedNames', new)
  BY HoldingFacts DEF HolderInv, ObPlaced, Placed, ObStore
<1>3. ASSUME NEW w \in Workers
      PROVE  JobPlaced(job[w], AskedNames', new)
  <2>1. JobNamed(job[w], AskedNames')
    BY DEF HolderInv, JobNamed, ObStore
  <2> QED
    BY <2>1, HoldingFacts DEF JobPlaced, Placed
<1>4. ASSUME NEW j, j.pc \in {"idle", "getClaim"}
      PROVE  JobPlaced(j, AskedNames', new)
  <2>1. /\ j.pc \notin Chosen /\ j.pc \notin Supplied /\ j.pc \notin Sought
        /\ j.pc \notin Binding /\ j.pc # "delete" /\ ~HasCopy(j)
    BY <1>4 DEF Chosen, Supplied, Sought, Naming, Artifacts, Binding, Unbinding, HasCopy
  <2> QED
    BY <2>1 DEF JobPlaced, JobNamed
<1>5. \A n \in Buckets : BucketPlaced(bucket[n], n, AskedNames', new)
  BY HoldingFacts DEF HolderInv, BucketPlaced, Placed
<1> QED
  BY <1>1, <1>2, <1>3, <1>4, <1>5, IdleKey

\* A generated name is new: it is in no claim, no copy and no OB, no bucket has it and
\* no other job has chosen it.
LEMMA FreshIsNew ==
    ASSUME TypeInv, HolderInv, NEW name \in FreshNames
    PROVE  name \in GenNames /\ \A s \in Holdings : s[1] # name
<1>1. /\ name \in GenNames /\ name \notin AskedNames
      /\ \A w \in Workers : job[w].name # name
      /\ \A k \in Keys : obc[k] # None => obc[k].bucket # name
      /\ \A w \in Workers : job[w].obc # None => job[w].obc.bucket # name
  BY DEF FreshNames, AskedNames
<1>2. \A w \in Workers : HasCopy(job[w]) => job[w].obc # None
  BY NoneAssumption DEF TypeInv, ControllerInv, JobShape, HasCopy
<1>3. \A k \in Keys : ob[ObjectBucketName(k)] # None => ob[ObjectBucketName(k)].bucket # name
  BY <1>1 DEF HolderInv, ObStore
<1>4. \A w \in Workers : job[w].pc \in Sought /\ job[w].ob # None => job[w].ob.bucket # name
  BY <1>1 DEF HolderInv, JobNamed, ObStore
<1>5. ASSUME NEW s \in Holdings PROVE s[1] # name
  <2>1. CASE \E k \in Keys : obc[k] # None /\ s = ClaimRecord(obc[k], k)
    BY <1>1, <2>1, RecordParts
  <2>2. CASE \E w \in Workers : HasCopy(job[w]) /\ s = ClaimRecord(job[w].obc, job[w].key)
    BY <1>1, <1>2, <2>2, RecordParts
  <2>3. CASE \E w \in Workers : s = ChosenRecord(job[w])
    BY <1>1, <2>3, RecordParts
  <2>4. CASE \E w \in Workers : /\ job[w].pc \in Sought /\ job[w].ob # None
                                /\ s = ObRecord(job[w].ob, job[w].key)
    BY <1>4, <2>4, RecordParts
  <2>5. CASE \E k \in Keys : /\ ob[ObjectBucketName(k)] # None
                             /\ s = ObRecord(ob[ObjectBucketName(k)], k)
    BY <1>3, <2>5, RecordParts
  <2>6. CASE \E n \in Buckets : bucket[n] # None /\ s = BucketRecord(n, bucket[n])
    BY <1>1, <2>6, RecordParts DEF HolderInv
  <2> QED
    BY <2>1, <2>2, <2>3, <2>4, <2>5, <2>6 DEF Holdings
<1> QED
  BY <1>1, <1>5

\* What a job may choose.
LEMMA ChosenNames ==
    ASSUME TypeInv, NamesInv, HolderInv, GeneratedNames, ClassesKeepTheirBucket,
           NEW w \in Workers, job[w].pc = "getOb", NEW name \in NamesFor(job[w].class, job[w].obc)
    PROVE  LET r == <<name, job[w].key, Kept(ClassPolicy(job[w].obc.class))>>
           IN  NameFits(name, job[w].obc.class) /\ Placed(r, r)
<1> DEFINE j == job[w]
           d == j.class
           o == j.obc
           c == o.class
           r == <<name, j.key, Kept(ClassPolicy(c))>>
<1>0. r[1] = name
  OBVIOUS
<1>1. JobShape(j) /\ JobNames(j) /\ HasCopy(j) /\ Named(o)
  BY DEF TypeInv, ControllerInv, NamesInv, HolderInv, JobNamed, HasCopy
<1>2. o \in Claim /\ d \in ClassDefs[c] /\ c \in Classes /\ o.generate \in BOOLEAN
  BY <1>1 DEF JobShape, JobNames, Claim
<1>3. Greenfield(c) <=> d.bucket = None
  BY <1>2 DEF Greenfield, ClassesKeepTheirBucket
<1>4. \/ d.bucket # None /\ name = d.bucket
      \/ d.bucket = None /\ o.bucket # None /\ name = o.bucket
      \/ d.bucket = None /\ name \in FreshNames
  BY <1>2 DEF NamesFor
<1>5. CASE d.bucket # None /\ name = d.bucket
  <2>1. name \in UserNames /\ name \notin GenNames
    BY <1>2, <1>5 DEF GeneratedNames
  <2> QED
    BY <1>0, <1>3, <1>5, <2>1 DEF NameFits, Placed
<1>6. CASE o.bucket # None /\ name = o.bucket
  <2>1. r = ClaimRecord(o, j.key)
    BY <1>6 DEF ClaimRecord
  <2> QED
    BY <1>1, <1>6, <2>1, HoldingFacts DEF Named, Placed
<1>7. CASE d.bucket = None /\ name \in FreshNames
  BY <1>0, <1>3, <1>7, FreshIsNew DEF NameFits, Placed
<1> QED
  BY <1>4, <1>5, <1>6, <1>7

\* A job gets to have a new bucket only by asking for it.
LEMMA SuppliedIsAsked ==
    ASSUME NEW w \in Workers, ProvisionStep(w), job[w].pc = "provision"
    PROVE  job[w].class.bucket # None \/ job[w].name \in AskedNames'
<1>1. Provision(w) \/ Grant(w)
  BY DEF ProvisionStep, At, GetClaim, GetClass, SetPending, SetMeta, GetOb, SaveName, UpdateClaim,
         CreateArtifact, UpdateArtifact, CreatePc, UpdatePc, Kinds, ClaimRef, CreateOb,
         GetCurrentOb, UpdateOb, ObBound, ReplaceOb, BindClaim, SetBound
<1>2. CASE Provision(w)
  <2>1. <<job[w].obc.uid, job[w].name>> \in asked'
    BY <1>2 DEF Provision, Asked
  <2>2. <<job[w].obc.uid, job[w].name>>[2] = job[w].name
    OBVIOUS
  <2> QED
    BY <2>1, <2>2 DEF AskedNames
<1>3. CASE Grant(w)
  BY <1>3 DEF Grant
<1> QED
  BY <1>1, <1>2, <1>3

\* Whatever worker w writes or holds has a name that it had, or the one it chooses.
LEMMA ProvisionPlaced ==
    ASSUME TypeInv, NamesInv, ObjectInv, HolderInv, GeneratedNames, ClassesKeepTheirBucket,
           NEW w \in Workers, ProvisionStep(w), AskedNames \subseteq AskedNames'
    PROVE  LET k == job[w].key
               new == <<job'[w].name, k, Kept(ClassPolicy(job[w].obc.class))>>
           IN  /\ ClaimPlaced(obc'[k], k, new)
               /\ ObPlaced(ob'[ObjectBucketName(k)], k, AskedNames', new)
               /\ JobPlaced(job'[w], AskedNames', new)
<1> DEFINE j == job[w]
           i == job'[w]
           k == j.key
           n == ObjectBucketName(k)
           o == obc[k]
           p == obc'[k]
           b2 == ob'[n]
           new == <<i.name, k, Kept(ClassPolicy(j.obc.class))>>
           Goal == /\ ClaimPlaced(p, k, new) /\ ObPlaced(b2, k, AskedNames', new)
                   /\ JobPlaced(i, AskedNames', new)
<1> SUFFICES Goal
  OBVIOUS
<1>1. /\ k \in Keys /\ n \in ObNames /\ JobShape(j) /\ j.pc # "idle" /\ JobNames(j)
      /\ obc \in [Keys -> Claim \cup {None}]
      /\ ob \in [ObNames -> ObjectBucket \cup {None}]
  BY ProvisionStepJob DEF TypeInv, ClusterTypeOK, ObNames, ControllerInv, NamesInv
<1>2. ProvisionMove(w)
  BY ProvisionMoves
<1>3. /\ ClaimPlaced(o, k, new) /\ ObPlaced(ob[n], k, AskedNames', new)
      /\ JobPlaced(j, AskedNames', new) /\ JobPlaced(IdleJob, AskedNames', new)
  BY <1>1, StaysPlaced
<1>4. j.pc \in Chosen => JobOwn(j, n)
  BY <1>1 DEF ObjectInv, JobObjects
<1> HIDE DEF new
<1>5. ASSUME i.key = k, i.pc \in {"getClass", "findOb"} \cup Provisioning,
             Named(i.obc), Placed(ClaimRecord(i.obc, k), new),
             i.pc \in Chosen => NameFits(i.name, i.obc.class) /\ Placed(ChosenRecord(i), new),
             i.pc \in Supplied => (i.name \in GenNames => i.name \in AskedNames'),
             i.pc \in Binding => Kept(i.ob.policy) = Kept(ClassPolicy(i.obc.class))
      PROVE  JobPlaced(i, AskedNames', new)
  <2>1. i.pc \notin Sought /\ i.pc # "delete"
    BY <1>5 DEF Sought, Unbinding, Provisioning, Naming, Artifacts, Binding
  <2> QED
    BY <1>5, <2>1 DEF JobPlaced, JobNamed
<1>6. CASE Stops(w)
  BY <1>3, <1>6 DEF Stops
<1>7. CASE UNCHANGED <<obc, ob>> /\ ReadsClaim(j, i, o)
  <2>1. i.key = k /\ i.pc = "getClass" /\ i.obc = o /\ o # None
    BY <1>7 DEF ReadsClaim
  <2>2. i.pc \notin Chosen /\ i.pc \notin Supplied /\ i.pc \notin Binding
    BY <2>1, SuppliedFacts DEF Binding
  <2> QED
    BY <1>3, <1>5, <1>7, <2>1, <2>2 DEF ClaimPlaced
<1>8. CASE UNCHANGED <<obc, ob>> /\ ReadsClass(j, i, class[j.obc.class])
  <2>1. /\ i.key = k /\ i.obc = j.obc /\ HasCopy(j) /\ i.pc = AfterClass(j.obc) /\ j.obc \in Claim
    BY <1>1, <1>8 DEF ReadsClass, HasCopy, JobShape
  <2>2. i.pc \in {"findOb", "setPending", "setMeta"}
    BY <2>1 DEF AfterClass, Claim
  <2>3. /\ i.pc \notin Chosen /\ i.pc \notin Supplied /\ i.pc \notin Binding
        /\ i.pc \in {"findOb"} \cup Provisioning
    BY <2>2 DEF Chosen, Supplied, Provisioning, Naming, Artifacts, Binding
  <2> QED
    BY <1>3, <1>5, <1>8, <2>1, <2>3 DEF JobPlaced, JobNamed
<1>9. CASE UNCHANGED <<obc, ob>> /\ ChoosesName(j, i, NamesFor(j.class, j.obc))
  <2>1. /\ i.key = k /\ i.obc = j.obc /\ HasCopy(j) /\ j.pc = "getOb"
        /\ i.name \in NamesFor(j.class, j.obc) /\ i.pc \in Naming
    BY <1>9 DEF ChoosesName, HasCopy, Naming
  <2>2. NameFits(i.name, i.obc.class) /\ Placed(ChosenRecord(i), new)
    BY <2>1, ChosenNames DEF new, ChosenRecord
  <2>3. i.pc \in Provisioning /\ i.pc \notin Supplied /\ i.pc \notin Binding
    BY <2>1 DEF Naming, Provisioning, Supplied, Artifacts, Binding
  <2> QED
    BY <1>3, <1>5, <1>9, <2>1, <2>2, <2>3 DEF JobPlaced, JobNamed
\* From here on the job goes on for the same bucket.
<1>10. ASSUME j.pc \in Chosen
       PROVE  /\ HasCopy(j) /\ Named(j.obc) /\ Placed(ClaimRecord(j.obc, k), new)
              /\ NameFits(j.name, j.obc.class) /\ Placed(ChosenRecord(j), new)
              /\ j.pc \in Binding => Kept(j.ob.policy) = Kept(ClassPolicy(j.obc.class))
              /\ j.pc \in Supplied => (j.name \in GenNames => j.name \in AskedNames')
  BY <1>3, <1>10, SuppliedFacts DEF JobPlaced, JobNamed, HasCopy
<1>11. ASSUME j.pc \in Supplied, i.pc \in Supplied, Carries(j, i),
              i.pc \in Binding => Kept(i.ob.policy) = Kept(ClassPolicy(j.obc.class))
       PROVE  JobPlaced(i, AskedNames', new)
  <2>1. i.pc \in Provisioning /\ j.pc \in Chosen
    BY <1>11, SuppliedFacts
  <2>2. ChosenRecord(i) = ChosenRecord(j)
    BY <1>11 DEF Carries, ChosenRecord
  <2> QED
    BY <1>5, <1>10, <1>11, <2>1, <2>2 DEF Carries
<1>12. CASE UNCHANGED <<obc, ob>> /\ IsSupplied(j, i)
  <2>1. j.pc = "provision" /\ i.pc = "createSecret" /\ Carries(j, i)
    BY <1>12 DEF IsSupplied
  <2>2. j.pc \in Chosen /\ i.pc \in Provisioning /\ j.pc \in Provisioning /\ i.pc \notin Binding
    BY <2>1 DEF Chosen, Naming, Provisioning, Artifacts, Binding
  <2>3. j.name \in GenNames => j.name \in AskedNames'
    <3>1. j.obc \in Claim /\ j.class \in ClassDefs[j.obc.class]
      BY <1>1, <2>1, <2>2 DEF JobShape, JobNames, Naming
    <3>2. ASSUME j.name \in GenNames PROVE j.class.bucket = None
      BY <1>10, <2>2, <3>1, <3>2 DEF NameFits, Greenfield
    <3> QED
      BY <2>1, <3>2, SuppliedIsAsked
  <2>4. JobPlaced(i, AskedNames', new)
    BY <1>5, <1>10, <2>1, <2>2, <2>3 DEF Carries, ChosenRecord
  <2> QED
    BY <1>3, <1>12, <2>4
<1>13. CASE UNCHANGED <<obc, ob>> /\ (RefersTo(j, i, o) \/ GoesOn(j, i))
  <2>1. j.pc \in Supplied /\ i.pc \in Supplied /\ Carries(j, i)
    BY <1>13 DEF RefersTo, GoesOn, Supplied, Artifacts, Binding
  <2>2. CASE RefersTo(j, i, o)
    <3>1. i.ob.policy = PolicyFor(j) /\ j.pc = "claimRef"
      BY <2>2 DEF RefersTo
    <3>2. j.obc \in Claim /\ j.class \in ClassDefs[j.obc.class]
      BY <1>1, <3>1 DEF JobShape, JobNames, Artifacts
    <3>3. Kept(i.ob.policy) = Kept(ClassPolicy(j.obc.class))
      BY <3>1, <3>2, PolicyOfJob
    <3> QED
      BY <1>3, <1>11, <1>13, <2>1, <3>3
  <2>3. CASE GoesOn(j, i)
    <3>1. i.ob = j.ob /\ (i.pc \in Binding => j.pc \in Binding) /\ j.pc \in Chosen
      BY <2>1, <2>3, SuppliedFacts DEF GoesOn, Binding
    <3> QED
      BY <1>3, <1>10, <1>11, <1>13, <2>1, <3>1
  <2> QED
    BY <1>13, <2>2, <2>3
<1>14. ASSUME UNCHANGED <<obc, ob>>, NEW kind \in Kinds, NEW x, WritesArtifact(j, i, kind, x)
       PROVE  Goal
  <2>1. j.pc \in Supplied /\ i.pc \in Supplied /\ i.pc \notin Binding /\ Carries(j, i)
    BY <1>14 DEF WritesArtifact, Supplied, Artifacts, Binding, CreatePc, UpdatePc, AfterPc, Kinds
  <2> QED
    BY <1>3, <1>11, <1>14, <2>1
<1>15. CASE UNCHANGED obc /\ ob' = [ob EXCEPT ![n] = i.ob] /\ WritesOb(j, i, ob[n])
  <2>1. /\ j.pc \in Binding /\ i.pc \in Binding /\ Carries(j, i)
        /\ i.ob.bucket = j.ob.bucket /\ i.ob.user = j.ob.user /\ i.ob.class = j.ob.class
        /\ i.ob.policy = j.ob.policy
    BY <1>15 DEF WritesOb, Binding
  <2>2. j.pc \in Supplied /\ i.pc \in Supplied /\ j.pc \in Chosen
    BY <2>1, SuppliedFacts
  <2>3. j.ob.bucket = j.name /\ j.ob.user = k /\ j.ob.class = j.obc.class /\ j.obc.class \in Classes
    BY <1>1, <1>4, <2>1, <2>2 DEF JobOwn, JobShape, Claim, Binding
  <2>4. b2 = i.ob
    BY <1>1, <1>15
  <2>5. ObRecord(i.ob, k) = ChosenRecord(j)
    BY <1>10, <2>1, <2>2, <2>3 DEF ObRecord, ChosenRecord
  <2>6. ObPlaced(b2, k, AskedNames', new)
    BY <1>10, <2>1, <2>2, <2>3, <2>4, <2>5 DEF ObPlaced, ObStore
  <2> QED
    BY <1>3, <1>10, <1>11, <1>15, <2>1, <2>2, <2>6
<1>16. ASSUME UNCHANGED ob, NEW c, obc' = [obc EXCEPT ![k] = c], WritesClaim(j, i, c, n)
       PROVE  Goal
  <2>1. p = c /\ c.class = j.obc.class
    BY <1>1, <1>16 DEF WritesClaim
  <2>2. j.pc \in {"setPending", "setMeta", "saveName", "bindClaim", "setBound"}
    BY <1>16 DEF WritesClaim
  <2>3. HasCopy(j) /\ (j.pc \in {"saveName", "bindClaim", "setBound"} => j.pc \in Chosen)
    BY <2>2 DEF HasCopy, Chosen, Naming, Supplied, Binding
  <2>4. \/ c.bucket = j.obc.bucket
        \/ c.bucket = j.name /\ j.pc \in Chosen
    BY <1>16, <2>3 DEF WritesClaim
  <2>5. Named(c) /\ Placed(ClaimRecord(c, k), new)
    BY <1>3, <1>10, <2>1, <2>3, <2>4 DEF JobPlaced, JobNamed, Named, ClaimRecord, ChosenRecord
  <2>6. JobPlaced(i, AskedNames', new)
    <3>1. CASE i = IdleJob
      BY <1>3, <3>1
    <3>2. CASE i # IdleJob
      <4>1. /\ i.key = k /\ i.obc = c /\ i.name = j.name
            /\ i.pc \in {"setMeta", "getOb", "provision", "setBound"}
            /\ i.pc = "setBound" => j.pc = "bindClaim" /\ i.ob = j.ob
            /\ i.pc = "provision" => j.pc = "saveName"
        BY <1>16, <3>2 DEF WritesClaim
      <4>2. /\ i.pc \in Provisioning
            /\ i.pc \in Chosen => i.pc \in {"provision", "setBound"}
            /\ i.pc \in Supplied => i.pc = "setBound"
            /\ i.pc \in Binding => i.pc = "setBound"
        BY <4>1 DEF Provisioning, Chosen, Supplied, Naming, Artifacts, Binding
      <4>3. i.pc \in Chosen => j.pc \in Chosen
        BY <2>3, <4>1, <4>2
      <4>4. i.pc \in Supplied => j.pc \in Supplied
        BY <4>1, <4>2 DEF Supplied, Binding
      <4>5. i.pc \in Binding => j.pc \in Binding /\ j.pc \in Chosen
        BY <2>3, <4>1, <4>2 DEF Binding
      <4>6. ChosenRecord(i) = ChosenRecord(j)
        BY <2>1, <4>1 DEF ChosenRecord
      <4> QED
        BY <1>5, <1>10, <2>1, <2>5, <4>1, <4>2, <4>3, <4>4, <4>5, <4>6, SuppliedFacts
    <3> QED
      BY <3>1, <3>2
  <2> QED
    BY <1>3, <1>16, <2>1, <2>5, <2>6 DEF ClaimPlaced
<1> HIDE DEF Goal
<1>17. CASE UNCHANGED <<obc, ob, artifact>>
  <2>1. CASE \/ Stops(w) \/ ReadsClaim(j, i, o) \/ ReadsClass(j, i, class[j.obc.class])
             \/ ChoosesName(j, i, NamesFor(j.class, j.obc)) \/ IsSupplied(j, i)
             \/ RefersTo(j, i, o) \/ GoesOn(j, i)
    BY <1>6, <1>7, <1>8, <1>9, <1>12, <1>13, <1>17, <2>1
  <2> QED
    BY <1>2, <1>14, <1>15, <1>16, <2>1 DEF ProvisionMove
<1>18. CASE ~UNCHANGED <<obc, ob, artifact>>
  BY <1>2, <1>6, <1>14, <1>15, <1>16, <1>18 DEF ProvisionMove
<1> QED
  BY <1>17, <1>18

LEMMA DeletePlaced ==
    ASSUME TypeInv, NamesInv, CopyInv, HolderInv, GeneratedNames, ClassesKeepTheirBucket,
           NEW w \in Workers, DeleteStep(w), AskedNames \subseteq AskedNames', NEW new
    PROVE  LET k == job[w].key
           IN  /\ ClaimPlaced(obc'[k], k, new)
               /\ ObPlaced(ob'[ObjectBucketName(k)], k, AskedNames', new)
               /\ JobPlaced(job'[w], AskedNames', new)
<1> DEFINE j == job[w]
           i == job'[w]
           k == j.key
           n == ObjectBucketName(k)
           o == obc[k]
           b == ob[n]
<1>1. /\ k \in Keys /\ n \in ObNames /\ JobShape(j)
      /\ ob \in [ObNames -> ObjectBucket \cup {None}]
  BY DeleteStepJob DEF TypeInv, ClusterTypeOK, ObNames, ControllerInv
<1>2. DeleteMove(w)
  BY DeleteMoves
<1>3. /\ ClaimPlaced(o, k, new) /\ ObPlaced(b, k, AskedNames', new)
      /\ JobPlaced(j, AskedNames', new) /\ JobPlaced(IdleJob, AskedNames', new)
  BY <1>1, StaysPlaced
<1>4. ClaimPlaced(obc'[k], k, new)
  <2>1. obc'[k] # None => obc'[k] = o
    BY DeleteCopy
  <2> QED
    BY <1>3, <2>1 DEF ClaimPlaced
<1>5. ASSUME NEW x, NEW y, ObPlaced(x, k, AskedNames', new), SameOb(x, y)
      PROVE  ObPlaced(y, k, AskedNames', new)
  BY <1>5 DEF ObPlaced, ObStore, SameOb, ObRecord
<1>6. ObPlaced(ob'[n], k, AskedNames', new)
  <2>1. CASE UNCHANGED ob
    BY <1>3, <2>1
  <2>2. ASSUME NEW x, ob' = [ob EXCEPT ![n] = x], x # None => SameOb(b, x)
        PROVE  ObPlaced(ob'[n], k, AskedNames', new)
    <3>1. ob'[n] = x
      BY <1>1, <2>2
    <3>2. x = None => ObPlaced(x, k, AskedNames', new)
      BY DEF ObPlaced
    <3> QED
      BY <1>3, <1>5, <2>2, <3>1, <3>2
  <2> QED
    BY <1>2, <2>1, <2>2 DEF DeleteMove
<1>7. ASSUME i # IdleJob
      PROVE  JobPlaced(i, AskedNames', new)
  <2>1. i.pc \in Cleaning /\ i.key = k /\ j.pc \in Deprovisioning
        /\ (i.obc = j.obc \/ (i.obc = o /\ o # None))
    BY <1>2, <1>7 DEF DeleteMove
  <2>2. HasCopy(j) /\ i.pc \notin Chosen /\ i.pc \notin Supplied /\ i.pc \notin Binding
    BY <2>1, SuppliedFacts, CleaningFacts, PcFacts DEF HasCopy, Supplied
  <2>3. Named(i.obc) /\ Placed(ClaimRecord(i.obc, k), new)
    BY <1>3, <2>1, <2>2 DEF JobPlaced, JobNamed, ClaimPlaced
  <2>4. ASSUME i.pc \in Sought
        PROVE  ObPlaced(i.ob, k, AskedNames', new)
    <3>1. j.pc \in Sought => ObPlaced(j.ob, k, AskedNames', new)
      BY <1>3 DEF JobPlaced, JobNamed, ObPlaced
    <3>2. i.ob = b \/ (j.pc \in Sought /\ (i.ob = j.ob \/ SameOb(j.ob, i.ob)))
      BY <1>2, <2>4 DEF DeleteMove
    <3> QED
      BY <1>3, <1>5, <3>1, <3>2
  <2>5. ASSUME i.pc = "delete"
        PROVE  i.ob.bucket \in GenNames /\ i.ob.policy = "Delete"
    <3> DEFINE c == i.ob.class
    <3>1. isNewBucket(i.ob) /\ i.ob.policy = "Delete" /\ i.pc \in Sought
      BY <1>2, <2>5 DEF DeleteMove, Sought, Unbinding
    <3>2. i.ob \in ObjectBucket
      <4>1. TypeInv'
        BY DeleteStepTypes
      <4> QED
        BY <2>5, <4>1 DEF TypeInv, ControllerInv, JobShape, Unbinding
    <3>3. ObStore(i.ob, k, AskedNames')
      BY <2>4, <3>1, <3>2, NoneAssumption DEF ObPlaced
    <3>4. c \in Classes /\ c # None
      BY <3>3, NoneAssumption DEF ObStore
    <3>5. class[c] # None /\ class[c].bucket = None
      BY <3>1, <3>4 DEF isNewBucket, storageClassForObjectBucket
    <3>6. class[c] \in ClassDefs[c]
      BY <3>4, <3>5 DEF NamesInv, ClassesDefined
    <3>7. Greenfield(c)
      BY <3>4, <3>5, <3>6 DEF Greenfield, ClassesKeepTheirBucket
    <3> QED
      BY <3>1, <3>3, <3>7 DEF ObStore, NameFits
  <2> QED
    BY <2>1, <2>2, <2>3, <2>4, <2>5 DEF JobPlaced, JobNamed, ObPlaced
<1> QED
  BY <1>3, <1>4, <1>6, <1>7

\* The buckets after a step.
LEMMA StorePlaced ==
    ASSUME TypeInv, NamesInv, HolderInv, GeneratedNames, AskedNames \subseteq AskedNames', NEW new,
           NEW w \in Workers, job[w].pc # "idle", StoreChange(job[w])
    PROVE  \A n \in Buckets : BucketPlaced(bucket'[n], n, AskedNames', new)
<1> DEFINE j == job[w]
           k == j.key
<1>1. /\ j \in Job /\ JobShape(j) /\ JobNames(j) /\ k \in Keys
      /\ bucket \in [Buckets -> StoreBucket \cup {None}]
  BY DEF TypeInv, ControllerInv, NamesInv, JobShape, ClusterTypeOK
<1>2. \A n \in Buckets : BucketPlaced(bucket[n], n, AskedNames', new)
  BY StaysPlaced
<1>3. ASSUME j.pc = "provision", asked' = Asked(j), DoProvision(j)
      PROVE  \A n \in Buckets : BucketPlaced(bucket'[n], n, AskedNames', new)
  <2> DEFINE x == [owner |-> k, config |-> j.obc.config, policy |-> PolicyFor(j)]
  <2>1. bucket' = [bucket EXCEPT ![j.name] = x]
    BY <1>3 DEF DoProvision, Provisioned, UserID
  <2>2. j.obc \in Claim /\ j.class \in ClassDefs[j.obc.class] /\ j.pc \in Chosen
    BY <1>1, <1>3 DEF JobShape, JobNames, Naming, Chosen
  <2>3. BucketRecord(j.name, x) = ChosenRecord(j)
    BY <2>2, PolicyOfJob DEF BucketRecord, ChosenRecord
  <2>4. j.name \in AskedNames'
    <3>1. <<j.obc.uid, j.name>> \in asked' /\ <<j.obc.uid, j.name>>[2] = j.name
      BY <1>3 DEF Asked
    <3> QED
      BY <3>1 DEF AskedNames
  <2> HIDE DEF x
  <2>5. BucketPlaced(x, j.name, AskedNames', new)
    BY <2>2, <2>3, <2>4, HoldingFacts DEF BucketPlaced, Placed
  <2> QED
    BY <1>1, <1>2, <2>1, <2>5
<1>4. CASE Removed(j.ob.bucket)
  <2>1. \A n \in Buckets : bucket'[n] = bucket[n] \/ bucket'[n] = None
    BY <1>1, <1>4 DEF Removed
  <2>2. \A n : BucketPlaced(None, n, AskedNames', new)
    BY DEF BucketPlaced
  <2> QED
    BY <1>2, <2>1, <2>2
<1>5. CASE UNCHANGED bucket
  BY <1>2, <1>5
<1> QED
  BY <1>3, <1>4, <1>5 DEF StoreChange, store

LEMMA NextHolders ==
    ASSUME TypeInv, NamesInv, CopyInv, ObjectInv, HolderInv, ClassesKeepTheirBucket,
           GeneratedNames, ObNamesUnique, [Next]_vars
    PROVE  HolderInv'
<1>1. AskedNames \subseteq AskedNames' /\ OneKeyPerName
  BY AskedGrows DEF HolderInv
<1>2. ASSUME NEW w \in Workers, WorkerStep(w)
      PROVE  HolderInv'
  <2> DEFINE k == job[w].key
             new == <<job'[w].name, k, Kept(ClassPolicy(job[w].obc.class))>>
  <2> HIDE DEF new
  <2>1. /\ ClaimPlaced(obc'[k], k, new)
        /\ ObPlaced(ob'[ObjectBucketName(k)], k, AskedNames', new)
        /\ JobPlaced(job'[w], AskedNames', new)
    BY <1>1, <1>2, ProvisionPlaced, DeletePlaced DEF WorkerStep, new
  <2>2. \A v \in Workers : v # w => job'[v] = job[v]
    BY <1>2, ProvisionStepJob, DeleteStepJob DEF WorkerStep, TypeInv, ControllerInv
  <2>3. \A l \in Keys : ClaimPlaced(obc'[l], l, new)
    BY <1>1, <1>2, <2>1, StepFrame, StaysPlaced
  <2>4. \A l \in Keys : ObPlaced(ob'[ObjectBucketName(l)], l, AskedNames', new)
    BY <1>1, <1>2, <2>1, StepFrame, StaysPlaced
  <2>5. \A v \in Workers : JobPlaced(job'[v], AskedNames', new)
    BY <1>1, <2>1, <2>2, StaysPlaced
  <2>6. \A n \in Buckets : BucketPlaced(bucket'[n], n, AskedNames', new)
    <3>1. job[w].pc # "idle"
      BY <1>2, ProvisionStepJob, DeleteStepJob DEF WorkerStep
    <3> QED
      BY <1>1, <1>2, <3>1, WorkerStoreChange, StorePlaced
  <2> QED
    BY <1>1, <2>3, <2>4, <2>5, <2>6, AllPlaced
<1>3. ASSUME QuietMove, \A n \in Buckets : BucketPlaced(bucket'[n], n, AskedNames', None)
      PROVE  HolderInv'
  <2>1. ASSUME NEW v \in Workers, GoesOnAfterError(job[v], job'[v])
        PROVE  JobPlaced(job'[v], AskedNames', None)
    <3> DEFINE j == job[v]
               i == job'[v]
    <3>1. JobPlaced(j, AskedNames', None)
      BY <1>1, StaysPlaced
    <3>2. /\ i.key = j.key /\ i.obc = j.obc /\ i.ob = j.ob /\ i.pc # "delete"
          /\ i.pc \in Sought => j.pc \in Sought
          /\ HasCopy(j) /\ i.pc \notin Chosen /\ i.pc \notin Supplied /\ i.pc \notin Binding
      BY <2>1, SuppliedFacts, CleaningFacts, PcFacts DEF GoesOnAfterError, HasCopy, Supplied
    <3> QED
      BY <3>1, <3>2 DEF JobPlaced, JobNamed
  <2>2. \A v \in Workers : JobPlaced(job'[v], AskedNames', None)
    BY <1>1, <1>3, <2>1, StaysPlaced DEF QuietMove
  <2>3. UNCHANGED <<obc, ob>>
    BY <1>3 DEF QuietMove
  <2>4. /\ \A k \in Keys : ClaimPlaced(obc'[k], k, None)
        /\ \A k \in Keys : ObPlaced(ob'[ObjectBucketName(k)], k, AskedNames', None)
    BY <1>1, <2>3, StaysPlaced
  <2> QED
    BY <1>1, <1>3, <2>2, <2>4, AllPlaced
<1>4. CASE EnvironmentStep
  <2>1. UNCHANGED <<ob, job, bucket>>
    BY <1>4 DEF EnvironmentStep, Environment, CreateClaim, DeleteClaim, EditClaim, DeleteClass,
                CreateClass, Collect, store
  <2>2. ASSUME NEW k \in Keys PROVE ClaimPlaced(obc'[k], k, None)
    <3> DEFINE o == obc[k]
               p == obc'[k]
    <3>1. CASE p # None /\ o # None /\ p.class = o.class /\ p.bucket = o.bucket
      <4>1. ClaimPlaced(o, k, None)
        BY <1>1, StaysPlaced
      <4> QED
        BY <3>1, <4>1 DEF ClaimPlaced, Named, ClaimRecord
    <3>2. ASSUME NEW r \in Requests, p.class = r.class, p.bucket = r.bucket,
                 p.bucket \in UserNames \cup {None}
          PROVE  ClaimPlaced(p, k, None)
      <4>1. p.bucket \notin GenNames
        BY <3>2, StoreNames
      <4>2. p.bucket # None => ~Greenfield(p.class)
        BY <3>2 DEF GeneratedNames
      <4> QED
        BY <4>1, <4>2, RecordParts DEF ClaimPlaced, Named, NameFits, Placed
    <3>3. CASE p = None
      BY <3>3 DEF ClaimPlaced
    <3> QED
      BY <1>4, <3>1, <3>2, <3>3, UserWrites
  <2>3. \A k \in Keys : ObPlaced(ob'[ObjectBucketName(k)], k, AskedNames', None)
    BY <1>1, <2>1, StaysPlaced
  <2>4. \A v \in Workers : JobPlaced(job'[v], AskedNames', None)
    BY <1>1, <2>1, StaysPlaced
  <2>5. \A n \in Buckets : BucketPlaced(bucket'[n], n, AskedNames', None)
    BY <1>1, <2>1, StaysPlaced
  <2> QED
    BY <1>1, <2>2, <2>3, <2>4, <2>5, AllPlaced
\* A call that fails may still have changed the store.
<1>5. ASSUME Fault \/ (\E w \in Workers, k \in Keys : GetItem(w, k)) \/ UNCHANGED vars
      PROVE  \A n \in Buckets : BucketPlaced(bucket'[n], n, AskedNames', None)
  <2>1. ASSUME NEW w \in Workers, ProvisionError(w) \/ DeprovisionError(w)
        PROVE  \A n \in Buckets : BucketPlaced(bucket'[n], n, AskedNames', None)
    <3>1. job[w].pc # "idle"
      BY <2>1 DEF ProvisionError, DeprovisionError, At
    <3> QED
      BY <1>1, <2>1, <3>1, WorkerStoreChange, StorePlaced
  <2>2. CASE UNCHANGED bucket
    BY <1>1, <2>2, StaysPlaced
  <2> QED
    BY <1>5, <2>1, <2>2 DEF Fault, ApiError, Crash, GetItem, vars, store
<1> QED
  BY <1>2, <1>3, <1>4, <1>5, QuietMoves DEF Next

LEMMA InitHolders ==
    ASSUME GeneratedNames
    PROVE  Init => HolderInv
<1> SUFFICES ASSUME Init PROVE HolderInv
  OBVIOUS
<1>1. /\ \A k \in Keys : obc[k] = None
      /\ \A k \in Keys : ob[ObjectBucketName(k)] = None
      /\ \A w \in Workers : job[w] = IdleJob
  BY DEF Init, ClusterInit, ObNames
<1>2. /\ IdleJob.pc \notin Chosen /\ IdleJob.pc \notin Supplied /\ IdleJob.pc \notin Sought
      /\ IdleJob.pc \notin Binding /\ IdleJob.pc # "delete" /\ ~HasCopy(IdleJob)
  BY IdleKey DEF Chosen, Supplied, Sought, Naming, Artifacts, Binding, Unbinding, HasCopy
<1>3. \A n \in Buckets : bucket[n] # None => n \notin GenNames
  BY ConstantsAssumption, StoreNames DEF Init, ClusterInit
<1>4. \A r \in Holdings : r[1] \notin GenNames
  BY <1>1, <1>2, <1>3, RecordParts DEF Holdings
<1> QED
  BY <1>1, <1>2, <1>3, <1>4, StoreNames DEF HolderInv, OneKeyPerName, JobNamed

-------------------------------------------------------------------------------
(* The bucket stays there for a live claim.                                *)

\* Nobody deletes the bucket of a live claim or revokes its user's right.
LEMMA StoreKeeps ==
    ASSUME TypeInv, CopyInv, HolderInv, NEW w \in Workers, job[w].pc # "idle",
           StoreChange(job[w]), NEW l \in Keys, Live(l), NEW name \in Buckets,
           NEW h \in Holdings, h[1] = name, h[2] = l, Usable(bucket, access, l, name)
    PROVE  Usable(bucket', access', l, name)
<1> DEFINE j == job[w]
           k == j.key
<1>1. /\ j \in Job /\ JobShape(j) /\ k \in Keys /\ JobNamed(j, AskedNames)
      /\ JobCopy(j, obc[k])
      /\ bucket \in [Buckets -> StoreBucket \cup {None}]
  BY DEF TypeInv, ControllerInv, JobShape, HolderInv, CopyInv, ClusterTypeOK
<1>2. CASE UNCHANGED store
  BY <1>2 DEF store
<1>3. CASE j.pc = "provision" /\ (DoProvision(j) \/ UNCHANGED <<bucket, access>>)
  <2> DEFINE new == [owner |-> k, config |-> j.obc.config, policy |-> PolicyFor(j)]
  <2>1. new \in StoreBucket /\ new # None
    BY <1>1, <1>3, NewBucket, NoneAssumption
  <2>2. CASE UNCHANGED <<bucket, access>>
    BY <2>2
  <2>3. CASE DoProvision(j)
    <3>1. bucket' = [bucket EXCEPT ![j.name] = new] /\ access' = access \cup {<<k, j.name>>}
      BY <2>3 DEF DoProvision, Provisioned, UserID
    <3> HIDE DEF new
    <3> QED
      BY <1>1, <2>1, <3>1 DEF Usable
  <2> QED
    BY <1>3, <2>2, <2>3
<1>4. CASE Granted(UserID(k), j.name) /\ UNCHANGED bucket
  BY <1>4 DEF Granted, Usable
\* Cleanup of a claim that is being deleted or gone.
<1>5. ASSUME j.pc \in {"delete", "revoke"}
      PROVE  /\ l # k /\ j.ob # None /\ j.pc \in Sought
             /\ j.ob.user = k /\ ObRecord(j.ob, k) \in Holdings
  <2>1. j.pc \in Deprovisioning /\ HasCopy(j) /\ j.pc \in Sought /\ j.pc \in Unbinding
    BY <1>5 DEF Deprovisioning, HasCopy, Sought, Unbinding
  <2>2. j.obc.deleted /\ j.obc.finalizer /\ CopyFits(obc[k], j.obc)
    BY <1>1, <2>1 DEF JobCopy, ClaimSound
  <2>3. l # k
    BY <2>2 DEF Live, CopyFits
  <2>4. j.ob # None
    BY <1>1, <2>1, NoneAssumption DEF JobShape
  <2>5. j.ob.user = k
    BY <1>1, <2>1, <2>4 DEF JobNamed, ObStore
  <2> QED
    BY <2>1, <2>3, <2>4, <2>5, HoldingFacts
<1>6. CASE j.pc = "delete" /\ Removed(j.ob.bucket)
  <2>1. j.ob.bucket \in GenNames
    BY <1>1, <1>6 DEF JobNamed
  <2>2. name # j.ob.bucket
    <3>1. ObRecord(j.ob, k)[1] = j.ob.bucket /\ ObRecord(j.ob, k)[2] = k
      BY RecordParts
    <3> QED
      BY <1>5, <1>6, <2>1, <3>1 DEF HolderInv, OneKeyPerName
  <2>3. /\ bucket' = [bucket EXCEPT ![j.ob.bucket] = None]
        /\ access' = {x \in access : x[2] # j.ob.bucket}
    BY <1>6 DEF Removed
  <2>4. bucket'[name] = bucket[name] /\ <<l, name>>[2] = name
    BY <1>1, <2>2, <2>3
  <2> QED
    BY <2>2, <2>3, <2>4 DEF Usable
<1>7. CASE j.pc = "revoke" /\ Revoked(j.ob.user, j.ob.bucket) /\ UNCHANGED bucket
  <2>1. access' = access \ {<<k, j.ob.bucket>>} /\ l # k
    BY <1>5, <1>7 DEF Revoked
  <2> QED
    BY <1>7, <2>1 DEF Usable
<1> QED
  BY <1>2, <1>3, <1>4, <1>6, <1>7 DEF StoreChange

LEMMA NextUsable ==
    ASSUME TypeInv, CopyInv, HolderInv, [Next]_vars, NEW l \in Keys, Live(l),
           NEW name \in Buckets, NEW h \in Holdings, h[1] = name, h[2] = l,
           Usable(bucket, access, l, name)
    PROVE  Usable(bucket', access', l, name)
<1>1. CASE UNCHANGED store
  BY <1>1 DEF store
<1>2. ASSUME NEW w \in Workers, WorkerStep(w) \/ ProvisionError(w) \/ DeprovisionError(w)
      PROVE  Usable(bucket', access', l, name)
  <2>1. job[w].pc # "idle"
    BY <1>2, ProvisionStepJob, DeleteStepJob DEF WorkerStep, ProvisionError, DeprovisionError, At
  <2> QED
    BY <1>2, <2>1, WorkerStoreChange, StoreKeeps
<1>3. CASE Fault
  BY <1>1, <1>2, <1>3 DEF Fault, ApiError, Crash
<1>4. CASE EnvironmentStep
  BY <1>1, <1>4 DEF EnvironmentStep, Environment, CreateClaim, DeleteClaim, EditClaim,
                    DeleteClass, CreateClass, Collect
<1>5. CASE \E w \in Workers, k \in Keys : GetItem(w, k)
  BY <1>1, <1>5 DEF GetItem
<1>6. CASE UNCHANGED vars
  BY <1>1, <1>6 DEF vars, store
<1> QED
  BY <1>2, <1>3, <1>4, <1>5, <1>6 DEF Next

\* The call that gives a job its bucket.
LEMMA NowUsable ==
    ASSUME TypeInv, NEW w \in Workers, ProvisionStep(w), job[w].pc = "provision",
           job'[w].pc = "createSecret"
    PROVE  Usable(bucket', access', job[w].key, job[w].name)
<1> DEFINE j == job[w]
           k == j.key
<1>1. /\ j \in Job /\ JobShape(j) /\ j.name \in Buckets /\ job \in [Workers -> Job]
      /\ bucket \in [Buckets -> StoreBucket \cup {None}]
  BY DEF TypeInv, ControllerInv, JobShape, Naming, ClusterTypeOK
<1>2. Provision(w) \/ Grant(w)
  BY DEF ProvisionStep, At, GetClaim, GetClass, SetPending, SetMeta, GetOb, SaveName, UpdateClaim,
         CreateArtifact, UpdateArtifact, CreatePc, UpdatePc, Kinds, ClaimRef, CreateOb,
         GetCurrentOb, UpdateOb, ObBound, ReplaceOb, BindClaim, SetBound
<1>3. ~Requeue(w)
  BY <1>1, IdleKey DEF Requeue
<1>4. CASE Provision(w)
  <2> DEFINE new == [owner |-> k, config |-> j.obc.config, policy |-> PolicyFor(j)]
  <2>1. new # None
    BY <1>1, NewBucket, NoneAssumption
  <2>2. bucket' = [bucket EXCEPT ![j.name] = new] /\ access' = access \cup {<<k, j.name>>}
    BY <1>3, <1>4 DEF Provision, DoProvision, Provisioned, UserID
  <2> HIDE DEF new
  <2> QED
    BY <1>1, <2>1, <2>2 DEF Usable
<1>5. CASE Grant(w)
  BY <1>3, <1>5 DEF Grant, Granted, UserID, Usable
<1> QED
  BY <1>2, <1>4, <1>5

\* A job whose claim stays alive keeps its bucket.
LEMMA SuppliedUse ==
    ASSUME TypeInv, CopyInv, HolderInv, UseInv, CleanHandOver, [Next]_vars,
           NEW w \in Workers, job[w].pc \in Supplied,
           obc'[job[w].key] # None, ~obc'[job[w].key].deleted
    PROVE  Usable(bucket', access', job[w].key, job[w].name)
<1> DEFINE j == job[w]
           k == j.key
<1>1. HasCopy(j) /\ j.pc \in Held /\ j.pc \in Chosen /\ j.pc \in Artifacts \cup Binding
  BY SuppliedFacts DEF HasCopy, Supplied
<1>2. k \in Keys /\ j.name \in Buckets /\ JobCopy(j, obc[k])
  BY <1>1 DEF TypeInv, ControllerInv, JobShape, CopyInv, HasCopy
<1>3. j.obc.finalizer
  BY <1>1, <1>2 DEF JobCopy
<1>4. Later(obc[k], obc'[k])
  BY <1>1, <1>2, <1>3, ClaimMoveOf DEF ClaimMove
<1>5. Live(k)
  BY <1>4 DEF Later, Live
<1>6. Usable(bucket, access, k, j.name)
  BY <1>5 DEF UseInv
<1>7. ChosenRecord(j) \in Holdings /\ ChosenRecord(j)[1] = j.name /\ ChosenRecord(j)[2] = k
  BY <1>1, HoldingFacts, RecordParts
<1> QED
  BY <1>2, <1>5, <1>6, <1>7, NextUsable

\* The bucket of a claim that says Bound is there after the step, too.
LEMMA BoundUse ==
    ASSUME TypeInv, CopyInv, ObjectInv, HolderInv, UseInv, [Next]_vars,
           NEW k \in Keys, Live(k), obc[k].phase = "Bound"
    PROVE  Usable(bucket', access', k, obc[k].bucket)
<1> DEFINE o == obc[k]
           n == ObjectBucketName(k)
<1>1. o # None /\ ~o.deleted /\ o \in Claim
  BY DEF Live, TypeInv, ClusterTypeOK
<1>2. ClaimObjects(o, ob[n], ArtifactsOf(artifact, k), n) /\ n # None
  BY NoneAssumption DEF ObjectInv, ObNames
<1>3. o.ob # None
  BY <1>1, <1>2 DEF ClaimObjects, Ready
<1>4. o.bucket \in Buckets
  BY <1>1, <1>2, <1>3 DEF ClaimObjects, Linked, Claim
<1>5. /\ ClaimRecord(o, k) \in Holdings /\ ClaimRecord(o, k)[1] = o.bucket
      /\ ClaimRecord(o, k)[2] = k /\ Usable(bucket, access, k, o.bucket)
  BY <1>1, HoldingFacts, RecordParts DEF UseInv
<1> QED
  BY <1>4, <1>5, NextUsable

\* A step of handleProvisionClaim, for its claim and its worker.
LEMMA ProvisionUse ==
    ASSUME TypeInv, NamesInv, CopyInv, ObjectInv, HolderInv, UseInv, CleanHandOver, [Next]_vars,
           NEW w \in Workers, ProvisionStep(w),
           obc'[job[w].key] # None, ~obc'[job[w].key].deleted
    PROVE  LET k == job[w].key
               p == obc'[k]
           IN  /\ p.phase = "Bound" => Usable(bucket', access', k, p.bucket)
               /\ job'[w].pc \in Supplied => Usable(bucket', access', k, job'[w].name)
<1> DEFINE j == job[w]
           i == job'[w]
           k == j.key
           o == obc[k]
           p == obc'[k]
           n == ObjectBucketName(k)
           ClaimUse == p.phase = "Bound" => Usable(bucket', access', k, p.bucket)
           JobUse == i.pc \in Supplied => Usable(bucket', access', k, i.name)
<1> SUFFICES ClaimUse /\ JobUse
  OBVIOUS
<1>1. k \in Keys /\ j.pc # "idle" /\ JobOwn(j, n) /\ JobNames(j)
  BY ProvisionStepJob DEF NamesInv, ObjectInv, JobObjects
<1>2. ProvisionMove(w)
  BY ProvisionMoves
<1>3. j.pc \in Supplied => Usable(bucket', access', k, j.name)
  BY SuppliedUse
<1>4. o # None /\ ~o.deleted /\ o.phase = "Bound" => Usable(bucket', access', k, o.bucket)
  BY <1>1, BoundUse DEF Live
<1>5. UNCHANGED obc => ClaimUse
  BY <1>4
<1>6. ASSUME i.name = j.name, i.pc \in Supplied => j.pc \in Supplied
      PROVE  JobUse
  BY <1>3, <1>6
<1>7. ASSUME i.pc \notin Supplied
      PROVE  JobUse
  BY <1>7
<1>8. CASE Stops(w)
  BY <1>5, <1>7, <1>8, IdleNeeds, SuppliedFacts DEF Stops
<1>9. CASE UNCHANGED obc /\ (\/ ReadsClaim(j, i, o) \/ ReadsClass(j, i, class[j.obc.class])
                             \/ ChoosesName(j, i, NamesFor(j.class, j.obc)))
  <2>1. i.pc \in {"getClass", "findOb", "setPending", "setMeta", "saveName", "provision"}
    BY <1>9 DEF ReadsClaim, ReadsClass, ChoosesName, AfterClass
  <2> QED
    BY <1>5, <1>7, <1>9, <2>1 DEF Supplied, Artifacts, Binding
<1>10. CASE UNCHANGED obc /\ IsSupplied(j, i)
  <2>1. j.pc = "provision" /\ i.pc = "createSecret" /\ i.name = j.name
    BY <1>10 DEF IsSupplied, Carries
  <2>2. Usable(bucket', access', k, j.name)
    BY <2>1, NowUsable
  <2> QED
    BY <1>5, <1>10, <2>1, <2>2
<1>11. CASE UNCHANGED obc /\ (RefersTo(j, i, o) \/ GoesOn(j, i) \/ WritesOb(j, i, ob[n]))
  <2>1. i.name = j.name /\ j.pc \in Supplied
    BY <1>11 DEF RefersTo, GoesOn, WritesOb, Carries, Supplied, Artifacts, Binding
  <2> QED
    BY <1>5, <1>6, <1>11, <2>1
<1>12. ASSUME UNCHANGED obc, NEW kind \in Kinds, NEW a, WritesArtifact(j, i, kind, a)
       PROVE  ClaimUse /\ JobUse
  <2>1. i.name = j.name /\ j.pc \in Supplied
    BY <1>12 DEF WritesArtifact, Carries, Kinds, CreatePc, UpdatePc, Supplied, Artifacts
  <2> QED
    BY <1>5, <1>6, <1>12, <2>1
<1>13. ASSUME o = j.obc, NEW new, obc' = [obc EXCEPT ![k] = new], WritesClaim(j, i, new, n)
       PROVE  ClaimUse /\ JobUse
  <2>1. p = new
    BY <1>1, <1>13 DEF TypeInv, ClusterTypeOK
  <2>2. p.deleted = j.obc.deleted /\ (j.pc # "setPending" => j.obc # None)
    BY <1>1, <1>13, <2>1, NoneAssumption DEF WritesClaim, TypeInv, ControllerInv, JobShape
  <2>3. JobUse
    <3>1. i = IdleJob \/ i.name = j.name
      BY <1>13 DEF WritesClaim
    <3>2. i.pc \in Supplied => i.pc = "setBound" /\ j.pc = "bindClaim"
      BY <1>13, IdleNeeds, SuppliedFacts DEF WritesClaim, Supplied, Artifacts, Binding
    <3>3. i = IdleJob => i.pc \notin Supplied
      BY IdleNeeds, SuppliedFacts
    <3> QED
      BY <1>6, <1>7, <3>1, <3>2, <3>3 DEF Supplied, Binding
  <2>4. CASE j.pc = "setPending"
    BY <1>13, <2>1, <2>3, <2>4 DEF WritesClaim
  <2>5. CASE j.pc = "setMeta"
    <3>1. p.bucket = o.bucket /\ p.phase = o.phase
      BY <1>13, <2>1, <2>5 DEF WritesClaim
    <3> QED
      BY <1>4, <1>13, <2>2, <2>3, <2>5, <3>1
  <2>6. CASE j.pc = "saveName"
    <3>1. p.phase = o.phase /\ o.bucket = None /\ o # None /\ ~o.deleted
      BY <1>1, <1>13, <2>1, <2>2, <2>6 DEF WritesClaim, JobNames
    <3>2. ClaimObjects(o, ob[n], ArtifactsOf(artifact, k), n) /\ n # None
      BY <1>1, NoneAssumption DEF ObjectInv, ObNames
    <3>3. p.phase # "Bound"
      BY <3>1, <3>2 DEF ClaimObjects, Ready, Linked
    <3> QED
      BY <2>3, <3>3
  <2>7. CASE j.pc \in {"bindClaim", "setBound"}
    <3>1. j.pc \in Supplied /\ p.bucket = j.name
      BY <1>1, <1>13, <2>1, <2>7 DEF WritesClaim, JobOwn, Supplied, Binding
    <3> QED
      BY <1>3, <2>3, <3>1
  <2> QED
    BY <1>13, <2>4, <2>5, <2>6, <2>7 DEF WritesClaim
<1> HIDE DEF ClaimUse, JobUse
<1>14. CASE UNCHANGED <<obc, ob, artifact>>
  BY <1>2, <1>8, <1>9, <1>10, <1>11, <1>12, <1>13, <1>14 DEF ProvisionMove
<1>15. CASE ~UNCHANGED <<obc, ob, artifact>>
  BY <1>2, <1>8, <1>11, <1>12, <1>13, <1>15 DEF ProvisionMove
<1> QED
  BY <1>14, <1>15

LEMMA NextUse ==
    ASSUME TypeInv, NamesInv, CopyInv, ObjectInv, HolderInv, UseInv, ObNamesUnique,
           CleanHandOver, [Next]_vars
    PROVE  UseInv'
<1> DEFINE ClaimUse(k) ==
               obc'[k] # None /\ ~obc'[k].deleted /\ obc'[k].phase = "Bound" =>
                   Usable(bucket', access', k, obc'[k].bucket)
           JobUse(w) ==
               LET i == job'[w] IN
               i.pc \in Supplied /\ obc'[i.key] # None /\ ~obc'[i.key].deleted =>
                   Usable(bucket', access', i.key, i.name)
<1> SUFFICES (\A k \in Keys : ClaimUse(k)) /\ (\A w \in Workers : JobUse(w))
  BY DEF UseInv, Live
<1>1. ASSUME NEW k \in Keys, obc[k] # None, obc'[k].bucket = obc[k].bucket,
             obc'[k].phase = obc[k].phase, obc[k].deleted => obc'[k].deleted
      PROVE  ClaimUse(k)
  BY <1>1, BoundUse DEF Live
<1>2. ASSUME NEW k \in Keys, obc'[k] = obc[k]
      PROVE  ClaimUse(k)
  BY <1>1, <1>2
<1>3. ASSUME NEW v \in Workers, job'[v] = job[v]
      PROVE  JobUse(v)
  BY <1>3, SuppliedUse
<1>4. ASSUME NEW v \in Workers, job'[v].pc \notin Supplied
      PROVE  JobUse(v)
  BY <1>4
<1>5. /\ IdleJob.pc \notin Supplied /\ "getClaim" \notin Supplied
      /\ \A pc \in Cleaning : pc \notin Supplied
  BY IdleNeeds, SuppliedFacts, CleaningFacts
<1>6. ASSUME NEW w \in Workers, WorkerStep(w)
      PROVE  (\A k \in Keys : ClaimUse(k)) /\ (\A v \in Workers : JobUse(v))
  <2> DEFINE k == job[w].key
             i == job'[w]
  <2>1. /\ job' = [job EXCEPT ![w] = i] /\ job \in [Workers -> Job] /\ k \in Keys
        /\ i = IdleJob \/ i.key = k
    BY <1>6, ProvisionStepJob, DeleteStepJob DEF WorkerStep, TypeInv, ControllerInv
  <2>2. \A v \in Workers : v # w => job'[v] = job[v]
    BY <2>1
  <2>3. ASSUME NEW l \in Keys, l # k PROVE ClaimUse(l)
    BY <1>2, <1>6, <2>3, StepFrame
  <2>4. CASE ProvisionStep(w)
    <3>1. ClaimUse(k)
      BY <2>4, ProvisionUse
    <3>2. i.key = k => JobUse(w)
      BY <2>4, ProvisionUse
    <3> QED
      BY <1>3, <1>4, <1>5, <2>1, <2>2, <2>3, <3>1, <3>2
  <2>5. CASE DeleteStep(w)
    <3>1. obc'[k] # None => obc'[k].deleted
      BY <2>5, DeleteCopy
    <3>2. ClaimUse(k)
      BY <3>1
    <3>3. i = IdleJob \/ i.pc \in Cleaning
      BY <2>5, DeleteMoves DEF DeleteMove
    <3> QED
      BY <1>3, <1>4, <1>5, <2>2, <2>3, <3>2, <3>3
  <2> QED
    BY <1>6, <2>4, <2>5 DEF WorkerStep
<1>7. CASE QuietMove
  <2>1. \A k \in Keys : ClaimUse(k)
    BY <1>2, <1>7 DEF QuietMove
  <2>2. \A v \in Workers : JobUse(v)
    BY <1>3, <1>4, <1>5, <1>7 DEF QuietMove, GoesOnAfterError
  <2> QED
    BY <2>1, <2>2
<1>8. CASE EnvironmentStep
  <2>1. \A v \in Workers : JobUse(v)
    BY <1>3, <1>8 DEF EnvironmentStep
  <2>2. ASSUME NEW k \in Keys PROVE ClaimUse(k)
    <3>1. CASE obc'[k] = None \/ obc'[k].phase # "Bound"
      BY <3>1
    <3> QED
      BY <1>1, <1>8, <3>1, UserWrites
  <2> QED
    BY <2>1, <2>2
<1> HIDE DEF ClaimUse, JobUse
<1> QED
  BY <1>6, <1>7, <1>8, QuietMoves DEF Next

LEMMA InitUse == Init => UseInv
<1> SUFFICES ASSUME Init PROVE UseInv
  OBVIOUS
<1>1. (\A k \in Keys : obc[k] = None) /\ (\A w \in Workers : job[w] = IdleJob)
  BY DEF Init, ClusterInit
<1>2. IdleJob.pc \notin Supplied
  BY IdleNeeds, SuppliedFacts
<1> QED
  BY <1>1, <1>2 DEF UseInv, Live

-------------------------------------------------------------------------------

\* The inductive invariant for several processes.
RolloutInv == TypeInv /\ NamesInv /\ CopyInv /\ ObjectInv /\ HolderInv /\ UseInv

LEMMA RolloutInvariance ==
    ASSUME ObNamesUnique, ClassesKeepTheirBucket, GeneratedNames
    PROVE  Spec /\ [][CleanHandOver]_vars => []RolloutInv
<1>1. Init => RolloutInv
  BY Invariance, InitTypes, InitNames, InitCopy, InitObjects, InitHolders, InitUse DEF RolloutInv
<1>2. RolloutInv /\ [Next]_vars /\ [CleanHandOver]_vars => RolloutInv'
  <2> SUFFICES ASSUME RolloutInv, [Next]_vars, [CleanHandOver]_vars PROVE RolloutInv'
    OBVIOUS
  <2> USE DEF RolloutInv
  <2>1. CleanHandOver
    BY DEF vars, CleanHandOver
  <2>2. TypeInv' /\ NamesInv'
    BY NextTypes, NextNames, KeepsKind
  <2>3. CopyInv'
    BY <2>1, NextCopy
  <2>4. ObjectInv'
    BY <2>1, NextObjects
  <2>5. HolderInv'
    BY NextHolders
  <2>6. UseInv'
    BY <2>1, NextUse
  <2> QED
    BY <2>2, <2>3, <2>4, <2>5, <2>6
<1> QED
  BY <1>1, <1>2, PTL DEF Spec

\* Whatever the number of processes, a live claim that says Bound has its bound OB,
\* its guarded secret and configmap, and a bucket that exists and admits its user,
\* as long as every claim that is created anew under a key finds no worker, of any
\* process, that has a copy of the one before it.  handleProvisionClaim and
\* handleDeleteClaim, which work from such copies, do not look at UIDs.
THEOREM BoundIsReadyInRollouts ==
    ASSUME ObNamesUnique, ClassesKeepTheirBucket, GeneratedNames
    PROVE  Spec /\ [][CleanHandOver]_vars => []BoundImpliesReady
<1>1. RolloutInv => BoundImpliesReady
  <2> SUFFICES ASSUME RolloutInv, NEW k \in Keys, Live(k), obc[k].phase = "Bound"
               PROVE  LET o == obc[k]
                          b == ob[ObjectBucketName(k)]
                      IN  /\ o.ob = ObjectBucketName(k)
                          /\ b # None
                          /\ b.phase = "Bound" /\ b.claim = o.uid /\ b.bucket = o.bucket
                          /\ \A kind \in Kinds :
                                LET a == artifact[kind][k] IN
                                /\ a # None
                                /\ a.finalizer /\ a.owner = o.uid /\ a.bucket = o.bucket
                          /\ bucket[o.bucket] # None
                          /\ <<UserID(k), o.bucket>> \in access
    BY DEF BoundImpliesReady
  <2> USE DEF RolloutInv
  <2>1. LET n == ObjectBucketName(k)
        IN  Ready(obc[k], ob[n], ArtifactsOf(artifact, k), n)
    BY DEF Live, ObjectInv, ClaimObjects
  <2>2. \A kind \in Kinds : ArtifactFor(artifact[kind][k], obc[k].uid, obc[k].bucket)
    BY <2>1 DEF Ready, ArtifactsOf
  <2>3. Usable(bucket, access, k, obc[k].bucket)
    BY DEF UseInv
  <2> QED
    BY <2>1, <2>2, <2>3 DEF Ready, ObFor, ArtifactFor, Usable, UserID
<1>2. Spec /\ [][CleanHandOver]_vars => []RolloutInv
  BY RolloutInvariance
<1> QED
  BY <1>1, <1>2, PTL

-------------------------------------------------------------------------------
(* What is reclaimed.                                                      *)

\* A bucket that vanishes was made for a claim under the Delete policy.
LEMMA VanishedInRollouts ==
    ASSUME RolloutInv, GeneratedNames, ClassesKeepTheirPolicy, [Next]_vars,
           NEW n \in Buckets, bucket[n] # None, bucket'[n] = None
    PROVE  bucket[n].owner # None /\ bucket[n].policy = "Delete" /\ ~Live(bucket[n].owner)
<1> USE DEF RolloutInv
<1>1. PICK w \in Workers : WorkerStep(w) \/ ProvisionError(w) \/ DeprovisionError(w)
  BY DEF Next, vars, store, GetItem, Fault, ApiError, Crash, EnvironmentStep, Environment,
         CreateClaim, DeleteClaim, EditClaim, Collect, DeleteClass, CreateClass
<1> DEFINE j == job[w]
           k == j.key
<1>2. /\ bucket \in [Buckets -> StoreBucket \cup {None}]
      /\ j \in Job /\ JobShape(j) /\ JobNamed(j, AskedNames) /\ JobCopy(j, obc[k])
  BY DEF TypeInv, ClusterTypeOK, ControllerInv, HolderInv, CopyInv
<1>3. j.pc = "delete" /\ Removed(j.ob.bucket)
  <2>1. ASSUME j.pc = "provision", DoProvision(j)
        PROVE  FALSE
    <3> DEFINE x == [owner |-> k, config |-> j.obc.config, policy |-> PolicyFor(j)]
    <3>1. x \in StoreBucket
      BY <1>2, <2>1, NewBucket
    <3>2. bucket' = [bucket EXCEPT ![j.name] = x]
      BY <2>1 DEF DoProvision, Provisioned, UserID
    <3> HIDE DEF x
    <3> QED
      BY <1>2, <3>1, <3>2, NoneAssumption
  <2> QED
    BY <1>1, <2>1, WorkerStoreChange DEF StoreChange, store
<1>4. n = j.ob.bucket
  BY <1>2, <1>3 DEF Removed
<1>5. /\ k \in Keys /\ j.ob # None /\ j.pc \in Sought /\ j.pc \in Deprovisioning /\ HasCopy(j)
      /\ j.ob.bucket \in GenNames /\ j.ob.policy = "Delete"
  BY <1>2, <1>3, NoneAssumption
  DEF JobShape, JobNamed, Unbinding, Sought, Deprovisioning, HasCopy
<1>6. BucketRecord(n, bucket[n]) = ObRecord(j.ob, k)
  <2>1. BucketRecord(n, bucket[n]) \in Holdings /\ ObRecord(j.ob, k) \in Holdings
    BY <1>5, HoldingFacts
  <2> QED
    BY <1>4, <1>5, <2>1, RecordParts DEF HolderInv, OneKeyPerName
<1>7. bucket[n].owner = k /\ bucket[n].policy = "Delete"
  BY <1>5, <1>6 DEF BucketRecord, ObRecord, Kept
\* The worker's copy is marked, so the stored claim is, too, if there is one.
<1>8. ~Live(k)
  <2>1. j.obc.deleted /\ j.obc.finalizer /\ CopyFits(obc[k], j.obc)
    BY <1>2, <1>5 DEF JobCopy, ClaimSound
  <2> QED
    BY <2>1 DEF Live, CopyFits
<1> QED
  BY <1>5, <1>7, <1>8, NoneAssumption

\* Several processes, too, take a bucket from the store only if it was provisioned for
\* a claim under the Delete policy that is being deleted or gone: a late Delete, by a
\* process that another has overtaken, hits no live claim's bucket and no retained or
\* pre-existing one.
THEOREM OnlyReclaimedVanishInRollouts ==
    ASSUME ObNamesUnique, ClassesKeepTheirBucket, ClassesKeepTheirPolicy, GeneratedNames
    PROVE  Spec /\ [][CleanHandOver]_vars => OnlyReclaimedBucketsVanish
<1>1. RolloutInv /\ [Next]_vars =>
          [\A b \in Buckets :
              bucket[b] # None /\ bucket'[b] = None =>
                  /\ bucket[b].owner # None
                  /\ bucket[b].policy = "Delete"
                  /\ ~Live(bucket[b].owner)]_vars
  BY VanishedInRollouts
<1>2. Spec /\ [][CleanHandOver]_vars => []RolloutInv
  BY RolloutInvariance
<1> QED
  BY <1>1, <1>2, PTL DEF Spec, OnlyReclaimedBucketsVanish

-------------------------------------------------------------------------------
(* A single claim.                                                         *)

\* Before the first claim there is nothing to read.
NothingRead ==
    spent["create"] = 0 =>
        (\A k \in Keys : obc[k] = None) /\ (\A w \in Workers : ~HasCopy(job[w]))

LEMMA NextNothingRead ==
    ASSUME TypeInv, NothingRead, [Next]_vars
    PROVE  NothingRead'
<1> SUFFICES ASSUME spent'["create"] = 0
             PROVE  (\A k \in Keys : obc'[k] = None) /\ (\A w \in Workers : ~HasCopy(job'[w]))
  BY DEF NothingRead
<1>1. spent["create"] = 0 /\ ~Spend("create")
  <2>1. spent \in [Budgets -> Nat] /\ "create" \in Budgets
    BY DEF TypeInv, ClusterTypeOK, Budgets
  <2>2. ~Spend("create")
    BY <2>1 DEF Spend
  <2>3. \A b \in Budgets : Spend(b) => spent'["create"] >= spent["create"]
    BY <2>1 DEF Spend
  <2> QED
    BY <2>1, <2>2, <2>3, SpentGrows
<1>2. (\A k \in Keys : obc[k] = None) /\ (\A w \in Workers : ~HasCopy(job[w]))
  BY <1>1 DEF NothingRead
<1>3. ~HasCopy(IdleJob)
  BY IdleKey DEF HasCopy
<1>4. ASSUME NEW w \in Workers, WorkerStep(w)
      PROVE  UNCHANGED obc /\ job'[w] = IdleJob /\ \A v \in Workers : v # w => job'[v] = job[v]
  <2> DEFINE j == job[w]
             i == job'[w]
  <2>1. j.pc \in {"idle", "getClaim"} /\ j.key \in Keys
    BY <1>2, <1>4, ProvisionStepJob, DeleteStepJob DEF HasCopy, WorkerStep
  <2>2. \A v \in Workers : v # w => job'[v] = job[v]
    BY <1>4, ProvisionStepJob, DeleteStepJob DEF WorkerStep, TypeInv, ControllerInv
  <2>3. ~DeleteStep(w)
    BY <2>1, DeleteMoves DEF DeleteMove, Deprovisioning, Unbinding
  <2>4. ProvisionMove(w) /\ obc[j.key] = None
    BY <1>2, <1>4, <2>1, <2>3, ProvisionMoves DEF WorkerStep
  <2>5. Stops(w)
    <3>1. \A x : ~ReadsClass(j, i, x) /\ ~ChoosesName(j, i, x)
      BY <2>1 DEF ReadsClass, ChoosesName
    <3>2. ~IsSupplied(j, i) /\ ~GoesOn(j, i)
      BY <2>1 DEF IsSupplied, GoesOn
    <3>3. \A x : ~RefersTo(j, i, x) /\ ~WritesOb(j, i, x)
      BY <2>1 DEF RefersTo, WritesOb
    <3>4. \A x, n : ~WritesClaim(j, i, x, n)
      BY <2>1 DEF WritesClaim
    <3>5. \A x : \A kind \in Kinds : ~WritesArtifact(j, i, kind, x)
      BY <2>1 DEF WritesArtifact, CreatePc, UpdatePc, Kinds
    <3>6. ~ReadsClaim(j, i, obc[j.key])
      BY <2>4 DEF ReadsClaim
    <3> HIDE DEF j, i
    <3> QED
      BY <2>4, <3>1, <3>2, <3>3, <3>4, <3>5, <3>6 DEF ProvisionMove, j, i
  <2> QED
    BY <2>2, <2>5 DEF Stops
<1>5. CASE QuietMove
  BY <1>2, <1>3, <1>5 DEF QuietMove, GoesOnAfterError, HasCopy, Deprovisioning, Unbinding
<1>6. CASE EnvironmentStep
  <2>1. UNCHANGED <<obc, job>>
    BY <1>1, <1>2, <1>6 DEF EnvironmentStep, Environment, CreateClaim, DeleteClaim, EditClaim,
                            DeleteClass, CreateClass, Collect
  <2> QED
    BY <1>2, <2>1
<1> QED
  BY <1>2, <1>3, <1>4, <1>5, <1>6, QuietMoves DEF Next

\* Only CreateClaim stores a claim where there is none.
LEMMA Creation ==
    ASSUME TypeInv, [Next]_vars, NEW k \in Keys, obc[k] = None, obc'[k] # None
    PROVE  Spend("create")
<1>1. obc \in [Keys -> Claim \cup {None}]
  BY DEF TypeInv, ClusterTypeOK
<1>2. ASSUME NEW w \in Workers, WorkerStep(w)
      PROVE  FALSE
  <2> DEFINE j == job[w]
  <2>1. j.key \in Keys /\ JobShape(j)
    BY <1>2, ProvisionStepJob, DeleteStepJob DEF WorkerStep, TypeInv, ControllerInv
  <2>2. ASSUME NEW l, NEW new, obc' = [obc EXCEPT ![l] = new], obc[l] = j.obc,
               j.pc \notin {"idle", "getClaim"}
        PROVE  FALSE
    BY <1>1, <2>1, <2>2, NoneAssumption DEF JobShape
  <2>3. CASE ProvisionStep(w)
    <3>1. ASSUME NEW i, NEW new, NEW n, WritesClaim(j, i, new, n)
          PROVE  j.pc \notin {"idle", "getClaim"}
      BY <3>1 DEF WritesClaim
    <3>2. ~UNCHANGED obc /\ ProvisionMove(w)
      BY <2>3, ProvisionMoves
    <3> QED
      BY <2>2, <3>1, <3>2 DEF ProvisionMove, Stops
  <2>4. CASE DeleteStep(w)
    <3>1. ~UNCHANGED obc /\ DeleteMove(w) /\ j.pc \notin {"idle", "getClaim"}
      BY <2>4, DeleteMoves DEF DeleteMove, Deprovisioning, Unbinding
    <3> QED
      BY <2>2, <3>1 DEF DeleteMove
  <2> QED
    BY <1>2, <2>3, <2>4 DEF WorkerStep
<1>3. ~QuietMove
  BY DEF QuietMove
<1>4. EnvironmentStep
  BY <1>2, <1>3, QuietMoves DEF Next
<1> QED
  BY <1>1, <1>4 DEF EnvironmentStep, Environment, CreateClaim, DeleteClaim, EditClaim,
                    DeleteClass, CreateClass, Collect

\* However many processes serve it, crash and are replaced, a single claim is ready
\* when it says Bound: nobody can have a copy of an earlier one.
THEOREM OneClaimIsReady ==
    ASSUME ObNamesUnique, ClassesKeepTheirBucket, GeneratedNames, Max["create"] <= 1
    PROVE  Spec => []BoundImpliesReady
<1>1. Init => NothingRead
  BY IdleKey DEF Init, ClusterInit, NothingRead, HasCopy
<1>2. TypeInv /\ NothingRead /\ [Next]_vars => NothingRead'
  BY NextNothingRead
<1>3. TypeInv /\ NothingRead /\ [Next]_vars => [CleanHandOver]_vars
  <2> SUFFICES ASSUME TypeInv, NothingRead, [Next]_vars, NEW k \in Keys,
                      obc[k] = None, obc'[k] # None
               PROVE  \A w \in Workers : ~HasCopy(job[w])
    BY DEF CleanHandOver
  <2>1. Spend("create")
    BY Creation
  <2>2. spent["create"] \in Nat /\ Max["create"] \in Nat
    BY MaxAssumption DEF TypeInv, ClusterTypeOK, Budgets
  <2>3. spent["create"] < Max["create"]
    BY <2>1 DEF Spend
  <2>4. spent["create"] = 0
    BY <2>2, <2>3
  <2> QED
    BY <2>4 DEF NothingRead
<1>4. Spec /\ [][CleanHandOver]_vars => []BoundImpliesReady
  BY BoundIsReadyInRollouts
<1> QED
  BY <1>1, <1>2, <1>3, <1>4, Invariance, PTL DEF Spec

-------------------------------------------------------------------------------
(* The life of a claim with several processes.                             *)

\* The stage of a copy when a job is about to change its phase.
CopyStage(j) ==
    /\ j.pc = "setPending" => j.obc.phase # "Bound"
    /\ j.pc = "setBound" => j.obc.ob # None

StageInv == \A w \in Workers : CopyStage(job[w])

LEMMA NextStage ==
    ASSUME TypeInv, StageInv, [Next]_vars
    PROVE  StageInv'
<1>1. ASSUME NEW v, job'[v].pc \notin {"setPending", "setBound"}
      PROVE  CopyStage(job'[v])
  BY <1>1 DEF CopyStage
<1>2. IdleJob.pc = "idle" /\ \A pc \in Cleaning : pc \notin {"setPending", "setBound"}
  BY IdleKey, CleaningFacts, PcFacts
<1>3. ASSUME NEW w \in Workers, WorkerStep(w)
      PROVE  StageInv'
  <2> DEFINE j == job[w]
             i == job'[w]
             n == ObjectBucketName(j.key)
  <2>1. \A v \in Workers : v # w => job'[v] = job[v]
    BY <1>3, ProvisionStepJob, DeleteStepJob DEF WorkerStep, TypeInv, ControllerInv
  <2>2. j.key \in Keys /\ JobShape(j) /\ n # None
    BY <1>3, ProvisionStepJob, DeleteStepJob, NoneAssumption
       DEF WorkerStep, TypeInv, ControllerInv, ObNames
  <2>3. ASSUME i.pc = "setPending", ProvisionStep(w)
        PROVE  CopyStage(i)
    <3>1. ReadsClass(j, i, class[j.obc.class])
      BY <1>2, <2>3, ProvisionMoves
         DEF ProvisionMove, Stops, ReadsClaim, ChoosesName, IsSupplied, RefersTo, GoesOn,
             WritesArtifact, AfterPc, Kinds, WritesOb, WritesClaim
    <3>2. j.pc = "getClass" /\ i.obc = j.obc /\ AfterClass(j.obc) = "setPending"
      BY <2>3, <3>1 DEF ReadsClass
    <3>3. j.obc \in Claim
      BY <2>2, <3>2 DEF JobShape
    <3>4. i.obc.phase = None
      BY <3>2, <3>3 DEF AfterClass, Claim
    <3> QED
      BY <2>3, <3>4, NoneAssumption DEF CopyStage
  <2>4. ASSUME i.pc = "setBound", ProvisionStep(w)
        PROVE  CopyStage(i)
    <3>1. PICK new : WritesClaim(j, i, new, n)
      <4>1. i.pc # AfterClass(j.obc)
        BY <2>4 DEF AfterClass
      <4> QED
        BY <1>2, <2>4, <4>1, ProvisionMoves
           DEF ProvisionMove, Stops, ReadsClaim, ReadsClass, ChoosesName, IsSupplied, RefersTo,
               GoesOn, WritesArtifact, AfterPc, Kinds, WritesOb
    <3>2. i.obc.ob = n
      BY <1>2, <2>4, <3>1 DEF WritesClaim
    <3> QED
      BY <2>2, <2>4, <3>2 DEF CopyStage
  <2>5. ASSUME DeleteStep(w)
        PROVE  CopyStage(i)
    BY <1>1, <1>2, <2>5, DeleteMoves DEF DeleteMove
  <2> QED
    BY <1>1, <1>3, <2>1, <2>3, <2>4, <2>5 DEF WorkerStep, StageInv
<1>4. CASE QuietMove
  BY <1>1, <1>2, <1>4 DEF QuietMove, GoesOnAfterError, StageInv
<1>5. CASE EnvironmentStep
  BY <1>5 DEF EnvironmentStep, StageInv
<1> QED
  BY <1>3, <1>4, <1>5, QuietMoves DEF Next

\* What a worker does to its claim is a step of the abstract specification.
LEMMA WorkerKeepsLifecycle ==
    ASSUME TypeInv, CopyInv, StageInv, NEW w \in Workers, WorkerStep(w)
    PROVE  Lifecycle!Next \/ Claims' = Claims
<1> DEFINE j == job[w]
           i == job'[w]
           k == j.key
           n == ObjectBucketName(k)
<1>1. k \in Keys /\ JobShape(j) /\ JobCopy(j, obc[k]) /\ CopyStage(j)
  BY ProvisionStepJob, DeleteStepJob DEF WorkerStep, TypeInv, ControllerInv, CopyInv, StageInv
<1>2. CASE UNCHANGED obc
  BY <1>2 DEF Claims
<1>3. ASSUME NEW new, obc[k] = j.obc, obc' = [obc EXCEPT ![k] = new], WritesClaim(j, i, new, n)
      PROVE  Lifecycle!Next \/ Claims' = Claims
  <2> DEFINE o == j.obc
  <2>1. j.pc \in {"setPending", "setMeta", "saveName", "bindClaim", "setBound"} /\ n # None
    BY <1>1, <1>3, NoneAssumption DEF WritesClaim, ObNames
  <2>2. HasCopy(j) /\ j.pc \in Provisioning /\ (j.pc \notin {"setPending", "setMeta"} => j.pc \in Held)
    BY <2>1 DEF HasCopy, Held, Provisioning, Naming, Binding
  <2>3. o \in Claim /\ ~o.deleted /\ ClaimSound(o) /\ (j.pc \in Held => o.finalizer)
    BY <1>1, <2>2 DEF JobShape, JobCopy, HasCopy
  <2>4. new \in Claim /\ new.uid = o.uid /\ new.deleted = o.deleted
        /\ new.finalizer \in BOOLEAN /\ (o.finalizer => new.finalizer)
    BY <1>3 DEF WritesClaim, Claim
  <2>5. CASE j.pc = "setPending"
    <3>1. new.ob = o.ob /\ new.phase = "Pending" /\ o.phase # "Bound"
      BY <1>1, <1>3, <2>5 DEF WritesClaim, CopyStage
    <3>2. Stage(new) = Stage(o) \/ (Stage(o) = "new" /\ Stage(new) = "held")
      BY <2>3, <2>4, <3>1, StageValues DEF ClaimSound
    <3> QED
      BY <1>1, <1>3, <2>3, <2>4, <3>2, ForwardOfClaim
  <2>6. CASE j.pc \in {"setMeta", "saveName"}
    <3>1. new.ob = o.ob /\ new.phase = o.phase
      BY <1>3, <2>6 DEF WritesClaim
    <3>2. Stage(new) = Stage(o) \/ (Stage(o) = "new" /\ Stage(new) = "held")
      BY <2>3, <2>4, <3>1, StageValues DEF ClaimSound
    <3> QED
      BY <1>1, <1>3, <2>3, <2>4, <3>2, ForwardOfClaim
  <2>7. CASE j.pc = "bindClaim"
    <3>1. new.ob # None /\ new.phase = o.phase /\ o.finalizer
      BY <1>3, <2>1, <2>2, <2>3, <2>7 DEF WritesClaim
    <3>2. Stage(new) = Stage(o) \/ (Stage(o) = "held" /\ Stage(new) = "linked")
      BY <2>3, <2>4, <3>1, StageValues
    <3> QED
      BY <1>1, <1>3, <2>3, <2>4, <3>2, ForwardOfClaim
  <2>8. CASE j.pc = "setBound"
    <3>1. new.ob = o.ob /\ new.phase = "Bound" /\ o.finalizer /\ o.ob # None
      BY <1>1, <1>3, <2>2, <2>3, <2>8 DEF WritesClaim, CopyStage
    <3>2. Stage(new) = Stage(o) \/ (Stage(o) = "linked" /\ Stage(new) = "bound")
      BY <2>3, <2>4, <3>1, StageValues
    <3> QED
      BY <1>1, <1>3, <2>3, <2>4, <3>2, ForwardOfClaim
  <2> QED
    BY <2>1, <2>5, <2>6, <2>7, <2>8
<1>4. CASE ProvisionStep(w)
  BY <1>2, <1>3, <1>4, ProvisionMoves DEF ProvisionMove, Stops
<1>5. CASE DeleteStep(w)
  <2>1. j.pc \in Deprovisioning /\ HasCopy(j)
    BY <1>5, DeleteMoves, PcFacts DEF DeleteMove, HasCopy
  <2>2. j.obc.deleted /\ j.obc \in Claim
    BY <1>1, <2>1 DEF JobCopy, JobShape, HasCopy
  <2>3. removeFinalizer(j.obc) = None
    BY <2>2 DEF removeFinalizer, Stored, Claim
  <2>4. CASE obc[k] = j.obc /\ obc' = [obc EXCEPT ![k] = None]
    BY <1>1, <2>2, <2>4, ChangeOfClaim
  <2> QED
    BY <1>2, <1>5, <2>3, <2>4, DeleteMoves DEF DeleteMove
<1> QED
  BY <1>4, <1>5 DEF WorkerStep

\* Whatever the number of processes, and whatever crashes, conflicts and failing calls
\* there are, a claim goes through its life in order, as long as every claim that is
\* created anew under a key finds no worker with a copy of the one before it: held
\* before it is linked to an OB, linked before Bound, never back, no further once it
\* is marked for deletion, and gone, once held, only after it was marked.
THEOREM LifecycleInRollouts ==
    Spec /\ [][CleanHandOver]_vars => ClaimContract
<1> DEFINE Inv == TypeInv /\ CopyInv /\ StageInv
<1>1. Init => Inv /\ Lifecycle!Init
  <2> SUFFICES ASSUME Init PROVE Inv /\ Lifecycle!Init
    OBVIOUS
  <2>1. Lifecycle!Init
    BY ViewIsMapping DEF Init, ClusterInit, Claims
  <2>2. StageInv
    BY IdleKey DEF Init, StageInv, CopyStage
  <2> QED
    BY <2>1, <2>2, InitTypes, InitCopy
<1>2. Inv /\ [Next]_vars /\ [CleanHandOver]_vars =>
          Inv' /\ (Lifecycle!Next \/ Claims' = Claims)
  <2> SUFFICES ASSUME Inv, [Next]_vars, [CleanHandOver]_vars
               PROVE  Inv' /\ (Lifecycle!Next \/ Claims' = Claims)
    OBVIOUS
  <2>1. CleanHandOver
    BY DEF vars, CleanHandOver
  <2>2. Inv'
    BY <2>1, NextTypes, NextCopy, NextStage
  <2>3. UNCHANGED obc => Claims' = Claims
    BY DEF Claims
  <2>4. Lifecycle!Next \/ Claims' = Claims
    BY <2>3, WorkerKeepsLifecycle, EnvironmentLifecycle, QuietMoves DEF Next, QuietMove
  <2> QED
    BY <2>2, <2>4
<1>3. Inv /\ [Next]_vars /\ [CleanHandOver]_vars =>
          [Lifecycle!Next]_([k \in Keys |->
                 IF obc[k] = None
                 THEN [uid |-> 0, stage |-> "absent", marked |-> FALSE]
                 ELSE [uid |-> obc[k].uid, stage |-> Stage(obc[k]),
                       marked |-> obc[k].deleted]])
  BY <1>2 DEF Claims, View
<1> QED
  BY <1>1, <1>2, <1>3, PTL DEF Spec, ClaimContract, Lifecycle!Spec

\* A single process hands every key over cleanly: its queue gives a key to one worker
\* at a time, and that worker is done with a claim when the claim goes.
THEOREM OneProcessHandsOver ==
    ASSUME SingleProcess
    PROVE  Spec => [][CleanHandOver]_vars
<1>1. TypeInv /\ ClaimInv => CleanHandOver
  <2> SUFFICES ASSUME TypeInv, ClaimInv, NEW k \in Keys, obc[k] = None,
                      NEW w \in Workers, job[w].key = k, HasCopy(job[w])
               PROVE  ~job[w].obc.finalizer
    BY DEF CleanHandOver
  <2>1. job[w] \in Job /\ JobClaim(job[w], obc[k])
    BY DEF TypeInv, ControllerInv, ClaimInv, HasCopy
  <2>2. job[w].pc \in {"getClass"} \cup Provisioning \cup Deprovisioning
    BY <2>1 DEF Job, PCs, HasCopy, Provisioning, Deprovisioning, Naming, Artifacts, Binding,
                Unbinding
  <2> QED
    BY <2>1, <2>2 DEF JobClaim, SameClaim
<1>2. Spec => []ClaimInv
  BY ClaimInvariance
<1> QED
  BY <1>1, <1>2, Invariance, PTL DEF Spec
===============================================================================
