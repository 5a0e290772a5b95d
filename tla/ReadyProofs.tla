------------------------------ MODULE ReadyProofs ------------------------------
(***************************************************************************)
(* With a single controller process, for any number of claims, workers,    *)
(* crashes and failing calls: a live claim that says Bound is ready to be  *)
(* used, a bucket is deleted only with the claim it was made for, and a    *)
(* claim that was Bound leaves nothing behind it in the object store.      *)
(***************************************************************************)
EXTENDS NamesProofs, OrphanProofs

\* A StorageClass that is deleted and created again is for the same bucket.
\* Otherwise the OB of a Bound claim would be changed to the class's new bucket
\* before the claim is.
ClassesKeepTheirBucket ==
    \A c \in Classes : \A d, e \in ClassDefs[c] : d.bucket = e.bucket

\* It has the same reclaim policy.  Otherwise Provision could be given the new
\* policy for a bucket whose OB still has the old one, and the OB's decides.
ClassesKeepTheirPolicy ==
    \A c \in Classes : \A d, e \in ClassDefs[c] : d.policy = e.policy

\* New buckets have generated names.  Two claims that are given the same name by
\* their users can lose their bucket to each other: Delete is called again for a
\* bucket that is gone when cleanup is retried, and somebody else may have it by now.
GeneratedNames ==
    /\ GenNames \cap UserNames = {}
    /\ \A r \in Requests : Greenfield(r.class) => r.bucket = None
    /\ \A c \in Classes : \A d \in ClassDefs[c] : d.bucket # None => d.bucket \in UserNames

-------------------------------------------------------------------------------
(* The API objects: the inductive invariant for a claim and its job.       *)

\* The jobs that have chosen a bucket name, and those that have the bucket.
Supplied == Artifacts \cup Binding
Chosen   == Naming \cup Supplied

\* A claim that has an OB names its bucket, and the class's if that has one.
Linked(o) ==
    o.ob # None =>
        /\ o.bucket # None
        /\ \A d \in ClassDefs[o.class] : d.bucket # None => o.bucket = d.bucket

ArtifactFor(x, uid, name) ==
    x # None /\ x.finalizer /\ x.owner = uid /\ x.bucket = name

\* The stored claim o, the OB b and the artifacts a under its key, and the OB's name.
ClaimReady(o, b, a, n) ==
    /\ Linked(o)
    /\ o.phase = "Bound" =>
          /\ o.ob # None
          /\ b # None => b.bucket = o.bucket
          /\ ~o.deleted =>
                /\ o.ob = n
                /\ b # None /\ b.phase = "Bound" /\ b.claim = o.uid
                /\ \A kind \in Kinds : ArtifactFor(a[kind], o.uid, o.bucket)

\* How far a job has come: what it has written is there.
JobReady(j, b, a, n) ==
    /\ j.pc \in Chosen => (j.class.bucket # None => j.name = j.class.bucket)
    /\ j.pc \in Supplied => j.ob.bucket = j.name /\ j.ob.user = j.key
    /\ j.pc \in Binding => j.ob.class = j.obc.class /\ j.ob.policy = PolicyFor(j)
    /\ j.pc \in {"createCm", "updateCm", "claimRef"} \cup Binding =>
          ArtifactFor(a["secret"], j.obc.uid, j.name)
    /\ j.pc \in {"claimRef"} \cup Binding => ArtifactFor(a["cm"], j.obc.uid, j.name)
    /\ j.pc \in {"bindClaim", "setBound"} => b = j.ob /\ j.ob.phase = "Bound"
    /\ j.pc = "setBound" => j.obc.ob = n /\ j.obc.bucket = j.name
    /\ j.pc \in {"getClass"} \cup Provisioning /\ ~j.obc.deleted /\ j.obc.phase = "Bound"
          => b # None
    /\ j.pc \in {"findCm", "findSecret"} \cup (Unbinding \ {"deleteOb"}) => j.ob = b

ReadyInv ==
    /\ \A k \in Keys :
          obc[k] # None =>
              LET n == ObjectBucketName(k)
              IN  ClaimReady(obc[k], ob[n], ArtifactsOf(artifact, k), n)
    /\ \A w \in Workers :
          job[w].pc # "idle" =>
              LET k == job[w].key
                  n == ObjectBucketName(k)
              IN  JobReady(job[w], ob[n], ArtifactsOf(artifact, k), n)

\* A claim says which bucket it has; what a job chooses agrees with it.
LEMMA NameOfJob ==
    ASSUME NEW j, NEW o, NEW b, NEW a, NEW n, JobReady(j, b, a, n), JobNames(j), JobShape(j),
           ClassesKeepTheirBucket, j.pc \in Supplied, SameClaim(o, j.obc), Linked(o), o.ob # None
    PROVE  j.name = o.bucket
<1>1. j.class \in ClassDefs[j.obc.class] /\ j.obc \in Claim /\ j.class \in ClassDef
  BY DEF JobNames, JobShape, Supplied, Artifacts, Binding
<1>2. CASE j.class.bucket # None
  BY <1>1, <1>2 DEF JobReady, Chosen, Linked, SameClaim
<1>3. CASE j.class.bucket = None
  <2>1. Greenfield(j.obc.class)
    BY <1>1, <1>3 DEF ClassesKeepTheirBucket, Greenfield, Claim
  <2> QED
    BY <2>1 DEF JobNames, SameClaim, Supplied
<1> QED
  BY <1>2, <1>3

\* A step of worker w disturbs what concerns its own claim only.
LEMMA WorkerReady ==
    ASSUME TypeInv, ClaimInv, ReadyInv, ObNamesUnique, NEW w \in Workers, WorkerStep(w),
           LET k == job[w].key
               n == ObjectBucketName(k)
           IN  /\ obc'[k] # None =>
                      ClaimReady(obc'[k], ob'[n], ArtifactsOf(artifact', k), n)
               /\ job'[w].pc # "idle" =>
                      JobReady(job'[w], ob'[n], ArtifactsOf(artifact', k), n)
    PROVE  ReadyInv'
<1> DEFINE k == job[w].key
           N(l) == ObjectBucketName(l)
<1>1. /\ job[w].pc # "idle" /\ k \in Keys
      /\ job' = [job EXCEPT ![w] = job'[w]]
      /\ job'[w] = IdleJob \/ job'[w].key = k
  BY ProvisionStepJob, DeleteStepJob DEF WorkerStep
<1>2. \A l \in Keys : l # k => /\ obc'[l] = obc[l]
                               /\ ob'[N(l)] = ob[N(l)]
                               /\ ArtifactsOf(artifact', l) = ArtifactsOf(artifact, l)
  BY StepFrame DEF ArtifactsOf
<1>3. \A l \in Keys : obc'[l] # None =>
                         ClaimReady(obc'[l], ob'[N(l)], ArtifactsOf(artifact', l), N(l))
  BY <1>2 DEF ReadyInv
<1>4. ASSUME NEW v \in Workers, job'[v].pc # "idle"
      PROVE  LET l == job'[v].key
             IN  JobReady(job'[v], ob'[N(l)], ArtifactsOf(artifact', l), N(l))
  <2>1. CASE v = w
    BY <1>1, <1>4, <2>1, IdleKey
  <2>2. CASE v # w
    <3>1. job'[v] = job[v]
      BY <1>1, <2>2 DEF TypeInv, ControllerInv
    <3>2. job[v].key \in Keys /\ job[v].key # k
      BY <1>1, <1>4, <2>2, <3>1, NoneAssumption
      DEF ClaimInv, Apart, TypeInv, ControllerInv, JobShape
    <3> QED
      BY <1>2, <1>4, <3>1, <3>2 DEF ReadyInv
  <2> QED
    BY <2>1, <2>2
<1> QED
  BY <1>3, <1>4 DEF ReadyInv

\* A step that updates no API object.
LEMMA ReadReady ==
    ASSUME TypeInv, ClaimInv, ReadyInv, ObNamesUnique, NEW w \in Workers, WorkerStep(w),
           UNCHANGED <<obc, ob, artifact>>,
           LET k == job[w].key
               n == ObjectBucketName(k)
           IN  \/ job'[w].pc = "idle"
               \/ JobReady(job'[w], ob[n], ArtifactsOf(artifact, k), n)
    PROVE  ReadyInv'
<1>1. job[w].key \in Keys
  BY ProvisionStepJob, DeleteStepJob DEF WorkerStep
<1> QED
  BY <1>1, WorkerReady DEF ReadyInv

\* The reading steps of handleProvisionClaim, and the calls of the provisioner.
LEMMA ProvisionReadReady ==
    ASSUME TypeInv, ClaimInv, NamesInv, ReadyInv, ObNamesUnique, NEW w \in Workers,
           \/ GetClaim(w) \/ GetClass(w) \/ GetOb(w) \/ Provision(w) \/ Grant(w)
           \/ ClaimRef(w) \/ GetCurrentOb(w)
    PROVE  ReadyInv'
<1> DEFINE j == job[w]
           i == job'[w]
           k == j.key
           n == ObjectBucketName(k)
           o == obc[k]
           a == ArtifactsOf(artifact, k)
           Ready == i.pc = "idle" \/ JobReady(i, ob[n], a, n)
<1> USE DEF At
<1>1. WorkerStep(w) /\ UNCHANGED <<obc, ob, artifact>>
  BY DEF WorkerStep, ProvisionStep, GetClaim, GetClass, GetOb, Provision, Grant, ClaimRef,
         GetCurrentOb, kube
<1>2. /\ j \in Job /\ job \in [Workers -> Job] /\ JobShape(j) /\ j.pc # "idle" /\ k \in Keys
      /\ n \in ObNames /\ JobClaim(j, o) /\ JobReady(j, ob[n], a, n)
      /\ o \in Claim \cup {None} /\ (o # None => ClaimReady(o, ob[n], a, n))
  BY <1>1, ProvisionStepJob, DeleteStepJob
  DEF TypeInv, ControllerInv, ClaimInv, ReadyInv, ClusterTypeOK, ObNames, WorkerStep
<1> SUFFICES Ready
  BY <1>1, ReadReady
<1>3. Requeue(w) \/ Done(w) => Ready
  BY <1>2, IdleKey DEF Requeue, Done
<1> HIDE DEF Ready
<1>4. CASE GetClaim(w) /\ ~Done(w)
  <2>1. i = [j EXCEPT !.pc = "getClass", !.obc = o] /\ o # None
    BY <1>2, <1>4 DEF GetClaim, Continue, claimForKey
  <2>2. i.pc = "getClass" /\ i.obc = o
    BY <1>2, <2>1 DEF Job
  <2>3. JobReady(i, ob[n], a, n)
    BY <1>2, <2>1, <2>2
    DEF JobReady, ClaimReady, Chosen, Supplied, Naming, Artifacts, Binding, Unbinding
  <2> QED
    BY <2>3 DEF Ready
<1>5. CASE GetClass(w) /\ ~Done(w) /\ ~Requeue(w)
  <2> DEFINE c == storageClassForClaim(j.obc)
             pc == AfterClass(j.obc)
  <2>1. i = [j EXCEPT !.pc = pc, !.class = c] /\ j.pc = "getClass"
    BY <1>2, <1>5 DEF GetClass, Continue
  <2>2. pc \in {"findOb", "setPending", "setMeta"}
    BY <1>2, <2>1 DEF AfterClass, JobShape, Claim
  <2> HIDE DEF pc
  <2>3. i.pc = pc /\ i.obc = j.obc
    BY <1>2, <2>1 DEF Job
  <2>4. ~j.obc.deleted /\ j.obc.phase = "Bound" => ob[n] # None
    BY <1>2, <2>1 DEF JobReady
  <2>5. JobReady(i, ob[n], a, n)
    BY <2>2, <2>3, <2>4 DEF JobReady, Chosen, Supplied, Naming, Artifacts, Binding, Unbinding
  <2> QED
    BY <2>5 DEF Ready
<1>6. ASSUME j.pc \in Provisioning, i.obc = j.obc, i.pc \in Provisioning
      PROVE  i.pc \in {"getClass"} \cup Provisioning /\ ~i.obc.deleted /\ i.obc.phase = "Bound"
                => ob[n] # None
  BY <1>2, <1>6 DEF JobReady
<1>7. CASE GetOb(w) /\ ~Requeue(w)
  <2> DEFINE pc == IF j.obc.bucket = None THEN "saveName" ELSE "provision"
  <2>1. PICK name \in NamesFor(j.class, j.obc) : i = [j EXCEPT !.pc = pc, !.name = name]
    BY <1>2, <1>7 DEF GetOb, Continue
  <2>2. pc \in {"saveName", "provision"} /\ j.pc = "getOb"
    BY <1>7 DEF GetOb
  <2> HIDE DEF pc
  <2>3. i.pc = pc /\ i.name = name /\ i.obc = j.obc /\ i.class = j.class
    BY <1>2, <2>1 DEF Job
  <2>4. j.class.bucket # None => name = j.class.bucket
    BY DEF NamesFor
  <2>5. j.pc \in Provisioning /\ i.pc \in Provisioning
    BY <2>2, <2>3 DEF Provisioning, Naming
  <2>6. JobReady(i, ob[n], a, n)
    BY <1>6, <2>2, <2>3, <2>4, <2>5
    DEF JobReady, Supplied, Artifacts, Binding, Unbinding
  <2> QED
    BY <2>6 DEF Ready
<1>8. CASE (Provision(w) \/ Grant(w)) /\ ~Requeue(w)
  <2>1. i = [j EXCEPT !.pc = "createSecret", !.ob = ReturnedOb(j)] /\ j.pc = "provision"
    BY <1>2, <1>8 DEF Provision, Grant, Continue
  <2>2. ReturnedOb(j).bucket = j.name /\ ReturnedOb(j).user = k
    BY DEF ReturnedOb, UserID
  <2>3. /\ i.pc = "createSecret" /\ i.ob = ReturnedOb(j) /\ i.name = j.name /\ i.obc = j.obc
        /\ i.class = j.class /\ i.key = k
    BY <1>2, <2>1 DEF Job
  <2>4. j.pc \in Provisioning /\ i.pc \in Provisioning /\ j.pc \in Chosen
    BY <2>1, <2>3 DEF Provisioning, Naming, Artifacts, Chosen
  <2>5. JobReady(i, ob[n], a, n)
    BY <1>2, <1>6, <2>2, <2>3, <2>4 DEF JobReady, Binding, Unbinding
  <2> QED
    BY <2>5 DEF Ready
<1>9. CASE ClaimRef(w) /\ ~Requeue(w)
  <2> DEFINE new == addFinalizers([j.ob EXCEPT !.class = j.obc.class, !.policy = PolicyFor(j),
                                               !.claim = o.uid])
  <2>1. i = [j EXCEPT !.pc = "createOb", !.ob = new] /\ j.pc = "claimRef"
    BY <1>2, <1>9 DEF ClaimRef, ContinueIfFound, Continue, claimForKey
  <2>2. j.ob \in ObjectBucket
    BY <1>2, <2>1 DEF JobShape, Artifacts
  <2>3. /\ new.bucket = j.ob.bucket /\ new.user = j.ob.user /\ new.class = j.obc.class
        /\ new.policy = PolicyFor(j)
    BY <2>2 DEF ObjectBucket, addFinalizers
  <2> HIDE DEF new
  <2>4. /\ i.pc = "createOb" /\ i.ob = new /\ i.name = j.name /\ i.obc = j.obc
        /\ i.class = j.class /\ i.key = k
    BY <1>2, <2>1 DEF Job
  <2>5. PolicyFor(i) = PolicyFor(j)
    BY <2>4 DEF PolicyFor
  <2>6. /\ j.pc \in Provisioning /\ i.pc \in Provisioning /\ j.pc \in Chosen
        /\ j.pc \in Supplied /\ i.pc \in Binding
    BY <2>1, <2>4 DEF Provisioning, Binding, Artifacts, Chosen, Supplied
  <2>7. JobReady(i, ob[n], a, n)
    BY <1>2, <1>6, <2>1, <2>3, <2>4, <2>5, <2>6 DEF JobReady, Unbinding
  <2> QED
    BY <2>7 DEF Ready
<1>10. CASE GetCurrentOb(w) /\ ~Requeue(w)
  <2>1. i = [j EXCEPT !.pc = "updateOb", !.base = ob[n]] /\ j.pc = "getCurrentOb"
    BY <1>2, <1>10 DEF GetCurrentOb, ContinueIfFound, Continue
  <2>2. /\ i.pc = "updateOb" /\ i.ob = j.ob /\ i.name = j.name /\ i.obc = j.obc
        /\ i.class = j.class /\ i.key = k
    BY <1>2, <2>1 DEF Job
  <2>3. PolicyFor(i) = PolicyFor(j)
    BY <2>2 DEF PolicyFor
  <2>4. /\ j.pc \in Provisioning /\ i.pc \in Provisioning /\ j.pc \in Chosen
        /\ j.pc \in Supplied /\ j.pc \in Binding /\ i.pc \in Binding
    BY <2>1, <2>2 DEF Provisioning, Binding, Chosen, Supplied
  <2>5. JobReady(i, ob[n], a, n)
    BY <1>2, <1>6, <2>1, <2>2, <2>3, <2>4 DEF JobReady, Unbinding
  <2> QED
    BY <2>5 DEF Ready
<1> QED
  BY <1>3, <1>4, <1>5, <1>7, <1>8, <1>9, <1>10

\* The updates of the claim.
LEMMA ClaimWriteReady ==
    ASSUME TypeInv, ClaimInv, NamesInv, ReadyInv, ObNamesUnique, ClassesKeepTheirBucket,
           NEW w \in Workers,
           SetPending(w) \/ SetMeta(w) \/ SaveName(w) \/ BindClaim(w) \/ SetBound(w)
    PROVE  ReadyInv'
<1> DEFINE j == job[w]
           i == job'[w]
           k == j.key
           n == ObjectBucketName(k)
           o == obc[k]
           a == ArtifactsOf(artifact, k)
<1> USE DEF At
<1>1. WorkerStep(w) /\ UNCHANGED <<ob, artifact>>
  BY DEF WorkerStep, ProvisionStep, SetPending, SetMeta, SaveName, BindClaim, SetBound,
         UpdateClaim
<1>2. /\ j \in Job /\ job \in [Workers -> Job] /\ JobShape(j) /\ j.pc # "idle" /\ k \in Keys
      /\ n \in ObNames /\ JobClaim(j, o) /\ JobReady(j, ob[n], a, n) /\ JobNames(j)
      /\ obc \in [Keys -> Claim \cup {None}] /\ (o # None => ClaimReady(o, ob[n], a, n))
  BY <1>1, ProvisionStepJob, DeleteStepJob
  DEF TypeInv, ControllerInv, ClaimInv, NamesInv, ReadyInv, ClusterTypeOK, ObNames, WorkerStep
<1>3. ASSUME NEW pc, NEW new, NEW next, UpdateClaim(w, pc, new, next),
             o = j.obc => ClaimReady(new, ob[n], a, n),
             o = j.obc /\ next.pc # "idle" => JobReady(next, ob[n], a, n)
      PROVE  ReadyInv'
  <2>1. \/ o = j.obc /\ obc'[k] = new /\ i = next
        \/ obc'[k] = o /\ i = IdleJob
    BY <1>2, <1>3 DEF UpdateClaim, Requeue
  <2> QED
    BY <1>1, <1>2, <1>3, <2>1, IdleKey, WorkerReady
<1>4. j.obc \in Claim
  BY <1>2 DEF SetPending, SetMeta, SaveName, BindClaim, SetBound, UpdateClaim, JobShape
<1>5. CASE SetPending(w)
  <2> DEFINE new == [j.obc EXCEPT !.phase = "Pending"]
             next == [j EXCEPT !.pc = "setMeta", !.obc = new]
  <2>1. UpdateClaim(w, "setPending", new, next)
    BY <1>5 DEF SetPending
  <2>2. /\ new.phase = "Pending" /\ new.ob = j.obc.ob /\ new.bucket = j.obc.bucket
        /\ new.class = j.obc.class
    BY <1>4 DEF Claim
  <2> HIDE DEF new
  <2>3. next.pc = "setMeta" /\ next.obc = new
    BY <1>2 DEF Job
  <2> HIDE DEF next
  <2>4. o = j.obc => ClaimReady(new, ob[n], a, n)
    BY <1>2, <1>4, <2>2, NoneAssumption DEF ClaimReady, Linked
  <2>5. JobReady(next, ob[n], a, n)
    BY <2>2, <2>3 DEF JobReady, Chosen, Supplied, Naming, Artifacts, Binding, Unbinding
  <2> QED
    BY <1>3, <2>1, <2>4, <2>5
<1>6. CASE SetMeta(w)
  <2> DEFINE new == addFinalizers(j.obc)
             next == [j EXCEPT !.pc = "getOb", !.obc = new]
  <2>1. UpdateClaim(w, "setMeta", new, next)
    BY <1>6 DEF SetMeta
  <2>2. /\ new.phase = j.obc.phase /\ new.ob = j.obc.ob /\ new.bucket = j.obc.bucket
        /\ new.class = j.obc.class /\ new.deleted = j.obc.deleted /\ new.uid = j.obc.uid
    BY <1>4 DEF Claim, addFinalizers
  <2> HIDE DEF new
  <2>3. next.pc = "getOb" /\ next.obc = new
    BY <1>2 DEF Job
  <2> HIDE DEF next
  <2>4. o = j.obc => ClaimReady(new, ob[n], a, n)
    BY <1>2, <1>4, <2>2, NoneAssumption DEF ClaimReady, Linked
  <2>5. j.pc \in Provisioning
    BY <2>1 DEF UpdateClaim, Provisioning
  <2>6. JobReady(next, ob[n], a, n)
    BY <1>2, <2>2, <2>3, <2>5
    DEF JobReady, Chosen, Supplied, Naming, Artifacts, Binding, Unbinding
  <2> QED
    BY <1>3, <2>1, <2>4, <2>6
<1>7. CASE SaveName(w)
  <2> DEFINE new == [j.obc EXCEPT !.bucket = j.name]
             next == [j EXCEPT !.pc = "provision", !.obc = new]
  <2>1. UpdateClaim(w, "saveName", new, next) /\ j.pc = "saveName"
    BY <1>7 DEF SaveName, UpdateClaim
  <2>2. /\ new.phase = j.obc.phase /\ new.ob = j.obc.ob /\ new.deleted = j.obc.deleted
        /\ new.class = j.obc.class /\ new.uid = j.obc.uid
    BY <1>4 DEF Claim
  <2> HIDE DEF new
  <2>3. next.pc = "provision" /\ next.obc = new /\ next.class = j.class /\ next.name = j.name
    BY <1>2 DEF Job
  <2> HIDE DEF next
  <2>4. o = j.obc => o # None /\ o.ob = None /\ o.phase # "Bound"
    BY <1>2, <1>4, <2>1, NoneAssumption DEF ClaimReady, Linked, JobNames
  <2>5. o = j.obc => ClaimReady(new, ob[n], a, n)
    BY <2>2, <2>4 DEF ClaimReady, Linked
  <2>6. o = j.obc => JobReady(next, ob[n], a, n)
    BY <1>2, <2>1, <2>2, <2>3, <2>4
    DEF JobReady, Chosen, Naming, Supplied, Artifacts, Binding, Unbinding
  <2> QED
    BY <1>3, <2>1, <2>5, <2>6
<1>8. CASE BindClaim(w)
  <2> DEFINE new == [j.obc EXCEPT !.ob = n, !.bucket = j.name]
             next == [j EXCEPT !.pc = "setBound", !.obc = new]
  <2>1. UpdateClaim(w, "bindClaim", new, next) /\ j.pc = "bindClaim"
    BY <1>8 DEF BindClaim, UpdateClaim
  <2>2. /\ new.phase = j.obc.phase /\ new.ob = n /\ new.bucket = j.name
        /\ new.deleted = j.obc.deleted /\ new.class = j.obc.class /\ new.uid = j.obc.uid
    BY <1>4 DEF Claim
  <2> HIDE DEF new
  <2>3. /\ next.pc = "setBound" /\ next.obc = new /\ next.class = j.class
        /\ next.name = j.name /\ next.ob = j.ob /\ next.key = k
    BY <1>2 DEF Job
  <2> HIDE DEF next
  <2>4. j.pc \in Binding /\ j.pc \in Supplied /\ j.pc \in Chosen
    BY <2>1 DEF Binding, Supplied, Chosen
  <2>5. PolicyFor(next) = PolicyFor(j)
    BY <2>2, <2>3 DEF PolicyFor
  <2>6. /\ ob[n] = j.ob /\ j.ob.phase = "Bound" /\ j.ob.claim = j.obc.uid /\ j.ob.bucket = j.name
        /\ \A kind \in Kinds : ArtifactFor(a[kind], j.obc.uid, j.name)
        /\ j.name \in Buckets /\ j.ob # None
    BY <1>2, <2>1, <2>4, NoneAssumption DEF JobReady, JobClaim, Kinds, JobShape
  <2>7. \A d \in ClassDefs[j.obc.class] : d.bucket # None => j.name = d.bucket
    <3>1. j.class \in ClassDefs[j.obc.class] /\ (j.class.bucket # None => j.name = j.class.bucket)
      BY <1>2, <2>4 DEF JobNames, JobReady
    <3> QED
      BY <1>4, <3>1 DEF ClassesKeepTheirBucket, Claim
  <2>8. ClaimReady(new, ob[n], a, n)
    BY <1>2, <2>2, <2>6, <2>7, NoneAssumption DEF ClaimReady, Linked
  <2>9. JobReady(next, ob[n], a, n)
    BY <1>2, <2>1, <2>2, <2>3, <2>4, <2>5, <2>6 DEF JobReady, Unbinding
  <2> QED
    BY <1>3, <2>1, <2>8, <2>9
<1>9. CASE SetBound(w)
  <2> DEFINE new == [j.obc EXCEPT !.phase = "Bound"]
  <2>1. UpdateClaim(w, "setBound", new, IdleJob) /\ j.pc = "setBound"
    BY <1>9 DEF SetBound, UpdateClaim
  <2>2. /\ new.phase = "Bound" /\ new.ob = j.obc.ob /\ new.bucket = j.obc.bucket
        /\ new.class = j.obc.class /\ new.deleted = j.obc.deleted /\ new.uid = j.obc.uid
    BY <1>4 DEF Claim
  <2> HIDE DEF new
  <2>3. j.pc \in Binding /\ j.pc \in Supplied
    BY <2>1 DEF Binding, Supplied
  <2>4. /\ ob[n] = j.ob /\ j.ob.phase = "Bound" /\ j.ob.claim = j.obc.uid /\ j.ob.bucket = j.name
        /\ \A kind \in Kinds : ArtifactFor(a[kind], j.obc.uid, j.name)
        /\ j.obc.ob = n /\ j.obc.bucket = j.name /\ j.ob # None
    BY <1>2, <2>1, <2>3, NoneAssumption DEF JobReady, JobClaim, Kinds, JobShape
  <2>5. o = j.obc => ClaimReady(new, ob[n], a, n)
    BY <1>2, <1>4, <2>2, <2>4, NoneAssumption DEF ClaimReady, Linked
  <2> QED
    BY <1>3, <2>1, <2>5, IdleKey
<1> QED
  BY <1>5, <1>6, <1>7, <1>8, <1>9

\* The secret and the configmap.
LEMMA ArtifactWriteReady ==
    ASSUME TypeInv, ClaimInv, NamesInv, ReadyInv, ObNamesUnique, ClassesKeepTheirBucket,
           NEW w \in Workers, NEW kind \in Kinds,
           CreateArtifact(w, kind) \/ UpdateArtifact(w, kind)
    PROVE  ReadyInv'
<1> DEFINE j == job[w]
           i == job'[w]
           k == j.key
           n == ObjectBucketName(k)
           o == obc[k]
           a == ArtifactsOf(artifact, k)
           b == ArtifactsOf(artifact', k)
<1> USE DEF At
<1>1. WorkerStep(w) /\ UNCHANGED <<obc, ob>>
  BY DEF WorkerStep, ProvisionStep, CreateArtifact, UpdateArtifact
<1>2. /\ j \in Job /\ job \in [Workers -> Job] /\ JobShape(j) /\ j.pc # "idle" /\ k \in Keys
      /\ n \in ObNames /\ JobClaim(j, o) /\ JobReady(j, ob[n], a, n) /\ JobNames(j)
      /\ artifact \in [Kinds -> [Keys -> Artifact \cup {None}]]
      /\ (o # None => ClaimReady(o, ob[n], a, n))
  BY <1>1, ProvisionStepJob, DeleteStepJob
  DEF TypeInv, ControllerInv, ClaimInv, NamesInv, ReadyInv, ClusterTypeOK, ObNames, WorkerStep
<1>3. /\ j.pc \in {CreatePc[kind], UpdatePc[kind]}
      /\ j.pc \in Artifacts \ {"claimRef"} /\ j.pc \in Supplied /\ j.pc \in Chosen
      /\ j.pc \in Held /\ j.pc \in Provisioning
  BY DEF CreateArtifact, UpdateArtifact, CreatePc, UpdatePc, Kinds, Artifacts, Supplied, Chosen,
         Held, Provisioning
<1>4. /\ SameClaim(o, j.obc) /\ o # None /\ j.ob.bucket = j.name /\ j.obc \in Claim
      /\ j.ob.user = k /\ (j.class.bucket # None => j.name = j.class.bucket)
      /\ j.name \in Buckets /\ j.obc.uid \in Uids
  BY <1>2, <1>3, PcFacts DEF JobClaim, JobReady, SameClaim, JobShape, Claim
<1>5. o.ob # None => j.name = o.bucket
  BY <1>2, <1>3, <1>4, NameOfJob DEF ClaimReady
\* What is written is for the job's claim and bucket.
<1>6. \A d \in BOOLEAN :
         /\ ArtifactFor([NewArtifact(j) EXCEPT !.deleted = d], j.obc.uid, j.name)
         /\ ArtifactFor(NewArtifact(j), j.obc.uid, j.name)
  <2> TAKE d \in BOOLEAN
  <2>1. NewArtifact(j) \in Artifact
    BY <1>4 DEF NewArtifact, Artifact
  <2>2. [NewArtifact(j) EXCEPT !.deleted = d] \in Artifact
    BY <2>1 DEF Artifact
  <2>3. /\ NewArtifact(j).owner = j.obc.uid /\ NewArtifact(j).bucket = j.name
        /\ NewArtifact(j).finalizer = TRUE
        /\ [NewArtifact(j) EXCEPT !.deleted = d].owner = j.obc.uid
        /\ [NewArtifact(j) EXCEPT !.deleted = d].bucket = j.name
        /\ [NewArtifact(j) EXCEPT !.deleted = d].finalizer = TRUE
    BY <1>4 DEF NewArtifact
  <2> QED
    BY <2>1, <2>2, <2>3, NoneAssumption DEF ArtifactFor
\* An artifact of the claim may be replaced by one that was written now.
<1>7. ASSUME NEW x, artifact' = [artifact EXCEPT ![kind][k] = x], ArtifactFor(x, j.obc.uid, j.name)
      PROVE  /\ ArtifactFor(b[kind], j.obc.uid, j.name)
             /\ \A y \in Kinds : y # kind => b[y] = a[y]
             /\ ClaimReady(o, ob[n], b, n)
  <2>1. ArtifactFor(b[kind], j.obc.uid, j.name) /\ \A y \in Kinds : y # kind => b[y] = a[y]
    BY <1>2, <1>7 DEF ArtifactsOf
  <2> HIDE DEF a, b
  <2>2. o.phase = "Bound" => j.name = o.bucket /\ j.obc.uid = o.uid
    BY <1>2, <1>4, <1>5 DEF ClaimReady, SameClaim
  <2>3. \A y \in Kinds : ArtifactFor(a[y], o.uid, o.bucket) /\ o.phase = "Bound"
                         => ArtifactFor(b[y], o.uid, o.bucket)
    BY <2>1, <2>2
  <2>4. ClaimReady(o, ob[n], b, n)
    BY <1>2, <1>4, <2>3 DEF ClaimReady
  <2> QED
    BY <2>1, <2>4
<1>8. ~j.obc.deleted /\ j.obc.phase = "Bound" => ob[n] # None
  BY <1>2, <1>3 DEF JobReady
<1>9. CASE \E x : /\ artifact' = [artifact EXCEPT ![kind][k] = x]
                  /\ ArtifactFor(x, j.obc.uid, j.name)
                  /\ Continue(w, [j EXCEPT !.pc = AfterPc[kind]])
  <2>1. /\ i.pc = AfterPc[kind] /\ i.ob = j.ob /\ i.name = j.name /\ i.obc = j.obc
        /\ i.class = j.class /\ i.key = k
    BY <1>2, <1>9 DEF Continue, Job
  <2>2. /\ ArtifactFor(b[kind], j.obc.uid, j.name)
        /\ \A y \in Kinds : y # kind => b[y] = a[y]
        /\ ClaimReady(o, ob[n], b, n)
    BY <1>7, <1>9
  <2>3. \/ kind = "secret" /\ i.pc = "createCm"
        \/ kind = "cm" /\ i.pc = "claimRef" /\ j.pc \in {"createCm", "updateCm"}
    BY <1>3, <2>1 DEF AfterPc, CreatePc, UpdatePc, Kinds
  <2> HIDE DEF a, b
  <2>4. /\ ArtifactFor(b["secret"], j.obc.uid, j.name)
        /\ i.pc = "claimRef" => ArtifactFor(b["cm"], j.obc.uid, j.name)
    BY <1>2, <2>2, <2>3 DEF JobReady, Kinds
  <2>5. JobReady(i, ob[n], b, n)
    BY <1>4, <1>8, <2>1, <2>3, <2>4 DEF JobReady, Binding, Unbinding
  <2> QED
    BY <1>1, <2>2, <2>5, WorkerReady DEF b
<1>10. CASE UNCHANGED artifact /\ Continue(w, [j EXCEPT !.pc = UpdatePc[kind]])
  <2>1. /\ i.pc = UpdatePc[kind] /\ i.ob = j.ob /\ i.name = j.name /\ i.obc = j.obc
        /\ i.class = j.class /\ i.key = k
    BY <1>2, <1>10 DEF Continue, Job
  <2>2. \/ i.pc = "updateSecret"
        \/ i.pc = "updateCm" /\ j.pc \in {"createCm", "updateCm"}
    BY <1>3, <2>1 DEF CreatePc, UpdatePc, Kinds
  <2>3. JobReady(i, ob[n], a, n)
    BY <1>2, <1>4, <1>8, <2>1, <2>2 DEF JobReady, Binding, Unbinding
  <2> QED
    BY <1>1, <1>10, <2>3, ReadReady
<1>11. CASE UNCHANGED artifact /\ Requeue(w)
  <2>1. i.pc = "idle"
    BY <1>2, <1>11, IdleKey DEF Requeue
  <2> QED
    BY <1>1, <1>11, <2>1, ReadReady
<1>12. artifact[kind][k] # None => artifact[kind][k].deleted \in BOOLEAN
  BY <1>2 DEF Artifact
<1> QED
  BY <1>6, <1>9, <1>10, <1>11, <1>12 DEF CreateArtifact, UpdateArtifact

\* The OB.
LEMMA ObWriteReady ==
    ASSUME TypeInv, ClaimInv, NamesInv, ReadyInv, ObNamesUnique, ClassesKeepTheirBucket,
           NEW w \in Workers, CreateOb(w) \/ UpdateOb(w) \/ ObBound(w)
    PROVE  ReadyInv'
<1> DEFINE j == job[w]
           i == job'[w]
           k == j.key
           n == ObjectBucketName(k)
           o == obc[k]
           a == ArtifactsOf(artifact, k)
<1> USE DEF At
<1>1. WorkerStep(w) /\ UNCHANGED <<obc, artifact>>
  BY DEF WorkerStep, ProvisionStep, CreateOb, UpdateOb, ObBound, ReplaceOb
<1>2. /\ j \in Job /\ job \in [Workers -> Job] /\ JobShape(j) /\ j.pc # "idle" /\ k \in Keys
      /\ n \in ObNames /\ JobClaim(j, o) /\ JobReady(j, ob[n], a, n) /\ JobNames(j)
      /\ ob \in [ObNames -> ObjectBucket \cup {None}]
      /\ (o # None => ClaimReady(o, ob[n], a, n))
  BY <1>1, ProvisionStepJob, DeleteStepJob
  DEF TypeInv, ControllerInv, ClaimInv, NamesInv, ReadyInv, ClusterTypeOK, ObNames, WorkerStep
<1>3. j.pc \in {"createOb", "updateOb", "obBound"}
  BY DEF CreateOb, UpdateOb, ObBound, ReplaceOb
<1>4. /\ j.pc \in Binding /\ j.pc \in Supplied /\ j.pc \in Chosen /\ j.pc \in Held
      /\ j.pc \in Provisioning
  BY <1>3 DEF Binding, Supplied, Chosen, Held, Provisioning
<1>5. /\ SameClaim(o, j.obc) /\ o # None /\ j.ob.bucket = j.name /\ j.ob \in ObjectBucket
      /\ j.ob.user = k /\ (j.class.bucket # None => j.name = j.class.bucket)
      /\ j.ob.claim = o.uid /\ j.ob.class = j.obc.class /\ j.ob.policy = PolicyFor(j)
      /\ j.ob.phase \in {None, "Bound", "Released"} /\ j.ob.deleted \in BOOLEAN
  BY <1>2, <1>4, PcFacts DEF JobClaim, JobReady, SameClaim, JobShape, ObjectBucket
<1>6. o.ob # None => j.name = o.bucket
  BY <1>2, <1>4, <1>5, NameOfJob DEF ClaimReady
\* A new version of the OB, for the same bucket.
<1>7. ASSUME NEW new \in ObjectBucket, ob' = [ob EXCEPT ![n] = new], new.bucket = j.name,
             new.claim = j.ob.claim, new.class = j.ob.class, new.policy = j.ob.policy,
             new.user = k, o.phase = "Bound" /\ ~o.deleted => new.phase = "Bound",
             NEW pc \in {"obBound", "bindClaim"}, pc = "bindClaim" => new.phase = "Bound",
             i.pc = pc, i.ob = new, i.name = j.name, i.obc = j.obc, i.class = j.class, i.key = k
      PROVE  ReadyInv'
  <2>1. ob'[n] = new /\ new # None
    BY <1>2, <1>7, NoneAssumption
  <2>2. ClaimReady(o, new, a, n)
    BY <1>2, <1>5, <1>6, <1>7, <2>1 DEF ClaimReady
  <2>3. PolicyFor(i) = PolicyFor(j)
    BY <1>7 DEF PolicyFor
  <2>4. i.pc \in Binding /\ i.pc \in Supplied /\ i.pc \in Chosen /\ i.pc # "setBound"
    BY <1>7 DEF Binding, Supplied, Chosen
  <2>5. JobReady(i, new, a, n)
    BY <1>2, <1>4, <1>5, <1>7, <2>1, <2>3, <2>4 DEF JobReady, Unbinding
  <2> QED
    BY <1>1, <1>2, <2>1, <2>2, <2>5, WorkerReady
<1>8. CASE UNCHANGED ob /\ Requeue(w)
  <2>1. i.pc = "idle"
    BY <1>2, <1>8, IdleKey DEF Requeue
  <2> QED
    BY <1>1, <1>8, <2>1, ReadReady
<1>9. CASE CreateOb(w) /\ ob[n] # None
  <2>1. i = [j EXCEPT !.pc = "getCurrentOb"] /\ UNCHANGED ob
    BY <1>2, <1>9 DEF CreateOb, Continue
  <2>2. /\ i.pc = "getCurrentOb" /\ i.ob = j.ob /\ i.name = j.name /\ i.obc = j.obc
        /\ i.class = j.class /\ i.key = k
    BY <1>2, <2>1 DEF Job
  <2>3. PolicyFor(i) = PolicyFor(j)
    BY <2>2 DEF PolicyFor
  <2>4. i.pc \in Binding
    BY <2>2 DEF Binding
  <2>5. JobReady(i, ob[n], a, n)
    BY <1>2, <1>4, <1>5, <2>2, <2>3, <2>4 DEF JobReady, Unbinding
  <2> QED
    BY <1>1, <2>1, <2>5, ReadReady
<1>10. CASE CreateOb(w) /\ ob[n] = None
  <2>1. i = [j EXCEPT !.pc = "obBound"] /\ ob' = [ob EXCEPT ![n] = j.ob]
    BY <1>2, <1>10 DEF CreateOb, Continue
  <2>2. /\ i.pc = "obBound" /\ i.ob = j.ob /\ i.name = j.name /\ i.obc = j.obc
        /\ i.class = j.class /\ i.key = k
    BY <1>2, <2>1 DEF Job
  <2>3. ~(o.phase = "Bound" /\ ~o.deleted)
    BY <1>2, <1>5, <1>10 DEF ClaimReady
  <2> QED
    BY <1>5, <1>7, <2>1, <2>2, <2>3
<1>11. ASSUME NEW old, NEW new \in ObjectBucket, NEW pc, NEW next, ReplaceOb(w, pc, old, new, next),
              ~(UNCHANGED ob /\ Requeue(w))
       PROVE  /\ ob[n] = old /\ ob' = [ob EXCEPT ![n] = new]
              /\ i.pc = next /\ i.ob = new /\ i.name = j.name /\ i.obc = j.obc
              /\ i.class = j.class /\ i.key = k
  <2>1. /\ ob[n] = old /\ ob' = [ob EXCEPT ![n] = new]
        /\ i = [j EXCEPT !.pc = next, !.ob = new, !.base = None]
    BY <1>2, <1>11 DEF ReplaceOb, Continue
  <2> QED
    BY <1>2, <2>1 DEF Job
<1>12. CASE UpdateOb(w) /\ ~(UNCHANGED ob /\ Requeue(w))
  <2> DEFINE new == [j.ob EXCEPT !.phase = j.base.phase, !.deleted = j.base.deleted]
  <2>1. ReplaceOb(w, "updateOb", j.base, new, "obBound") /\ j.base \in ObjectBucket
    BY <1>2, <1>12 DEF UpdateOb, ReplaceOb, JobShape
  <2>2. j.base.phase \in {None, "Bound", "Released"} /\ j.base.deleted \in BOOLEAN
    BY <2>1 DEF ObjectBucket
  <2>3. new \in ObjectBucket
    BY <1>5, <2>2 DEF ObjectBucket
  <2>4. /\ new.bucket = j.name /\ new.claim = j.ob.claim /\ new.class = j.ob.class
        /\ new.policy = j.ob.policy /\ new.user = k /\ new.phase = j.base.phase
    BY <1>5, <2>2 DEF ObjectBucket
  <2> HIDE DEF new
  <2>5. /\ ob[n] = j.base /\ ob' = [ob EXCEPT ![n] = new]
        /\ i.pc = "obBound" /\ i.ob = new /\ i.name = j.name /\ i.obc = j.obc
        /\ i.class = j.class /\ i.key = k
    BY <1>11, <1>12, <2>1, <2>3
  <2>6. o.phase = "Bound" /\ ~o.deleted => new.phase = "Bound"
    BY <1>2, <1>5, <2>4, <2>5 DEF ClaimReady
  <2> QED
    BY <1>7, <2>3, <2>4, <2>5, <2>6
<1>13. CASE ObBound(w) /\ ~(UNCHANGED ob /\ Requeue(w))
  <2> DEFINE new == [j.ob EXCEPT !.phase = "Bound"]
  <2>1. ReplaceOb(w, "obBound", j.ob, new, "bindClaim")
    BY <1>13 DEF ObBound
  <2>2. new \in ObjectBucket
    BY <1>5 DEF ObjectBucket
  <2>3. /\ new.bucket = j.name /\ new.claim = j.ob.claim /\ new.class = j.ob.class
        /\ new.policy = j.ob.policy /\ new.user = k /\ new.phase = "Bound"
    BY <1>5 DEF ObjectBucket
  <2> HIDE DEF new
  <2>4. /\ ob[n] = j.ob /\ ob' = [ob EXCEPT ![n] = new]
        /\ i.pc = "bindClaim" /\ i.ob = new /\ i.name = j.name /\ i.obc = j.obc
        /\ i.class = j.class /\ i.key = k
    BY <1>11, <1>13, <2>1, <2>2
  <2> QED
    BY <1>7, <2>2, <2>3, <2>4
<1> QED
  BY <1>8, <1>9, <1>10, <1>12, <1>13

\* Cleanup: a claim that is being deleted promises no more than its bucket's name.
LEMMA DeleteStepReady ==
    ASSUME TypeInv, ClaimInv, ReadyInv, ObNamesUnique, NEW w \in Workers, DeleteStep(w)
    PROVE  ReadyInv'
<1> DEFINE j == job[w]
           i == job'[w]
           k == j.key
           n == ObjectBucketName(k)
           o == obc[k]
           a == ArtifactsOf(artifact, k)
           Searching == {"findCm", "findSecret"} \cup (Unbinding \ {"deleteOb"})
<1> USE DEF At
<1>1. /\ j \in Job /\ job \in [Workers -> Job] /\ JobShape(j) /\ j.pc # "idle" /\ k \in Keys
      /\ n \in ObNames /\ JobClaim(j, o) /\ JobReady(j, ob[n], a, n)
      /\ obc \in [Keys -> Claim \cup {None}]
      /\ ob \in [ObNames -> ObjectBucket \cup {None}]
      /\ (o # None => ClaimReady(o, ob[n], a, n)) /\ WorkerStep(w)
  BY DeleteStepJob
  DEF TypeInv, ControllerInv, ClaimInv, ReadyInv, ClusterTypeOK, ObNames, WorkerStep
<1>2. j.pc \in Deprovisioning /\ o # None /\ o.deleted /\ o \in Claim
  <2>1. j.pc \in Deprovisioning
    BY DEF DeleteStep, FindOb, FindCm, FindSecret, MarkReleased, ReplaceOb, GetObClass, Delete,
           Revoke, DropObFinalizer, DeleteOb, GetArtifact, DropFinalizer, GetClaimToRelease,
           DropClaimFinalizer, Deprovisioning, Unbinding
  <2> QED
    BY <1>1, <2>1 DEF JobClaim
<1>3. ASSUME i.pc \in Deprovisioning, i.pc \in Searching => i.ob = ob'[n]
      PROVE  JobReady(i, ob'[n], ArtifactsOf(artifact', k), n)
  BY <1>3
  DEF JobReady, Chosen, Supplied, Naming, Artifacts, Binding, Provisioning, Deprovisioning,
      Unbinding
<1>4. ASSUME obc'[k] = o, ob'[n] # None => ob[n] # None /\ ob'[n].bucket = ob[n].bucket,
             i.pc = "idle" \/ i.pc \in Deprovisioning,
             i.pc \in Searching => i.ob = ob'[n]
      PROVE  ReadyInv'
  <2>1. ClaimReady(o, ob'[n], ArtifactsOf(artifact', k), n)
    BY <1>1, <1>2, <1>4 DEF ClaimReady
  <2> QED
    BY <1>1, <1>3, <1>4, <2>1, WorkerReady
<1>5. /\ "findCm" \in Searching /\ "findSecret" \in Searching /\ "markReleased" \in Searching
      /\ "getObClass" \in Searching /\ "delete" \in Searching /\ "revoke" \in Searching
      /\ "dropObFinalizer" \in Searching /\ Searching \subseteq Deprovisioning
      /\ "deleteOb" \notin Searching /\ "release" \notin Searching
      /\ "dropFinalizer" \notin Searching /\ "dropClaimFinalizer" \notin Searching
      /\ {"deleteOb", "release", "dropFinalizer", "dropClaimFinalizer"} \subseteq Deprovisioning
      /\ "idle" \notin Searching
  BY DEF Unbinding, Deprovisioning
<1>6. j.pc \in Searching => j.ob = ob[n]
  BY <1>1 DEF JobReady
<1> HIDE DEF Searching
<1>7. CASE (FindOb(w) \/ FindCm(w) \/ FindSecret(w) \/ GetObClass(w) \/ Delete(w) \/ Revoke(w))
  <2>1. UNCHANGED <<obc, ob>>
    BY <1>7 DEF FindOb, FindCm, FindSecret, GetObClass, Delete, Revoke, kube
  <2>2. CASE FindOb(w)
    <3>1. i.pc = "findCm" /\ i.ob = ob[n]
      BY <1>1, <2>2 DEF FindOb, Continue, Job
    <3> QED
      BY <1>4, <1>5, <2>1, <3>1
  <2>3. CASE FindSecret(w) /\ Done(w)
    BY <1>1, <1>4, <1>5, <2>1, <2>3, IdleKey DEF Done
  <2>4. CASE FindSecret(w) /\ ~Done(w)
    <3> DEFINE pc == IF j.ob = None THEN "release" ELSE "markReleased"
               more == IfStored("secret", k)
    <3>1. /\ job' = [job EXCEPT ![w] = [j EXCEPT !.pc = pc, !.found = j.found \cup more]]
          /\ j.pc = "findSecret"
      BY <1>1, <2>4 DEF FindSecret, Continue
    <3>2. pc \in Deprovisioning
      BY <1>5
    <3> HIDE DEF pc, more
    <3>3. i.ob = j.ob /\ i.pc = pc
      BY <1>1, <3>1 DEF Job
    <3> QED
      BY <1>4, <1>5, <1>6, <2>1, <3>1, <3>2, <3>3
  <2>5. CASE FindCm(w)
    <3> DEFINE cm == IfStored("cm", k)
    <3>1. job' = [job EXCEPT ![w] = [j EXCEPT !.pc = "findSecret", !.found = cm]]
      BY <2>5 DEF FindCm, Continue
    <3>2. j.pc = "findCm"
      BY <2>5 DEF FindCm
    <3> HIDE DEF cm
    <3>3. i.ob = j.ob /\ i.pc = "findSecret"
      BY <1>1, <3>1 DEF Job
    <3> QED
      BY <1>4, <1>5, <1>6, <2>1, <3>2, <3>3
  <2>6. CASE GetObClass(w)
    <3> DEFINE pc == IF isNewBucket(j.ob) /\ j.ob.policy = "Delete" THEN "delete" ELSE "revoke"
    <3>1. job' = [job EXCEPT ![w] = [j EXCEPT !.pc = pc]]
      BY <2>6 DEF GetObClass, Continue
    <3>2. j.pc = "getObClass"
      BY <2>6 DEF GetObClass
    <3>3. pc \in Deprovisioning
      BY <1>5
    <3> HIDE DEF pc
    <3>4. i.ob = j.ob /\ i.pc = pc
      BY <1>1, <3>1 DEF Job
    <3> QED
      BY <1>4, <1>5, <1>6, <2>1, <3>2, <3>3, <3>4
  <2>7. CASE Delete(w) \/ Revoke(w)
    <3>1. job' = [job EXCEPT ![w].pc = "dropObFinalizer"]
      BY <2>7 DEF Delete, Revoke
    <3>2. j.pc \in {"delete", "revoke"}
      BY <2>7 DEF Delete, Revoke
    <3>3. i.ob = j.ob /\ i.pc = "dropObFinalizer"
      BY <1>1, <3>1 DEF Job
    <3> QED
      BY <1>4, <1>5, <1>6, <2>1, <3>2, <3>3
  <2> QED
    BY <1>7, <2>2, <2>3, <2>4, <2>5, <2>6, <2>7
<1>8. CASE MarkReleased(w)
  <2> DEFINE new == [j.ob EXCEPT !.phase = "Released"]
  <2>1. j.pc = "markReleased" /\ j.ob \in ObjectBucket /\ UNCHANGED obc
    BY <1>1, <1>8 DEF MarkReleased, ReplaceOb, JobShape, Unbinding
  <2>2. CASE Requeue(w) /\ UNCHANGED ob
    BY <1>1, <1>4, <1>5, <2>1, <2>2, IdleKey DEF Requeue
  <2>3. CASE ob[n] = j.ob /\ ob' = [ob EXCEPT ![n] = new]
             /\ Continue(w, [j EXCEPT !.pc = "getObClass", !.ob = new, !.base = None])
    <3>1. ob'[n] = new /\ new.bucket = ob[n].bucket /\ ob[n] # None
      BY <1>1, <2>1, <2>3, NoneAssumption DEF ObjectBucket
    <3>2. i.pc = "getObClass" /\ i.ob = new
      BY <1>1, <2>3 DEF Continue, Job
    <3> HIDE DEF new
    <3> QED
      BY <1>4, <1>5, <2>1, <3>1, <3>2
  <2> QED
    BY <1>8, <2>2, <2>3 DEF MarkReleased, ReplaceOb
<1>9. CASE DropObFinalizer(w)
  <2>1. j.pc = "dropObFinalizer" /\ j.ob \in ObjectBucket /\ UNCHANGED obc /\ j.ob = ob[n]
    BY <1>1, <1>5, <1>6, <1>9 DEF DropObFinalizer, JobShape, Unbinding
  <2>2. ob'[n] = removeFinalizer(j.ob) /\ i.pc = "deleteOb"
    BY <1>1, <1>9, <2>1 DEF DropObFinalizer, Job
  <2>3. removeFinalizer(j.ob) # None => removeFinalizer(j.ob).bucket = j.ob.bucket
    BY <2>1 DEF removeFinalizer, Stored, ObjectBucket
  <2> QED
    BY <1>4, <1>5, <2>1, <2>2, <2>3, NoneAssumption
<1>10. CASE DeleteOb(w)
  <2>1. UNCHANGED obc /\ i.pc = "release" /\ ob'[n] = IF ob[n] = None THEN None ELSE Deleting(ob[n])
    BY <1>1, <1>10 DEF DeleteOb, Job
  <2>2. ob[n] \in ObjectBucket /\ Deleting(ob[n]) # None => Deleting(ob[n]).bucket = ob[n].bucket
    BY DEF Deleting, Stored, ObjectBucket
  <2> QED
    BY <1>1, <1>4, <1>5, <2>1, <2>2
<1>11. CASE GetArtifact(w) \/ DropFinalizer(w)
  <2>1. UNCHANGED <<obc, ob>> /\ i.pc \in {"release", "dropFinalizer"}
    BY <1>1, <1>11 DEF GetArtifact, DropFinalizer, Released, Job, kube
  <2> QED
    BY <1>4, <1>5, <2>1
<1>12. CASE GetClaimToRelease(w)
  <2>1. UNCHANGED <<obc, ob>>
    BY <1>12 DEF GetClaimToRelease, kube
  <2>2. i.pc \in {"dropClaimFinalizer", "idle"}
    <3>1. i = IdleJob \/ i = [j EXCEPT !.pc = "dropClaimFinalizer", !.obc = o]
      BY <1>1, <1>12 DEF GetClaimToRelease, ContinueIfFound, Continue, Requeue
    <3>2. [j EXCEPT !.pc = "dropClaimFinalizer", !.obc = o].pc = "dropClaimFinalizer"
      BY <1>1 DEF Job
    <3> QED
      BY <3>1, <3>2, IdleKey
  <2> QED
    BY <1>4, <1>5, <2>1, <2>2
<1>13. CASE DropClaimFinalizer(w)
  <2>1. UNCHANGED <<ob, artifact>> /\ i = IdleJob
    BY <1>1, <1>13 DEF DropClaimFinalizer, Requeue
  <2>2. obc'[k] = o \/ (o = j.obc /\ obc'[k] = removeFinalizer(o))
    BY <1>1, <1>13 DEF DropClaimFinalizer
  <2>3. removeFinalizer(o) # None =>
            /\ removeFinalizer(o).ob = o.ob /\ removeFinalizer(o).bucket = o.bucket
            /\ removeFinalizer(o).class = o.class /\ removeFinalizer(o).phase = o.phase
            /\ removeFinalizer(o).deleted = o.deleted
    BY <1>2 DEF removeFinalizer, Stored, Claim
  <2>4. obc'[k] # None => ClaimReady(obc'[k], ob[n], a, n)
    BY <1>1, <1>2, <2>2, <2>3 DEF ClaimReady, Linked
  <2> QED
    BY <1>1, <2>1, <2>4, WorkerReady, IdleKey
<1> QED
  BY <1>7, <1>8, <1>9, <1>10, <1>11, <1>12, <1>13 DEF DeleteStep

\* Steps that leave the API objects alone, whoever takes them.
LEMMA JobsReady ==
    ASSUME ReadyInv, UNCHANGED <<obc, ob, artifact>>,
           \A w \in Workers :
               \/ job'[w] = job[w] \/ job'[w].pc = "idle"
               \/ LET n == ObjectBucketName(job'[w].key)
                  IN  JobReady(job'[w], ob[n], ArtifactsOf(artifact, job'[w].key), n)
    PROVE  ReadyInv'
BY DEF ReadyInv

LEMMA GetItemReady ==
    ASSUME TypeInv, ReadyInv, NEW w \in Workers, NEW k \in Keys, GetItem(w, k)
    PROVE  ReadyInv'
<1> DEFINE i == [IdleJob EXCEPT !.pc = "getClaim", !.key = k]
<1>1. /\ job \in [Workers -> Job] /\ job' = [job EXCEPT ![w] = i]
      /\ UNCHANGED <<obc, ob, artifact>>
  BY DEF TypeInv, ControllerInv, GetItem, kube
<1>2. i.pc = "getClaim"
  BY DEF IdleJob
<1> HIDE DEF i
<1>3. \A b, a, n : JobReady(i, b, a, n)
  BY <1>2
  DEF JobReady, Chosen, Supplied, Naming, Artifacts, Binding, Provisioning, Unbinding
<1> QED
  BY <1>1, <1>3, JobsReady

LEMMA FaultReady ==
    ASSUME TypeInv, ReadyInv, Fault
    PROVE  ReadyInv'
<1>1. job \in [Workers -> Job] /\ UNCHANGED <<obc, ob, artifact>>
  BY DEF TypeInv, ControllerInv, Fault, ProvisionError, DeprovisionError, ApiError, Crash, kube
<1>2. ASSUME NEW w \in Workers, ApiError(w)
      PROVE  ReadyInv'
  <2> DEFINE j == job[w]
             n == ObjectBucketName(j.key)
  <2>1. j \in Job /\ j.pc # "idle" /\ JobReady(j, ob[n], ArtifactsOf(artifact, j.key), n)
    BY <1>1, <1>2 DEF ApiError, ReadyInv
  <2>2. CASE Requeue(w)
    BY <1>1, <2>2, IdleKey, JobsReady DEF Requeue
  <2>3. CASE ~Requeue(w)
    <3>1. /\ job' = [job EXCEPT ![w] = job'[w]] /\ job'[w].key = j.key
          /\ \/ job'[w].pc = "release"
             \/ job'[w].pc = "revoke" /\ j.pc = "getObClass" /\ job'[w].ob = j.ob
      BY <1>1, <1>2, <2>1, <2>3 DEF ApiError, Continue, SkipOb, Released, Job
    <3>2. JobReady(job'[w], ob[n], ArtifactsOf(artifact, j.key), n)
      BY <2>1, <3>1
      DEF JobReady, Chosen, Supplied, Naming, Artifacts, Binding, Provisioning, Unbinding
    <3> QED
      BY <1>1, <3>1, <3>2, JobsReady
  <2> QED
    BY <2>2, <2>3
<1>3. CASE \A w \in Workers : ~ApiError(w)
  <2>1. \A w \in Workers : job'[w] = job[w] \/ job'[w] = IdleJob
    BY <1>1, <1>3 DEF Fault, ProvisionError, DeprovisionError, Crash, Requeue
  <2> QED
    BY <1>1, <2>1, IdleKey, JobsReady
<1> QED
  BY <1>2, <1>3

\* Users: a claim is created without an OB, edited or marked for deletion.
LEMMA UserReady ==
    ASSUME TypeInv, ReadyInv, UNCHANGED <<ob, artifact, job>>, NEW k \in Keys, NEW new,
           obc' = [obc EXCEPT ![k] = new],
           new # None =>
               LET n == ObjectBucketName(k)
               IN  ClaimReady(new, ob[n], ArtifactsOf(artifact, k), n)
    PROVE  ReadyInv'
<1>1. obc \in [Keys -> Claim \cup {None}]
  BY DEF TypeInv, ClusterTypeOK
<1>2. \A l \in Keys : obc'[l] = IF l = k THEN new ELSE obc[l]
  BY <1>1
<1> QED
  BY <1>2 DEF ReadyInv

\* The garbage collector leaves a stored claim's artifacts alone.
LEMMA CollectReady ==
    ASSUME TypeInv, ClaimInv, ReadyInv, NEW kind \in Kinds, NEW k \in Keys, Collect(kind, k),
           UNCHANGED job
    PROVE  ReadyInv'
<1> DEFINE x == artifact[kind][k]
<1>1. /\ artifact \in [Kinds -> [Keys -> Artifact \cup {None}]]
      /\ artifact' = [artifact EXCEPT ![kind][k] = Deleting(x)] /\ UNCHANGED <<obc, ob>>
      /\ (obc[k] # None => obc[k].uid # x.owner)
  BY DEF TypeInv, ClusterTypeOK, Collect
<1>2. ASSUME NEW l \in Keys, obc[l] # None, NEW y \in Kinds, NEW name,
             ArtifactFor(ArtifactsOf(artifact, l)[y], obc[l].uid, name)
      PROVE  ArtifactsOf(artifact', l)[y] = ArtifactsOf(artifact, l)[y]
  BY <1>1, <1>2 DEF ArtifactFor, ArtifactsOf
<1>3. ASSUME NEW l \in Keys, obc[l] # None
      PROVE  LET n == ObjectBucketName(l)
             IN  ClaimReady(obc[l], ob[n], ArtifactsOf(artifact', l), n)
  <2> DEFINE n == ObjectBucketName(l)
             a == ArtifactsOf(artifact, l)
             b == ArtifactsOf(artifact', l)
  <2>1. ClaimReady(obc[l], ob[n], a, n)
    BY <1>3 DEF ReadyInv
  <2>2. \A y \in Kinds : ArtifactFor(a[y], obc[l].uid, obc[l].bucket)
                         => ArtifactFor(b[y], obc[l].uid, obc[l].bucket)
    BY <1>2, <1>3
  <2> HIDE DEF a, b
  <2>3. ClaimReady(obc[l], ob[n], b, n)
    BY <2>1, <2>2 DEF ClaimReady
  <2> QED
    BY <2>3 DEF b
<1>4. ASSUME NEW w \in Workers, job[w].pc # "idle"
      PROVE  LET l == job[w].key
                 n == ObjectBucketName(l)
             IN  JobReady(job[w], ob[n], ArtifactsOf(artifact', l), n)
  <2> DEFINE j == job[w]
             l == j.key
             n == ObjectBucketName(l)
             a == ArtifactsOf(artifact, l)
             b == ArtifactsOf(artifact', l)
  <2>1. JobReady(j, ob[n], a, n) /\ JobClaim(j, obc[l]) /\ l \in Keys
    BY <1>4 DEF ReadyInv, ClaimInv, TypeInv, ControllerInv, JobShape
  <2>2. j.pc \in Held => obc[l] # None /\ obc[l].uid = j.obc.uid
    BY <2>1, PcFacts DEF JobClaim, SameClaim
  <2>3. ASSUME j.pc \in Held, NEW y \in Kinds, ArtifactFor(a[y], j.obc.uid, j.name)
        PROVE  ArtifactFor(b[y], j.obc.uid, j.name)
    BY <1>2, <2>1, <2>2, <2>3
  <2>4. {"createCm", "updateCm", "claimRef"} \cup Binding \subseteq Held
    BY PcFacts DEF Held, Provisioning, Artifacts
  <2> HIDE DEF a, b, j
  <2>5. JobReady(j, ob[n], b, n)
    BY <2>1, <2>3, <2>4 DEF JobReady, Kinds
  <2> QED
    BY <2>5 DEF b, j
<1> QED
  BY <1>1, <1>3, <1>4 DEF ReadyInv

LEMMA EnvironmentReady ==
    ASSUME TypeInv, ClaimInv, ReadyInv, EnvironmentStep
    PROVE  ReadyInv'
<1>1. obc \in [Keys -> Claim \cup {None}] /\ UNCHANGED job
  BY DEF TypeInv, ClusterTypeOK, EnvironmentStep
<1>2. ASSUME NEW k \in Keys, NEW r \in Requests, CreateClaim(k, r)
      PROVE  ReadyInv'
  <2> DEFINE new == [uid |-> spent.create + 1, deleted |-> FALSE, finalizer |-> FALSE,
                     class |-> r.class, bucket |-> r.bucket, generate |-> r.generate,
                     config |-> 0, ob |-> None, phase |-> None]
  <2>1. obc' = [obc EXCEPT ![k] = new] /\ new.ob = None /\ new.phase = None
    BY <1>2 DEF CreateClaim
  <2> HIDE DEF new
  <2>2. \A b, a, n : ClaimReady(new, b, a, n)
    BY <2>1, NoneAssumption DEF ClaimReady, Linked
  <2> QED
    BY <1>1, <1>2, <2>1, <2>2, UserReady DEF CreateClaim
<1>3. ASSUME NEW k \in Keys, DeleteClaim(k)
      PROVE  ReadyInv'
  <2> DEFINE new == Deleting(obc[k])
  <2>1. obc[k] \in Claim /\ obc[k] # None /\ obc' = [obc EXCEPT ![k] = new]
    BY <1>1, <1>3 DEF DeleteClaim
  <2>2. new # None => /\ new.ob = obc[k].ob /\ new.bucket = obc[k].bucket
                      /\ new.class = obc[k].class /\ new.phase = obc[k].phase
                      /\ new.deleted = TRUE
    BY <2>1 DEF Deleting, Stored, Claim
  <2> HIDE DEF new
  <2>3. ASSUME new # None
        PROVE  LET n == ObjectBucketName(k)
               IN  ClaimReady(new, ob[n], ArtifactsOf(artifact, k), n)
    BY <2>1, <2>2, <2>3 DEF ReadyInv, ClaimReady, Linked
  <2> QED
    BY <1>1, <1>3, <2>1, <2>3, UserReady DEF DeleteClaim
<1>4. ASSUME NEW k \in Keys, EditClaim(k)
      PROVE  ReadyInv'
  <2> DEFINE new == [obc[k] EXCEPT !.config = spent.edit + 1]
  <2>1. obc[k] \in Claim /\ obc[k] # None /\ obc' = [obc EXCEPT ![k] = new]
    BY <1>1, <1>4 DEF EditClaim
  <2>2. /\ new.ob = obc[k].ob /\ new.bucket = obc[k].bucket /\ new.class = obc[k].class
        /\ new.phase = obc[k].phase /\ new.deleted = obc[k].deleted /\ new.uid = obc[k].uid
    BY <2>1 DEF Claim
  <2> HIDE DEF new
  <2>3. LET n == ObjectBucketName(k)
        IN  ClaimReady(new, ob[n], ArtifactsOf(artifact, k), n)
    BY <2>1, <2>2 DEF ReadyInv, ClaimReady, Linked
  <2> QED
    BY <1>1, <1>4, <2>1, <2>3, UserReady DEF EditClaim
<1>5. ASSUME NEW k \in Keys, NEW kind \in Kinds, Collect(kind, k)
      PROVE  ReadyInv'
  BY <1>1, <1>5, CollectReady
<1>6. CASE UNCHANGED <<obc, ob, artifact>>
  BY <1>1, <1>6, JobsReady
<1> QED
  BY <1>2, <1>3, <1>4, <1>5, <1>6
  DEF EnvironmentStep, Environment, DeleteClass, CreateClass

LEMMA InitReady == Init => ReadyInv
BY IdleKey DEF Init, ClusterInit, ReadyInv

LEMMA NextReady ==
    ASSUME TypeInv, ClaimInv, NamesInv, ReadyInv, ObNamesUnique, ClassesKeepTheirBucket,
           [Next]_vars
    PROVE  ReadyInv'
<1>1. CASE \E w \in Workers : ProvisionStep(w)
  BY <1>1, ProvisionReadReady, ClaimWriteReady, ArtifactWriteReady, ObWriteReady
  DEF ProvisionStep
<1>2. CASE \E w \in Workers : DeleteStep(w)
  BY <1>2, DeleteStepReady
<1>3. CASE UNCHANGED vars
  BY <1>3, JobsReady DEF vars
<1> QED
  BY <1>1, <1>2, <1>3, GetItemReady, EnvironmentReady, FaultReady DEF Next, WorkerStep

LEMMA KeepsKind == ClassesKeepTheirBucket => ClassesKeepTheirKind
BY DEF ClassesKeepTheirBucket, ClassesKeepTheirKind

LEMMA ReadyInvariance ==
    ASSUME SingleProcess, ObNamesUnique, ClassesKeepTheirBucket
    PROVE  Spec => [](TypeInv /\ ClaimInv /\ NamesInv /\ ReadyInv)
<1>1. TypeInv /\ NamesInv /\ [Next]_vars => NamesInv'
  BY KeepsKind, NextNames
<1>2. TypeInv /\ ClaimInv /\ NamesInv /\ ReadyInv /\ [Next]_vars => ReadyInv'
  BY NextReady
<1>3. Spec => []ClaimInv
  BY ClaimInvariance
<1> QED
  BY <1>1, <1>2, <1>3, InitNames, InitReady, Invariance, PTL DEF Spec

-------------------------------------------------------------------------------
(* The object store: the inductive invariant.                              *)

\* The reclaim policy of the buckets made for a class, if it has only one.
ClassPolicy(c) ==
    IF Override[c] = None THEN (CHOOSE d \in ClassDefs[c] : TRUE).policy ELSE Override[c]

\* A policy, where policies are kept.
Kept(p) == IF ClassesKeepTheirPolicy THEN p ELSE None

\* Who has a bucket name, and the policy that goes with it: claims, jobs, OBs and
\* the buckets of the store.
ClaimRecord(o, k)  == <<o.bucket, k, Kept(ClassPolicy(o.class))>>
JobRecord(j)       == <<j.name, j.key, Kept(PolicyFor(j))>>
ObRecord(b, k)     == <<b.bucket, k, Kept(b.policy)>>
BucketRecord(n, x) == <<n, x.owner, Kept(x.policy)>>

Records ==
    {ClaimRecord(obc[k], k) : k \in {x \in Keys : obc[x] # None}}
    \cup {JobRecord(job[w]) : w \in {x \in Workers : job[x].pc \in Chosen}}
    \cup {ObRecord(ob[ObjectBucketName(k)], k) :
             k \in {x \in Keys : ob[ObjectBucketName(x)] # None}}
    \cup {BucketRecord(n, bucket[n]) : n \in {x \in Buckets : bucket[x] # None}}

\* A generated name belongs to one key.
OneHolder ==
    \A r, s \in Records : r[1] = s[1] /\ r[1] \in GenNames => r = s

AskedNames == {a[2] : a \in asked}

\* New buckets have generated names, others have not.
NameFits(name, c) == name \in GenNames <=> Greenfield(c)

\* The bucket called name is in the store bs, and the rights as let the user in.
Usable(bs, as, user, name) == bs[name] # None /\ <<user, name>> \in as

ClaimStore(o, k, bs, as) ==
    /\ o.bucket # None => NameFits(o.bucket, o.class)
    /\ o.phase = "Bound" /\ ~o.deleted => Usable(bs, as, k, o.bucket)

\* Below, names are those that Provision was ever asked for.
ObStore(b, k, names) ==
    /\ b.user = k /\ b.class \in Classes /\ NameFits(b.bucket, b.class)
    /\ b.bucket \in GenNames => b.bucket \in names

BucketStore(n, x, names) ==
    IF n \in GenNames THEN n \in names ELSE x.owner = None /\ x.policy = None

JobStore(j, bs, as, names) ==
    /\ j.pc \in Chosen => NameFits(j.name, j.obc.class)
    /\ j.pc \in Supplied =>
          /\ Usable(bs, as, j.key, j.name)
          /\ j.name \in GenNames => j.name \in names
    /\ j.pc = "delete" => j.ob.bucket \in GenNames /\ j.ob.policy = "Delete"

StoreInv ==
    /\ OneHolder
    /\ \A k \in Keys : obc[k] # None => ClaimStore(obc[k], k, bucket, access)
    /\ \A k \in Keys : ob[ObjectBucketName(k)] # None =>
                           ObStore(ob[ObjectBucketName(k)], k, AskedNames)
    /\ \A n \in Buckets : bucket[n] # None => BucketStore(n, bucket[n], AskedNames)
    /\ \A w \in Workers : JobStore(job[w], bucket, access, AskedNames)

-------------------------------------------------------------------------------
(* Steps that change the store.                                            *)

LEMMA StoreNames ==
    ASSUME GeneratedNames
    PROVE  /\ \A n \in GenNames : n \notin UserNames /\ n \in Buckets /\ n # None
           /\ None \notin GenNames
BY NoneAssumption DEF GeneratedNames, Buckets

LEMMA RecordFacts ==
    /\ \A k \in Keys : obc[k] # None => ClaimRecord(obc[k], k) \in Records
    /\ \A w \in Workers : job[w].pc \in Chosen => JobRecord(job[w]) \in Records
    /\ \A k \in Keys : ob[ObjectBucketName(k)] # None =>
                           ObRecord(ob[ObjectBucketName(k)], k) \in Records
    /\ \A n \in Buckets : bucket[n] # None => BucketRecord(n, bucket[n]) \in Records
BY DEF Records

\* What a worker with job j may do to the store.
StoreChange(j) ==
    \/ UNCHANGED store
    \/ /\ j.pc = "provision" /\ j.class.bucket = None
       /\ asked' = Asked(j)
       /\ DoProvision(j) \/ UNCHANGED <<bucket, access>>
    \/ /\ j.pc = "provision" /\ j.class.bucket # None
       /\ Granted(UserID(j.key), j.name)
       /\ UNCHANGED <<bucket, asked>>
    \/ /\ j.pc = "delete"
       /\ Removed(j.ob.bucket)
       /\ UNCHANGED asked
    \/ /\ j.pc = "revoke"
       /\ Revoked(j.ob.user, j.ob.bucket)
       /\ UNCHANGED <<bucket, asked>>

LEMMA WorkerStoreChange ==
    ASSUME NEW w \in Workers, WorkerStep(w) \/ ProvisionError(w) \/ DeprovisionError(w)
    PROVE  StoreChange(job[w])
<1> USE DEF At, StoreChange, store
<1>1. CASE Provision(w) \/ Grant(w)
  BY <1>1 DEF Provision, Grant
<1>2. CASE Delete(w) \/ Revoke(w)
  BY <1>2 DEF Delete, Revoke
<1>3. CASE ProvisionError(w) \/ DeprovisionError(w)
  BY <1>3 DEF ProvisionError, DeprovisionError
<1>4. CASE WorkerStep(w) /\ ~(Provision(w) \/ Grant(w) \/ Delete(w) \/ Revoke(w))
  BY <1>4
  DEF WorkerStep, ProvisionStep, DeleteStep, GetClaim, GetClass, SetPending, SetMeta, GetOb,
      SaveName, CreateArtifact, UpdateArtifact, ClaimRef, CreateOb, GetCurrentOb, UpdateOb,
      ObBound, ReplaceOb, BindClaim, SetBound, UpdateClaim, FindOb, FindCm, FindSecret,
      MarkReleased, GetObClass, DropObFinalizer, DeleteOb, GetArtifact, DropFinalizer,
      GetClaimToRelease, DropClaimFinalizer
<1> QED
  BY <1>1, <1>2, <1>3, <1>4

LEMMA NewBucket ==
    ASSUME NEW j \in Job, JobShape(j), j.pc = "provision"
    PROVE  [owner |-> j.key, config |-> j.obc.config, policy |-> PolicyFor(j)] \in StoreBucket
<1>1. j.obc \in Claim /\ j.key \in Keys
  BY DEF JobShape, Naming
<1>2. PolicyFor(j) \in Policies \cup {None}
  BY <1>1, ConstantsAssumption DEF PolicyFor, Claim, JobShape, Naming, ClassDef
<1> QED
  BY <1>1, <1>2 DEF StoreBucket, Claim

\* What the others keep: no name on record for somebody else is deleted, nor is
\* anybody else's right revoked.
LEMMA StoreEffect ==
    ASSUME TypeInv, ClaimInv, NamesInv, ReadyInv, StoreInv, GeneratedNames, ClassesKeepTheirBucket,
           NEW w \in Workers, job[w].pc # "idle", StoreChange(job[w])
    PROVE  /\ AskedNames \subseteq AskedNames'
           /\ \A n \in Buckets : bucket'[n] # None =>
                  /\ BucketStore(n, bucket'[n], AskedNames')
                  /\ BucketRecord(n, bucket'[n]) \in Records
           /\ \A l \in Keys, n \in Buckets :
                  /\ l # job[w].key \/ job[w].pc \notin {"delete", "revoke"}
                  /\ n \in GenNames => \E p : <<n, l, p>> \in Records
                  /\ Usable(bucket, access, l, n)
                  => Usable(bucket', access', l, n)
<1> DEFINE j == job[w]
           k == j.key
           m == ObjectBucketName(k)
           Keeps == \A l \in Keys, n \in Buckets :
                       /\ l # k \/ j.pc \notin {"delete", "revoke"}
                       /\ n \in GenNames => \E p : <<n, l, p>> \in Records
                       /\ Usable(bucket, access, l, n)
                       => Usable(bucket', access', l, n)
           Buys == \A n \in Buckets : bucket'[n] # None =>
                      /\ BucketStore(n, bucket'[n], AskedNames')
                      /\ BucketRecord(n, bucket'[n]) \in Records
<1>1. /\ j \in Job /\ JobShape(j) /\ k \in Keys /\ JobNames(j)
      /\ JobReady(j, ob[m], ArtifactsOf(artifact, k), m)
      /\ JobStore(j, bucket, access, AskedNames)
      /\ bucket \in [Buckets -> StoreBucket \cup {None}]
  BY DEF TypeInv, ControllerInv, JobShape, NamesInv, ReadyInv, StoreInv, ClusterTypeOK
<1>2. AskedNames \subseteq AskedNames'
  BY DEF StoreChange, Asked, AskedNames, store
<1>3. \A n \in Buckets : bucket[n] # None =>
          BucketStore(n, bucket[n], AskedNames') /\ BucketRecord(n, bucket[n]) \in Records
  BY <1>2, RecordFacts DEF StoreInv, BucketStore
<1>4. \A n \in GenNames : \A l \in Keys : \A q :
         <<n, l, q>> \in Records /\ (\E p : <<n, k, p>> \in Records) => l = k
  BY DEF StoreInv, OneHolder
<1> HIDE DEF Keeps, Buys
<1>5. CASE UNCHANGED store
  BY <1>2, <1>3, <1>5 DEF store
<1>6. CASE j.pc = "provision" /\ j.class.bucket = None /\ asked' = Asked(j)
           /\ (DoProvision(j) \/ UNCHANGED <<bucket, access>>)
  <2>1. CASE UNCHANGED <<bucket, access>>
    BY <1>2, <1>3, <2>1
  <2>2. CASE DoProvision(j)
    <3> DEFINE new == [owner |-> k, config |-> j.obc.config, policy |-> PolicyFor(j)]
    <3>1. /\ bucket' = [bucket EXCEPT ![j.name] = new]
          /\ access' = access \cup {<<k, j.name>>}
      BY <2>2 DEF DoProvision, Provisioned, UserID
    <3>2. j.pc \in Chosen /\ j.name \in Buckets /\ j.obc \in Claim
      BY <1>1, <1>6 DEF Chosen, Naming, JobShape
    <3>3. new \in StoreBucket
      BY <1>1, <1>6, NewBucket
    <3>4. JobRecord(j) = BucketRecord(j.name, new) /\ JobRecord(j) \in Records
      BY <3>2, RecordFacts DEF JobRecord, BucketRecord
    <3>5. j.name \in GenNames
      <4>1. j.class \in ClassDefs[j.obc.class]
        BY <1>1, <1>6 DEF JobNames, Naming
      <4>2. Greenfield(j.obc.class)
        BY <1>6, <3>2, <4>1 DEF ClassesKeepTheirBucket, Greenfield, Claim
      <4> QED
        BY <1>1, <3>2, <4>2 DEF JobStore, NameFits
    <3>6. j.name \in AskedNames'
      <4>1. <<j.obc.uid, j.name>> \in asked' /\ <<j.obc.uid, j.name>>[2] = j.name
        BY <1>6 DEF Asked
      <4> QED
        BY <4>1 DEF AskedNames
    <3> HIDE DEF new
    <3>7. new # None
      BY <3>3, NoneAssumption
    <3>8. bucket'[j.name] = new /\ \A n \in Buckets : n # j.name => bucket'[n] = bucket[n]
      BY <1>1, <3>1, <3>2
    <3>9. Buys
      BY <1>3, <3>4, <3>5, <3>6, <3>8 DEF Buys, BucketStore
    <3>10. Keeps
      BY <3>1, <3>7, <3>8 DEF Keeps, Usable
    <3> QED
      BY <1>2, <3>9, <3>10 DEF Buys, Keeps
  <2> QED
    BY <1>2, <1>6, <2>1, <2>2 DEF Buys, Keeps
<1>7. CASE Granted(UserID(j.key), j.name) /\ UNCHANGED <<bucket, asked>>
  BY <1>2, <1>3, <1>7 DEF Granted, Usable
\* The OB the job deletes by is the stored one.
<1>8. ASSUME j.pc \in {"delete", "revoke"}
      PROVE  /\ j.ob = ob[m] /\ j.ob # None /\ j.ob.user = k
             /\ ObRecord(j.ob, k) \in Records
  <2>1. j.ob = ob[m] /\ j.ob # None
    BY <1>1, <1>8, NoneAssumption DEF JobReady, Unbinding, JobShape
  <2> QED
    BY <1>1, <2>1, RecordFacts DEF StoreInv, ObStore
<1>9. CASE j.pc = "delete" /\ Removed(j.ob.bucket) /\ UNCHANGED asked
  <2>1. j.ob.bucket \in GenNames
    BY <1>1, <1>9 DEF JobStore
  <2>2. /\ bucket' = [bucket EXCEPT ![j.ob.bucket] = None]
        /\ access' = {a \in access : a[2] # j.ob.bucket}
    BY <1>9 DEF Removed
  <2>3. \A n \in Buckets : bucket'[n] = IF n = j.ob.bucket THEN None ELSE bucket[n]
    BY <1>1, <2>2
  <2>4. Buys
    BY <1>3, <2>3 DEF Buys
  <2>5. \A n \in Buckets, l \in Keys : \A p : n = j.ob.bucket /\ <<n, l, p>> \in Records => l = k
    BY <1>4, <1>8, <1>9, <2>1 DEF ObRecord
  <2>6. ASSUME NEW l \in Keys, NEW n \in Buckets, l # k,
               n \in GenNames => \E p : <<n, l, p>> \in Records,
               Usable(bucket, access, l, n)
        PROVE  Usable(bucket', access', l, n)
    <3>1. n # j.ob.bucket
      BY <2>1, <2>5, <2>6
    <3> QED
      BY <2>2, <2>3, <2>6, <3>1 DEF Usable
  <2>7. Keeps
    BY <1>9, <2>6 DEF Keeps
  <2> QED
    BY <1>2, <2>4, <2>7 DEF Buys, Keeps
<1>10. CASE j.pc = "revoke" /\ Revoked(j.ob.user, j.ob.bucket) /\ UNCHANGED <<bucket, asked>>
  <2>1. access' = access \ {<<k, j.ob.bucket>>}
    BY <1>8, <1>10 DEF Revoked
  <2>2. Keeps
    BY <1>10, <2>1 DEF Keeps, Usable
  <2>3. Buys
    BY <1>3, <1>10 DEF Buys
  <2> QED
    BY <1>2, <2>2, <2>3 DEF Buys, Keeps
<1> QED
  BY <1>2, <1>5, <1>6, <1>7, <1>9, <1>10 DEF StoreChange, Buys, Keeps

\* A record that takes no generated name from anybody: it was there, or it is the
\* record new, and nobody had its name.
Settled(r, new) ==
    \/ r \in Records
    \/ r[1] \notin GenNames
    \/ r = new /\ \A s \in Records : s[1] # r[1]

LEMMA HolderStep ==
    ASSUME OneHolder, NEW new, \A r \in Records' : Settled(r, new)
    PROVE  OneHolder'
<1> SUFFICES ASSUME NEW r \in Records', NEW s \in Records', r[1] = s[1], r[1] \in GenNames
             PROVE  r = s
  BY DEF OneHolder
<1>1. /\ r \in Records \/ (r = new /\ \A t \in Records : t[1] # r[1])
      /\ s \in Records \/ (s = new /\ \A t \in Records : t[1] # s[1])
  BY DEF Settled
<1> QED
  BY <1>1 DEF OneHolder

\* A step of worker w, or of the provisioner for it: what remains to be shown is
\* what becomes of its own claim, OB and job.
LEMMA StoreStep ==
    ASSUME TypeInv, ClaimInv, NamesInv, ReadyInv, StoreInv, GeneratedNames,
           ClassesKeepTheirBucket, NEW w \in Workers, job[w].pc # "idle", StoreChange(job[w]),
           job' = [job EXCEPT ![w] = job'[w]],
           \A l \in Keys : l # job[w].key =>
               obc'[l] = obc[l] /\ ob'[ObjectBucketName(l)] = ob[ObjectBucketName(l)],
           NEW new,
           LET k == job[w].key
               b == ob'[ObjectBucketName(k)]
           IN  /\ obc'[k] # None => /\ ClaimStore(obc'[k], k, bucket', access')
                                    /\ Settled(ClaimRecord(obc'[k], k), new)
               /\ b # None => ObStore(b, k, AskedNames') /\ Settled(ObRecord(b, k), new)
               /\ JobStore(job'[w], bucket', access', AskedNames')
               /\ job'[w].pc \in Chosen => Settled(JobRecord(job'[w]), new)
    PROVE  StoreInv'
<1> DEFINE k == job[w].key
           N(l) == ObjectBucketName(l)
<1>1. k \in Keys /\ job'[w] = job'[w] /\ \A v \in Workers : v # w => job'[v] = job[v]
  BY DEF TypeInv, ControllerInv, JobShape
<1>2. /\ AskedNames \subseteq AskedNames'
      /\ \A n \in Buckets : bucket'[n] # None =>
             /\ BucketStore(n, bucket'[n], AskedNames')
             /\ BucketRecord(n, bucket'[n]) \in Records
      /\ \A l \in Keys, n \in Buckets :
             /\ l # k
             /\ n \in GenNames => \E p : <<n, l, p>> \in Records
             /\ Usable(bucket, access, l, n)
             => Usable(bucket', access', l, n)
  BY StoreEffect
<1>3. \A v \in Workers : v # w /\ job[v].pc # "idle" => job[v].key \in Keys /\ job[v].key # k
  BY <1>1, NoneAssumption DEF ClaimInv, Apart, TypeInv, ControllerInv, JobShape
<1>4. ASSUME NEW r \in Records'
      PROVE  Settled(r, new)
  <2>1. ASSUME NEW l \in Keys, obc'[l] # None, r = ClaimRecord(obc'[l], l)
        PROVE  Settled(r, new)
    BY <2>1, RecordFacts DEF Settled
  <2>2. ASSUME NEW v \in Workers, job'[v].pc \in Chosen, r = JobRecord(job'[v])
        PROVE  Settled(r, new)
    BY <1>1, <2>2, RecordFacts DEF Settled
  <2>3. ASSUME NEW l \in Keys, ob'[N(l)] # None, r = ObRecord(ob'[N(l)], l)
        PROVE  Settled(r, new)
    BY <2>3, RecordFacts DEF Settled
  <2>4. ASSUME NEW n \in Buckets, bucket'[n] # None, r = BucketRecord(n, bucket'[n])
        PROVE  Settled(r, new)
    BY <1>2, <2>4 DEF Settled
  <2> QED
    BY <2>1, <2>2, <2>3, <2>4 DEF Records
<1>5. OneHolder'
  BY <1>4, HolderStep DEF StoreInv
<1>6. ASSUME NEW l \in Keys, obc'[l] # None
      PROVE  ClaimStore(obc'[l], l, bucket', access')
  <2>1. CASE l = k
    BY <1>6, <2>1
  <2>2. CASE l # k
    <3> DEFINE o == obc[l]
    <3>1. obc'[l] = o /\ o \in Claim /\ ClaimStore(o, l, bucket, access)
      BY <1>6, <2>2 DEF TypeInv, ClusterTypeOK, StoreInv
    <3>2. o.phase = "Bound" => o.bucket \in Buckets
      BY <1>6, <3>1 DEF ReadyInv, ClaimReady, Linked, Claim
    <3>3. \E p : <<o.bucket, l, p>> \in Records
      BY <1>6, <3>1, RecordFacts DEF ClaimRecord
    <3> QED
      BY <1>2, <2>2, <3>1, <3>2, <3>3 DEF ClaimStore
  <2> QED
    BY <2>1, <2>2
<1>7. ASSUME NEW l \in Keys, ob'[N(l)] # None
      PROVE  ObStore(ob'[N(l)], l, AskedNames')
  BY <1>2, <1>7 DEF StoreInv, ObStore
<1>8. ASSUME NEW v \in Workers
      PROVE  JobStore(job'[v], bucket', access', AskedNames')
  <2>1. CASE v = w
    BY <2>1
  <2>2. CASE v # w
    <3> DEFINE j == job[v]
    <3>1. job'[v] = j /\ JobStore(j, bucket, access, AskedNames) /\ JobShape(j)
      BY <1>1, <2>2 DEF StoreInv, TypeInv, ControllerInv
    <3>2. CASE j.pc \in Supplied
      <4>1. j.pc \in Chosen /\ j.pc # "idle" /\ j.name \in Buckets
        BY <3>1, <3>2 DEF Chosen, Supplied, JobShape, Artifacts, Binding
      <4>2. \E p : <<j.name, j.key, p>> \in Records
        BY <4>1, RecordFacts DEF JobRecord
      <4>3. Usable(bucket', access', j.key, j.name)
        BY <1>2, <1>3, <2>2, <3>1, <3>2, <4>1, <4>2 DEF JobStore
      <4> QED
        BY <1>2, <3>1, <3>2, <4>3 DEF JobStore
    <3>3. CASE j.pc \notin Supplied
      BY <3>1, <3>3 DEF JobStore
    <3> QED
      BY <3>2, <3>3
  <2> QED
    BY <2>1, <2>2
<1> QED
  BY <1>2, <1>5, <1>6, <1>7, <1>8 DEF StoreInv

\* A later version of a claim that asks no more of the store, and one of an OB that
\* says the same about it.
NoMore(o, new) ==
    /\ o # None /\ new.bucket = o.bucket /\ new.class = o.class
    /\ new.phase = "Bound" /\ ~new.deleted => o.phase = "Bound" /\ ~o.deleted

SameOb(b, new) ==
    /\ b # None /\ new.bucket = b.bucket /\ new.user = b.user
    /\ new.class = b.class /\ new.policy = b.policy

LEMMA WorkerStore ==
    ASSUME TypeInv, ClaimInv, NamesInv, ReadyInv, StoreInv, GeneratedNames, ObNamesUnique,
           ClassesKeepTheirBucket, NEW w \in Workers,
           WorkerStep(w) \/ ProvisionError(w) \/ DeprovisionError(w), NEW new,
           LET k == job[w].key
               b == ob'[ObjectBucketName(k)]
           IN  /\ obc'[k] # None =>
                      \/ NoMore(obc[k], obc'[k])
                      \/ /\ ClaimStore(obc'[k], k, bucket', access')
                         /\ Settled(ClaimRecord(obc'[k], k), new)
               /\ b # None =>
                      \/ SameOb(ob[ObjectBucketName(k)], b)
                      \/ ObStore(b, k, AskedNames') /\ Settled(ObRecord(b, k), new)
               /\ JobStore(job'[w], bucket', access', AskedNames')
               /\ job'[w].pc \in Chosen => Settled(JobRecord(job'[w]), new)
    PROVE  StoreInv'
<1> DEFINE j == job[w]
           k == j.key
           n == ObjectBucketName(k)
<1>1. StoreChange(j)
  BY WorkerStoreChange
<1>3. /\ j.pc # "idle" /\ k \in Keys
      /\ job' = [job EXCEPT ![w] = job'[w]]
      /\ \A l \in Keys : l # k =>
             obc'[l] = obc[l] /\ ob'[ObjectBucketName(l)] = ob[ObjectBucketName(l)]
  <2>1. CASE WorkerStep(w)
    BY <2>1, ProvisionStepJob, DeleteStepJob, StepFrame DEF WorkerStep
  <2>2. CASE ProvisionError(w) \/ DeprovisionError(w)
    BY <2>2 DEF ProvisionError, DeprovisionError, Requeue, kube, At, TypeInv, ControllerInv,
                JobShape
  <2> QED
    BY <2>1, <2>2
<1>4. ASSUME obc'[k] # None, NoMore(obc[k], obc'[k])
      PROVE  /\ ClaimStore(obc'[k], k, bucket', access')
             /\ Settled(ClaimRecord(obc'[k], k), new)
  <2> DEFINE o == obc[k]
  <2>1. o \in Claim /\ ClaimStore(o, k, bucket, access) /\ ClaimRecord(o, k) \in Records
    BY <1>3, <1>4, RecordFacts DEF NoMore, TypeInv, ClusterTypeOK, StoreInv
  <2>2. ClaimRecord(obc'[k], k) = ClaimRecord(o, k)
    BY <1>4 DEF NoMore, ClaimRecord
  <2>3. ASSUME obc'[k].phase = "Bound", ~obc'[k].deleted
        PROVE  Usable(bucket', access', k, o.bucket)
    <3>1. o.phase = "Bound" /\ ~o.deleted /\ o # None
      BY <1>4, <2>3 DEF NoMore
    <3>2. o.bucket \in Buckets
      BY <1>3, <2>1, <3>1 DEF ReadyInv, ClaimReady, Linked, Claim
    <3>3. j.pc \notin {"delete", "revoke"}
      BY <1>3, <3>1 DEF ClaimInv, JobClaim, Deprovisioning, Unbinding
    <3>4. \E p : <<o.bucket, k, p>> \in Records
      BY <2>1 DEF ClaimRecord
    <3>5. Usable(bucket, access, k, o.bucket)
      BY <2>1, <3>1 DEF ClaimStore
    <3> QED
      BY <1>1, <1>3, <3>2, <3>3, <3>4, <3>5, StoreEffect
  <2>4. ClaimStore(obc'[k], k, bucket', access')
    BY <1>4, <2>1, <2>3 DEF ClaimStore, NoMore
  <2> QED
    BY <2>1, <2>2, <2>4 DEF Settled
<1>5. ASSUME SameOb(ob[n], ob'[n])
      PROVE  ObStore(ob'[n], k, AskedNames') /\ Settled(ObRecord(ob'[n], k), new)
  <2>1. ObStore(ob[n], k, AskedNames) /\ ObRecord(ob[n], k) \in Records
    BY <1>3, <1>5, RecordFacts DEF SameOb, StoreInv
  <2>2. ObRecord(ob'[n], k) = ObRecord(ob[n], k)
    BY <1>5 DEF SameOb, ObRecord
  <2>3. AskedNames \subseteq AskedNames'
    BY <1>1, <1>3, StoreEffect
  <2> QED
    BY <1>5, <2>1, <2>2, <2>3 DEF Settled, ObStore, SameOb
<1> QED
  BY <1>1, <1>3, <1>4, <1>5, StoreStep

\* A job that has chosen no bucket, or is past it, needs nothing of the store.
LEMMA NoNeeds ==
    ASSUME NEW j, NEW bs, NEW as, NEW names, j.pc \notin Chosen, j.pc # "delete"
    PROVE  JobStore(j, bs, as, names)
BY DEF JobStore, Chosen

LEMMA IdleNeeds == IdleJob.pc \notin Chosen /\ IdleJob.pc # "delete"
BY DEF IdleJob, Chosen, Supplied, Naming, Artifacts, Binding

\* Reclaim policies, where they are kept, are those of the class.
LEMMA PolicyOfJob ==
    ASSUME NEW j, j.obc \in Claim, j.class \in ClassDefs[j.obc.class]
    PROVE  Kept(PolicyFor(j)) = Kept(ClassPolicy(j.obc.class))
<1> DEFINE c == j.obc.class
           d == CHOOSE e \in ClassDefs[c] : TRUE
<1>1. c \in Classes /\ d \in ClassDefs[c]
  BY DEF Claim
<1> HIDE DEF d
<1>2. ClassesKeepTheirPolicy => d.policy = j.class.policy
  BY <1>1 DEF ClassesKeepTheirPolicy
<1> QED
  BY <1>2 DEF Kept, PolicyFor, ClassPolicy, d

\* The first steps of a job, up to the choice of its bucket's name.
LEMMA ChooseStore ==
    ASSUME TypeInv, ClaimInv, NamesInv, ReadyInv, StoreInv, GeneratedNames, ObNamesUnique,
           ClassesKeepTheirBucket, NEW w \in Workers,
           GetClaim(w) \/ GetClass(w) \/ SetPending(w) \/ SetMeta(w) \/ GetOb(w)
    PROVE  StoreInv'
<1> DEFINE j == job[w]
           i == job'[w]
           k == j.key
           n == ObjectBucketName(k)
           o == obc[k]
<1> USE DEF At
<1>1. WorkerStep(w) /\ UNCHANGED <<ob, store>>
  BY DEF WorkerStep, ProvisionStep, GetClaim, GetClass, SetPending, SetMeta, GetOb, UpdateClaim,
         kube
<1>2. /\ j \in Job /\ job \in [Workers -> Job] /\ JobShape(j) /\ j.pc # "idle" /\ k \in Keys
      /\ JobClaim(j, o) /\ JobNames(j) /\ obc \in [Keys -> Claim \cup {None}]
      /\ (o # None => ClaimStore(o, k, bucket, access))
  BY <1>1, ProvisionStepJob, DeleteStepJob
  DEF TypeInv, ControllerInv, ClaimInv, NamesInv, StoreInv, ClusterTypeOK, WorkerStep
<1>3. \A b : b # None => SameOb(b, b)
  BY DEF SameOb
<1>4. o # None => NoMore(o, o)
  BY DEF NoMore
<1>5. ASSUME obc'[k] # None => NoMore(o, obc'[k]), i.pc \notin Chosen, i.pc # "delete"
      PROVE  StoreInv'
  BY <1>1, <1>3, <1>5, NoNeeds, WorkerStore
<1>6. \A pc \in {"getClass", "setPending", "setMeta", "getOb", "findOb"} :
         pc \notin Chosen /\ pc # "delete"
  BY DEF Chosen, Supplied, Naming, Artifacts, Binding
<1>7. CASE UNCHANGED obc /\ (Requeue(w) \/ Done(w))
  BY <1>2, <1>4, <1>5, <1>7, IdleNeeds DEF Requeue, Done
<1>8. CASE GetClaim(w) /\ ~Done(w)
  <2>1. i = [j EXCEPT !.pc = "getClass", !.obc = o] /\ UNCHANGED obc
    BY <1>2, <1>8 DEF GetClaim, claimForKey, Continue, kube
  <2>2. i.pc = "getClass"
    BY <1>2, <2>1 DEF Job
  <2> QED
    BY <1>4, <1>5, <1>6, <2>1, <2>2
<1>9. CASE GetClass(w) /\ ~Done(w) /\ ~Requeue(w)
  <2> DEFINE pc == AfterClass(j.obc)
             c == storageClassForClaim(j.obc)
  <2>1. i = [j EXCEPT !.pc = pc, !.class = c] /\ j.pc = "getClass" /\ UNCHANGED obc
    BY <1>2, <1>9 DEF GetClass, Continue, kube
  <2>2. pc \in {"findOb", "setPending", "setMeta"}
    BY <1>2, <2>1 DEF AfterClass, JobShape, Claim
  <2> HIDE DEF pc
  <2>3. i.pc = pc
    BY <1>2, <2>1 DEF Job
  <2> QED
    BY <1>4, <1>5, <1>6, <2>1, <2>2, <2>3
<1>10. CASE (SetPending(w) \/ SetMeta(w)) /\ ~(UNCHANGED obc /\ Requeue(w))
  <2> DEFINE new1 == [j.obc EXCEPT !.phase = "Pending"]
             new2 == addFinalizers(j.obc)
  <2>1. \/ obc'[k] = new1 /\ i = [j EXCEPT !.pc = "setMeta", !.obc = new1] /\ o = j.obc
        \/ obc'[k] = new2 /\ i = [j EXCEPT !.pc = "getOb", !.obc = new2] /\ o = j.obc
    BY <1>2, <1>10 DEF SetPending, SetMeta, UpdateClaim
  <2>2. j.obc \in Claim
    BY <1>2, <1>10 DEF SetPending, SetMeta, UpdateClaim, JobShape
  <2>3. /\ new1.bucket = j.obc.bucket /\ new1.class = j.obc.class /\ new1.phase = "Pending"
        /\ new2.bucket = j.obc.bucket /\ new2.class = j.obc.class /\ new2.phase = j.obc.phase
        /\ new2.deleted = j.obc.deleted
    BY <2>2 DEF Claim, addFinalizers
  <2> HIDE DEF new1, new2
  <2>4. i.pc \in {"setMeta", "getOb"}
    BY <1>2, <2>1 DEF Job
  <2>5. NoMore(o, obc'[k])
    BY <2>1, <2>2, <2>3, NoneAssumption DEF NoMore
  <2> QED
    BY <1>5, <1>6, <2>4, <2>5
<1>11. CASE GetOb(w) /\ ~Requeue(w)
  <2> DEFINE pc == IF j.obc.bucket = None THEN "saveName" ELSE "provision"
  <2>1. PICK name \in NamesFor(j.class, j.obc) : i = [j EXCEPT !.pc = pc, !.name = name]
    BY <1>2, <1>11 DEF GetOb, Continue
  <2>2. pc \in {"saveName", "provision"} /\ j.pc = "getOb" /\ UNCHANGED <<obc, access, bucket, asked>>
    BY <1>1, <1>11 DEF GetOb, kube, store
  <2> HIDE DEF pc
  <2>3. i.pc = pc /\ i.name = name /\ i.obc = j.obc /\ i.class = j.class /\ i.key = k
    BY <1>2, <2>1 DEF Job
  <2>4. SameClaim(o, j.obc) /\ o # None /\ j.obc \in Claim /\ j.class \in ClassDefs[j.obc.class]
    BY <1>2, <2>2 DEF JobClaim, Held, Provisioning, SameClaim, JobShape, JobNames
  <2>5. JobRecord(i) = <<name, k, Kept(ClassPolicy(o.class))>>
    BY <2>3, <2>4, PolicyOfJob DEF JobRecord, SameClaim, PolicyFor
  \* The class's name, the claim's or a fresh one.
  <2>6. NameFits(name, j.obc.class) /\ Settled(JobRecord(i), JobRecord(i))
    <3>1. CASE j.class.bucket # None
      <4>1. name = j.class.bucket
        BY <3>1 DEF NamesFor
      <4>2. name \in UserNames /\ ~Greenfield(j.obc.class)
        BY <2>4, <3>1, <4>1 DEF GeneratedNames, Greenfield, Claim
      <4>3. name \notin GenNames
        BY <4>2 DEF GeneratedNames
      <4> QED
        BY <2>5, <4>2, <4>3 DEF NameFits, Settled
    <3>2. CASE j.class.bucket = None /\ j.obc.bucket # None
      <4>1. name = o.bucket
        BY <2>4, <3>2 DEF NamesFor, SameClaim
      <4>2. JobRecord(i) = ClaimRecord(o, k)
        BY <2>5, <4>1 DEF ClaimRecord
      <4> QED
        BY <1>2, <2>4, <3>2, <4>1, <4>2, RecordFacts DEF ClaimStore, Settled, SameClaim
    <3>3. CASE j.class.bucket = None /\ j.obc.bucket = None
      <4>1. name \in FreshNames
        BY <2>4, <3>3 DEF NamesFor, Claim
      <4>2. Greenfield(j.obc.class)
        BY <2>4, <3>3 DEF ClassesKeepTheirBucket, Greenfield, Claim
      <4>3. /\ name \in GenNames /\ name \notin AskedNames
            /\ \A v \in Workers : job[v].name # name
            /\ \A l \in Keys : obc[l] # None => obc[l].bucket # name
        BY <4>1 DEF FreshNames, AskedNames
      <4>4. ASSUME NEW r \in Records
            PROVE  r[1] # name
        BY <4>3
        DEF Records, StoreInv, ObStore, BucketStore, ClaimRecord, JobRecord, ObRecord,
            BucketRecord
      <4> QED
        BY <2>5, <4>2, <4>3, <4>4 DEF NameFits, Settled
    <3> QED
      BY <3>1, <3>2, <3>3
  <2>7. JobStore(i, bucket', access', AskedNames')
    BY <2>2, <2>3, <2>6 DEF JobStore, Supplied, Artifacts, Binding
  <2> QED
    BY <1>1, <1>3, <1>4, <2>2, <2>6, <2>7, WorkerStore
<1>12. GetClaim(w) \/ GetClass(w) \/ GetOb(w) => UNCHANGED obc
  BY DEF GetClaim, GetClass, GetOb, kube
<1> QED
  BY <1>7, <1>8, <1>9, <1>10, <1>11, <1>12

\* The rest of handleProvisionClaim: everything is for the name the job has chosen.
LEMMA SupplyStore ==
    ASSUME TypeInv, ClaimInv, NamesInv, ReadyInv, StoreInv, GeneratedNames, ObNamesUnique,
           ClassesKeepTheirBucket, NEW w \in Workers,
           \/ SaveName(w) \/ Provision(w) \/ Grant(w)
           \/ \E kind \in Kinds : CreateArtifact(w, kind) \/ UpdateArtifact(w, kind)
           \/ ClaimRef(w) \/ CreateOb(w) \/ GetCurrentOb(w) \/ UpdateOb(w) \/ ObBound(w)
           \/ BindClaim(w) \/ SetBound(w)
    PROVE  StoreInv'
<1> DEFINE j == job[w]
           i == job'[w]
           k == j.key
           n == ObjectBucketName(k)
           o == obc[k]
<1> USE DEF At
<1>1. WorkerStep(w)
  BY DEF WorkerStep, ProvisionStep
<1>2. /\ j \in Job /\ job \in [Workers -> Job] /\ JobShape(j) /\ j.pc # "idle" /\ k \in Keys
      /\ JobClaim(j, o) /\ JobNames(j) /\ obc \in [Keys -> Claim \cup {None}]
      /\ ob \in [ObNames -> ObjectBucket \cup {None}] /\ n \in ObNames
      /\ JobReady(j, ob[n], ArtifactsOf(artifact, k), n)
      /\ JobStore(j, bucket, access, AskedNames)
      /\ (o # None => ClaimReady(o, ob[n], ArtifactsOf(artifact, k), n))
  BY <1>1, ProvisionStepJob, DeleteStepJob
  DEF TypeInv, ControllerInv, ClaimInv, NamesInv, ReadyInv, StoreInv, ClusterTypeOK, WorkerStep,
      ObNames
<1>3. j.pc \in Chosen /\ j.pc # "delete" /\ j.pc # "revoke" /\ j.pc \in Provisioning
  <2>1. CASE \E kind \in Kinds : CreateArtifact(w, kind) \/ UpdateArtifact(w, kind)
    <3>1. j.pc \in Artifacts
      BY <2>1 DEF CreateArtifact, UpdateArtifact, CreatePc, UpdatePc, Kinds, Artifacts
    <3> QED
      BY <3>1 DEF Chosen, Supplied, Artifacts, Provisioning
  <2>2. CASE SaveName(w) \/ Provision(w) \/ Grant(w)
    BY <2>2 DEF SaveName, UpdateClaim, Provision, Grant, Chosen, Naming, Provisioning
  <2>3. CASE ClaimRef(w) \/ CreateOb(w) \/ GetCurrentOb(w)
    BY <2>3 DEF ClaimRef, CreateOb, GetCurrentOb, Chosen, Supplied, Artifacts, Binding, Provisioning
  <2>4. CASE UpdateOb(w) \/ ObBound(w) \/ BindClaim(w) \/ SetBound(w)
    BY <2>4
    DEF UpdateOb, ObBound, ReplaceOb, BindClaim, SetBound, UpdateClaim, Chosen, Supplied, Binding,
        Provisioning
  <2> QED
    BY <2>1, <2>2, <2>3, <2>4
<1>4. /\ j.obc \in Claim /\ j.class \in ClassDefs[j.obc.class] /\ j.name \in Buckets
      /\ NameFits(j.name, j.obc.class) /\ JobRecord(j) \in Records
      /\ JobRecord(j) = <<j.name, k, Kept(ClassPolicy(j.obc.class))>>
  <2>1. j.obc \in Claim /\ j.class \in ClassDefs[j.obc.class] /\ j.name \in Buckets
    BY <1>2, <1>3 DEF Chosen, Supplied, Naming, Artifacts, Binding, JobShape, JobNames
  <2> QED
    BY <1>2, <1>3, <2>1, PolicyOfJob, RecordFacts DEF JobStore, JobRecord
<1>5. \A b : b # None => SameOb(b, b)
  BY DEF SameOb
<1>6. o # None => NoMore(o, o)
  BY DEF NoMore
<1>7. CASE Requeue(w) /\ UNCHANGED <<obc, ob>>
  <2>1. i = IdleJob
    BY <1>2, <1>7 DEF Requeue
  <2> QED
    BY <1>1, <1>5, <1>6, <1>7, <2>1, IdleNeeds, NoNeeds, WorkerStore
\* A job that goes on for the same bucket.
<1>8. ASSUME i.name = j.name, i.key = k, i.class = j.class, i.obc.class = j.obc.class
      PROVE  JobRecord(i) = JobRecord(j)
  BY <1>8 DEF JobRecord, PolicyFor
<1>9. ASSUME j.pc \in Supplied, UNCHANGED store
      PROVE  /\ Usable(bucket', access', k, j.name)
             /\ j.name \in GenNames => j.name \in AskedNames'
  BY <1>2, <1>9 DEF JobStore, store, AskedNames
<1>10. ASSUME i.pc \in Supplied, i.name = j.name, i.key = k, i.class = j.class,
              i.obc.class = j.obc.class, Usable(bucket', access', k, j.name),
              j.name \in GenNames => j.name \in AskedNames'
       PROVE  JobStore(i, bucket', access', AskedNames') /\ Settled(JobRecord(i), None)
  <2>1. i.pc # "delete"
    BY <1>10 DEF Supplied, Artifacts, Binding
  <2> QED
    BY <1>4, <1>8, <1>10, <2>1 DEF JobStore, Settled
<1>11. CASE SaveName(w) /\ ~(Requeue(w) /\ UNCHANGED obc)
  <2> DEFINE new == [j.obc EXCEPT !.bucket = j.name]
  <2>1. /\ o = j.obc /\ obc'[k] = new /\ UNCHANGED <<ob, store>>
        /\ i = [j EXCEPT !.pc = "provision", !.obc = new] /\ j.pc = "saveName"
    BY <1>2, <1>11 DEF SaveName, UpdateClaim
  <2>2. new.bucket = j.name /\ new.class = j.obc.class /\ new.phase = j.obc.phase
    BY <1>4 DEF Claim
  <2> HIDE DEF new
  <2>3. i.pc = "provision" /\ i.obc = new /\ i.name = j.name /\ i.key = k /\ i.class = j.class
    BY <1>2, <2>1 DEF Job
  <2>4. new.phase # "Bound"
    BY <1>2, <1>4, <2>1, <2>2, NoneAssumption DEF ClaimReady, Linked, JobNames
  <2>5. ClaimStore(new, k, bucket', access') /\ Settled(ClaimRecord(new, k), None)
    BY <1>4, <2>2, <2>4 DEF ClaimStore, Settled, ClaimRecord
  <2>6. JobStore(i, bucket', access', AskedNames') /\ Settled(JobRecord(i), None)
    BY <1>4, <1>8, <2>2, <2>3 DEF JobStore, Settled, Supplied, Artifacts, Binding
  <2> QED
    BY <1>1, <1>5, <2>1, <2>5, <2>6, WorkerStore
<1>12. CASE (Provision(w) \/ Grant(w)) /\ ~Requeue(w)
  <2>1. i = [j EXCEPT !.pc = "createSecret", !.ob = ReturnedOb(j)] /\ j.pc = "provision"
        /\ UNCHANGED <<obc, ob>>
    BY <1>2, <1>12 DEF Provision, Grant, Continue, kube
  <2>2. i.pc = "createSecret" /\ i.obc = j.obc /\ i.name = j.name /\ i.key = k /\ i.class = j.class
    BY <1>2, <2>1 DEF Job
  <2>3. i.pc \in Supplied
    BY <2>2 DEF Supplied, Artifacts
  <2>4. /\ Usable(bucket', access', k, j.name)
        /\ j.name \in GenNames => j.name \in AskedNames'
    <3>1. CASE Provision(w)
      <4> DEFINE new == [owner |-> k, config |-> j.obc.config, policy |-> PolicyFor(j)]
      <4>1. /\ bucket' = [bucket EXCEPT ![j.name] = new]
            /\ access' = access \cup {<<k, j.name>>} /\ asked' = Asked(j)
        BY <1>12, <3>1 DEF Provision, DoProvision, Provisioned, UserID
      <4>2. new \in StoreBucket
        <5>1. PolicyFor(j) \in Policies \cup {None}
          BY <1>2, <1>4, <2>1, ConstantsAssumption DEF PolicyFor, Claim, JobShape, ClassDef
        <5> QED
          BY <1>2, <1>4, <5>1 DEF StoreBucket, Claim
      <4> HIDE DEF new
      <4>3. bucket'[j.name] = new /\ new # None
        BY <1>4, <4>1, <4>2, NoneAssumption DEF TypeInv, ClusterTypeOK
      <4>4. <<j.obc.uid, j.name>> \in asked' /\ <<j.obc.uid, j.name>>[2] = j.name
        BY <4>1 DEF Asked
      <4> QED
        BY <4>1, <4>3, <4>4 DEF Usable, AskedNames
    <3>2. CASE Grant(w)
      <4>1. /\ bucket'[j.name] # None /\ access' = access \cup {<<k, j.name>>}
            /\ j.class.bucket # None
        BY <1>12, <3>2 DEF Grant, Granted, UserID
      <4>2. ~Greenfield(j.obc.class)
        BY <1>4, <4>1 DEF Greenfield
      <4> QED
        BY <1>4, <4>1, <4>2 DEF Usable, NameFits
    <3> QED
      BY <1>12, <3>1, <3>2
  <2> QED
    BY <1>1, <1>5, <1>6, <1>10, <2>1, <2>2, <2>3, <2>4, WorkerStore
<1>13. ASSUME j.pc \in Supplied, UNCHANGED <<obc, ob>>, UNCHANGED store, i.pc \in Supplied,
              i.name = j.name, i.key = k, i.class = j.class, i.obc = j.obc
       PROVE  StoreInv'
  BY <1>1, <1>5, <1>6, <1>9, <1>10, <1>13, WorkerStore
<1>14. ASSUME NEW kind \in Kinds, CreateArtifact(w, kind) \/ UpdateArtifact(w, kind), ~Requeue(w)
       PROVE  StoreInv'
  <2>1. UNCHANGED <<obc, ob>> /\ UNCHANGED store
    BY <1>14 DEF CreateArtifact, UpdateArtifact
  <2>2. j.pc \in Supplied /\ {AfterPc[kind], UpdatePc[kind]} \subseteq Supplied
    BY <1>14
    DEF CreateArtifact, UpdateArtifact, CreatePc, UpdatePc, AfterPc, Kinds, Supplied, Artifacts
  <2>3. PICK pc \in Supplied : i = [j EXCEPT !.pc = pc]
    BY <1>2, <1>14, <2>2 DEF CreateArtifact, UpdateArtifact, Continue
  <2>4. i.pc = pc /\ i.name = j.name /\ i.key = k /\ i.class = j.class /\ i.obc = j.obc
    BY <1>2, <2>3 DEF Job
  <2> QED
    BY <1>13, <2>1, <2>2, <2>3, <2>4
<1>15. CASE (ClaimRef(w) \/ GetCurrentOb(w)) /\ ~Requeue(w)
  <2>1. /\ UNCHANGED <<obc, ob>> /\ UNCHANGED store /\ j.pc \in {"claimRef", "getCurrentOb"}
    BY <1>15 DEF ClaimRef, GetCurrentOb, kube
  <2>2. PICK b, base : \/ i = [j EXCEPT !.pc = "createOb", !.ob = b]
                       \/ i = [j EXCEPT !.pc = "updateOb", !.base = base]
    BY <1>2, <1>15 DEF ClaimRef, GetCurrentOb, ContinueIfFound, Continue
  <2>3. /\ i.pc \in {"createOb", "updateOb"} /\ i.name = j.name /\ i.key = k
        /\ i.class = j.class /\ i.obc = j.obc
    BY <1>2, <2>2 DEF Job
  <2> QED
    BY <1>13, <2>1, <2>3 DEF Supplied, Artifacts, Binding
<1>16. CASE CreateOb(w) /\ ob[n] # None
  <2>1. /\ UNCHANGED <<obc, ob>> /\ UNCHANGED store /\ j.pc = "createOb"
        /\ i = [j EXCEPT !.pc = "getCurrentOb"]
    BY <1>2, <1>16 DEF CreateOb, Continue
  <2>2. i.pc = "getCurrentOb" /\ i.name = j.name /\ i.key = k /\ i.class = j.class /\ i.obc = j.obc
    BY <1>2, <2>1 DEF Job
  <2> QED
    BY <1>13, <2>1, <2>2 DEF Supplied, Binding
\* The OB is written for the job's bucket.
<1>17. ASSUME j.pc \in Binding, UNCHANGED store, UNCHANGED obc, i.pc \in Supplied, i.name = j.name,
              i.key = k, i.class = j.class, i.obc = j.obc,
              NEW b, ob' = [ob EXCEPT ![n] = b], b.bucket = j.ob.bucket, b.user = j.ob.user,
              b.class = j.ob.class, b.policy = j.ob.policy
       PROVE  StoreInv'
  <2>1. /\ ob'[n] = b /\ b.bucket = j.name /\ b.user = k /\ b.class = j.obc.class
        /\ b.policy = PolicyFor(j) /\ j.pc \in Supplied
    BY <1>2, <1>17 DEF JobReady, Supplied
  <2>2. ObRecord(b, k) = JobRecord(j)
    BY <2>1 DEF ObRecord, JobRecord
  <2>3. ObStore(b, k, AskedNames') /\ Settled(ObRecord(b, k), None)
    BY <1>4, <1>9, <1>17, <2>1, <2>2 DEF ObStore, Settled, Claim
  <2> QED
    BY <1>1, <1>6, <1>9, <1>10, <1>17, <2>1, <2>3, WorkerStore
<1>18. CASE CreateOb(w) /\ ob[n] = None
  <2>1. /\ UNCHANGED obc /\ UNCHANGED store /\ j.pc = "createOb"
        /\ ob' = [ob EXCEPT ![n] = j.ob] /\ i = [j EXCEPT !.pc = "obBound"]
    BY <1>2, <1>18 DEF CreateOb, Continue
  <2>2. i.pc = "obBound" /\ i.name = j.name /\ i.key = k /\ i.class = j.class /\ i.obc = j.obc
    BY <1>2, <2>1 DEF Job
  <2>3. j.pc \in Binding /\ i.pc \in Supplied
    BY <2>1, <2>2 DEF Binding, Supplied
  <2> QED
    BY <1>17, <2>1, <2>2, <2>3
<1>19. CASE (UpdateOb(w) \/ ObBound(w)) /\ ~(Requeue(w) /\ UNCHANGED ob)
  <2> DEFINE new1 == [j.ob EXCEPT !.phase = j.base.phase, !.deleted = j.base.deleted]
             new2 == [j.ob EXCEPT !.phase = "Bound"]
  <2>1. /\ UNCHANGED obc /\ UNCHANGED store /\ j.pc \in {"updateOb", "obBound"}
        /\ \/ ob' = [ob EXCEPT ![n] = new1]
              /\ i = [j EXCEPT !.pc = "obBound", !.ob = new1, !.base = None]
           \/ ob' = [ob EXCEPT ![n] = new2]
              /\ i = [j EXCEPT !.pc = "bindClaim", !.ob = new2, !.base = None]
    BY <1>2, <1>19 DEF UpdateOb, ObBound, ReplaceOb, Continue
  <2>2. j.pc \in Binding /\ j.ob \in ObjectBucket
    BY <1>2, <2>1 DEF Binding, JobShape
  <2>3. /\ new1.bucket = j.ob.bucket /\ new1.user = j.ob.user /\ new1.class = j.ob.class
        /\ new1.policy = j.ob.policy
    BY <2>2 DEF ObjectBucket
  <2>4. /\ new2.bucket = j.ob.bucket /\ new2.user = j.ob.user /\ new2.class = j.ob.class
        /\ new2.policy = j.ob.policy
    BY <2>2 DEF ObjectBucket
  <2> HIDE DEF new1, new2
  <2>5. /\ i.pc \in {"obBound", "bindClaim"} /\ i.name = j.name /\ i.key = k
        /\ i.class = j.class /\ i.obc = j.obc
    BY <1>2, <2>1 DEF Job
  <2>6. i.pc \in Supplied
    BY <2>5 DEF Supplied, Binding
  <2> QED
    BY <1>17, <2>1, <2>2, <2>3, <2>4, <2>5, <2>6
<1>20. CASE BindClaim(w) /\ ~(Requeue(w) /\ UNCHANGED obc)
  <2> DEFINE new == [j.obc EXCEPT !.ob = n, !.bucket = j.name]
  <2>1. /\ obc'[k] = new /\ UNCHANGED ob /\ UNCHANGED store
        /\ i = [j EXCEPT !.pc = "setBound", !.obc = new] /\ j.pc = "bindClaim"
    BY <1>2, <1>20 DEF BindClaim, UpdateClaim
  <2>2. new.bucket = j.name /\ new.class = j.obc.class
    BY <1>4 DEF Claim
  <2> HIDE DEF new
  <2>3. i.pc = "setBound" /\ i.obc = new /\ i.name = j.name /\ i.key = k /\ i.class = j.class
    BY <1>2, <2>1 DEF Job
  <2>4. j.pc \in Supplied /\ i.pc \in Supplied
    BY <2>1, <2>3 DEF Supplied, Binding
  <2>5. ClaimStore(new, k, bucket', access') /\ Settled(ClaimRecord(new, k), None)
    BY <1>4, <1>9, <2>1, <2>2, <2>4 DEF ClaimStore, Settled, ClaimRecord
  <2>6. JobStore(i, bucket', access', AskedNames') /\ Settled(JobRecord(i), None)
    BY <1>9, <1>10, <2>1, <2>2, <2>3, <2>4
  <2> QED
    BY <1>1, <1>5, <2>1, <2>5, <2>6, WorkerStore
<1>21. CASE SetBound(w) /\ ~(Requeue(w) /\ UNCHANGED obc)
  <2> DEFINE new == [j.obc EXCEPT !.phase = "Bound"]
  <2>1. /\ obc'[k] = new /\ UNCHANGED ob /\ UNCHANGED store /\ i = IdleJob /\ j.pc = "setBound"
    BY <1>2, <1>21 DEF SetBound, UpdateClaim
  <2>2. new.bucket = j.obc.bucket /\ new.class = j.obc.class
    BY <1>4 DEF Claim
  <2> HIDE DEF new
  <2>3. j.pc \in Supplied /\ j.obc.bucket = j.name
    BY <1>2, <2>1 DEF Supplied, Binding, JobReady
  <2>4. ClaimStore(new, k, bucket', access') /\ Settled(ClaimRecord(new, k), None)
    BY <1>4, <1>9, <2>1, <2>2, <2>3 DEF ClaimStore, Settled, ClaimRecord
  <2> QED
    BY <1>1, <1>5, <2>1, <2>4, IdleNeeds, NoNeeds, WorkerStore
<1>22. Requeue(w) /\ (Provision(w) \/ Grant(w) \/ ClaimRef(w) \/ GetCurrentOb(w)) =>
          UNCHANGED <<obc, ob>>
  BY DEF Provision, Grant, ClaimRef, GetCurrentOb, kube
<1>23. Requeue(w) /\ (\E kind \in Kinds : CreateArtifact(w, kind) \/ UpdateArtifact(w, kind)) =>
          UNCHANGED <<obc, ob>>
  BY DEF CreateArtifact, UpdateArtifact
<1>24. SaveName(w) \/ BindClaim(w) \/ SetBound(w) => UNCHANGED ob
  BY DEF SaveName, BindClaim, SetBound, UpdateClaim
<1>25. UpdateOb(w) \/ ObBound(w) => UNCHANGED obc
  BY DEF UpdateOb, ObBound, ReplaceOb
<1> QED
  BY <1>7, <1>11, <1>12, <1>14, <1>15, <1>16, <1>18, <1>19, <1>20, <1>21, <1>22, <1>23, <1>24,
     <1>25

\* Cleanup: the OB says what is to be deleted, and only a new bucket is.
LEMMA DeleteStepStore ==
    ASSUME TypeInv, ClaimInv, NamesInv, ReadyInv, StoreInv, GeneratedNames, ObNamesUnique,
           ClassesKeepTheirBucket, NEW w \in Workers, DeleteStep(w)
    PROVE  StoreInv'
<1> DEFINE j == job[w]
           i == job'[w]
           k == j.key
           n == ObjectBucketName(k)
           o == obc[k]
<1> USE DEF At
<1>1. /\ j \in Job /\ job \in [Workers -> Job] /\ JobShape(j) /\ j.pc # "idle" /\ k \in Keys
      /\ obc \in [Keys -> Claim \cup {None}] /\ class \in [Classes -> ClassDef \cup {None}]
      /\ ob \in [ObNames -> ObjectBucket \cup {None}] /\ n \in ObNames
      /\ JobReady(j, ob[n], ArtifactsOf(artifact, k), n)
      /\ WorkerStep(w)
  BY DeleteStepJob
  DEF TypeInv, ControllerInv, ReadyInv, ClusterTypeOK, WorkerStep, ObNames
<1>2. \A b : b # None => SameOb(b, b)
  BY DEF SameOb
<1>3. o # None => NoMore(o, o)
  BY DEF NoMore
<1>4. ASSUME obc'[k] # None => NoMore(o, obc'[k]), ob'[n] # None => SameOb(ob[n], ob'[n]),
             i.pc \notin Chosen, i.pc # "delete"
      PROVE  StoreInv'
  BY <1>1, <1>4, NoNeeds, WorkerStore
<1>5. \A pc \in Deprovisioning \cup {"idle"} : pc \notin Chosen
  BY DEF Chosen, Supplied, Naming, Artifacts, Binding, Deprovisioning, Unbinding
<1>6. CleanupStep(w) => i.pc \in Deprovisioning \cup {"idle"} /\ UNCHANGED obc
  BY CleanupStepJob, IdleKey
<1>7. CASE FindOb(w) \/ FindCm(w) \/ FindSecret(w) \/ Delete(w) \/ Revoke(w) \/ GetArtifact(w)
           \/ DropFinalizer(w)
  <2>1. UNCHANGED ob /\ CleanupStep(w)
    BY <1>7 DEF FindOb, FindCm, FindSecret, Delete, Revoke, GetArtifact, DropFinalizer, kube,
                CleanupStep
  <2>2. i.pc # "delete"
    <3>1. CASE FindSecret(w) /\ ~Done(w)
      <4> DEFINE pc == IF j.ob = None THEN "release" ELSE "markReleased"
                 more == IfStored("secret", k)
      <4>1. i = [j EXCEPT !.pc = pc, !.found = j.found \cup more]
        BY <1>1, <3>1 DEF FindSecret, Continue
      <4>2. pc # "delete"
        OBVIOUS
      <4> HIDE DEF pc, more
      <4> QED
        BY <1>1, <4>1, <4>2 DEF Job
    <3>2. CASE FindSecret(w) /\ Done(w)
      BY <1>1, <3>2, IdleNeeds DEF Done
    <3>3. CASE FindOb(w) \/ FindCm(w) \/ Delete(w) \/ Revoke(w) \/ GetArtifact(w) \/ DropFinalizer(w)
      <4>1. ASSUME NEW failed, Released(w, failed)
            PROVE  i.pc = "release"
        BY <1>1, <4>1 DEF Released, Job
      <4>2. CASE FindOb(w) \/ FindCm(w)
        BY <1>1, <4>2 DEF FindOb, FindCm, Continue, Job
      <4>3. CASE Delete(w) \/ Revoke(w)
        BY <1>1, <4>3 DEF Delete, Revoke, Job
      <4>4. CASE GetArtifact(w)
        <5> DEFINE a == artifact[Current(j)][k]
        <5>1. Released(w, TRUE) \/ job' = [job EXCEPT ![w].pc = "dropFinalizer", ![w].base = a]
          BY <4>4 DEF GetArtifact
        <5> HIDE DEF a
        <5>2. CASE job' = [job EXCEPT ![w].pc = "dropFinalizer", ![w].base = a]
          BY <1>1, <5>2 DEF Job
        <5> QED
          BY <4>1, <5>1, <5>2
      <4>5. CASE DropFinalizer(w)
        BY <1>1, <4>1, <4>5 DEF DropFinalizer
      <4> QED
        BY <3>3, <4>2, <4>3, <4>4, <4>5
    <3> QED
      BY <1>7, <3>1, <3>2, <3>3
  <2> QED
    BY <1>2, <1>3, <1>4, <1>5, <1>6, <2>1, <2>2
<1>8. CASE MarkReleased(w)
  <2> DEFINE new == [j.ob EXCEPT !.phase = "Released"]
  <2>1. j.pc = "markReleased" /\ j.ob \in ObjectBucket /\ UNCHANGED obc
    BY <1>1, <1>8 DEF MarkReleased, ReplaceOb, JobShape, Unbinding
  <2>2. CASE Requeue(w) /\ UNCHANGED ob
    BY <1>1, <1>2, <1>3, <1>4, <2>1, <2>2, IdleNeeds DEF Requeue
  <2>3. CASE ob[n] = j.ob /\ ob' = [ob EXCEPT ![n] = new]
             /\ Continue(w, [j EXCEPT !.pc = "getObClass", !.ob = new, !.base = None])
    <3>1. SameOb(ob[n], new)
      BY <2>1, <2>3, NoneAssumption DEF ObjectBucket, SameOb
    <3> HIDE DEF new
    <3>2. ob'[n] = new
      BY <1>1, <2>3
    <3>3. i.pc = "getObClass"
      BY <1>1, <2>3 DEF Continue, Job
    <3>4. "getObClass" \in Deprovisioning
      BY DEF Deprovisioning, Unbinding
    <3> QED
      BY <1>3, <1>4, <1>5, <2>1, <3>1, <3>2, <3>3, <3>4
  <2> QED
    BY <1>8, <2>2, <2>3 DEF MarkReleased, ReplaceOb
<1>9. CASE GetObClass(w)
  <2> DEFINE b == j.ob
             pc == IF isNewBucket(b) /\ b.policy = "Delete" THEN "delete" ELSE "revoke"
  <2>1. UNCHANGED <<obc, ob>> /\ j.pc = "getObClass" /\ i = [j EXCEPT !.pc = pc]
    BY <1>1, <1>9 DEF GetObClass, Continue, kube
  <2>2. i.ob = b /\ i.pc = pc
    BY <1>1, <2>1 DEF Job
  <2>3. b = ob[n] /\ b # None /\ b \in ObjectBucket
    BY <1>1, <2>1, NoneAssumption DEF JobReady, Unbinding, JobShape
  <2>4. ObStore(b, k, AskedNames)
    BY <1>1, <2>3 DEF StoreInv
  \* The OB's class says new buckets, so the OB has a generated name.
  <2>5. isNewBucket(b) => b.bucket \in GenNames
    <3>1. SUFFICES ASSUME isNewBucket(b) PROVE b.bucket \in GenNames
      OBVIOUS
    <3>2. b.class \in Classes /\ class[b.class] \in ClassDefs[b.class] /\ class[b.class].bucket = None
      BY <2>4, <3>1
      DEF isNewBucket, storageClassForObjectBucket, ObStore, NamesInv, ClassesDefined
    <3>3. Greenfield(b.class)
      BY <3>2 DEF ClassesKeepTheirBucket, Greenfield
    <3> QED
      BY <2>4, <3>3 DEF ObStore, NameFits
  <2>6. i.pc = "delete" => b.bucket \in GenNames /\ b.policy = "Delete"
    BY <2>2, <2>5
  <2>7. i.pc \notin Chosen
    BY <2>2 DEF Chosen, Supplied, Naming, Artifacts, Binding
  <2>8. JobStore(i, bucket', access', AskedNames')
    BY <2>2, <2>6, <2>7 DEF JobStore, Chosen
  <2> QED
    BY <1>1, <1>2, <1>3, <2>1, <2>7, <2>8, WorkerStore
<1>10. CASE DropObFinalizer(w)
  <2>1. /\ j.pc = "dropObFinalizer" /\ j.ob \in ObjectBucket /\ UNCHANGED obc /\ j.ob = ob[n]
        /\ CleanupStep(w)
    BY <1>1, <1>10 DEF DropObFinalizer, JobShape, Unbinding, JobReady, CleanupStep
  <2>2. ob'[n] = removeFinalizer(j.ob) /\ i.pc = "deleteOb"
    BY <1>1, <1>10, <2>1 DEF DropObFinalizer, Job
  <2>3. removeFinalizer(j.ob) # None => SameOb(j.ob, removeFinalizer(j.ob))
    BY <2>1, NoneAssumption DEF removeFinalizer, Stored, ObjectBucket, SameOb
  <2> QED
    BY <1>3, <1>4, <1>5, <1>6, <2>1, <2>2, <2>3
<1>11. CASE DeleteOb(w)
  <2>1. /\ UNCHANGED obc /\ i.pc = "release" /\ CleanupStep(w)
        /\ ob'[n] = IF ob[n] = None THEN None ELSE Deleting(ob[n])
    BY <1>1, <1>11 DEF DeleteOb, Job, CleanupStep
  <2>2. ob[n] \in ObjectBucket /\ Deleting(ob[n]) # None => SameOb(ob[n], Deleting(ob[n]))
    BY NoneAssumption DEF Deleting, Stored, ObjectBucket, SameOb
  <2> QED
    BY <1>1, <1>3, <1>4, <1>5, <1>6, <2>1, <2>2
<1>12. CASE GetClaimToRelease(w)
  <2>1. UNCHANGED <<obc, ob>>
    BY <1>12 DEF GetClaimToRelease, kube
  <2>2. i.pc = "dropClaimFinalizer" \/ i = IdleJob
    <3>1. i = IdleJob \/ i = [j EXCEPT !.pc = "dropClaimFinalizer", !.obc = o]
      BY <1>1, <1>12 DEF GetClaimToRelease, ContinueIfFound, Continue, Requeue
    <3> QED
      BY <1>1, <3>1 DEF Job
  <2>3. i.pc \notin Chosen /\ i.pc # "delete"
    BY <1>5, <2>2, IdleNeeds DEF Deprovisioning
  <2> QED
    BY <1>2, <1>3, <1>4, <2>1, <2>3
<1>13. CASE DropClaimFinalizer(w)
  <2>1. UNCHANGED ob /\ i = IdleJob
    BY <1>1, <1>13 DEF DropClaimFinalizer, Requeue
  <2>2. obc'[k] = o \/ (o = j.obc /\ obc'[k] = removeFinalizer(o) /\ o \in Claim)
    BY <1>1, <1>13 DEF DropClaimFinalizer, JobShape
  <2>3. o \in Claim /\ removeFinalizer(o) # None => NoMore(o, removeFinalizer(o))
    BY NoneAssumption DEF removeFinalizer, Stored, Claim, NoMore
  <2> QED
    BY <1>2, <1>3, <1>4, <2>1, <2>2, <2>3, IdleNeeds
<1> QED
  BY <1>7, <1>8, <1>9, <1>10, <1>11, <1>12, <1>13 DEF DeleteStep

\* Steps that change neither claims nor OBs nor the store.
LEMMA JobsStore ==
    ASSUME StoreInv, UNCHANGED <<obc, ob>>, UNCHANGED store,
           \A w \in Workers :
               job'[w] = job[w] \/ (job'[w].pc \notin Chosen /\ job'[w].pc # "delete")
    PROVE  StoreInv'
<1>1. Records' \subseteq Records
  BY DEF Records, store
<1>2. OneHolder'
  BY <1>1 DEF StoreInv, OneHolder
<1>3. AskedNames' = AskedNames /\ UNCHANGED <<bucket, access>>
  BY DEF AskedNames, store
<1>4. \A w \in Workers : JobStore(job'[w], bucket, access, AskedNames)
  BY NoNeeds DEF StoreInv
<1> QED
  BY <1>2, <1>3, <1>4 DEF StoreInv

LEMMA GetItemStore ==
    ASSUME TypeInv, StoreInv, NEW w \in Workers, NEW k \in Keys, GetItem(w, k)
    PROVE  StoreInv'
<1> DEFINE i == [IdleJob EXCEPT !.pc = "getClaim", !.key = k]
<1>1. /\ job \in [Workers -> Job] /\ job' = [job EXCEPT ![w] = i]
      /\ UNCHANGED <<obc, ob>> /\ UNCHANGED store
  BY DEF TypeInv, ControllerInv, GetItem, kube
<1>2. i.pc = "getClaim"
  BY DEF IdleJob
<1> HIDE DEF i
<1>3. i.pc \notin Chosen /\ i.pc # "delete"
  BY <1>2 DEF Chosen, Supplied, Naming, Artifacts, Binding
<1> QED
  BY <1>1, <1>3, JobsStore

LEMMA FaultStore ==
    ASSUME TypeInv, ClaimInv, NamesInv, ReadyInv, StoreInv, GeneratedNames, ObNamesUnique,
           ClassesKeepTheirBucket, Fault
    PROVE  StoreInv'
<1>1. job \in [Workers -> Job] /\ UNCHANGED <<obc, ob>>
  BY DEF TypeInv, ControllerInv, Fault, ProvisionError, DeprovisionError, ApiError, Crash, kube
<1>2. ASSUME NEW w \in Workers, ProvisionError(w) \/ DeprovisionError(w)
      PROVE  StoreInv'
  <2>1. job'[w] = IdleJob
    BY <1>1, <1>2 DEF ProvisionError, DeprovisionError, Requeue
  <2>2. /\ \A b : b # None => SameOb(b, b)
        /\ \A o : o # None => NoMore(o, o)
    BY DEF SameOb, NoMore
  <2> QED
    BY <1>1, <1>2, <2>1, <2>2, IdleNeeds, NoNeeds, WorkerStore
<1>3. ASSUME NEW w \in Workers, ApiError(w)
      PROVE  StoreInv'
  <2>1. UNCHANGED store
    BY <1>3 DEF ApiError
  <2>2. CASE Requeue(w)
    BY <1>1, <2>1, <2>2, IdleNeeds, JobsStore DEF Requeue
  <2>3. CASE ~Requeue(w)
    <3>1. job' = [job EXCEPT ![w] = job'[w]] /\ job'[w].pc \in {"release", "revoke"}
      BY <1>1, <1>3, <2>3 DEF ApiError, Continue, SkipOb, Released, Job
    <3>2. job'[w].pc \notin Chosen /\ job'[w].pc # "delete"
      BY <3>1 DEF Chosen, Supplied, Naming, Artifacts, Binding
    <3> QED
      BY <1>1, <2>1, <3>1, <3>2, JobsStore
  <2> QED
    BY <2>2, <2>3
<1>4. ASSUME NEW p \in Instances, Crash(p)
      PROVE  StoreInv'
  <2>1. UNCHANGED store /\ \A v \in Workers : job'[v] = IdleJob \/ job'[v] = job[v]
    BY <1>4 DEF Crash
  <2> QED
    BY <1>1, <2>1, IdleNeeds, JobsStore
<1> QED
  BY <1>2, <1>3, <1>4 DEF Fault

\* Users ask for no generated name.
LEMMA UserStore ==
    ASSUME TypeInv, StoreInv, UNCHANGED <<ob, job>>, UNCHANGED store, NEW k \in Keys, NEW new,
           obc' = [obc EXCEPT ![k] = new],
           new # None => \/ NoMore(obc[k], new)
                         \/ /\ new.bucket \notin GenNames
                            /\ ClaimStore(new, k, bucket, access)
    PROVE  StoreInv'
<1>1. obc \in [Keys -> Claim \cup {None}] /\ UNCHANGED <<bucket, access, asked>>
  BY DEF TypeInv, ClusterTypeOK, store
<1>2. \A l \in Keys : obc'[l] = IF l = k THEN new ELSE obc[l]
  BY <1>1
<1>3. new # None => Settled(ClaimRecord(new, k), None)
  <2>1. CASE NoMore(obc[k], new)
    <3>1. ClaimRecord(new, k) = ClaimRecord(obc[k], k) /\ obc[k] # None
      BY <2>1 DEF NoMore, ClaimRecord
    <3> QED
      BY <3>1, RecordFacts DEF Settled
  <2>2. CASE new.bucket \notin GenNames
    BY <2>2 DEF Settled, ClaimRecord
  <2> QED
    BY <2>1, <2>2
<1>4. ASSUME NEW r \in Records'
      PROVE  Settled(r, None)
  <2>1. ASSUME NEW l \in Keys, obc'[l] # None, r = ClaimRecord(obc'[l], l)
        PROVE  Settled(r, None)
    BY <1>2, <1>3, <2>1, RecordFacts DEF Settled
  <2>2. ASSUME ~\E l \in Keys : obc'[l] # None /\ r = ClaimRecord(obc'[l], l)
        PROVE  Settled(r, None)
    BY <1>1, <2>2 DEF Settled, Records
  <2> QED
    BY <2>1, <2>2
<1>5. OneHolder'
  BY <1>4, HolderStep DEF StoreInv
<1>6. ASSUME NEW l \in Keys, obc'[l] # None
      PROVE  ClaimStore(obc'[l], l, bucket, access)
  BY <1>2, <1>6 DEF StoreInv, NoMore, ClaimStore
<1>7. AskedNames' = AskedNames
  BY <1>1 DEF AskedNames
<1> QED
  BY <1>1, <1>5, <1>6, <1>7 DEF StoreInv

LEMMA EnvironmentStore ==
    ASSUME TypeInv, StoreInv, GeneratedNames, EnvironmentStep
    PROVE  StoreInv'
<1>1. obc \in [Keys -> Claim \cup {None}] /\ UNCHANGED job
  BY DEF TypeInv, ClusterTypeOK, EnvironmentStep
<1>2. ASSUME NEW k \in Keys, NEW r \in Requests, CreateClaim(k, r)
      PROVE  StoreInv'
  <2> DEFINE new == [uid |-> spent.create + 1, deleted |-> FALSE, finalizer |-> FALSE,
                     class |-> r.class, bucket |-> r.bucket, generate |-> r.generate,
                     config |-> 0, ob |-> None, phase |-> None]
  <2>1. /\ obc' = [obc EXCEPT ![k] = new] /\ UNCHANGED ob /\ UNCHANGED store
        /\ new.bucket = r.bucket /\ new.class = r.class /\ new.phase = None
    BY <1>2 DEF CreateClaim
  <2> HIDE DEF new
  <2>2. r.bucket \in UserNames \cup {None} /\ r.class \in Classes
    BY ConstantsAssumption
  <2>3. r.bucket \notin GenNames
    BY <2>2, StoreNames
  <2>4. ClaimStore(new, k, bucket, access)
    BY <2>1, <2>3, NoneAssumption DEF ClaimStore, NameFits, GeneratedNames
  <2> QED
    BY <1>1, <2>1, <2>3, <2>4, UserStore
<1>3. ASSUME NEW k \in Keys, DeleteClaim(k)
      PROVE  StoreInv'
  <2> DEFINE new == Deleting(obc[k])
  <2>1. /\ obc[k] \in Claim /\ obc' = [obc EXCEPT ![k] = new] /\ UNCHANGED ob /\ UNCHANGED store
    BY <1>1, <1>3 DEF DeleteClaim
  <2>2. new # None => /\ new.bucket = obc[k].bucket /\ new.class = obc[k].class
                      /\ new.deleted = TRUE
    BY <2>1 DEF Deleting, Stored, Claim
  <2> HIDE DEF new
  <2>3. new # None => NoMore(obc[k], new)
    BY <1>3, <2>1, <2>2 DEF NoMore, DeleteClaim
  <2> QED
    BY <1>1, <2>1, <2>3, UserStore
<1>4. ASSUME NEW k \in Keys, EditClaim(k)
      PROVE  StoreInv'
  <2> DEFINE new == [obc[k] EXCEPT !.config = spent.edit + 1]
  <2>1. /\ obc[k] \in Claim /\ obc' = [obc EXCEPT ![k] = new] /\ UNCHANGED ob /\ UNCHANGED store
    BY <1>1, <1>4 DEF EditClaim
  <2>2. /\ new.bucket = obc[k].bucket /\ new.class = obc[k].class
        /\ new.phase = obc[k].phase /\ new.deleted = obc[k].deleted
    BY <2>1 DEF Claim
  <2> HIDE DEF new
  <2>3. NoMore(obc[k], new)
    BY <1>4, <2>2 DEF NoMore, EditClaim
  <2> QED
    BY <1>1, <2>1, <2>3, UserStore
<1>5. CASE UNCHANGED <<obc, ob>> /\ UNCHANGED store
  BY <1>1, <1>5, JobsStore
<1> QED
  BY <1>2, <1>3, <1>4, <1>5
  DEF EnvironmentStep, Environment, DeleteClass, CreateClass, Collect

LEMMA InitStore ==
    ASSUME GeneratedNames
    PROVE  Init => StoreInv
<1> SUFFICES ASSUME Init PROVE StoreInv
  OBVIOUS
<1>1. \A w \in Workers : job[w].pc \notin Chosen /\ job[w].pc # "delete"
  BY IdleNeeds DEF Init
<1>2. \A n \in Buckets : bucket[n] # None =>
         n \notin GenNames /\ bucket[n].owner = None /\ bucket[n].policy = None
  BY ConstantsAssumption, StoreNames DEF Init, ClusterInit
<1>3. /\ \A k \in Keys : obc[k] = None /\ ob[ObjectBucketName(k)] = None
  BY DEF Init, ClusterInit, ObNames
<1>4. OneHolder
  BY <1>1, <1>2, <1>3 DEF OneHolder, Records, BucketRecord
<1> QED
  BY <1>1, <1>2, <1>3, <1>4, NoNeeds DEF StoreInv, BucketStore

LEMMA NextStore ==
    ASSUME TypeInv, ClaimInv, NamesInv, ReadyInv, StoreInv, ObNamesUnique, GeneratedNames,
           ClassesKeepTheirBucket, [Next]_vars
    PROVE  StoreInv'
<1>1. CASE \E w \in Workers : ProvisionStep(w)
  BY <1>1, ChooseStore, SupplyStore DEF ProvisionStep
<1>2. CASE \E w \in Workers : DeleteStep(w)
  BY <1>2, DeleteStepStore
<1>3. CASE UNCHANGED vars
  BY <1>3, JobsStore DEF vars, store
<1> QED
  BY <1>1, <1>2, <1>3, GetItemStore, EnvironmentStore, FaultStore DEF Next, WorkerStep

LEMMA StoreInvariance ==
    ASSUME SingleProcess, ObNamesUnique, ClassesKeepTheirBucket, GeneratedNames
    PROVE  Spec => [](TypeInv /\ ClaimInv /\ NamesInv /\ ReadyInv /\ StoreInv)
<1>1. TypeInv /\ ClaimInv /\ NamesInv /\ ReadyInv /\ StoreInv /\ [Next]_vars => StoreInv'
  BY NextStore
<1>2. Init => StoreInv
  BY InitStore
<1>3. Spec => [](TypeInv /\ ClaimInv /\ NamesInv /\ ReadyInv)
  BY ReadyInvariance
<1> QED
  BY <1>1, <1>2, <1>3, PTL DEF Spec

\* With a single process, a live claim that says Bound has what handleProvisionClaim
\* is there for, whatever crashed or failed on the way and whatever the other
\* workers do meanwhile: its bound OB, its guarded secret and configmap, and a
\* bucket that exists and admits the claim's user.
THEOREM BoundIsReady ==
    ASSUME SingleProcess, ObNamesUnique, ClassesKeepTheirBucket, GeneratedNames
    PROVE  Spec => []BoundImpliesReady
<1>1. TypeInv /\ ReadyInv /\ StoreInv => BoundImpliesReady
  <2> SUFFICES ASSUME TypeInv, ReadyInv, StoreInv, NEW k \in Keys, Live(k), obc[k].phase = "Bound"
               PROVE  LET o == obc[k]
                          b == ob[ObjectBucketName(k)]
                      IN  /\ o.ob = ObjectBucketName(k)
                          /\ b # None
                          /\ b.phase = "Bound" /\ b.claim = o.uid /\ b.bucket = o.bucket
                          /\ \A kind \in Kinds :
                                LET a == artifact[kind][k] IN
                                /\ a # None
                                /\ a.finalizer /\ a.owner = o.uid /\ a.bucket = o.bucket
                          /\ bucket[o.bucket] # None
                          /\ <<UserID(k), o.bucket>> \in access
    BY DEF BoundImpliesReady
  <2>1. obc[k] # None /\ ~obc[k].deleted
    BY DEF Live
  <2>2. LET n == ObjectBucketName(k)
        IN  ClaimReady(obc[k], ob[n], ArtifactsOf(artifact, k), n)
    BY <2>1 DEF ReadyInv
  <2>3. \A kind \in Kinds : ArtifactFor(artifact[kind][k], obc[k].uid, obc[k].bucket)
    BY <2>1, <2>2 DEF ClaimReady, ArtifactsOf
  <2>4. Usable(bucket, access, k, obc[k].bucket)
    BY <2>1 DEF StoreInv, ClaimStore
  <2> QED
    BY <2>1, <2>2, <2>3, <2>4 DEF ClaimReady, ArtifactFor, Usable, UserID
<1>2. Spec => [](TypeInv /\ ClaimInv /\ NamesInv /\ ReadyInv /\ StoreInv)
  BY StoreInvariance
<1> QED
  BY <1>1, <1>2, PTL

\* A bucket that vanishes was made for a claim under the Delete policy.
LEMMA VanishedBucket ==
    ASSUME TypeInv, ClaimInv, NamesInv, ReadyInv, StoreInv, SingleProcess, ObNamesUnique,
           GeneratedNames, ClassesKeepTheirPolicy, [Next]_vars,
           NEW n \in Buckets, bucket[n] # None, bucket'[n] = None
    PROVE  bucket[n].owner # None /\ bucket[n].policy = "Delete" /\ ~Live(bucket[n].owner)
<1>1. PICK w \in Workers : WorkerStep(w) \/ ProvisionError(w) \/ DeprovisionError(w)
  BY DEF Next, vars, store, GetItem, Fault, ApiError, Crash, EnvironmentStep, Environment,
         CreateClaim, DeleteClaim, EditClaim, Collect, DeleteClass, CreateClass
<1> DEFINE j == job[w]
           k == j.key
           m == ObjectBucketName(k)
<1>2. /\ bucket \in [Buckets -> StoreBucket \cup {None}]
      /\ j \in Job /\ JobShape(j)
  BY DEF TypeInv, ClusterTypeOK, ControllerInv
<1>3. j.pc = "delete" /\ Removed(j.ob.bucket)
  <2>1. ASSUME j.pc = "provision", DoProvision(j)
        PROVE  FALSE
    <3> DEFINE x == [owner |-> k, config |-> j.obc.config, policy |-> PolicyFor(j)]
    <3>1. x \in StoreBucket
      BY <1>2, <2>1, NewBucket
    <3>2. bucket' = [bucket EXCEPT ![j.name] = x]
      BY <2>1 DEF DoProvision, Provisioned, UserID
    <3> HIDE DEF x
    <3> QED
      BY <1>2, <3>1, <3>2, NoneAssumption
  <2> QED
    BY <1>1, <2>1, WorkerStoreChange DEF StoreChange, store
<1>4. n = j.ob.bucket
  BY <1>2, <1>3 DEF Removed
<1>5. /\ k \in Keys /\ j.ob = ob[m] /\ ob[m] # None
      /\ j.ob.bucket \in GenNames /\ j.ob.policy = "Delete"
  BY <1>2, <1>3, NoneAssumption DEF JobShape, ReadyInv, JobReady, StoreInv, JobStore, Unbinding
<1>6. BucketRecord(n, bucket[n]) = ObRecord(ob[m], k)
  <2>1. BucketRecord(n, bucket[n]) \in Records /\ ObRecord(ob[m], k) \in Records
    BY <1>5, RecordFacts
  <2> QED
    BY <1>4, <1>5, <2>1 DEF StoreInv, OneHolder, BucketRecord, ObRecord
<1>7. bucket[n].owner = k /\ bucket[n].policy = "Delete"
  BY <1>5, <1>6 DEF BucketRecord, ObRecord, Kept
<1>8. ~Live(k)
  BY <1>3 DEF ClaimInv, JobClaim, Live, Deprovisioning, Unbinding
<1> QED
  BY <1>5, <1>7, <1>8, NoneAssumption

\* A bucket is taken from the store only by the deletion of the claim that it was
\* provisioned for, and only if that claim's reclaim policy is Delete: Delete is
\* never called for somebody else's, a live claim's or a brownfield bucket.
THEOREM OnlyReclaimedVanish ==
    ASSUME SingleProcess, ObNamesUnique, ClassesKeepTheirBucket, ClassesKeepTheirPolicy,
           GeneratedNames
    PROVE  Spec => OnlyReclaimedBucketsVanish
<1>1. TypeInv /\ ClaimInv /\ NamesInv /\ ReadyInv /\ StoreInv /\ [Next]_vars =>
          [\A b \in Buckets :
              bucket[b] # None /\ bucket'[b] = None =>
                  /\ bucket[b].owner # None
                  /\ bucket[b].policy = "Delete"
                  /\ ~Live(bucket[b].owner)]_vars
  BY VanishedBucket
<1>2. Spec => [](TypeInv /\ ClaimInv /\ NamesInv /\ ReadyInv /\ StoreInv)
  BY StoreInvariance
<1> QED
  BY <1>1, <1>2, PTL DEF Spec, OnlyReclaimedBucketsVanish
-------------------------------------------------------------------------------
(* What a claim that was Bound leaves behind it.                           *)

\* The steps of handleDeleteClaim after the provisioner has been called.
Settling == {"dropObFinalizer", "deleteOb", "release", "dropFinalizer", "dropClaimFinalizer"}

\* Whatever the provisioner had to be asked for claim k, it has been: the OB is gone,
\* or some worker is past Delete or Revoke.
Deprovisioned(k) ==
    \/ ob[ObjectBucketName(k)] = None
    \/ \E w \in Workers : job[w].key = k /\ job[w].pc \in Settling

\* No class was deleted and no API call failed.
Unfailing(s) == s.classOp + s.apiError = 0

\* The bucket called name is rid of user k.
Cleaned(k, name, bs, as, s) ==
    /\ <<k, name>> \notin as
    /\ bs[name] # None /\ Unfailing(s) => bs[name].policy # "Delete"

\* Revoke is called in place of Delete for a reason.
RevokeFits(j, s) ==
    j.pc = "revoke" /\ j.ob.bucket \in GenNames /\ Unfailing(s) => j.ob.policy # "Delete"

CleanedInv ==
    /\ \A k \in Keys :
          obc[k] # None /\ obc[k].phase = "Bound" /\ Deprovisioned(k)
              => Cleaned(k, obc[k].bucket, bucket, access, spent)
    /\ \A w \in Workers : RevokeFits(job[w], spent)
    /\ spent.classOp = 0 => \A c \in Classes : class[c] # None

LEMMA SettlingFacts ==
    /\ Settling \subseteq Cleaning /\ Settling \subseteq Deprovisioning
    /\ IdleJob.pc \notin Settling /\ IdleJob.pc # "revoke"
    /\ "provision" \notin Settling /\ "provision" \in Held /\ "provision" \in Provisioning
BY IdleKey DEF Settling, Cleaning, Deprovisioning, Unbinding, Held, Provisioning, Naming, Artifacts,
               Binding

LEMMA FailuresCount ==
    ASSUME TypeInv, [Next]_vars
    PROVE  /\ spent'.classOp = 0 => spent.classOp = 0
           /\ Unfailing(spent') => Unfailing(spent)
           /\ Unfailing(spent) => spent.classOp = 0 /\ spent.apiError = 0
<1>1. spent \in [Budgets -> Nat] /\ {"classOp", "apiError"} \subseteq Budgets
  BY DEF TypeInv, ClusterTypeOK, Budgets
<1>2. CASE UNCHANGED spent
  BY <1>1, <1>2 DEF Unfailing
<1>3. ASSUME NEW b \in Budgets, Spend(b)
      PROVE  /\ spent'.classOp \in {spent.classOp, spent.classOp + 1}
             /\ spent'.apiError \in {spent.apiError, spent.apiError + 1}
  BY <1>1, <1>3 DEF Spend
<1> QED
  BY <1>1, <1>2, <1>3, SpentGrows DEF Unfailing

\* A claim marked for deletion is not given another bucket or phase: the handlers
\* write only claims that are not marked, except to drop the finalizer.
LEMMA MarkedClaim ==
    ASSUME TypeInv, ClaimInv, [Next]_vars, NEW k \in Keys, obc'[k] # None, obc'[k].deleted
    PROVE  obc[k] # None /\ obc'[k].bucket = obc[k].bucket /\ obc'[k].phase = obc[k].phase
<1> DEFINE Unmoved == obc[k] # None /\ obc'[k].bucket = obc[k].bucket
                      /\ obc'[k].phase = obc[k].phase
<1>1. obc \in [Keys -> Claim \cup {None}] /\ job \in [Workers -> Job]
  BY DEF TypeInv, ClusterTypeOK, ControllerInv
<1>2. CASE UNCHANGED obc
  BY <1>2
<1>3. ASSUME NEW w \in Workers, NEW pc \in Provisioning, NEW new, NEW next,
             UpdateClaim(w, pc, new, next), new.deleted = job[w].obc.deleted
      PROVE  Unmoved
  <2>1. /\ job[w].pc = pc /\ pc # "idle" /\ job[w].key \in Keys
        /\ ~job[w].obc.deleted
    BY <1>3, PcFacts DEF UpdateClaim, At, TypeInv, ControllerInv, JobShape, ClaimInv, JobClaim
  <2> QED
    BY <1>1, <1>3, <2>1 DEF UpdateClaim
<1>4. ASSUME NEW w \in Workers,
             SetPending(w) \/ SetMeta(w) \/ SaveName(w) \/ BindClaim(w) \/ SetBound(w)
      PROVE  Unmoved
  <2> DEFINE j == job[w]
  <2>1. {"setPending", "setMeta", "saveName", "bindClaim", "setBound"} \subseteq Provisioning
    BY DEF Provisioning, Naming, Binding
  <2>2. j.pc \in {"setPending", "setMeta", "saveName", "bindClaim", "setBound"} /\ j.obc \in Claim
    BY <1>1, <1>4
    DEF SetPending, SetMeta, SaveName, BindClaim, SetBound, UpdateClaim, At, TypeInv,
        ControllerInv, JobShape
  <2>3. CASE SetPending(w)
    BY <1>3, <2>1, <2>2, <2>3 DEF SetPending, Claim
  <2>4. CASE SetMeta(w)
    BY <1>3, <2>1, <2>2, <2>4 DEF SetMeta, addFinalizers, Claim
  <2>5. CASE SaveName(w)
    BY <1>3, <2>1, <2>2, <2>5 DEF SaveName, Claim
  <2>6. CASE BindClaim(w)
    <3> DEFINE new == [j.obc EXCEPT !.ob = ObjectBucketName(j.key), !.bucket = j.name]
    <3>1. new.deleted = j.obc.deleted
      BY <2>2 DEF Claim
    <3>2. UpdateClaim(w, "bindClaim", new, [j EXCEPT !.pc = "setBound", !.obc = new])
      BY <2>6 DEF BindClaim
    <3> HIDE DEF new
    <3> QED
      BY <1>3, <2>1, <3>1, <3>2
  <2>7. CASE SetBound(w)
    BY <1>3, <2>1, <2>2, <2>7 DEF SetBound, Claim
  <2> QED
    BY <1>4, <2>3, <2>4, <2>5, <2>6, <2>7
<1>5. ASSUME NEW w \in Workers, DropClaimFinalizer(w)
      PROVE  Unmoved
  <2>1. \/ UNCHANGED obc
        \/ /\ obc[job[w].key] = job[w].obc /\ job[w].key \in Keys
           /\ obc' = [obc EXCEPT ![job[w].key] = removeFinalizer(job[w].obc)]
    BY <1>5 DEF DropClaimFinalizer, At, TypeInv, ControllerInv, JobShape
  <2>2. job[w].obc \in Claim
    BY <1>5 DEF DropClaimFinalizer, At, TypeInv, ControllerInv, JobShape
  <2>3. removeFinalizer(job[w].obc) # None =>
            /\ removeFinalizer(job[w].obc).bucket = job[w].obc.bucket
            /\ removeFinalizer(job[w].obc).phase = job[w].obc.phase
    BY <2>2 DEF removeFinalizer, Stored, Claim
  <2> QED
    BY <1>1, <2>1, <2>2, <2>3, NoneAssumption
<1>6. ASSUME NEW l \in Keys, DeleteClaim(l) \/ EditClaim(l)
      PROVE  Unmoved
  <2>1. obc[l] \in Claim
    BY <1>1, <1>6 DEF DeleteClaim, EditClaim
  <2>2. Deleting(obc[l]) # None => /\ Deleting(obc[l]).bucket = obc[l].bucket
                                   /\ Deleting(obc[l]).phase = obc[l].phase
    BY <2>1 DEF Deleting, Stored, Claim
  <2>3. CASE DeleteClaim(l)
    BY <1>1, <2>1, <2>2, <2>3, NoneAssumption DEF DeleteClaim
  <2>4. CASE EditClaim(l)
    <3> DEFINE new == [obc[l] EXCEPT !.config = spent.edit + 1]
    <3>1. new.bucket = obc[l].bucket /\ new.phase = obc[l].phase
      BY <2>1 DEF Claim
    <3>2. obc' = [obc EXCEPT ![l] = new]
      BY <2>4 DEF EditClaim
    <3> HIDE DEF new
    <3> QED
      BY <1>1, <2>1, <3>1, <3>2, NoneAssumption
  <2> QED
    BY <1>6, <2>3, <2>4
<1>7. ASSUME NEW l \in Keys, NEW r \in Requests, CreateClaim(l, r)
      PROVE  Unmoved
  <2> DEFINE new == [uid |-> spent.create + 1, deleted |-> FALSE, finalizer |-> FALSE,
                     class |-> r.class, bucket |-> r.bucket, generate |-> r.generate,
                     config |-> 0, ob |-> None, phase |-> None]
  <2>1. obc' = [obc EXCEPT ![l] = new] /\ new.deleted = FALSE
    BY <1>7 DEF CreateClaim
  <2> HIDE DEF new
  <2> QED
    BY <1>1, <2>1
<1> QED
  BY <1>2, <1>4, <1>5, <1>6, <1>7, ClaimSteps

\* Deprovisioning comes before cleanup: only Delete and Revoke lead to it, and only
\* cleanup removes the OB.
LEMMA WorkerDeprovisioned ==
    ASSUME TypeInv, ClaimInv, ReadyInv, ObNamesUnique, NEW w \in Workers, WorkerStep(w),
           NEW k \in Keys, Deprovisioned(k)', ~Deprovisioned(k)
    PROVE  job[w].key = k /\ (Delete(w) \/ Revoke(w))
<1> DEFINE j == job[w]
           i == job'[w]
           n == ObjectBucketName(k)
<1> USE DEF At
<1>1. /\ j \in Job /\ job \in [Workers -> Job] /\ JobShape(j) /\ j.pc # "idle" /\ j.key \in Keys
      /\ JobReady(j, ob[ObjectBucketName(j.key)], ArtifactsOf(artifact, j.key),
                  ObjectBucketName(j.key))
      /\ n \in ObNames /\ ob \in [ObNames -> ObjectBucket \cup {None}]
      /\ job' = [job EXCEPT ![w] = i] /\ (i = IdleJob \/ i.key = j.key)
  BY ProvisionStepJob, DeleteStepJob
  DEF TypeInv, ControllerInv, ClusterTypeOK, ObNames, WorkerStep, ReadyInv
<1>2. ob[n] # None /\ (j.key = k => j.pc \notin Settling)
  BY DEF Deprovisioned
<1>3. ob'[n] = None \/ (i.key = k /\ i.pc \in Settling)
  <2>1. \A v \in Workers : v # w => job'[v] = job[v]
    BY <1>1
  <2> QED
    BY <2>1 DEF Deprovisioned
<1>4. j.key = k
  BY <1>1, <1>2, <1>3, IdleKey, NoneAssumption, StepFrame
<1>5. CASE ProvisionStep(w)
  <2>1. i.pc \notin Settling
    BY <1>5, ProvisionStepJob, SettlingFacts
  <2>2. ASSUME NEW new, ob' = [ob EXCEPT ![n] = new], new # None
        PROVE  FALSE
    BY <1>1, <1>3, <2>1, <2>2
  <2>3. CASE CreateOb(w) \/ UpdateOb(w) \/ ObBound(w)
    <3>1. j.pc \in Binding /\ j.ob \in ObjectBucket
      BY <1>1, <2>3 DEF CreateOb, UpdateOb, ObBound, ReplaceOb, JobShape, Binding
    <3>2. ASSUME NEW p \in {None, "Bound", "Released"}, NEW d \in BOOLEAN
          PROVE  [j.ob EXCEPT !.phase = p, !.deleted = d] # None
      BY <3>1, <3>2, NoneAssumption DEF ObjectBucket
    <3>3. CASE CreateOb(w)
      BY <1>2, <1>3, <1>4, <2>1, <2>2, <3>1, <3>3, NoneAssumption DEF CreateOb
    <3>4. CASE UpdateOb(w)
      <4>1. j.base \in ObjectBucket
        BY <1>1, <3>4 DEF UpdateOb, ReplaceOb, JobShape
      <4>2. [j.ob EXCEPT !.phase = j.base.phase, !.deleted = j.base.deleted] # None
        BY <3>2, <4>1 DEF ObjectBucket
      <4> QED
        BY <1>2, <1>3, <1>4, <2>1, <2>2, <3>4, <4>2 DEF UpdateOb, ReplaceOb
    <3>5. CASE ObBound(w)
      <4>1. [j.ob EXCEPT !.phase = "Bound"] # None
        BY <3>1, NoneAssumption DEF ObjectBucket
      <4> QED
        BY <1>2, <1>3, <1>4, <2>1, <2>2, <3>5, <4>1 DEF ObBound, ReplaceOb
    <3> QED
      BY <2>3, <3>3, <3>4, <3>5
  <2>4. CASE ~(CreateOb(w) \/ UpdateOb(w) \/ ObBound(w))
    <3>1. UNCHANGED ob
      BY <1>5, <2>4
      DEF ProvisionStep, GetClaim, GetClass, SetPending, SetMeta, GetOb, SaveName, Provision,
          Grant, CreateArtifact, UpdateArtifact, ClaimRef, GetCurrentOb, BindClaim, SetBound,
          UpdateClaim, kube
    <3> QED
      BY <1>2, <1>3, <2>1, <3>1
  <2> QED
    BY <2>3, <2>4
<1>6. CASE FindOb(w) \/ FindCm(w) \/ GetObClass(w)
  <2>1. UNCHANGED ob /\ i.pc \in {"findCm", "findSecret", "delete", "revoke"}
    <3>1. CASE FindOb(w) \/ FindCm(w)
      <4> DEFINE b == ob[ObjectBucketName(j.key)]
                 cm == IfStored("cm", j.key)
      <4>1. /\ UNCHANGED ob
            /\ \/ i = [j EXCEPT !.pc = "findCm", !.ob = b]
               \/ i = [j EXCEPT !.pc = "findSecret", !.found = cm]
        BY <1>1, <3>1 DEF FindOb, FindCm, Continue, kube
      <4> HIDE DEF b, cm
      <4>2. /\ [j EXCEPT !.pc = "findCm", !.ob = b].pc = "findCm"
            /\ [j EXCEPT !.pc = "findSecret", !.found = cm].pc = "findSecret"
        BY <1>1 DEF Job
      <4> QED
        BY <4>1, <4>2
    <3>2. CASE GetObClass(w)
      <4> DEFINE pc == IF isNewBucket(j.ob) /\ j.ob.policy = "Delete" THEN "delete" ELSE "revoke"
      <4>1. i = [j EXCEPT !.pc = pc] /\ UNCHANGED ob
        BY <1>1, <3>2 DEF GetObClass, Continue, kube
      <4>2. pc \in {"delete", "revoke"}
        OBVIOUS
      <4> HIDE DEF pc
      <4> QED
        BY <1>1, <4>1, <4>2 DEF Job
    <3> QED
      BY <1>6, <3>1, <3>2
  <2> QED
    BY <1>2, <1>3, <2>1 DEF Settling
\* An OB that was not found is not there.
<1>7. CASE FindSecret(w)
  <2>1. UNCHANGED ob /\ j.pc = "findSecret" /\ j.ob # None
    BY <1>1, <1>2, <1>4, <1>7 DEF FindSecret, kube, JobReady
  <2>2. CASE Done(w)
    BY <1>1, <1>2, <1>3, <2>1, <2>2, SettlingFacts DEF Done
  <2>3. CASE ~Done(w)
    <3> DEFINE more == j.found \cup IfStored("secret", j.key)
    <3>1. i = [j EXCEPT !.pc = "markReleased", !.found = more]
      BY <1>1, <1>7, <2>1, <2>3 DEF FindSecret, Continue
    <3> HIDE DEF more
    <3>2. i.pc = "markReleased"
      BY <1>1, <3>1 DEF Job
    <3> QED
      BY <1>2, <1>3, <2>1, <3>2 DEF Settling
  <2> QED
    BY <2>2, <2>3
<1>8. CASE MarkReleased(w)
  <2> DEFINE new == [j.ob EXCEPT !.phase = "Released"]
  <2>1. new # None
    BY <1>1, <1>8, NoneAssumption DEF MarkReleased, ReplaceOb, JobShape, Unbinding, ObjectBucket
  <2>2. CASE UNCHANGED ob /\ Requeue(w)
    BY <1>1, <1>2, <1>3, <2>2, SettlingFacts DEF Requeue
  <2>3. CASE /\ ob' = [ob EXCEPT ![n] = new]
             /\ Continue(w, [j EXCEPT !.pc = "getObClass", !.ob = new, !.base = None])
    <3> HIDE DEF new
    <3>1. i.pc = "getObClass" /\ ob'[n] = new
      BY <1>1, <2>3 DEF Continue, Job
    <3> QED
      BY <1>3, <2>1, <3>1 DEF Settling
  <2> QED
    BY <1>4, <1>8, <2>2, <2>3 DEF MarkReleased, ReplaceOb
<1>9. CASE DropObFinalizer(w) \/ DeleteOb(w) \/ GetArtifact(w) \/ DropFinalizer(w)
           \/ GetClaimToRelease(w) \/ DropClaimFinalizer(w)
  <2>1. j.pc \in Settling
    BY <1>9
    DEF DropObFinalizer, DeleteOb, GetArtifact, DropFinalizer, GetClaimToRelease,
        DropClaimFinalizer, Settling
  <2> QED
    BY <1>2, <1>4, <2>1
<1> QED
  BY <1>4, <1>5, <1>6, <1>7, <1>8, <1>9 DEF WorkerStep, DeleteStep
LEMMA NewlyDeprovisioned ==
    ASSUME TypeInv, ClaimInv, ReadyInv, ObNamesUnique, [Next]_vars,
           NEW k \in Keys, Deprovisioned(k)', ~Deprovisioned(k)
    PROVE  \E w \in Workers : job[w].key = k /\ (Delete(w) \/ Revoke(w))
<1>1. job \in [Workers -> Job]
  BY DEF TypeInv, ControllerInv
<1>2. ASSUME UNCHANGED ob,
             \A v \in Workers : \/ job'[v].pc \notin Settling
                                \/ job'[v].key = job[v].key /\ job[v].pc \in Settling
      PROVE  FALSE
  BY <1>2 DEF Deprovisioned
<1>3. ASSUME NEW w \in Workers, NEW l \in Keys, GetItem(w, l)
      PROVE  FALSE
  <2>1. UNCHANGED ob /\ job' = [job EXCEPT ![w] = [IdleJob EXCEPT !.pc = "getClaim", !.key = l]]
    BY <1>3 DEF GetItem, kube
  <2>2. [IdleJob EXCEPT !.pc = "getClaim", !.key = l].pc \notin Settling
    BY DEF IdleJob, Settling
  <2> QED
    BY <1>1, <1>2, <2>1, <2>2
<1>4. CASE UNCHANGED vars \/ EnvironmentStep
  <2>1. UNCHANGED <<ob, job>>
    BY <1>4
    DEF vars, EnvironmentStep, Environment, CreateClaim, DeleteClaim, EditClaim, Collect,
        DeleteClass, CreateClass, kube
  <2> QED
    BY <1>2, <2>1
<1>5. ASSUME NEW w \in Workers, ApiError(w)
      PROVE  FALSE
  <2> DEFINE j == job[w]
  <2>1. j \in Job /\ UNCHANGED ob
    BY <1>1, <1>5 DEF ApiError, kube
  <2>2. CASE Requeue(w)
    BY <1>1, <1>2, <2>1, <2>2, SettlingFacts DEF Requeue
  <2>3. CASE ~Requeue(w)
    <3>1. /\ job' = [job EXCEPT ![w] = job'[w]] /\ job'[w].key = j.key
          /\ job'[w].pc = "revoke" \/ j.pc \in Settling
      BY <1>1, <1>5, <2>1, <2>3 DEF ApiError, Continue, SkipOb, Released, Job, Settling
    <3>2. job'[w].pc \notin Settling \/ (job'[w].key = j.key /\ j.pc \in Settling)
      BY <3>1 DEF Settling
    <3> QED
      BY <1>1, <1>2, <2>1, <3>1, <3>2
  <2> QED
    BY <2>2, <2>3
<1>6. CASE Fault /\ \A w \in Workers : ~ApiError(w)
  <2>1. UNCHANGED ob /\ \A v \in Workers : job'[v] = job[v] \/ job'[v] = IdleJob
    BY <1>1, <1>6 DEF Fault, ProvisionError, DeprovisionError, Crash, Requeue, kube
  <2> QED
    BY <1>2, <2>1, SettlingFacts
<1> QED
  BY <1>3, <1>4, <1>5, <1>6, WorkerDeprovisioned DEF Next, Fault

\* What is cleaned stays so: the claim's own worker does not provision again, and
\* nobody else has the claim's generated name.
LEMMA CleanedStays ==
    ASSUME TypeInv, ClaimInv, NamesInv, ReadyInv, StoreInv, ClassesKeepTheirBucket,
           GeneratedNames, [Next]_vars,
           NEW k \in Keys, obc[k] # None, obc[k].phase = "Bound", Deprovisioned(k),
           Cleaned(k, obc[k].bucket, bucket, access, spent)
    PROVE  Cleaned(k, obc[k].bucket, bucket', access', spent)
<1> DEFINE name == obc[k].bucket
<1>0. name \in Buckets
  BY DEF ReadyInv, ClaimReady, Linked, TypeInv, ClusterTypeOK, Claim
<1>1. CASE UNCHANGED store
  BY <1>1 DEF store
<1>2. ASSUME NEW w \in Workers, WorkerStep(w) \/ ProvisionError(w) \/ DeprovisionError(w),
             ~UNCHANGED store
      PROVE  Cleaned(k, name, bucket', access', spent)
  <2> DEFINE j == job[w]
  <2>1. StoreChange(j)
    BY <1>2, WorkerStoreChange
  <2>2. CASE j.pc \in {"delete", "revoke"}
    <3>1. /\ access' \subseteq access
          /\ UNCHANGED bucket \/ bucket' = [bucket EXCEPT ![j.ob.bucket] = None]
      BY <1>2, <2>1, <2>2 DEF StoreChange, Removed, Revoked
    <3>2. bucket'[name] # None => bucket'[name] = bucket[name]
      BY <1>0, <3>1 DEF TypeInv, ClusterTypeOK
    <3> QED
      BY <3>1, <3>2 DEF Cleaned
  <2>3. CASE j.pc = "provision"
    <3>1. /\ j \in Job /\ JobShape(j) /\ j.key \in Keys /\ JobNames(j) /\ JobClaim(j, obc[j.key])
          /\ JobReady(j, ob[ObjectBucketName(j.key)], ArtifactsOf(artifact, j.key),
                      ObjectBucketName(j.key))
          /\ JobStore(j, bucket, access, AskedNames)
          /\ bucket \in [Buckets -> StoreBucket \cup {None}]
      BY <2>3
      DEF TypeInv, ControllerInv, JobShape, NamesInv, ClaimInv, ReadyInv, StoreInv, ClusterTypeOK
    <3>2. j.key # k
      <4>1. SUFFICES ASSUME j.key = k PROVE FALSE
        OBVIOUS
      <4>2. ob[ObjectBucketName(k)] # None
        BY <2>3, <3>1, <4>1, SettlingFacts DEF JobClaim, SameClaim, JobReady
      <4>3. \A v \in Workers : job[v].key = k => v = w
        BY <4>1, NoneAssumption DEF ClaimInv, Apart
      <4> QED
        BY <2>3, <4>2, <4>3, SettlingFacts DEF Deprovisioned
    <3>3. access' \subseteq access \cup {<<j.key, j.name>>}
      BY <1>2, <2>1, <2>3, <3>1 DEF StoreChange, DoProvision, Provisioned, Granted, UserID
    <3>4. UNCHANGED bucket \/ (DoProvision(j) /\ j.class.bucket = None)
      BY <1>2, <2>1, <2>3 DEF StoreChange
    <3>5. CASE UNCHANGED bucket
      BY <3>2, <3>3, <3>5 DEF Cleaned
    <3>6. CASE DoProvision(j) /\ j.class.bucket = None
      <4>1. j.pc \in Chosen /\ j.obc \in Claim
        BY <2>3, <3>1 DEF Chosen, Naming, JobShape
      <4>2. j.name \in GenNames
        <5>1. j.class \in ClassDefs[j.obc.class]
          BY <2>3, <3>1 DEF JobNames, Naming
        <5>2. Greenfield(j.obc.class)
          BY <3>6, <4>1, <5>1 DEF ClassesKeepTheirBucket, Greenfield, Claim
        <5> QED
          BY <3>1, <4>1, <5>2 DEF JobStore, NameFits
      <4>3. j.name # name
        <5>1. JobRecord(j) \in Records /\ ClaimRecord(obc[k], k) \in Records
          BY <4>1, RecordFacts
        <5>2. JobRecord(j)[1] = j.name /\ JobRecord(j)[2] = j.key
          BY DEF JobRecord
        <5>3. ClaimRecord(obc[k], k)[1] = name /\ ClaimRecord(obc[k], k)[2] = k
          BY DEF ClaimRecord
        <5> QED
          BY <3>2, <4>2, <5>1, <5>2, <5>3 DEF StoreInv, OneHolder
      <4>4. bucket'[name] = bucket[name]
        BY <3>1, <3>6, <4>3 DEF DoProvision, Provisioned
      <4> QED
        BY <3>2, <3>3, <4>4 DEF Cleaned
    <3> QED
      BY <3>4, <3>5, <3>6
  <2> QED
    BY <1>2, <2>1, <2>2, <2>3 DEF StoreChange
<1> QED
  BY <1>1, <1>2
  DEF Next, Fault, GetItem, ApiError, Crash, EnvironmentStep, Environment, CreateClaim,
      DeleteClaim, EditClaim, Collect, DeleteClass, CreateClass, vars, store
\* Delete and Revoke do what has to be done for the claim: its OB names its bucket.
LEMMA NowCleaned ==
    ASSUME TypeInv, ClaimInv, ReadyInv, StoreInv, CleanedInv, GeneratedNames,
           ClassesKeepTheirPolicy, NEW w \in Workers, Delete(w) \/ Revoke(w),
           NEW k \in Keys, job[w].key = k, obc[k] # None, obc[k].phase = "Bound"
    PROVE  Cleaned(k, obc[k].bucket, bucket', access', spent)
<1> DEFINE j == job[w]
           n == ObjectBucketName(k)
           name == obc[k].bucket
<1> USE DEF At
<1>1. /\ JobShape(j) /\ j.pc \in {"delete", "revoke"}
      /\ JobReady(j, ob[n], ArtifactsOf(artifact, k), n)
      /\ bucket \in [Buckets -> StoreBucket \cup {None}]
  BY DEF TypeInv, ControllerInv, ReadyInv, ClusterTypeOK, Delete, Revoke
<1>2. j.ob = ob[n] /\ j.ob # None /\ j.ob \in ObjectBucket
  BY <1>1, NoneAssumption DEF JobReady, Unbinding, JobShape
<1>3. j.ob.bucket = name /\ name \in Buckets /\ j.ob.user = k
  BY <1>2 DEF ReadyInv, ClaimReady, StoreInv, ObStore, ObjectBucket
<1>4. CASE Delete(w)
  <2>1. <<k, name>>[2] = name
    OBVIOUS
  <2>2. bucket'[name] = None /\ <<k, name>> \notin access'
    BY <1>1, <1>3, <1>4, <2>1 DEF Delete, Removed
  <2> QED
    BY <2>2 DEF Cleaned
<1>5. CASE Revoke(w)
  <2>1. UNCHANGED bucket /\ <<k, name>> \notin access' /\ j.pc = "revoke"
    BY <1>3, <1>5 DEF Revoke, Revoked
  <2>2. ASSUME bucket[name] # None, Unfailing(spent)
        PROVE  bucket[name].policy # "Delete"
    <3>1. CASE name \notin GenNames
      BY <1>3, <2>2, <3>1, NoneAssumption DEF StoreInv, BucketStore, Policies
    <3>2. CASE name \in GenNames
      <4>1. j.ob.policy # "Delete"
        BY <1>3, <2>1, <2>2, <3>2 DEF CleanedInv, RevokeFits
      <4>2. BucketRecord(name, bucket[name]) \in Records /\ ObRecord(ob[n], k) \in Records
        BY <1>2, <1>3, <2>2, RecordFacts
      <4>3. BucketRecord(name, bucket[name]) = ObRecord(ob[n], k)
        BY <1>2, <1>3, <3>2, <4>2 DEF StoreInv, OneHolder, BucketRecord, ObRecord
      <4> QED
        BY <1>2, <4>1, <4>3 DEF BucketRecord, ObRecord, Kept
    <3> QED
      BY <3>1, <3>2
  <2> QED
    BY <2>1, <2>2 DEF Cleaned
<1> QED
  BY <1>4, <1>5

\* While its class can be read, an OB with a generated bucket is for a new bucket.
LEMMA NextRevokeFits ==
    ASSUME TypeInv, NamesInv, ReadyInv, StoreInv, CleanedInv, GeneratedNames, [Next]_vars
    PROVE  \A v \in Workers : RevokeFits(job'[v], spent')
<1>1. job \in [Workers -> Job]
  BY DEF TypeInv, ControllerInv
<1>2. /\ Unfailing(spent') => Unfailing(spent)
      /\ Unfailing(spent) => spent.classOp = 0 /\ spent.apiError = 0
  BY FailuresCount
<1>3. ASSUME NEW v \in Workers, job'[v] = job[v]
      PROVE  RevokeFits(job'[v], spent')
  BY <1>2, <1>3 DEF CleanedInv, RevokeFits
<1>4. ASSUME NEW w \in Workers, job' = [job EXCEPT ![w] = job'[w]], RevokeFits(job'[w], spent')
      PROVE  \A v \in Workers : RevokeFits(job'[v], spent')
  BY <1>1, <1>3, <1>4
<1>5. ASSUME NEW w \in Workers, WorkerStep(w)
      PROVE  \A v \in Workers : RevokeFits(job'[v], spent')
  <2> DEFINE j == job[w]
             i == job'[w]
  <2>1. job' = [job EXCEPT ![w] = i]
    BY <1>5, ProvisionStepJob, DeleteStepJob DEF WorkerStep
  <2>2. CASE ProvisionStep(w)
    <3>1. i.pc # "revoke"
      BY <2>2, ProvisionStepJob, IdleKey DEF Cleaning, Deprovisioning, Unbinding
    <3> QED
      BY <1>4, <2>1, <3>1 DEF RevokeFits
  <2>3. CASE GetObClass(w)
    <3> DEFINE pc == IF isNewBucket(j.ob) /\ j.ob.policy = "Delete" THEN "delete" ELSE "revoke"
    <3>1. /\ i = [j EXCEPT !.pc = pc] /\ j \in Job /\ JobShape(j) /\ j.pc = "getObClass"
          /\ j.key \in Keys
      BY <1>1, <2>3 DEF GetObClass, Continue, At, TypeInv, ControllerInv, JobShape
    <3>2. pc = "revoke" => ~isNewBucket(j.ob) \/ j.ob.policy # "Delete"
      OBVIOUS
    <3> HIDE DEF pc
    <3>3. i.pc = pc /\ i.ob = j.ob
      BY <3>1 DEF Job
    <3>4. j.ob = ob[ObjectBucketName(j.key)] /\ j.ob # None
      BY <3>1, NoneAssumption DEF ReadyInv, JobReady, JobShape, Unbinding
    <3>5. j.ob.class \in Classes /\ NameFits(j.ob.bucket, j.ob.class)
      BY <3>1, <3>4 DEF StoreInv, ObStore
    <3>6. ASSUME Unfailing(spent'), j.ob.bucket \in GenNames
          PROVE  isNewBucket(j.ob)
      <4>1. class[j.ob.class] # None /\ Greenfield(j.ob.class)
        BY <1>2, <3>5, <3>6 DEF CleanedInv, NameFits
      <4>2. class[j.ob.class].bucket = None
        BY <3>5, <4>1 DEF NamesInv, ClassesDefined, Greenfield
      <4> QED
        BY <3>5, <4>1, <4>2, NoneAssumption DEF isNewBucket, storageClassForObjectBucket
    <3>7. RevokeFits(i, spent')
      BY <3>2, <3>3, <3>6 DEF RevokeFits
    <3> QED
      BY <1>4, <2>1, <3>7
  <2>4. CASE DeleteStep(w) /\ ~GetObClass(w)
    <3>1. i.pc # "revoke"
      <4>1. ASSUME NEW failed, Released(w, failed)
            PROVE  i.pc = "release"
        BY <1>1, <4>1 DEF Released, Job
      <4>2. CASE FindOb(w) \/ FindCm(w)
        <5>1. ASSUME NEW x
              PROVE  /\ [j EXCEPT !.pc = "findCm", !.ob = x].pc = "findCm"
                     /\ [j EXCEPT !.pc = "findSecret", !.found = x].pc = "findSecret"
          BY <1>1 DEF Job
        <5> QED
          BY <1>1, <4>2, <5>1 DEF FindOb, FindCm, Continue
      <4>3. CASE FindSecret(w)
        <5> DEFINE pc == IF j.ob = None THEN "release" ELSE "markReleased"
                   more == j.found \cup IfStored("secret", j.key)
        <5>1. i = IdleJob \/ i = [j EXCEPT !.pc = pc, !.found = more]
          BY <1>1, <4>3 DEF FindSecret, Continue, Done
        <5>2. pc # "revoke"
          OBVIOUS
        <5> HIDE DEF pc, more
        <5>3. [j EXCEPT !.pc = pc, !.found = more].pc = pc
          BY <1>1 DEF Job
        <5> QED
          BY <5>1, <5>2, <5>3, SettlingFacts
      <4>4. CASE MarkReleased(w)
        <5> DEFINE new == [j.ob EXCEPT !.phase = "Released"]
        <5>1. i = IdleJob \/ i = [j EXCEPT !.pc = "getObClass", !.ob = new, !.base = None]
          BY <1>1, <4>4 DEF MarkReleased, ReplaceOb, Continue, Requeue
        <5> HIDE DEF new
        <5>2. [j EXCEPT !.pc = "getObClass", !.ob = new, !.base = None].pc = "getObClass"
          BY <1>1 DEF Job
        <5> QED
          BY <5>1, <5>2, SettlingFacts
      <4>5. CASE Delete(w) \/ Revoke(w) \/ DeleteOb(w)
        BY <1>1, <4>5 DEF Delete, Revoke, DeleteOb, Job
      <4>6. CASE DropObFinalizer(w)
        BY <1>1, <4>6 DEF DropObFinalizer, SkipOb, Job
      <4>7. CASE GetArtifact(w) \/ DropFinalizer(w)
        BY <1>1, <4>1, <4>7 DEF GetArtifact, DropFinalizer, Job
      <4>8. CASE GetClaimToRelease(w) \/ DropClaimFinalizer(w)
        <5>1. \/ i = IdleJob
              \/ i = [j EXCEPT !.pc = "dropClaimFinalizer", !.obc = obc[j.key]]
          BY <1>1, <4>8
          DEF GetClaimToRelease, DropClaimFinalizer, ContinueIfFound, Continue, Requeue
        <5>2. [j EXCEPT !.pc = "dropClaimFinalizer", !.obc = obc[j.key]].pc
                  = "dropClaimFinalizer"
          BY <1>1 DEF Job
        <5> QED
          BY <5>1, <5>2, SettlingFacts
      <4> QED
        BY <2>4, <4>2, <4>3, <4>4, <4>5, <4>6, <4>7, <4>8 DEF DeleteStep
    <3> QED
      BY <1>4, <2>1, <3>1 DEF RevokeFits
  <2> QED
    BY <1>5, <2>2, <2>3, <2>4 DEF WorkerStep
<1>6. ASSUME NEW w \in Workers, NEW k \in Keys, GetItem(w, k)
      PROVE  \A v \in Workers : RevokeFits(job'[v], spent')
  <2> DEFINE i == [IdleJob EXCEPT !.pc = "getClaim", !.key = k]
  <2>1. job' = [job EXCEPT ![w] = i]
    BY <1>6 DEF GetItem
  <2>2. i.pc = "getClaim"
    BY DEF IdleJob
  <2> HIDE DEF i
  <2>3. job'[w] = i
    BY <1>1, <2>1
  <2>4. RevokeFits(i, spent')
    BY <2>2 DEF RevokeFits
  <2> QED
    BY <1>4, <2>1, <2>3, <2>4
<1>7. ASSUME NEW w \in Workers, ApiError(w)
      PROVE  \A v \in Workers : RevokeFits(job'[v], spent')
  <2>1. spent' = [spent EXCEPT !["apiError"] = @ + 1]
    BY <1>7 DEF ApiError, Spend
  <2>2. spent'.apiError = spent.apiError + 1 /\ spent'.classOp = spent.classOp
    BY <2>1 DEF TypeInv, ClusterTypeOK, Budgets
  <2>3. ~Unfailing(spent')
    BY <2>2 DEF Unfailing, TypeInv, ClusterTypeOK, Budgets
  <2> QED
    BY <2>3 DEF RevokeFits
<1>8. CASE Fault /\ \A w \in Workers : ~ApiError(w)
  <2>1. \A v \in Workers : job'[v] = job[v] \/ job'[v] = IdleJob
    BY <1>1, <1>8 DEF Fault, ProvisionError, DeprovisionError, Crash, Requeue
  <2> QED
    BY <1>3, <2>1, SettlingFacts DEF RevokeFits
<1>9. CASE UNCHANGED vars \/ EnvironmentStep
  BY <1>3, <1>9 DEF vars, EnvironmentStep
<1> QED
  BY <1>5, <1>6, <1>7, <1>8, <1>9 DEF Next, Fault
LEMMA NextCleaned ==
    ASSUME TypeInv, ClaimInv, NamesInv, ReadyInv, StoreInv, CleanedInv, ClaimInv', ReadyInv',
           ObNamesUnique, GeneratedNames, ClassesKeepTheirBucket, ClassesKeepTheirPolicy,
           [Next]_vars
    PROVE  CleanedInv'
<1>1. ASSUME NEW k \in Keys, obc'[k] # None, obc'[k].phase = "Bound", Deprovisioned(k)'
      PROVE  Cleaned(k, obc'[k].bucket, bucket', access', spent')
  <2>1. obc'[k].deleted
    <3>1. CASE ob'[ObjectBucketName(k)] = None
      BY <1>1, <3>1 DEF ReadyInv, ClaimReady
    <3>2. ASSUME NEW w \in Workers, job'[w].key = k, job'[w].pc \in Settling
          PROVE  obc'[k].deleted
      <4>1. job'[w].pc \in Deprovisioning /\ job'[w].pc # "idle"
        BY <3>2, SettlingFacts, PcFacts
      <4> QED
        BY <3>2, <4>1 DEF ClaimInv, JobClaim
    <3> QED
      BY <1>1, <3>1, <3>2 DEF Deprovisioned
  <2>2. obc[k] # None /\ obc'[k].bucket = obc[k].bucket /\ obc[k].phase = "Bound"
    BY <1>1, <2>1, MarkedClaim
  <2>3. Cleaned(k, obc[k].bucket, bucket', access', spent)
    <3>1. CASE Deprovisioned(k)
      <4>1. Cleaned(k, obc[k].bucket, bucket, access, spent)
        BY <2>2, <3>1 DEF CleanedInv
      <4> QED
        BY <2>2, <3>1, <4>1, CleanedStays
    <3>2. CASE ~Deprovisioned(k)
      BY <1>1, <2>2, <3>2, NewlyDeprovisioned, NowCleaned
    <3> QED
      BY <3>1, <3>2
  <2> QED
    BY <2>2, <2>3, FailuresCount DEF Cleaned
<1>2. \A w \in Workers : RevokeFits(job'[w], spent')
  BY NextRevokeFits
<1>3. ASSUME spent'.classOp = 0
      PROVE  \A c \in Classes : class'[c] # None
  <2>1. \A c \in Classes : class[c] # None
    BY <1>3, FailuresCount DEF CleanedInv
  <2>2. ASSUME NEW c \in Classes, DeleteClass(c)
        PROVE  FALSE
    BY <1>3, <2>2 DEF DeleteClass, Spend, TypeInv, ClusterTypeOK, Budgets
  <2>3. CASE EnvironmentStep
    <3>1. ~\E c \in Classes : DeleteClass(c) \/ CreateClass(c)
      BY <2>1, <2>2 DEF CreateClass
    <3>2. UNCHANGED class
      BY <2>3, <3>1
      DEF EnvironmentStep, Environment, CreateClaim, DeleteClaim, EditClaim, Collect
    <3> QED
      BY <2>1, <3>2
  <2>4. CASE ~EnvironmentStep
    <3>1. ASSUME NEW w \in Workers, ProvisionStep(w)
          PROVE  UNCHANGED class
      BY <3>1
      DEF ProvisionStep, GetClaim, GetClass, SetPending, SetMeta, GetOb, SaveName, Provision,
          Grant, CreateArtifact, UpdateArtifact, ClaimRef, CreateOb, GetCurrentOb, UpdateOb,
          ObBound, ReplaceOb, BindClaim, SetBound, UpdateClaim, kube
    <3>2. ASSUME NEW w \in Workers, DeleteStep(w)
          PROVE  UNCHANGED class
      BY <3>2
      DEF DeleteStep, FindOb, FindCm, FindSecret, MarkReleased, ReplaceOb, GetObClass, Delete,
          Revoke, DropObFinalizer, DeleteOb, GetArtifact, DropFinalizer, GetClaimToRelease,
          DropClaimFinalizer, kube
    <3>3. UNCHANGED class
      BY <2>4, <3>1, <3>2
      DEF Next, WorkerStep, GetItem, Fault, ProvisionError, DeprovisionError, ApiError, Crash,
          vars, kube
    <3> QED
      BY <2>1, <3>3
  <2> QED
    BY <2>3, <2>4
<1> QED
  BY <1>1, <1>2, <1>3 DEF CleanedInv

\* A claim that was Bound vanishes at the end of its cleanup, not before.
LEMMA VanishedClaim ==
    ASSUME TypeInv, ClaimInv, [Next]_vars, NEW k \in Keys, obc[k] # None, obc[k].phase = "Bound",
           obc'[k] = None
    PROVE  Deprovisioned(k)
<1>1. obc \in [Keys -> Claim \cup {None}] /\ obc[k] \in Claim /\ obc[k].finalizer
  BY DEF TypeInv, ClusterTypeOK, ClaimInv, ClaimSound, Claim
<1>2. ASSUME NEW new, NEW l \in Keys, obc' = [obc EXCEPT ![l] = new], new # None
      PROVE  FALSE
  BY <1>1, <1>2
<1>3. ASSUME NEW w \in Workers,
             SetPending(w) \/ SetMeta(w) \/ SaveName(w) \/ BindClaim(w) \/ SetBound(w)
      PROVE  FALSE
  <2> DEFINE j == job[w]
  <2>1. j.obc \in Claim /\ j.key \in Keys
    BY <1>3
    DEF SetPending, SetMeta, SaveName, BindClaim, SetBound, UpdateClaim, At, TypeInv,
        ControllerInv, JobShape
  <2>2. ASSUME NEW pc, NEW new, NEW next, UpdateClaim(w, pc, new, next), new # None
        PROVE  FALSE
    BY <1>1, <1>2, <2>1, <2>2 DEF UpdateClaim
  <2>3. [j.obc EXCEPT !.phase = "Pending"] # None
    BY <2>1, NoneAssumption DEF Claim
  <2>4. addFinalizers(j.obc) # None
    BY <2>1, NoneAssumption DEF addFinalizers, Claim
  <2>5. CASE SetPending(w)
    BY <2>2, <2>3, <2>5 DEF SetPending
  <2>6. CASE SetMeta(w)
    BY <2>2, <2>4, <2>6 DEF SetMeta
  <2>7. CASE SaveName(w)
    <3> DEFINE new == [j.obc EXCEPT !.bucket = j.name]
    <3>1. j.name \in Buckets
      BY <2>7 DEF SaveName, UpdateClaim, At, TypeInv, ControllerInv, JobShape, Naming
    <3>2. new # None
      BY <2>1, <3>1, NoneAssumption DEF Claim
    <3> HIDE DEF new
    <3> QED
      BY <2>2, <2>7, <3>2 DEF SaveName, new
  <2>8. CASE BindClaim(w)
    <3> DEFINE new == [j.obc EXCEPT !.ob = ObjectBucketName(j.key), !.bucket = j.name]
    <3>1. j.name \in Buckets /\ ObjectBucketName(j.key) \in ObNames
      BY <2>1, <2>8
      DEF BindClaim, UpdateClaim, At, TypeInv, ControllerInv, JobShape, Binding, ObNames
    <3>2. new # None
      <4> DEFINE m == ObjectBucketName(j.key)
      <4>1. m \in ObNames /\ new = [j.obc EXCEPT !.ob = m, !.bucket = j.name]
        BY <3>1
      <4> HIDE DEF m, new
      <4>2. new \in Claim
        BY <2>1, <3>1, <4>1 DEF Claim
      <4> QED
        BY <4>2, NoneAssumption
    <3>3. UpdateClaim(w, "bindClaim", new, [j EXCEPT !.pc = "setBound", !.obc = new])
      BY <2>8 DEF BindClaim
    <3> HIDE DEF new
    <3> QED
      BY <2>2, <3>2, <3>3
  <2>9. CASE SetBound(w)
    <3>1. [j.obc EXCEPT !.phase = "Bound"] # None
      BY <2>1, NoneAssumption DEF Claim
    <3> QED
      BY <2>2, <2>9, <3>1 DEF SetBound
  <2> QED
    BY <1>3, <2>5, <2>6, <2>7, <2>8, <2>9
<1>4. ASSUME NEW w \in Workers, DropClaimFinalizer(w)
      PROVE  Deprovisioned(k)
  <2>1. job[w].key \in Keys /\ job[w].pc \in Settling
    BY <1>4 DEF DropClaimFinalizer, At, TypeInv, ControllerInv, JobShape, Settling
  <2>2. job[w].key = k
    BY <1>1, <1>4, <2>1 DEF DropClaimFinalizer
  <2> QED
    BY <2>1, <2>2 DEF Deprovisioned
<1>5. ASSUME NEW l \in Keys, DeleteClaim(l)
      PROVE  FALSE
  <2>1. l = k
    BY <1>1, <1>5 DEF DeleteClaim
  <2>2. Deleting(obc[k]) # None
    <3> DEFINE new == [obc[k] EXCEPT !.deleted = TRUE]
    <3>1. new \in Claim /\ new.finalizer
      BY <1>1 DEF Claim
    <3>2. Deleting(obc[k]) = Stored(new)
      BY DEF Deleting
    <3> HIDE DEF new
    <3> QED
      BY <3>1, <3>2, NoneAssumption DEF Stored
  <2> QED
    BY <1>2, <1>5, <2>1, <2>2 DEF DeleteClaim
<1>6. ASSUME NEW l \in Keys, EditClaim(l)
      PROVE  FALSE
  <2> DEFINE new == [obc[l] EXCEPT !.config = spent.edit + 1]
  <2>1. obc[l] \in Claim /\ obc' = [obc EXCEPT ![l] = new]
    BY <1>1, <1>6 DEF EditClaim
  <2>2. new # None
    BY <1>6, EditTypes, NoneAssumption DEF TypeInv
  <2> HIDE DEF new
  <2> QED
    BY <1>2, <2>1, <2>2
<1>7. ASSUME NEW l \in Keys, NEW r \in Requests, CreateClaim(l, r)
      PROVE  FALSE
  <2>1. l # k
    BY <1>7 DEF CreateClaim
  <2> QED
    BY <1>1, <1>7, <2>1 DEF CreateClaim
<1>8. CASE UNCHANGED obc
  BY <1>8
<1> QED
  BY <1>3, <1>4, <1>5, <1>6, <1>7, <1>8, ClaimSteps

LEMMA InitCleaned == Init => CleanedInv
<1> SUFFICES ASSUME Init PROVE CleanedInv
  OBVIOUS
<1>1. \A w \in Workers : RevokeFits(job[w], spent)
  BY SettlingFacts DEF Init, RevokeFits
<1>2. \A c \in Classes : class[c] # None
  BY NoneAssumption DEF Init, ClusterInit
<1> QED
  BY <1>1, <1>2 DEF Init, ClusterInit, CleanedInv

\* With a single process, a claim that had reached Bound is released by releaseOBC
\* only after the provisioner has done its part: its user is locked out of the
\* bucket and, unless a class was deleted or an API call failed, a bucket with the
\* Delete policy is gone, however often crashes or provisioner errors interrupted
\* handleDeleteClaim.
THEOREM BoundClaimsAreCleaned ==
    ASSUME SingleProcess, ObNamesUnique, ClassesKeepTheirBucket, ClassesKeepTheirPolicy,
           GeneratedNames
    PROVE  Spec => BoundClaimsLeaveNothing
<1> DEFINE Inv == TypeInv /\ ClaimInv /\ NamesInv /\ ReadyInv /\ StoreInv
           Leaves == \A k \in Keys :
                        LET o == obc[k] IN
                        o # None /\ o.phase = "Bound" /\ obc'[k] = None =>
                            /\ <<UserID(k), o.bucket>> \notin access'
                            /\ bucket'[o.bucket] # None /\ spent.classOp + spent.apiError = 0
                                  => bucket'[o.bucket].policy # "Delete"
<1>1. Inv /\ Inv' /\ CleanedInv /\ [Next]_vars => CleanedInv'
  BY NextCleaned
<1>2. Inv /\ CleanedInv /\ [Next]_vars => [Leaves]_vars
  <2> SUFFICES ASSUME Inv, CleanedInv, [Next]_vars, NEW k \in Keys, obc[k] # None,
                      obc[k].phase = "Bound", obc'[k] = None
               PROVE  /\ <<UserID(k), obc[k].bucket>> \notin access'
                      /\ bucket'[obc[k].bucket] # None /\ spent.classOp + spent.apiError = 0
                            => bucket'[obc[k].bucket].policy # "Delete"
    OBVIOUS
  <2>1. Deprovisioned(k)
    BY VanishedClaim
  <2>2. Cleaned(k, obc[k].bucket, bucket, access, spent)
    BY <2>1 DEF CleanedInv
  <2>3. Cleaned(k, obc[k].bucket, bucket', access', spent)
    BY <2>1, <2>2, CleanedStays
  <2> QED
    BY <2>3 DEF Cleaned, Unfailing, UserID
<1>3. Spec => []Inv
  BY StoreInvariance
<1> HIDE DEF Inv, Leaves
<1>4. Spec => [][Leaves]_vars
  BY <1>1, <1>2, <1>3, InitCleaned, PTL DEF Spec
<1> QED
  BY <1>4 DEF Leaves, BoundClaimsLeaveNothing
===============================================================================
