--------------------------- MODULE ReconcilerProofs ---------------------------
(* Theorems about Reconciler, for every value of its constants.            *)
EXTENDS Reconciler, TLAPS

-------------------------------------------------------------------------------
(* Type correctness.                                                       *)

\* The program counters at which a job has chosen its bucket, holds an OB, ...
Naming     == {"saveName", "provision"}
Artifacts  == {"createSecret", "updateSecret", "createCm", "updateCm", "claimRef"}
Binding    == {"createOb", "getCurrentOb", "updateOb", "obBound", "bindClaim",
               "setBound"}
Unbinding  == {"markReleased", "getObClass", "delete", "revoke",
               "dropObFinalizer", "deleteOb"}

\* handleProvisionClaim, and handleDeleteClaim.
Provisioning   == {"setPending", "setMeta", "getOb"} \cup Naming \cup Artifacts \cup Binding
Deprovisioning == {"findOb", "findCm", "findSecret", "release", "dropFinalizer",
                   "dropClaimFinalizer"} \cup Unbinding

\* What a job holds at each program counter.
JobShape(j) ==
    /\ j.pc # "idle" => j.key \in Keys
    /\ j.pc \notin {"idle", "getClaim"} => j.obc \in Claim
    /\ j.pc \notin {"idle", "getClaim", "getClass"} => j.class \in ClassDef
    /\ j.pc \in Naming \cup Artifacts \cup Binding => j.name \in Buckets
    /\ j.pc \in Artifacts \cup Binding \cup Unbinding => j.ob \in ObjectBucket
    /\ j.pc = "updateOb" => j.base \in ObjectBucket
    /\ j.pc = "dropFinalizer" => j.base \in Artifact

\* The part of it that concerns the controller processes.
ControllerInv ==
    /\ queue \in [Instances -> SUBSET Keys]
    /\ job \in [Workers -> Job]
    /\ \A w \in Workers : JobShape(job[w])

TypeInv == ClusterTypeOK /\ ControllerInv

LEMMA StoredTypes ==
    /\ \A o \in Claim : Stored(o) \in Claim \cup {None}
    /\ \A o \in ObjectBucket : Stored(o) \in ObjectBucket \cup {None}
    /\ \A o \in Artifact : Stored(o) \in Artifact \cup {None}
BY DEF Stored

LEMMA DeletingTypes ==
    /\ \A o \in Claim : Deleting(o) \in Claim \cup {None}
    /\ \A o \in ObjectBucket : Deleting(o) \in ObjectBucket \cup {None}
    /\ \A o \in Artifact : Deleting(o) \in Artifact \cup {None}
<1>1. \A o \in Claim : [o EXCEPT !.deleted = TRUE] \in Claim
  BY DEF Claim
<1>2. \A o \in ObjectBucket : [o EXCEPT !.deleted = TRUE] \in ObjectBucket
  BY DEF ObjectBucket
<1>3. \A o \in Artifact : [o EXCEPT !.deleted = TRUE] \in Artifact
  BY DEF Artifact
<1> QED
  BY <1>1, <1>2, <1>3, StoredTypes DEF Deleting

LEMMA RemoveFinalizerTypes ==
    /\ \A o \in Claim : removeFinalizer(o) \in Claim \cup {None}
    /\ \A o \in ObjectBucket : removeFinalizer(o) \in ObjectBucket \cup {None}
    /\ \A o \in Artifact : removeFinalizer(o) \in Artifact \cup {None}
<1>1. \A o \in Claim : [o EXCEPT !.finalizer = FALSE] \in Claim
  BY DEF Claim
<1>2. \A o \in ObjectBucket : [o EXCEPT !.finalizer = FALSE] \in ObjectBucket
  BY DEF ObjectBucket
<1>3. \A o \in Artifact : [o EXCEPT !.finalizer = FALSE] \in Artifact
  BY DEF Artifact
<1> QED
  BY <1>1, <1>2, <1>3, StoredTypes DEF removeFinalizer

LEMMA NamesForTypes ==
    ASSUME NEW c \in ClassDef, NEW o \in Claim
    PROVE  NamesFor(c, o) \subseteq Buckets
<1>1. c.bucket \in Buckets \cup {None} /\ o.bucket \in Buckets \cup {None}
       /\ o.generate \in BOOLEAN
  BY DEF ClassDef, Claim
<1>2. FreshNames \subseteq Buckets
  BY DEF FreshNames, Buckets
<1> QED
  BY <1>1, <1>2 DEF NamesFor

LEMMA IdleTypes == IdleJob \in Job /\ JobShape(IdleJob)
BY DEF IdleJob, Job, JobShape, PCs, Naming, Artifacts, Binding, Unbinding

\* A job that moves only worker w keeps the types of all jobs.
LEMMA JobStep ==
    ASSUME ControllerInv, NEW w \in Workers, NEW j \in Job, JobShape(j),
           job' = [job EXCEPT ![w] = j]
    PROVE  job' \in [Workers -> Job] /\ \A v \in Workers : JobShape(job'[v])
BY DEF ControllerInv

LEMMA EnqueuedTypes ==
    ASSUME NEW q \in [Instances -> SUBSET Keys]
    PROVE  Enqueued(q) \in [Instances -> SUBSET Keys]
BY DEF Enqueued

LEMMA RequeuedTypes ==
    ASSUME ControllerInv, NEW w \in Workers, job[w].pc # "idle"
    PROVE  Requeued(w) \in [Instances -> SUBSET Keys]
<1>1. HostOf[w] \in Instances
  BY DEF Instances
<1>2. job[w].key \in Keys
  BY DEF ControllerInv, JobShape
<1> QED
  BY <1>1, <1>2 DEF Requeued, ControllerInv

\* The three ways a handler's step ends: it goes on, succeeds or fails.
LEMMA ContinueTypes ==
    ASSUME ControllerInv, NEW w \in Workers, NEW j \in Job, JobShape(j), Continue(w, j)
    PROVE  ControllerInv'
BY JobStep DEF Continue, ControllerInv

LEMMA DoneTypes ==
    ASSUME ControllerInv, NEW w \in Workers, Done(w)
    PROVE  ControllerInv'
BY JobStep, IdleTypes DEF Done, ControllerInv

LEMMA RequeueTypes ==
    ASSUME ControllerInv, NEW w \in Workers, job[w].pc # "idle", Requeue(w)
    PROVE  ControllerInv'
BY JobStep, IdleTypes, RequeuedTypes DEF Requeue, ControllerInv

LEMMA UpdateClaimTypes ==
    ASSUME TypeInv, NEW w \in Workers, NEW pc, pc # "idle", NEW new \in Claim,
           NEW next \in Job, JobShape(next), UpdateClaim(w, pc, new, next)
    PROVE  TypeInv'
<1>1. job[w].pc # "idle" /\ job[w].key \in Keys
  BY DEF UpdateClaim, At, TypeInv, ControllerInv, JobShape
<1>2. CASE obc' = [obc EXCEPT ![job[w].key] = new] /\ queue' = Enqueued(queue)
           /\ job' = [job EXCEPT ![w] = next]
  <2>1. ControllerInv'
    BY <1>2, JobStep, EnqueuedTypes DEF TypeInv, ControllerInv
  <2>2. ClusterTypeOK'
    BY <1>1, <1>2 DEF UpdateClaim, TypeInv, ClusterTypeOK, store
  <2> QED
    BY <2>1, <2>2 DEF TypeInv
<1>3. CASE Requeue(w) /\ UNCHANGED obc
  <2>1. ControllerInv'
    BY <1>1, <1>3, RequeueTypes DEF TypeInv
  <2>2. ClusterTypeOK'
    BY <1>3 DEF UpdateClaim, TypeInv, ClusterTypeOK, store
  <2> QED
    BY <2>1, <2>2 DEF TypeInv
<1> QED
  BY <1>2, <1>3 DEF UpdateClaim

LEMMA ReplaceObTypes ==
    ASSUME TypeInv, NEW w \in Workers, NEW pc, pc # "idle", NEW old,
           NEW new \in ObjectBucket, NEW next,
           [job[w] EXCEPT !.pc = next, !.ob = new, !.base = None] \in Job,
           JobShape([job[w] EXCEPT !.pc = next, !.ob = new, !.base = None]),
           ReplaceOb(w, pc, old, new, next)
    PROVE  TypeInv'
<1> DEFINE j == [job[w] EXCEPT !.pc = next, !.ob = new, !.base = None]
           n == ObjectBucketName(job[w].key)
<1>1. job[w].pc # "idle" /\ job[w].key \in Keys
  BY DEF ReplaceOb, At, TypeInv, ControllerInv, JobShape
<1>2. n \in ObNames
  BY <1>1 DEF ObNames
<1>3. CASE ob' = [ob EXCEPT ![n] = new] /\ Continue(w, j)
  <2>1. ControllerInv'
    BY <1>3, ContinueTypes DEF TypeInv
  <2>2. ClusterTypeOK'
    BY <1>2, <1>3 DEF ReplaceOb, TypeInv, ClusterTypeOK, store
  <2> QED
    BY <2>1, <2>2 DEF TypeInv
<1>4. CASE Requeue(w) /\ UNCHANGED ob
  <2>1. ControllerInv'
    BY <1>1, <1>4, RequeueTypes DEF TypeInv
  <2>2. ClusterTypeOK'
    BY <1>4 DEF ReplaceOb, TypeInv, ClusterTypeOK, store
  <2> QED
    BY <2>1, <2>2 DEF TypeInv
<1> QED
  BY <1>3, <1>4 DEF ReplaceOb

\* Steps that only read the cluster.
LEMMA ReadStepTypes ==
    ASSUME TypeInv, UNCHANGED <<kube, store, spent>>, ControllerInv'
    PROVE  TypeInv'
BY DEF TypeInv, ClusterTypeOK, kube, store

LEMMA ProvisionStepTypes ==
    ASSUME TypeInv, NEW w \in Workers, ProvisionStep(w)
    PROVE  TypeInv'
<1> DEFINE j == job[w]
           n == ObjectBucketName(j.key)
<1>1. ControllerInv /\ j \in Job /\ JobShape(j)
  BY DEF TypeInv, ControllerInv
<1> USE DEF At
<1>2. CASE GetClaim(w)
  <2>1. obc[j.key] \in Claim \cup {None} /\ j.pc = "getClaim"
    BY <1>1, <1>2 DEF GetClaim, claimForKey, JobShape, TypeInv, ClusterTypeOK
  <2>2. ASSUME obc[j.key] \in Claim
        PROVE  LET i == [j EXCEPT !.pc = "getClass", !.obc = obc[j.key]]
               IN  i \in Job /\ JobShape(i)
    <3> DEFINE i == [j EXCEPT !.pc = "getClass", !.obc = obc[j.key]]
    <3>1. i \in Job
      BY <1>1, <2>2 DEF Job, PCs
    <3>2. i.pc = "getClass" /\ i.key = j.key /\ i.obc \in Claim
      BY <1>1, <2>2 DEF Job
    <3> HIDE DEF i
    <3>3. JobShape(i)
      BY <1>1, <2>1, <3>2 DEF JobShape, Naming, Artifacts, Binding, Unbinding
    <3> QED
      BY <3>1, <3>3 DEF i
  <2>3. ControllerInv'
    BY <1>1, <1>2, <2>1, <2>2, DoneTypes, ContinueTypes DEF GetClaim, claimForKey
  <2> QED
    BY <1>2, <2>3, ReadStepTypes DEF GetClaim, claimForKey
<1>3. CASE GetClass(w)
  <2>1. j.obc \in Claim /\ j.pc = "getClass" /\ j.obc.class \in Classes
    BY <1>1, <1>3 DEF GetClass, storageClassForClaim, JobShape, Claim
  <2>2. class[j.obc.class] \in ClassDef \cup {None}
    BY <2>1 DEF TypeInv, ClusterTypeOK
  <2>3. AfterClass(j.obc) \in {"findOb", "setPending", "setMeta"}
    BY <2>1 DEF AfterClass, Claim
  <2>4. ASSUME class[j.obc.class] \in ClassDef
        PROVE  LET i == [j EXCEPT !.pc = AfterClass(j.obc), !.class = class[j.obc.class]]
               IN  i \in Job /\ JobShape(i)
    <3> DEFINE pc == AfterClass(j.obc)
               c == class[j.obc.class]
               i == [j EXCEPT !.pc = pc, !.class = c]
    <3> HIDE DEF pc, c
    <3>1. pc \in {"findOb", "setPending", "setMeta"} /\ c \in ClassDef
      BY <2>3, <2>4 DEF pc, c
    <3>2. i \in Job
      BY <1>1, <3>1 DEF Job, PCs
    <3>3. i.pc = pc /\ i.key = j.key /\ i.obc = j.obc /\ i.class = c
      BY <1>1 DEF Job
    <3> HIDE DEF i
    <3>4. JobShape(i)
      BY <1>1, <2>1, <3>1, <3>3 DEF JobShape, Naming, Artifacts, Binding, Unbinding
    <3> QED
      BY <3>2, <3>4 DEF i, pc, c
  <2>5. ControllerInv'
    BY <1>1, <1>3, <2>1, <2>2, <2>4, DoneTypes, ContinueTypes, RequeueTypes DEF GetClass, storageClassForClaim
  <2> QED
    BY <1>3, <2>5, ReadStepTypes DEF GetClass, storageClassForClaim
<1>4. CASE SetPending(w)
  <2> DEFINE new == [j.obc EXCEPT !.phase = "Pending"]
             next == [j EXCEPT !.pc = "setMeta", !.obc = new]
  <2>1. j.obc \in Claim /\ j.pc = "setPending"
    BY <1>1, <1>4 DEF SetPending, UpdateClaim, JobShape
  <2>2. new \in Claim
    BY <2>1 DEF Claim
  <2>3. next \in Job /\ JobShape(next)
    BY <1>1, <2>1, <2>2 DEF Job, JobShape, PCs, Naming, Artifacts, Binding, Unbinding
  <2> QED
    BY <1>4, <2>2, <2>3, UpdateClaimTypes DEF SetPending
<1>5. CASE SetMeta(w)
  <2> DEFINE new == addFinalizers(j.obc)
             next == [j EXCEPT !.pc = "getOb", !.obc = new]
  <2>1. j.obc \in Claim /\ j.pc = "setMeta"
    BY <1>1, <1>5 DEF SetMeta, UpdateClaim, JobShape
  <2>2. new \in Claim
    BY <2>1 DEF Claim, addFinalizers
  <2>3. next \in Job /\ JobShape(next)
    BY <1>1, <2>1, <2>2 DEF Job, JobShape, PCs, Naming, Artifacts, Binding, Unbinding
  <2> QED
    BY <1>5, <2>2, <2>3, UpdateClaimTypes DEF SetMeta
<1>6. CASE GetOb(w)
  <2>1. j.obc \in Claim /\ j.class \in ClassDef /\ j.pc = "getOb"
    BY <1>1, <1>6 DEF GetOb, getObFromKey, JobShape
  <2>2. NamesFor(j.class, j.obc) \subseteq Buckets
    BY <2>1, NamesForTypes
  <2>3. ASSUME NEW b \in Buckets, NEW pc \in Naming
        PROVE  LET i == [j EXCEPT !.pc = pc, !.name = b] IN i \in Job /\ JobShape(i)
    BY <1>1, <2>1 DEF Job, JobShape, PCs, Naming, Artifacts, Binding, Unbinding
  <2>4. (IF j.obc.bucket = None THEN "saveName" ELSE "provision") \in Naming
    BY DEF Naming
  <2>5. ControllerInv'
    BY <1>1, <1>6, <2>1, <2>2, <2>3, <2>4, ContinueTypes, RequeueTypes DEF GetOb, getObFromKey
  <2> QED
    BY <1>6, <2>5, ReadStepTypes DEF GetOb, getObFromKey
<1>7. CASE SaveName(w)
  <2> DEFINE new == [j.obc EXCEPT !.bucket = j.name]
             next == [j EXCEPT !.pc = "provision", !.obc = new]
  <2>1. j.obc \in Claim /\ j.name \in Buckets /\ j.pc = "saveName"
    BY <1>1, <1>7 DEF SaveName, UpdateClaim, JobShape, Naming
  <2>2. new \in Claim
    BY <2>1 DEF Claim
  <2>3. next \in Job /\ JobShape(next)
    BY <1>1, <2>1, <2>2 DEF Job, JobShape, PCs, Naming, Artifacts, Binding, Unbinding
  <2> QED
    BY <1>7, <2>2, <2>3, UpdateClaimTypes DEF SaveName
<1>8. ASSUME j.pc = "provision"
      PROVE  /\ ReturnedOb(j) \in ObjectBucket
             /\ [j EXCEPT !.pc = "createSecret", !.ob = ReturnedOb(j)] \in Job
             /\ JobShape([j EXCEPT !.pc = "createSecret", !.ob = ReturnedOb(j)])
             /\ j.obc.uid \in Uids /\ j.name \in Buckets /\ j.key \in Keys
             /\ j.obc.config \in 0 .. Max.edit
             /\ PolicyFor(j) \in Policies \cup {None}
  <2>1. j.obc \in Claim /\ j.name \in Buckets /\ j.key \in Keys /\ j.class \in ClassDef
    BY <1>1, <1>8 DEF JobShape, Naming
  <2>2. Override[j.obc.class] \in Policies \cup {None}
    BY <2>1, ConstantsAssumption DEF Claim
  <2>3. ReturnedOb(j) \in ObjectBucket
    BY <2>1, <2>2 DEF ReturnedOb, ObjectBucket, UserID
  <2>4. LET i == [j EXCEPT !.pc = "createSecret", !.ob = ReturnedOb(j)]
        IN  i \in Job /\ JobShape(i)
    BY <1>1, <1>8, <2>1, <2>3
    DEF Job, JobShape, PCs, Naming, Artifacts, Binding, Unbinding
  <2>5. PolicyFor(j) \in Policies \cup {None}
    BY <2>1, <2>2 DEF PolicyFor, ClassDef
  <2> QED
    BY <2>1, <2>3, <2>4, <2>5 DEF Claim
<1>9. CASE Provision(w)
  <2>1. j.pc = "provision"
    BY <1>9 DEF Provision
  <2>2. ControllerInv'
    BY <1>1, <1>8, <1>9, <2>1, ContinueTypes, RequeueTypes DEF Provision
  <2>3. asked' \subseteq Uids \X Buckets
    BY <1>8, <1>9, <2>1 DEF Provision, Asked, TypeInv, ClusterTypeOK
  <2>4. bucket' \in [Buckets -> StoreBucket \cup {None}] /\ access' \subseteq Keys \X Buckets
    BY <1>8, <1>9, <2>1
    DEF Provision, DoProvision, Provisioned, UserID, StoreBucket, TypeInv, ClusterTypeOK
  <2>5. ClusterTypeOK'
    BY <1>9, <2>3, <2>4 DEF Provision, TypeInv, ClusterTypeOK, kube
  <2> QED
    BY <2>2, <2>5 DEF TypeInv
<1>10. CASE Grant(w)
  <2>1. j.pc = "provision"
    BY <1>10 DEF Grant
  <2>2. ControllerInv'
    BY <1>1, <1>8, <1>10, <2>1, ContinueTypes, RequeueTypes DEF Grant
  <2>3. access' \subseteq Keys \X Buckets
    BY <1>8, <1>10, <2>1 DEF Grant, Granted, UserID, TypeInv, ClusterTypeOK
  <2>4. ClusterTypeOK'
    BY <1>10, <2>3 DEF Grant, TypeInv, ClusterTypeOK, kube
  <2> QED
    BY <2>2, <2>4 DEF TypeInv
<1>11. ASSUME NEW kind \in Kinds, CreateArtifact(w, kind) \/ UpdateArtifact(w, kind)
       PROVE  TypeInv'
  <2>1. /\ CreatePc[kind] \in Artifacts /\ UpdatePc[kind] \in Artifacts
        /\ AfterPc[kind] \in Artifacts
    BY DEF CreatePc, UpdatePc, AfterPc, Kinds, Artifacts
  <2>2. j.pc \in Artifacts
    BY <1>11, <2>1 DEF CreateArtifact, UpdateArtifact
  <2>3. j.obc \in Claim /\ j.ob \in ObjectBucket /\ j.key \in Keys
    BY <1>1, <2>2 DEF JobShape, Artifacts
  <2>4. NewArtifact(j) \in Artifact
    BY <2>3 DEF NewArtifact, Claim, ObjectBucket, Artifact
  <2>5. ASSUME NEW pc \in Artifacts
        PROVE  [j EXCEPT !.pc = pc] \in Job /\ JobShape([j EXCEPT !.pc = pc])
    BY <1>1, <2>2 DEF Job, JobShape, PCs, Naming, Artifacts, Binding, Unbinding
  <2>6. artifact[kind][j.key] \in Artifact \cup {None}
    BY <2>3 DEF TypeInv, ClusterTypeOK
  <2>7. ASSUME artifact[kind][j.key] \in Artifact
        PROVE  [NewArtifact(j) EXCEPT !.deleted = artifact[kind][j.key].deleted] \in Artifact
    BY <2>4, <2>7 DEF Artifact
  <2>8. artifact' \in [Kinds -> [Keys -> Artifact \cup {None}]]
    <3>1. artifact \in [Kinds -> [Keys -> Artifact \cup {None}]]
      BY DEF TypeInv, ClusterTypeOK
    <3>2. ASSUME NEW a \in Artifact, artifact' = [artifact EXCEPT ![kind][j.key] = a]
          PROVE  artifact' \in [Kinds -> [Keys -> Artifact \cup {None}]]
      BY <2>3, <3>1, <3>2
    <3>3. CASE UNCHANGED artifact
      BY <3>1, <3>3
    <3>4. CASE CreateArtifact(w, kind)
      BY <2>4, <3>2, <3>3, <3>4 DEF CreateArtifact
    <3>5. CASE UpdateArtifact(w, kind)
      BY <2>6, <2>7, <3>2, <3>3, <3>5 DEF UpdateArtifact
    <3> QED
      BY <1>11, <3>4, <3>5
  <2>9. ControllerInv'
    BY <1>1, <1>11, <2>1, <2>2, <2>5, ContinueTypes, RequeueTypes
    DEF CreateArtifact, UpdateArtifact, Artifacts
  <2>10. ClusterTypeOK'
    BY <1>11, <2>8 DEF CreateArtifact, UpdateArtifact, TypeInv, ClusterTypeOK, store
  <2> QED
    BY <2>9, <2>10 DEF TypeInv
<1>12. CASE ClaimRef(w)
  <2> DEFINE new == addFinalizers([j.ob EXCEPT !.class = j.obc.class,
                                               !.policy = PolicyFor(j),
                                               !.claim = obc[j.key].uid])
             next == [j EXCEPT !.pc = "createOb", !.ob = new]
  <2>1. /\ j.pc = "claimRef" /\ j.obc \in Claim /\ j.ob \in ObjectBucket
        /\ j.key \in Keys /\ j.class \in ClassDef
    BY <1>1, <1>12 DEF ClaimRef, claimForKey, JobShape, Artifacts
  <2>2. obc[j.key] \in Claim \cup {None}
    BY <2>1 DEF TypeInv, ClusterTypeOK
  <2>3. Override[j.obc.class] \in Policies \cup {None}
    BY <2>1, ConstantsAssumption DEF Claim
  <2>4. PolicyFor(j) \in Policies \cup {None}
    BY <2>1, <2>3 DEF PolicyFor, ClassDef
  <2>5. ASSUME obc[j.key] \in Claim
        PROVE  next \in Job /\ JobShape(next)
    <3>1. new \in ObjectBucket
      BY <2>1, <2>4, <2>5 DEF ObjectBucket, Claim, addFinalizers
    <3> QED
      BY <1>1, <2>1, <3>1 DEF Job, JobShape, PCs, Naming, Artifacts, Binding, Unbinding
  <2>6. ControllerInv'
    BY <1>1, <1>12, <2>1, <2>2, <2>5, ContinueTypes, RequeueTypes
    DEF ClaimRef, claimForKey, ContinueIfFound
  <2> QED
    BY <1>12, <2>6, ReadStepTypes DEF ClaimRef, claimForKey
<1>13. CASE CreateOb(w)
  <2>1. j.pc = "createOb" /\ j.ob \in ObjectBucket /\ j.key \in Keys
    BY <1>1, <1>13 DEF CreateOb, JobShape, Binding
  <2>2. n \in ObNames
    BY <2>1 DEF ObNames
  <2>3. ASSUME NEW pc \in {"obBound", "getCurrentOb"}
        PROVE  [j EXCEPT !.pc = pc] \in Job /\ JobShape([j EXCEPT !.pc = pc])
    BY <1>1, <2>1 DEF Job, JobShape, PCs, Naming, Artifacts, Binding, Unbinding
  <2>4. ControllerInv'
    BY <1>1, <1>13, <2>3, ContinueTypes DEF CreateOb
  <2>5. ob' \in [ObNames -> ObjectBucket \cup {None}]
    BY <1>13, <2>1, <2>2 DEF CreateOb, TypeInv, ClusterTypeOK
  <2>6. ClusterTypeOK'
    BY <1>13, <2>5 DEF CreateOb, TypeInv, ClusterTypeOK, store
  <2> QED
    BY <2>4, <2>6 DEF TypeInv
<1>14. CASE GetCurrentOb(w)
  <2>1. j.pc = "getCurrentOb" /\ j.key \in Keys
    BY <1>1, <1>14 DEF GetCurrentOb, JobShape
  <2>2. ob[n] \in ObjectBucket \cup {None}
    BY <2>1 DEF ObNames, TypeInv, ClusterTypeOK
  <2>3. ASSUME ob[n] \in ObjectBucket
        PROVE  LET i == [j EXCEPT !.pc = "updateOb", !.base = ob[n]]
               IN  i \in Job /\ JobShape(i)
    BY <1>1, <2>1, <2>3 DEF Job, JobShape, PCs, Naming, Artifacts, Binding, Unbinding
  <2>4. ControllerInv'
    BY <1>1, <1>14, <2>1, <2>2, <2>3, ContinueTypes, RequeueTypes
    DEF GetCurrentOb, ContinueIfFound
  <2> QED
    BY <1>14, <2>4, ReadStepTypes DEF GetCurrentOb
<1>15. CASE UpdateOb(w)
  <2> DEFINE new == [j.ob EXCEPT !.phase = j.base.phase, !.deleted = j.base.deleted]
             next == [j EXCEPT !.pc = "obBound", !.ob = new, !.base = None]
  <2>1. j.pc = "updateOb" /\ j.ob \in ObjectBucket /\ j.base \in ObjectBucket
    BY <1>1, <1>15 DEF UpdateOb, ReplaceOb, JobShape, Binding
  <2>2. new \in ObjectBucket
    BY <2>1 DEF ObjectBucket
  <2>3. next \in Job /\ JobShape(next)
    BY <1>1, <2>1, <2>2 DEF Job, JobShape, PCs, Naming, Artifacts, Binding, Unbinding
  <2> QED
    BY <1>15, <2>2, <2>3, ReplaceObTypes DEF UpdateOb
<1>16. CASE ObBound(w)
  <2> DEFINE new == [j.ob EXCEPT !.phase = "Bound"]
             next == [j EXCEPT !.pc = "bindClaim", !.ob = new, !.base = None]
  <2>1. j.pc = "obBound" /\ j.ob \in ObjectBucket
    BY <1>1, <1>16 DEF ObBound, ReplaceOb, JobShape, Binding
  <2>2. new \in ObjectBucket
    BY <2>1 DEF ObjectBucket
  <2>3. next \in Job /\ JobShape(next)
    BY <1>1, <2>1, <2>2 DEF Job, JobShape, PCs, Naming, Artifacts, Binding, Unbinding
  <2> QED
    BY <1>16, <2>2, <2>3, ReplaceObTypes DEF ObBound
<1>17. CASE BindClaim(w)
  <2> DEFINE new == [j.obc EXCEPT !.ob = n, !.bucket = j.name]
             next == [j EXCEPT !.pc = "setBound", !.obc = new]
  <2>1. j.pc = "bindClaim" /\ j.obc \in Claim /\ j.name \in Buckets /\ j.key \in Keys
    BY <1>1, <1>17 DEF BindClaim, UpdateClaim, JobShape, Binding
  <2>2. new \in Claim
    BY <2>1 DEF Claim, ObNames
  <2>3. next \in Job /\ JobShape(next)
    BY <1>1, <2>1, <2>2 DEF Job, JobShape, PCs, Naming, Artifacts, Binding, Unbinding
  <2> QED
    BY <1>17, <2>2, <2>3, UpdateClaimTypes DEF BindClaim
<1>18. CASE SetBound(w)
  <2>1. j.obc \in Claim
    BY <1>1, <1>18 DEF SetBound, UpdateClaim, JobShape
  <2>2. [j.obc EXCEPT !.phase = "Bound"] \in Claim
    BY <2>1 DEF Claim
  <2> QED
    BY <1>18, <2>2, IdleTypes, UpdateClaimTypes DEF SetBound
<1> QED
  BY <1>2, <1>3, <1>4, <1>5, <1>6, <1>7, <1>9, <1>10, <1>11, <1>12, <1>13, <1>14,
     <1>15, <1>16, <1>17, <1>18
  DEF ProvisionStep

\* The way deleteResources moves from one artifact to the next.
LEMMA ReleasedTypes ==
    ASSUME ControllerInv, NEW w \in Workers, NEW failed \in BOOLEAN, Released(w, failed),
           job[w].pc \in {"release", "dropFinalizer"}, UNCHANGED queue
    PROVE  ControllerInv'
<1> DEFINE j == job[w]
           next == [j EXCEPT !.pc = "release", !.found = @ \ {Current(j)},
                             !.base = None, !.failed = @ \/ failed]
<1>1. j \in Job /\ JobShape(j)
  BY DEF ControllerInv
<1>2. ASSUME NEW f \in SUBSET Kinds, NEW x \in BOOLEAN
      PROVE  LET i == [j EXCEPT !.pc = "release", !.found = f, !.base = None, !.failed = x]
             IN  i \in Job /\ JobShape(i)
  <2> DEFINE i == [j EXCEPT !.pc = "release", !.found = f, !.base = None, !.failed = x]
  <2>1. i \in Job
    BY <1>1 DEF Job, PCs
  <2>2. i.pc = "release" /\ i.key = j.key /\ i.obc = j.obc /\ i.class = j.class
    BY <1>1 DEF Job
  <2> HIDE DEF i
  <2>3. JobShape(i)
    BY <1>1, <2>2 DEF JobShape, Naming, Artifacts, Binding, Unbinding
  <2> QED
    BY <2>1, <2>3 DEF i
<1>3. j.found \ {Current(j)} \in SUBSET Kinds
  BY <1>1 DEF Job
<1>4. (j.failed \/ failed) \in BOOLEAN
  OBVIOUS
<1>5. next \in Job /\ JobShape(next)
  BY <1>2, <1>3, <1>4
<1>6. job' = [job EXCEPT ![w] = next]
  BY DEF Released
<1> QED
  BY <1>5, <1>6, JobStep DEF ControllerInv

LEMMA SkipObTypes ==
    ASSUME ControllerInv, NEW w \in Workers, SkipOb(w), UNCHANGED queue,
           job[w].pc \in {"dropObFinalizer", "deleteOb"}
    PROVE  ControllerInv'
<1> DEFINE j == job[w]
           next == [j EXCEPT !.pc = "release", !.failed = TRUE]
<1>1. j \in Job /\ JobShape(j)
  BY DEF ControllerInv
<1>2. next \in Job /\ JobShape(next)
  BY <1>1 DEF Job, JobShape, PCs, Naming, Artifacts, Binding, Unbinding
<1>3. job' = [job EXCEPT ![w] = next]
  BY DEF SkipOb
<1> QED
  BY <1>2, <1>3, JobStep DEF ControllerInv

LEMMA DeleteStepTypes ==
    ASSUME TypeInv, NEW w \in Workers, DeleteStep(w)
    PROVE  TypeInv'
<1> DEFINE j == job[w]
           n == ObjectBucketName(j.key)
<1>1. ControllerInv /\ j \in Job /\ JobShape(j)
  BY DEF TypeInv, ControllerInv
<1>2. ASSUME j.pc # "idle"
      PROVE  j.key \in Keys /\ n \in ObNames
  BY <1>1, <1>2 DEF JobShape, ObNames
<1> USE DEF At
<1>3. CASE FindOb(w)
  <2> DEFINE next == [j EXCEPT !.pc = "findCm", !.ob = ob[n]]
  <2>1. j.pc = "findOb" /\ ob[n] \in ObjectBucket \cup {None}
    BY <1>2, <1>3 DEF FindOb, TypeInv, ClusterTypeOK
  <2>2. next \in Job /\ JobShape(next)
    BY <1>1, <2>1 DEF Job, JobShape, PCs, Naming, Artifacts, Binding, Unbinding
  <2>3. ControllerInv'
    BY <1>1, <1>3, <2>2, ContinueTypes DEF FindOb
  <2> QED
    BY <1>3, <2>3, ReadStepTypes DEF FindOb
<1>4. CASE FindCm(w)
  <2> DEFINE next == [j EXCEPT !.pc = "findSecret", !.found = IfStored("cm", j.key)]
  <2>1. j.pc = "findCm" /\ IfStored("cm", j.key) \subseteq Kinds
    BY <1>4 DEF FindCm, IfStored, Kinds
  <2>2. next \in Job /\ JobShape(next)
    BY <1>1, <2>1 DEF Job, JobShape, PCs, Naming, Artifacts, Binding, Unbinding
  <2>3. ControllerInv'
    BY <1>1, <1>4, <2>2, ContinueTypes DEF FindCm
  <2> QED
    BY <1>4, <2>3, ReadStepTypes DEF FindCm
<1>5. CASE FindSecret(w)
  <2> DEFINE pc == IF j.ob = None THEN "release" ELSE "markReleased"
             next == [j EXCEPT !.pc = pc, !.found = @ \cup IfStored("secret", j.key)]
  <2>1. j.pc = "findSecret" /\ IfStored("secret", j.key) \subseteq Kinds
    BY <1>5 DEF FindSecret, IfStored, Kinds
  <2>2. j.ob # None => j.ob \in ObjectBucket
    BY <1>1 DEF Job
  <2> HIDE DEF pc
  <2>3. /\ j.found \cup IfStored("secret", j.key) \in SUBSET Kinds
        /\ pc = "release" \/ (pc = "markReleased" /\ j.ob \in ObjectBucket)
    BY <1>1, <2>1, <2>2 DEF Job, pc
  <2>4. ASSUME NEW f \in SUBSET Kinds
        PROVE  LET i == [j EXCEPT !.pc = pc, !.found = f] IN i \in Job /\ JobShape(i)
    BY <1>1, <2>1, <2>3 DEF Job, JobShape, PCs, Naming, Artifacts, Binding, Unbinding
  <2>5. next \in Job /\ JobShape(next)
    BY <2>3, <2>4
  <2>6. ControllerInv'
    BY <1>1, <1>5, <2>5, ContinueTypes, DoneTypes DEF FindSecret, pc
  <2> QED
    BY <1>5, <2>6, ReadStepTypes DEF FindSecret
<1>6. CASE MarkReleased(w)
  <2> DEFINE new == [j.ob EXCEPT !.phase = "Released"]
             next == [j EXCEPT !.pc = "getObClass", !.ob = new, !.base = None]
  <2>1. j.pc = "markReleased" /\ j.ob \in ObjectBucket
    BY <1>1, <1>6 DEF MarkReleased, ReplaceOb, JobShape, Unbinding
  <2>2. new \in ObjectBucket
    BY <2>1 DEF ObjectBucket
  <2>3. next \in Job /\ JobShape(next)
    BY <1>1, <2>1, <2>2 DEF Job, JobShape, PCs, Naming, Artifacts, Binding, Unbinding
  <2> QED
    BY <1>6, <2>2, <2>3, ReplaceObTypes DEF MarkReleased
<1>7. ASSUME j.pc \in Unbinding,
             NEW pc \in {"delete", "revoke", "dropObFinalizer", "deleteOb", "release"}
      PROVE  [j EXCEPT !.pc = pc] \in Job /\ JobShape([j EXCEPT !.pc = pc])
  BY <1>1, <1>7 DEF Job, JobShape, PCs, Naming, Artifacts, Binding, Unbinding
<1>8. CASE GetObClass(w)
  <2>1. j.pc \in Unbinding
    BY <1>8 DEF GetObClass, Unbinding
  <2>2. ControllerInv'
    BY <1>1, <1>7, <1>8, <2>1, ContinueTypes DEF GetObClass
  <2> QED
    BY <1>8, <2>2, ReadStepTypes DEF GetObClass
<1>9. CASE Delete(w) \/ Revoke(w)
  <2>1. j.pc \in Unbinding /\ j.ob \in ObjectBucket
    BY <1>1, <1>9 DEF Delete, Revoke, Unbinding, JobShape
  <2>2. ControllerInv'
    BY <1>1, <1>7, <1>9, <2>1, JobStep DEF Delete, Revoke, ControllerInv
  <2>3. ClusterTypeOK'
    BY <1>9, <2>1
    DEF Delete, Revoke, Removed, Revoked, ObjectBucket, TypeInv, ClusterTypeOK, kube
  <2> QED
    BY <2>2, <2>3 DEF TypeInv
<1>10. CASE DropObFinalizer(w)
  <2>1. j.pc = "dropObFinalizer" /\ j.ob \in ObjectBucket /\ j.pc \in Unbinding
    BY <1>1, <1>10 DEF DropObFinalizer, Unbinding, JobShape
  <2>2. ControllerInv'
    BY <1>1, <1>7, <1>10, <2>1, JobStep, SkipObTypes DEF DropObFinalizer, ControllerInv
  <2>3. ob' \in [ObNames -> ObjectBucket \cup {None}]
    BY <1>2, <1>10, <2>1, RemoveFinalizerTypes DEF DropObFinalizer, TypeInv, ClusterTypeOK
  <2>4. ClusterTypeOK'
    BY <1>10, <2>3 DEF DropObFinalizer, TypeInv, ClusterTypeOK, store
  <2> QED
    BY <2>2, <2>4 DEF TypeInv
<1>11. CASE DeleteOb(w)
  <2>1. j.pc \in Unbinding /\ j.pc # "idle"
    BY <1>11 DEF DeleteOb, Unbinding
  <2>2. ControllerInv'
    BY <1>1, <1>7, <1>11, <2>1, JobStep DEF DeleteOb, ControllerInv
  <2>3. ob' \in [ObNames -> ObjectBucket \cup {None}]
    BY <1>2, <1>11, <2>1, DeletingTypes DEF DeleteOb, TypeInv, ClusterTypeOK
  <2>4. ClusterTypeOK'
    BY <1>11, <2>3 DEF DeleteOb, TypeInv, ClusterTypeOK, store
  <2> QED
    BY <2>2, <2>4 DEF TypeInv
<1>12. Current(j) \in Kinds
  BY DEF Current, Kinds
<1>13. CASE GetArtifact(w)
  <2> DEFINE a == artifact[Current(j)][j.key]
             next == [j EXCEPT !.pc = "dropFinalizer", !.base = a]
  <2>1. j.pc = "release" /\ a \in Artifact \cup {None}
    BY <1>2, <1>12, <1>13 DEF GetArtifact, TypeInv, ClusterTypeOK
  <2>2. ASSUME a \in Artifact
        PROVE  next \in Job /\ JobShape(next)
    BY <1>1, <2>1, <2>2 DEF Job, JobShape, PCs, Naming, Artifacts, Binding, Unbinding
  <2>3. CASE a # None /\ job' = [job EXCEPT ![w] = next]
    BY <1>1, <1>13, <2>1, <2>2, <2>3, JobStep, ReadStepTypes DEF GetArtifact, ControllerInv
  <2>4. CASE Released(w, TRUE)
    BY <1>1, <1>13, <2>1, <2>4, ReleasedTypes, ReadStepTypes DEF GetArtifact
  <2> QED
    BY <1>13, <2>3, <2>4 DEF GetArtifact
<1>14. CASE DropFinalizer(w)
  <2>1. j.pc = "dropFinalizer" /\ j.base \in Artifact /\ j.key \in Keys
    BY <1>1, <1>14 DEF DropFinalizer, JobShape
  <2>2. ControllerInv'
    BY <1>1, <1>14, <2>1, ReleasedTypes DEF DropFinalizer
  <2>3. artifact' \in [Kinds -> [Keys -> Artifact \cup {None}]]
    <3> DEFINE kind == Current(j)
    <3>1. removeFinalizer(j.base) \in Artifact \cup {None}
      BY <2>1, RemoveFinalizerTypes
    <3>2. \/ artifact' = [artifact EXCEPT ![kind][j.key] = removeFinalizer(j.base)]
          \/ artifact' = artifact
      BY <1>14 DEF DropFinalizer
    <3> HIDE DEF kind
    <3> QED
      BY <1>12, <2>1, <3>1, <3>2 DEF TypeInv, ClusterTypeOK, kind
  <2>4. ClusterTypeOK'
    BY <1>14, <2>3 DEF DropFinalizer, TypeInv, ClusterTypeOK, store
  <2> QED
    BY <2>2, <2>4 DEF TypeInv
<1>15. CASE GetClaimToRelease(w)
  <2> DEFINE next == [j EXCEPT !.pc = "dropClaimFinalizer", !.obc = obc[j.key]]
  <2>1. j.pc = "release" /\ obc[j.key] \in Claim \cup {None}
    BY <1>2, <1>15 DEF GetClaimToRelease, TypeInv, ClusterTypeOK
  <2>2. ASSUME obc[j.key] \in Claim
        PROVE  next \in Job /\ JobShape(next)
    BY <1>1, <2>1, <2>2 DEF Job, JobShape, PCs, Naming, Artifacts, Binding, Unbinding
  <2>3. ControllerInv'
    BY <1>1, <1>15, <2>1, <2>2, ContinueTypes, RequeueTypes
    DEF GetClaimToRelease, ContinueIfFound
  <2> QED
    BY <1>15, <2>3, ReadStepTypes DEF GetClaimToRelease
<1>16. CASE DropClaimFinalizer(w)
  <2>1. j.pc = "dropClaimFinalizer" /\ j.obc \in Claim /\ j.key \in Keys
    BY <1>1, <1>16 DEF DropClaimFinalizer, JobShape
  <2>2. (IF j.failed THEN Requeued(w) ELSE queue) \in [Instances -> SUBSET Keys]
    BY <1>1, <2>1, RequeuedTypes DEF ControllerInv
  <2>3. ControllerInv'
    BY <1>1, <1>16, <2>1, <2>2, JobStep, IdleTypes, EnqueuedTypes, RequeueTypes
    DEF DropClaimFinalizer, ControllerInv
  <2>4. obc' \in [Keys -> Claim \cup {None}]
    BY <1>16, <2>1, RemoveFinalizerTypes DEF DropClaimFinalizer, TypeInv, ClusterTypeOK
  <2>5. ClusterTypeOK'
    BY <1>16, <2>4 DEF DropClaimFinalizer, TypeInv, ClusterTypeOK, store
  <2> QED
    BY <2>3, <2>5 DEF TypeInv
<1> QED
  BY <1>3, <1>4, <1>5, <1>6, <1>8, <1>9, <1>10, <1>11, <1>13, <1>14, <1>15, <1>16
  DEF DeleteStep

LEMMA GetItemTypes ==
    ASSUME TypeInv, NEW w \in Workers, NEW k \in Keys, GetItem(w, k)
    PROVE  TypeInv'
<1> DEFINE next == [IdleJob EXCEPT !.pc = "getClaim", !.key = k]
<1>1. next \in Job /\ JobShape(next)
  BY DEF IdleJob, Job, JobShape, PCs, Naming, Artifacts, Binding, Unbinding
<1>2. ControllerInv'
  BY <1>1, JobStep DEF GetItem, TypeInv, ControllerInv
<1> QED
  BY <1>2, ReadStepTypes DEF GetItem

\* Spending stays within the budget.
LEMMA SpendTypes ==
    ASSUME ClusterTypeOK, NEW b \in Budgets, Spend(b)
    PROVE  spent' \in [Budgets -> Nat] /\ \A c \in Budgets : spent'[c] <= Max[c]
<1>1. spent[b] \in Nat /\ Max[b] \in Nat /\ spent[b] < Max[b]
  BY MaxAssumption DEF Spend, ClusterTypeOK
<1>2. spent[b] + 1 \in Nat /\ spent[b] + 1 <= Max[b]
  BY <1>1
<1>3. spent' = [spent EXCEPT ![b] = spent[b] + 1]
  BY DEF Spend
<1> QED
  BY <1>2, <1>3 DEF ClusterTypeOK

LEMMA CreateTypes ==
    ASSUME ClusterTypeOK, NEW k \in Keys, NEW r \in Requests, CreateClaim(k, r)
    PROVE  [uid |-> spent.create + 1, deleted |-> FALSE, finalizer |-> FALSE,
            class |-> r.class, bucket |-> r.bucket, generate |-> r.generate,
            config |-> 0, ob |-> None, phase |-> None] \in Claim
<1>1. /\ spent["create"] \in Nat /\ Max["create"] \in Nat /\ spent["create"] < Max["create"]
      /\ Max["edit"] \in Nat
  BY MaxAssumption DEF CreateClaim, Spend, ClusterTypeOK, Budgets
<1>2. spent.create + 1 \in Uids /\ 0 \in 0 .. Max.edit
  BY <1>1 DEF Uids
<1>3. r.class \in Classes /\ r.bucket \in Buckets \cup {None} /\ r.generate \in BOOLEAN
  BY ConstantsAssumption DEF Buckets
<1> QED
  BY <1>2, <1>3 DEF Claim

LEMMA EditTypes ==
    ASSUME ClusterTypeOK, NEW k \in Keys, EditClaim(k)
    PROVE  [obc[k] EXCEPT !.config = spent.edit + 1] \in Claim
<1>1. spent["edit"] \in Nat /\ Max["edit"] \in Nat /\ spent["edit"] < Max["edit"]
  BY MaxAssumption DEF EditClaim, Spend, ClusterTypeOK, Budgets
<1>2. spent.edit + 1 \in 0 .. Max.edit
  BY <1>1
<1>3. obc[k] \in Claim
  BY DEF EditClaim, ClusterTypeOK
<1> QED
  BY <1>2, <1>3 DEF Claim

LEMMA EnvironmentTypes ==
    ASSUME ClusterTypeOK, Environment
    PROVE  ClusterTypeOK'
<1>0. {"create", "edit", "classOp"} \subseteq Budgets
  BY DEF Budgets
<1>1. ASSUME NEW k \in Keys, NEW r \in Requests, CreateClaim(k, r)
      PROVE  ClusterTypeOK'
  <2>1. spent' \in [Budgets -> Nat] /\ \A c \in Budgets : spent'[c] <= Max[c]
    BY <1>0, <1>1, SpendTypes DEF CreateClaim
  <2>5. [uid |-> spent.create + 1, deleted |-> FALSE, finalizer |-> FALSE,
         class |-> r.class, bucket |-> r.bucket, generate |-> r.generate,
         config |-> 0, ob |-> None, phase |-> None] \in Claim
    BY <1>1, CreateTypes
  <2> QED
    BY <1>1, <2>1, <2>5 DEF CreateClaim, ClusterTypeOK, store
<1>2. ASSUME NEW k \in Keys, DeleteClaim(k)
      PROVE  ClusterTypeOK'
  <2>1. Deleting(obc[k]) \in Claim \cup {None}
    BY <1>2, DeletingTypes DEF DeleteClaim, ClusterTypeOK
  <2> QED
    BY <1>2, <2>1 DEF DeleteClaim, ClusterTypeOK, store
<1>3. ASSUME NEW k \in Keys, EditClaim(k)
      PROVE  ClusterTypeOK'
  <2>1. spent' \in [Budgets -> Nat] /\ \A c \in Budgets : spent'[c] <= Max[c]
    BY <1>0, <1>3, SpendTypes DEF EditClaim
  <2>4. [obc[k] EXCEPT !.config = spent.edit + 1] \in Claim
    BY <1>3, EditTypes
  <2>5. obc' = [obc EXCEPT ![k] = [obc[k] EXCEPT !.config = spent.edit + 1]]
    BY <1>3 DEF EditClaim
  <2> QED
    BY <1>3, <2>1, <2>4, <2>5 DEF EditClaim, ClusterTypeOK, store
<1>4. ASSUME NEW c \in Classes, DeleteClass(c) \/ CreateClass(c)
      PROVE  ClusterTypeOK'
  <2>1. spent' \in [Budgets -> Nat] /\ \A x \in Budgets : spent'[x] <= Max[x]
    BY <1>0, <1>4, SpendTypes DEF DeleteClass, CreateClass, ClusterTypeOK
  <2>2. class' \in [Classes -> ClassDef \cup {None}]
    BY <1>4, ConstantsAssumption DEF DeleteClass, CreateClass, ClusterTypeOK
  <2> QED
    BY <1>4, <2>1, <2>2 DEF DeleteClass, CreateClass, ClusterTypeOK, store
<1>5. ASSUME NEW kind \in Kinds, NEW k \in Keys, Collect(kind, k)
      PROVE  ClusterTypeOK'
  <2>1. artifact[kind] \in [Keys -> Artifact \cup {None}]
    BY DEF ClusterTypeOK
  <2>2. Deleting(artifact[kind][k]) \in Artifact \cup {None}
    BY <1>5, <2>1, DeletingTypes DEF Collect
  <2>3. artifact' \in [Kinds -> [Keys -> Artifact \cup {None}]]
    BY <1>5, <2>1, <2>2 DEF Collect, ClusterTypeOK
  <2> QED
    BY <1>5, <2>3 DEF Collect, ClusterTypeOK, store
<1> QED
  BY <1>1, <1>2, <1>3, <1>4, <1>5 DEF Environment

LEMMA FaultTypes ==
    ASSUME TypeInv, Fault
    PROVE  TypeInv'
<1>0. ClusterTypeOK /\ ControllerInv /\ {"provError", "apiError", "crash"} \subseteq Budgets
  BY DEF TypeInv, Budgets
<1> USE DEF At
<1>1. ASSUME NEW b \in Budgets, Spend(b), UNCHANGED kube, ControllerInv',
             bucket' \in [Buckets -> StoreBucket \cup {None}],
             access' \subseteq Keys \X Buckets, asked' \subseteq Uids \X Buckets
      PROVE  TypeInv'
  <2>1. spent' \in [Budgets -> Nat] /\ \A c \in Budgets : spent'[c] <= Max[c]
    BY <1>0, <1>1, SpendTypes
  <2> QED
    BY <1>0, <1>1, <2>1 DEF TypeInv, ClusterTypeOK, kube
<1>2. ASSUME NEW w \in Workers, ProvisionError(w)
      PROVE  TypeInv'
  <2> DEFINE j == job[w]
  <2>1. /\ j.obc \in Claim /\ j.name \in Buckets /\ j.key \in Keys /\ j.class \in ClassDef
        /\ j.pc = "provision"
    BY <1>0, <1>2 DEF ProvisionError, ControllerInv, JobShape, Naming
  <2>2. Override[j.obc.class] \in Policies \cup {None}
    BY <2>1, ConstantsAssumption DEF Claim
  <2>3. PolicyFor(j) \in Policies \cup {None} /\ j.obc.uid \in Uids
        /\ j.obc.config \in 0 .. Max.edit
    BY <2>1, <2>2 DEF PolicyFor, ClassDef, Claim
  <2>4. asked' \subseteq Uids \X Buckets
    BY <1>0, <1>2, <2>1, <2>3 DEF ProvisionError, Asked, ClusterTypeOK, store
  <2>5. bucket' \in [Buckets -> StoreBucket \cup {None}] /\ access' \subseteq Keys \X Buckets
    BY <1>0, <1>2, <2>1, <2>3
    DEF ProvisionError, DoProvision, Provisioned, Granted, UserID, StoreBucket, ClusterTypeOK,
        store
  <2>6. ControllerInv'
    BY <1>0, <1>2, <2>1, RequeueTypes DEF ProvisionError
  <2> QED
    BY <1>0, <1>1, <1>2, <2>4, <2>5, <2>6 DEF ProvisionError
<1>3. ASSUME NEW w \in Workers, DeprovisionError(w)
      PROVE  TypeInv'
  <2>1. job[w].ob \in ObjectBucket /\ job[w].pc # "idle"
    BY <1>0, <1>3 DEF DeprovisionError, ControllerInv, JobShape, Unbinding
  <2>2. /\ bucket' \in [Buckets -> StoreBucket \cup {None}]
        /\ access' \subseteq Keys \X Buckets /\ asked' = asked
    BY <1>0, <1>3, <2>1 DEF DeprovisionError, Removed, Revoked, ClusterTypeOK, store
  <2>3. ControllerInv'
    BY <1>0, <1>3, <2>1, RequeueTypes DEF DeprovisionError
  <2> QED
    BY <1>0, <1>1, <1>3, <2>2, <2>3 DEF DeprovisionError, ClusterTypeOK
<1>4. ASSUME NEW w \in Workers, ApiError(w)
      PROVE  TypeInv'
  <2> DEFINE j == job[w]
  <2>1. j \in Job /\ JobShape(j) /\ j.pc # "idle"
    BY <1>0, <1>4 DEF ApiError, ControllerInv
  <2>2. ControllerInv'
    <3>1. CASE j.pc = "getObClass"
      <4>1. [j EXCEPT !.pc = "revoke"] \in Job /\ JobShape([j EXCEPT !.pc = "revoke"])
        BY <2>1, <3>1 DEF Job, JobShape, PCs, Naming, Artifacts, Binding, Unbinding
      <4> QED
        BY <1>0, <1>4, <3>1, <4>1, ContinueTypes DEF ApiError
    <3>2. CASE j.pc \in {"dropObFinalizer", "deleteOb"}
      BY <1>0, <1>4, <3>2, SkipObTypes DEF ApiError
    <3>3. CASE j.pc \in {"release", "dropFinalizer"} /\ j.found # {}
      BY <1>0, <1>4, <3>3, ReleasedTypes DEF ApiError
    <3>4. CASE Requeue(w)
      BY <1>0, <2>1, <3>4, RequeueTypes
    <3> QED
      BY <1>4, <3>1, <3>2, <3>3, <3>4 DEF ApiError
  <2> QED
    BY <1>0, <1>1, <1>4, <2>2 DEF ApiError, ClusterTypeOK, store
<1>5. ASSUME NEW i \in Instances, Crash(i)
      PROVE  TypeInv'
  <2>1. ControllerInv'
    BY <1>0, <1>5, IdleTypes DEF Crash, ControllerInv
  <2> QED
    BY <1>0, <1>1, <1>5, <2>1 DEF Crash, ClusterTypeOK, store
<1> QED
  BY <1>2, <1>3, <1>4, <1>5 DEF Fault

LEMMA InitTypes == Init => TypeInv
<1> SUFFICES ASSUME Init PROVE TypeInv
  OBVIOUS
<1>1. ControllerInv
  BY IdleTypes DEF Init, ControllerInv
<1>2. {"edit"} \subseteq Budgets
  BY DEF Budgets
<1>3. bucket \in [Buckets -> StoreBucket \cup {None}]
  BY <1>2, MaxAssumption DEF Init, ClusterInit, StoreBucket
<1>4. ClusterTypeOK
  BY <1>3, MaxAssumption DEF Init, ClusterInit, ClusterTypeOK
<1> QED
  BY <1>1, <1>4 DEF TypeInv

LEMMA NextTypes == TypeInv /\ [Next]_vars => TypeInv'
<1> SUFFICES ASSUME TypeInv, [Next]_vars PROVE TypeInv'
  OBVIOUS
<1>1. CASE EnvironmentStep
  <2>1. ControllerInv'
    BY <1>1, EnqueuedTypes DEF EnvironmentStep, TypeInv, ControllerInv
  <2> QED
    BY <1>1, <2>1, EnvironmentTypes DEF EnvironmentStep, TypeInv
<1>2. CASE UNCHANGED vars
  BY <1>2 DEF vars, TypeInv, ClusterTypeOK, ControllerInv
<1> QED
  BY <1>1, <1>2, ProvisionStepTypes, DeleteStepTypes, GetItemTypes, FaultTypes
  DEF Next, WorkerStep

\* What a step of handleProvisionClaim or handleDeleteClaim leaves alone, and which
\* steps write a claim.
LEMMA ProvisionStepFrame ==
    ASSUME NEW w \in Workers, ProvisionStep(w)
    PROVE  /\ UNCHANGED spent
           /\ \/ UNCHANGED obc
              \/ SetPending(w) \/ SetMeta(w) \/ SaveName(w) \/ BindClaim(w) \/ SetBound(w)
<1>1. CASE SetPending(w) \/ SetMeta(w) \/ SaveName(w) \/ BindClaim(w) \/ SetBound(w)
  BY <1>1 DEF SetPending, SetMeta, SaveName, BindClaim, SetBound, UpdateClaim
<1>2. CASE GetClaim(w) \/ GetClass(w) \/ GetOb(w) \/ Provision(w) \/ Grant(w) \/ ClaimRef(w)
  BY <1>2 DEF GetClaim, GetClass, GetOb, Provision, Grant, ClaimRef, kube
<1>3. CASE \E kind \in Kinds : CreateArtifact(w, kind) \/ UpdateArtifact(w, kind)
  BY <1>3 DEF CreateArtifact, UpdateArtifact
<1>4. CASE CreateOb(w) \/ GetCurrentOb(w) \/ UpdateOb(w) \/ ObBound(w)
  BY <1>4 DEF CreateOb, GetCurrentOb, UpdateOb, ObBound, ReplaceOb, kube
<1> QED
  BY <1>1, <1>2, <1>3, <1>4 DEF ProvisionStep

LEMMA DeleteStepFrame ==
    ASSUME NEW w \in Workers, DeleteStep(w)
    PROVE  UNCHANGED spent /\ (UNCHANGED obc \/ DropClaimFinalizer(w))
<1>1. CASE FindOb(w) \/ FindCm(w) \/ FindSecret(w) \/ MarkReleased(w) \/ GetObClass(w)
  BY <1>1 DEF FindOb, FindCm, FindSecret, MarkReleased, ReplaceOb, GetObClass, kube
<1>2. CASE Delete(w) \/ Revoke(w) \/ DropObFinalizer(w) \/ DeleteOb(w)
  BY <1>2 DEF Delete, Revoke, DropObFinalizer, DeleteOb, kube
<1>3. CASE GetArtifact(w) \/ DropFinalizer(w) \/ GetClaimToRelease(w) \/ DropClaimFinalizer(w)
  BY <1>3 DEF GetArtifact, DropFinalizer, GetClaimToRelease, DropClaimFinalizer, kube
<1> QED
  BY <1>1, <1>2, <1>3 DEF DeleteStep

\* Who writes a claim at all.
LEMMA ClaimSteps ==
    ASSUME [Next]_vars
    PROVE  \/ UNCHANGED obc
           \/ \E w \in Workers : \/ SetPending(w) \/ SetMeta(w) \/ SaveName(w) \/ BindClaim(w)
                                 \/ SetBound(w) \/ DropClaimFinalizer(w)
           \/ \E k \in Keys : DeleteClaim(k) \/ EditClaim(k)
           \/ \E k \in Keys, r \in Requests : CreateClaim(k, r)
<1>1. CASE \E w \in Workers : WorkerStep(w)
  BY <1>1, ProvisionStepFrame, DeleteStepFrame DEF WorkerStep
<1>2. CASE \E w \in Workers, k \in Keys : GetItem(w, k)
  BY <1>2 DEF GetItem, kube
<1>3. CASE EnvironmentStep
  BY <1>3 DEF EnvironmentStep, Environment, DeleteClass, CreateClass, Collect
<1>4. CASE Fault
  BY <1>4 DEF Fault, ProvisionError, DeprovisionError, ApiError, Crash, kube
<1>5. CASE UNCHANGED vars
  BY <1>5 DEF vars
<1> QED
  BY <1>1, <1>2, <1>3, <1>4, <1>5 DEF Next

\* No step gives anything back, and a step that is no fault spends no failure.
LEMMA SpentGrows ==
    ASSUME [Next]_vars
    PROVE  /\ UNCHANGED spent \/ \E b \in Budgets : Spend(b)
           /\ ~Fault => UNCHANGED spent \/ \E b \in Budgets \ {"apiError"} : Spend(b)
<1>1. CASE \E w \in Workers : WorkerStep(w)
  BY <1>1, ProvisionStepFrame, DeleteStepFrame DEF WorkerStep
<1>2. CASE \E w \in Workers, k \in Keys : GetItem(w, k)
  BY <1>2 DEF GetItem
<1>3. CASE EnvironmentStep
  <2>1. UNCHANGED spent \/ Spend("create") \/ Spend("edit") \/ Spend("classOp")
    BY <1>3 DEF EnvironmentStep, Environment, CreateClaim, DeleteClaim, EditClaim, DeleteClass,
                CreateClass, Collect
  <2> QED
    BY <2>1 DEF Budgets
<1>4. CASE Fault
  BY <1>4 DEF Fault, ProvisionError, DeprovisionError, ApiError, Crash, Budgets
<1>5. CASE UNCHANGED vars
  BY <1>5 DEF vars
<1> QED
  BY <1>1, <1>2, <1>3, <1>4, <1>5 DEF Next

\* What both theorems below rest on.
LEMMA Invariance == Spec => []TypeInv
BY InitTypes, NextTypes, PTL DEF Spec

\* Type correctness: whatever the interleaving of workers, users, the garbage
\* collector, failures and crashes, every object stored, every bucket and every
\* local variable of a worker is well formed.
THEOREM TypeCorrect == Spec => []TypeOK
<1>1. TypeInv => TypeOK
  BY DEF TypeInv, TypeOK, ControllerInv
<1> QED
  BY <1>1, Invariance, PTL

\* No step of syncHandler uses a claim, class, name, OB or version that the steps
\* before it did not read: the pointers handed from one API call to the next are
\* never nil, although any of those objects may vanish between two calls.
THEOREM JobsWellShaped == Spec => [](\A w \in Workers : JobShape(job[w]))
<1>1. TypeInv => \A w \in Workers : JobShape(job[w])
  BY DEF TypeInv, ControllerInv
<1> QED
  BY <1>1, Invariance, PTL
===============================================================================
