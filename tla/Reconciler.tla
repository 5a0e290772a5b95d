------------------------------ MODULE Reconciler ------------------------------
(***************************************************************************)
(* The claim reconciler of lib-bucket-provisioner: the workers of one or   *)
(* more controller processes (src/pkg/provisioner/controller.go) driving   *)
(* ObjectBucketClaims (OBC) to Bound and back to nothing.                  *)
(*                                                                         *)
(* Every API or provisioner call is a step of its own, so users,           *)
(* administrators, the garbage collector, other workers, crashes and       *)
(* failing calls interleave between any two calls of syncHandler.  Local   *)
(* computation belongs to the step of the call before it.                  *)
(*                                                                         *)
(* A resourceVersion is abstracted by the object's content: an Update      *)
(* succeeds exactly when the stored object still equals the copy that was  *)
(* read.  The API server does not change the version on an update that     *)
(* changes nothing, so this differs only where an object returns to an     *)
(* earlier content, which admits more behaviours than the server does.     *)
(***************************************************************************)
EXTENDS Cluster

CONSTANTS
    Workers,     \* worker goroutines of all controller processes
    HostOf       \* the controller process each worker runs in

VARIABLES
    queue,       \* queue[i]: keys waiting in the work queue of process i
    job          \* job[w]: what worker w is doing

vars == <<obc, ob, artifact, class, bucket, access, asked, spent, queue, job>>

-------------------------------------------------------------------------------
Instances == {HostOf[w] : w \in Workers}

PCs == {"idle", "getClaim", "getClass",
        "setPending", "setMeta", "getOb", "saveName", "provision",
        "createSecret", "updateSecret", "createCm", "updateCm",
        "claimRef", "createOb", "getCurrentOb", "updateOb", "obBound",
        "bindClaim", "setBound",
        "findOb", "findCm", "findSecret", "markReleased", "getObClass",
        "delete", "revoke", "dropObFinalizer", "deleteOb",
        "release", "dropFinalizer", "dropClaimFinalizer"}

\* A worker's local variables: the claim, OB and class it read or last wrote,
\* the bucket name it chose, the version it will overwrite, the artifacts still
\* to release, and whether a cleanup call has failed.
Job == [pc: PCs, key: Keys \cup {None}, obc: Claim \cup {None},
        ob: ObjectBucket \cup {None}, class: ClassDef \cup {None},
        name: Buckets \cup {None}, base: ObjectBucket \cup Artifact \cup {None},
        found: SUBSET Kinds, failed: BOOLEAN]

IdleJob == [pc |-> "idle", key |-> None, obc |-> None, ob |-> None,
            class |-> None, name |-> None, base |-> None, found |-> {},
            failed |-> FALSE]

-------------------------------------------------------------------------------
(* The informer's event handlers.                                          *)

\* enqueueOBC, in every process, for the claims that change from obc to obc'.
\* The delay of the watch and the rate limiter's back-off are one delay: a queued
\* key waits until a worker takes it.
Enqueued(q) ==
    [i \in Instances |-> q[i] \cup {k \in Keys : obc[k] # obc'[k]
                                                 /\ Handled(obc[k], obc'[k])}]

-------------------------------------------------------------------------------
(* processNextItemInQueue and the steps of a job.                          *)

At(w, pc) == job[w].pc = pc

\* The handler returned nil: Forget and Done.
Done(w) ==
    /\ job' = [job EXCEPT ![w] = IdleJob]
    /\ UNCHANGED queue

\* The handler returned an error: AddRateLimited and Done.
Requeued(w) == [queue EXCEPT ![HostOf[w]] = @ \cup {job[w].key}]

Requeue(w) ==
    /\ job' = [job EXCEPT ![w] = IdleJob]
    /\ queue' = Requeued(w)

\* The handler goes on, with these local variables.
Continue(w, j) ==
    /\ job' = [job EXCEPT ![w] = j]
    /\ UNCHANGED queue

\* A Get whose NotFound the handler returns as an error.
ContinueIfFound(w, o, j) ==
    \/ o # None /\ Continue(w, j)
    \/ o = None /\ Requeue(w)

\* The queue hands out a key to one worker of its process at a time.  The key
\* stays in the queue when a second, delayed add of it is still to come.
GetItem(w, k) ==
    /\ At(w, "idle")
    /\ k \in queue[HostOf[w]]
    /\ \A v \in Workers : HostOf[v] = HostOf[w] => job[v].key # k
    /\ \/ queue' = [queue EXCEPT ![HostOf[w]] = @ \ {k}]
       \/ UNCHANGED queue
    /\ job' = [job EXCEPT ![w] = [IdleJob EXCEPT !.pc = "getClaim", !.key = k]]
    /\ UNCHANGED <<kube, store, spent>>

(* syncHandler *)

GetClaim(w) ==
    LET o == claimForKey(job[w].key) IN
    /\ At(w, "getClaim")
    /\ \/ o = None /\ Done(w)
       \/ o # None /\ Continue(w, [job[w] EXCEPT !.pc = "getClass", !.obc = o])
    /\ UNCHANGED <<kube, store, spent>>

\* Where syncHandler goes with a claim of a supported class.
AfterClass(o) ==
    CASE o.deleted                     -> "findOb"
      [] ~o.deleted /\ o.phase = None  -> "setPending"
      [] ~o.deleted /\ o.phase # None  -> "setMeta"

\* Faulty variant: a missing class ends the job without a retry.
GetClassForgiving(w) ==
    LET c == storageClassForClaim(job[w].obc) IN
    /\ At(w, "getClass")
    /\ \/ c = None /\ Done(w)
       \/ c # None /\ ~c.ours /\ Done(w)
       \/ /\ c # None /\ c.ours
          /\ Continue(w, [job[w] EXCEPT !.pc = AfterClass(job[w].obc), !.class = c])
    /\ UNCHANGED <<kube, store, spent>>

GetClass(w) ==
    LET c == storageClassForClaim(job[w].obc) IN
    /\ At(w, "getClass")
    /\ \/ c = None /\ Requeue(w)
       \/ c # None /\ ~c.ours /\ Done(w)
       \/ /\ c # None /\ c.ours
          /\ Continue(w, [job[w] EXCEPT !.pc = AfterClass(job[w].obc), !.class = c])
    /\ UNCHANGED <<kube, store, spent>>

\* Faulty variant: the update names no resourceVersion and overwrites the claim.
UpdateClaimForced(w, pc, new, next) ==
    LET k == job[w].key IN
    /\ At(w, pc)
    /\ \/ /\ obc[k] # None
          /\ obc' = [obc EXCEPT ![k] = [new EXCEPT !.deleted = obc[k].deleted]]
          /\ queue' = Enqueued(queue)
          /\ job' = [job EXCEPT ![w] = next]
       \/ /\ obc[k] = None
          /\ Requeue(w)
          /\ UNCHANGED obc
    /\ UNCHANGED <<ob, artifact, class, store, spent>>

\* An Update or UpdateStatus of the claim the worker holds: the server refuses
\* it when the claim has changed or vanished, and the handler returns the error.
UpdateClaim(w, pc, new, next) ==
    LET k == job[w].key IN
    /\ At(w, pc)
    /\ \/ /\ obc[k] = job[w].obc
          /\ obc' = [obc EXCEPT ![k] = new]
          /\ queue' = Enqueued(queue)
          /\ job' = [job EXCEPT ![w] = next]
       \/ /\ obc[k] # job[w].obc
          /\ Requeue(w)
          /\ UNCHANGED obc
    /\ UNCHANGED <<ob, artifact, class, store, spent>>

SetPending(w) ==
    LET new == [job[w].obc EXCEPT !.phase = "Pending"] IN
    UpdateClaim(w, "setPending", new,
                [job[w] EXCEPT !.pc = "setMeta", !.obc = new])

(* handleProvisionClaim *)

\* Faulty variant: the claim gets no finalizer.
SetMetaUnguarded(w) ==
    UpdateClaim(w, "setMeta", job[w].obc, [job[w] EXCEPT !.pc = "getOb"])

\* setOBCMetaFields: the finalizer goes on before anything is created.
SetMeta(w) ==
    LET new == addFinalizers(job[w].obc) IN
    UpdateClaim(w, "setMeta", new, [job[w] EXCEPT !.pc = "getOb", !.obc = new])

\* errIfObcConfigHasBeenModified
Modified(b, o) == b # None /\ (o.bucket # b.bucket \/ o.class # b.class)

\* A uuid nobody has seen, not even in a copy of a claim that is gone.
FreshNames ==
    GenNames \ ({a[2] : a \in asked} \cup {job[w].name : w \in Workers}
                \cup {obc[k].bucket : k \in {x \in Keys : obc[x] # None}}
                \cup {job[w].obc.bucket : w \in {x \in Workers : job[x].obc # None}})

\* Faulty variant: generateBucketName takes precedence over the saved name.
NamesForGenerateFirst(c, o) ==
    CASE c.bucket # None                   -> {c.bucket}
      [] c.bucket = None /\ o.generate     -> FreshNames
      [] c.bucket = None /\ ~o.generate    -> {o.bucket} \ {None}

\* The bucket name by the class (brownfield) or by composeBucketName; none is
\* an error.
NamesFor(c, o) ==
    CASE c.bucket # None                                       -> {c.bucket}
      [] c.bucket = None /\ o.bucket # None                    -> {o.bucket}
      [] c.bucket = None /\ o.bucket = None /\ o.generate      -> FreshNames
      [] c.bucket = None /\ o.bucket = None /\ ~o.generate     -> {}

GetOb(w) ==
    LET j == job[w]
        b == getObFromKey(j.key)
        names == NamesFor(j.class, j.obc)
        next == IF j.obc.bucket = None THEN "saveName" ELSE "provision" IN
    /\ At(w, "getOb")
    /\ \/ (Modified(b, j.obc) \/ names = {}) /\ Requeue(w)
       \/ /\ ~Modified(b, j.obc)
          /\ \E n \in names : Continue(w, [j EXCEPT !.pc = next, !.name = n])
    /\ UNCHANGED <<kube, store, spent>>

\* Faulty variant: the generated name is used before it is saved.
SaveNameLater(w) ==
    /\ At(w, "saveName")
    /\ Continue(w, [job[w] EXCEPT !.pc = "provision"])
    /\ UNCHANGED <<kube, store, spent>>

\* The name is in the claim before the bucket exists.
SaveName(w) ==
    LET new == [job[w].obc EXCEPT !.bucket = job[w].name] IN
    UpdateClaim(w, "saveName", new, [job[w] EXCEPT !.pc = "provision", !.obc = new])

\* The OB a provisioner returns: a connection, and a policy if it overrides it.
ReturnedOb(j) ==
    [deleted |-> FALSE, finalizer |-> FALSE, class |-> None, bucket |-> j.name,
     user |-> UserID(j.key), claim |-> None, policy |-> Override[j.obc.class],
     phase |-> None]

\* The reclaim policy that holds for a job's bucket: the provisioner's choice is
\* not overwritten by the class's.
PolicyFor(j) ==
    IF Override[j.obc.class] = None THEN j.class.policy ELSE Override[j.obc.class]

\* What a call of Provision does to the store, with or without a reply.
CanProvision(j) == Provisionable(UserID(j.key), j.name)

DoProvision(j) == Provisioned(UserID(j.key), j.name, j.obc.config, PolicyFor(j))

Asked(j) == asked \cup {<<j.obc.uid, j.name>>}

Provision(w) ==
    LET j == job[w] IN
    /\ At(w, "provision")
    /\ j.class.bucket = None
    /\ asked' = Asked(j)
    /\ \/ /\ CanProvision(j)
          /\ DoProvision(j)
          /\ Continue(w, [j EXCEPT !.pc = "createSecret", !.ob = ReturnedOb(j)])
       \/ /\ ~CanProvision(j)
          /\ Requeue(w)
          /\ UNCHANGED <<bucket, access>>
    /\ UNCHANGED <<kube, spent>>

Grant(w) ==
    LET j == job[w] IN
    /\ At(w, "provision")
    /\ j.class.bucket # None
    /\ \/ /\ bucket[j.name] # None
          /\ Granted(UserID(j.key), j.name)
          /\ Continue(w, [j EXCEPT !.pc = "createSecret", !.ob = ReturnedOb(j)])
       \/ /\ bucket[j.name] = None
          /\ Requeue(w)
          /\ UNCHANGED access
    /\ UNCHANGED <<kube, bucket, asked, spent>>

\* Provision or Grant fails, after it has done its work or before, or
\* GenerateUserID does.
ProvisionError(w) ==
    LET j == job[w] IN
    /\ At(w, "provision")
    /\ Spend("provError")
    /\ \/ /\ j.class.bucket = None
          /\ asked' = Asked(j)
          /\ \/ CanProvision(j) /\ DoProvision(j)
             \/ UNCHANGED <<bucket, access>>
       \/ /\ j.class.bucket # None
          /\ bucket[j.name] # None
          /\ Granted(UserID(j.key), j.name)
          /\ UNCHANGED <<bucket, asked>>
       \/ UNCHANGED store
    /\ Requeue(w)
    /\ UNCHANGED kube

(* createOrUpdateSecret and createOrUpdateConfigMap: the update names no
   resourceVersion, so it overwrites whatever is stored. *)

CreatePc == [secret |-> "createSecret", cm |-> "createCm"]
UpdatePc == [secret |-> "updateSecret", cm |-> "updateCm"]
AfterPc  == [secret |-> "createCm", cm |-> "claimRef"]

\* Faulty variant: the owner is taken from the OB, which has no claimRef yet.
NewArtifactOwnedByOb(j) == [owner |-> j.ob.claim, deleted |-> FALSE,
                            finalizer |-> TRUE, bucket |-> j.ob.bucket]

\* newCredentialsSecret and newBucketConfigMap: owned by the claim, guarded.
NewArtifact(j) == [owner |-> j.obc.uid, deleted |-> FALSE, finalizer |-> TRUE,
                   bucket |-> j.ob.bucket]

CreateArtifact(w, kind) ==
    LET j == job[w]
        a == artifact[kind][j.key] IN
    /\ At(w, CreatePc[kind])
    /\ \/ /\ a = None
          /\ artifact' = [artifact EXCEPT ![kind][j.key] = NewArtifact(j)]
          /\ Continue(w, [j EXCEPT !.pc = AfterPc[kind]])
       \/ /\ a # None
          /\ Continue(w, [j EXCEPT !.pc = UpdatePc[kind]])
          /\ UNCHANGED artifact
    /\ UNCHANGED <<obc, ob, class, store, spent>>

UpdateArtifact(w, kind) ==
    LET j == job[w]
        a == artifact[kind][j.key] IN
    /\ At(w, UpdatePc[kind])
    /\ \/ /\ a # None
          /\ artifact' = [artifact EXCEPT ![kind][j.key] =
                              [NewArtifact(j) EXCEPT !.deleted = a.deleted]]
          /\ Continue(w, [j EXCEPT !.pc = AfterPc[kind]])
       \/ /\ a = None
          /\ Requeue(w)
          /\ UNCHANGED artifact
    /\ UNCHANGED <<obc, ob, class, store, spent>>

\* Faulty variant: the class's reclaim policy overwrites the provisioner's.
ClaimRefBlindPolicy(w) ==
    LET j == job[w]
        o == claimForKey(j.key) IN
    /\ At(w, "claimRef")
    /\ ContinueIfFound(w, o, [j EXCEPT
           !.pc = "createOb",
           !.ob = [j.ob EXCEPT !.class = j.obc.class, !.policy = j.class.policy,
                               !.finalizer = TRUE, !.claim = o.uid]])
    /\ UNCHANGED <<kube, store, spent>>

\* claimRefForKey reads the claim once more; the OB is complete after it.
ClaimRef(w) ==
    LET j == job[w]
        o == claimForKey(j.key) IN
    /\ At(w, "claimRef")
    /\ ContinueIfFound(w, o, [j EXCEPT
           !.pc = "createOb",
           !.ob = addFinalizers([j.ob EXCEPT !.class = j.obc.class,
                                             !.policy = PolicyFor(j),
                                             !.claim = o.uid])])
    /\ UNCHANGED <<kube, store, spent>>

(* createOrUpdateObjectBucket, then the OB's and the claim's status. *)

CreateOb(w) ==
    LET n == ObjectBucketName(job[w].key) IN
    /\ At(w, "createOb")
    /\ \/ /\ ob[n] = None
          /\ ob' = [ob EXCEPT ![n] = job[w].ob]
          /\ Continue(w, [job[w] EXCEPT !.pc = "obBound"])
       \/ /\ ob[n] # None
          /\ Continue(w, [job[w] EXCEPT !.pc = "getCurrentOb"])
          /\ UNCHANGED ob
    /\ UNCHANGED <<obc, artifact, class, store, spent>>

\* Only the resourceVersion of the current OB is taken over.
GetCurrentOb(w) ==
    LET b == ob[ObjectBucketName(job[w].key)] IN
    /\ At(w, "getCurrentOb")
    /\ ContinueIfFound(w, b, [job[w] EXCEPT !.pc = "updateOb", !.base = b])
    /\ UNCHANGED <<kube, store, spent>>

\* An Update or UpdateStatus of an OB last seen as old, which the server refuses
\* when the OB has changed or vanished; the handler returns the error.
ReplaceOb(w, pc, old, new, next) ==
    LET n == ObjectBucketName(job[w].key) IN
    /\ At(w, pc)
    /\ \/ /\ ob[n] = old
          /\ ob' = [ob EXCEPT ![n] = new]
          /\ Continue(w, [job[w] EXCEPT !.pc = next, !.ob = new, !.base = None])
       \/ /\ ob[n] # old
          /\ Requeue(w)
          /\ UNCHANGED ob
    /\ UNCHANGED <<obc, artifact, class, store, spent>>

\* Faulty variant: the update resets the status of the stored OB.
UpdateObResetsStatus(w) ==
    ReplaceOb(w, "updateOb", job[w].base, job[w].ob, "obBound")

\* Update keeps the status and the deletionTimestamp of the stored OB.
UpdateOb(w) ==
    LET j == job[w] IN
    ReplaceOb(w, "updateOb", j.base,
              [j.ob EXCEPT !.phase = j.base.phase, !.deleted = j.base.deleted],
              "obBound")

ObBound(w) ==
    ReplaceOb(w, "obBound", job[w].ob, [job[w].ob EXCEPT !.phase = "Bound"], "bindClaim")

BindClaim(w) ==
    LET new == [job[w].obc EXCEPT !.ob = ObjectBucketName(job[w].key),
                                  !.bucket = job[w].name] IN
    UpdateClaim(w, "bindClaim", new, [job[w] EXCEPT !.pc = "setBound", !.obc = new])

SetBound(w) ==
    UpdateClaim(w, "setBound", [job[w].obc EXCEPT !.phase = "Bound"], IdleJob)

(* handleDeleteClaim *)

FindOb(w) ==
    /\ At(w, "findOb")
    /\ Continue(w, [job[w] EXCEPT !.pc = "findCm",
                                !.ob = ob[ObjectBucketName(job[w].key)]])
    /\ UNCHANGED <<kube, store, spent>>

\* A kind the gathering adds to what is to be released, if it is there.
IfStored(kind, k) == {x \in {kind} : artifact[x][k] # None}

FindCm(w) ==
    /\ At(w, "findCm")
    /\ Continue(w, [job[w] EXCEPT !.pc = "findSecret",
                                !.found = IfStored("cm", job[w].key)])
    /\ UNCHANGED <<kube, store, spent>>

\* With everything gathered: no OB means cleanup only, and an OB without a
\* reclaim policy ends the job without an error.
FindSecret(w) ==
    LET j == job[w] IN
    /\ At(w, "findSecret")
    /\ IF j.ob # None /\ j.ob.policy = None
       THEN Done(w)
       ELSE Continue(w, [j EXCEPT !.pc = IF j.ob = None THEN "release" ELSE "markReleased",
                                  !.found = @ \cup IfStored("secret", j.key)])
    /\ UNCHANGED <<kube, store, spent>>

MarkReleased(w) ==
    ReplaceOb(w, "markReleased", job[w].ob, [job[w].ob EXCEPT !.phase = "Released"],
              "getObClass")

\* Faulty variant: the class's bucket name is not looked at.
isNewBucketAlways(b) == TRUE

\* isNewBucketByObjectBucket: a class that cannot be read counts as brownfield.
isNewBucket(b) ==
    LET c == storageClassForObjectBucket(b) IN
    c # None /\ c.bucket = None

GetObClass(w) ==
    LET b == job[w].ob IN
    /\ At(w, "getObClass")
    /\ Continue(w, [job[w] EXCEPT !.pc = IF isNewBucket(b) /\ b.policy = "Delete"
                                         THEN "delete" ELSE "revoke"])
    /\ UNCHANGED <<kube, store, spent>>

Delete(w) ==
    /\ At(w, "delete")
    /\ Removed(job[w].ob.bucket)
    /\ job' = [job EXCEPT ![w].pc = "dropObFinalizer"]
    /\ UNCHANGED <<kube, asked, queue, spent>>

Revoke(w) ==
    LET b == job[w].ob IN
    /\ At(w, "revoke")
    /\ Revoked(b.user, b.bucket)
    /\ job' = [job EXCEPT ![w].pc = "dropObFinalizer"]
    /\ UNCHANGED <<kube, bucket, asked, queue, spent>>

\* Faulty variant: cleanup goes on after a failed Delete or Revoke.
DeprovisionErrorIgnored(w) ==
    /\ job[w].pc \in {"delete", "revoke"}
    /\ Spend("provError")
    /\ Continue(w, [job[w] EXCEPT !.pc = "dropObFinalizer"])
    /\ UNCHANGED <<kube, store>>

\* Delete or Revoke fails, after it has done its work or before: nothing is cleaned
\* up, for bookkeeping.
DeprovisionError(w) ==
    LET b == job[w].ob IN
    /\ job[w].pc \in {"delete", "revoke"}
    /\ Spend("provError")
    /\ \/ At(w, "delete") /\ Removed(b.bucket) /\ UNCHANGED asked
       \/ At(w, "revoke") /\ Revoked(b.user, b.bucket) /\ UNCHANGED <<bucket, asked>>
       \/ UNCHANGED store
    /\ Requeue(w)
    /\ UNCHANGED kube

(* deleteResources: OB, secret, configmap, claim; a failure is remembered and
   the cleanup goes on. *)

\* deleteObjectBucket gave up with an error.
SkipOb(w) == job' = [job EXCEPT ![w].pc = "release", ![w].failed = TRUE]

\* Faulty variant: the OB is left to a garbage collector that does not own it.
DropObFinalizerOnly(w) ==
    LET n == ObjectBucketName(job[w].key) IN
    /\ At(w, "dropObFinalizer")
    /\ ob' = [ob EXCEPT ![n] = removeFinalizer(job[w].ob)]
    /\ Continue(w, [job[w] EXCEPT !.pc = "release"])
    /\ UNCHANGED <<obc, artifact, class, store, spent>>

DropObFinalizer(w) ==
    LET n == ObjectBucketName(job[w].key) IN
    /\ At(w, "dropObFinalizer")
    /\ \/ /\ ob[n] = job[w].ob
          /\ ob' = [ob EXCEPT ![n] = removeFinalizer(job[w].ob)]
          /\ job' = [job EXCEPT ![w].pc = "deleteOb"]
       \/ /\ ob[n] # job[w].ob
          /\ SkipOb(w)
          /\ UNCHANGED ob
    /\ UNCHANGED <<obc, artifact, class, store, queue, spent>>

\* An OB that has vanished is no error.
DeleteOb(w) ==
    LET n == ObjectBucketName(job[w].key) IN
    /\ At(w, "deleteOb")
    /\ ob' = [ob EXCEPT ![n] = IF @ = None THEN None ELSE Deleting(@)]
    /\ job' = [job EXCEPT ![w].pc = "release"]
    /\ UNCHANGED <<obc, artifact, class, store, queue, spent>>

\* The artifact deleteResources is at: the secret goes first.
Current(j) == IF "secret" \in j.found THEN "secret" ELSE "cm"

\* releaseSecret or releaseConfigMap returned: on to the next one.
Released(w, failed) ==
    job' = [job EXCEPT ![w].pc = "release",
                       ![w].found = @ \ {Current(job[w])},
                       ![w].base = None,
                       ![w].failed = @ \/ failed]

GetArtifact(w) ==
    LET a == artifact[Current(job[w])][job[w].key] IN
    /\ At(w, "release")
    /\ job[w].found # {}
    /\ \/ /\ a # None
          /\ job' = [job EXCEPT ![w].pc = "dropFinalizer", ![w].base = a]
       \/ /\ a = None
          /\ Released(w, TRUE)
    /\ UNCHANGED <<kube, store, queue, spent>>

DropFinalizer(w) ==
    LET kind == Current(job[w])
        k == job[w].key IN
    /\ At(w, "dropFinalizer")
    /\ \/ /\ artifact[kind][k] = job[w].base
          /\ artifact' = [artifact EXCEPT ![kind][k] = removeFinalizer(job[w].base)]
          /\ Released(w, FALSE)
       \/ /\ artifact[kind][k] # job[w].base
          /\ Released(w, TRUE)
          /\ UNCHANGED artifact
    /\ UNCHANGED <<obc, ob, class, store, queue, spent>>

\* releaseOBC
GetClaimToRelease(w) ==
    LET o == obc[job[w].key] IN
    /\ At(w, "release")
    /\ job[w].found = {}
    /\ ContinueIfFound(w, o, [job[w] EXCEPT !.pc = "dropClaimFinalizer", !.obc = o])
    /\ UNCHANGED <<kube, store, spent>>

\* The job ends here; what failed on the way decides whether it is retried.
DropClaimFinalizer(w) ==
    LET k == job[w].key IN
    /\ At(w, "dropClaimFinalizer")
    /\ \/ /\ obc[k] = job[w].obc
          /\ obc' = [obc EXCEPT ![k] = removeFinalizer(job[w].obc)]
          /\ queue' = Enqueued(IF job[w].failed THEN Requeued(w) ELSE queue)
          /\ job' = [job EXCEPT ![w] = IdleJob]
       \/ /\ obc[k] # job[w].obc
          /\ Requeue(w)
          /\ UNCHANGED obc
    /\ UNCHANGED <<ob, artifact, class, store, spent>>

-------------------------------------------------------------------------------
(* Failing API calls and crashes.                                          *)

\* An API call fails without effect.  Most handlers return the error; cleanup
\* carries on; the class of an OB that cannot be read counts as brownfield.
ApiError(w) ==
    LET pc == job[w].pc
        releasing == pc \in {"release", "dropFinalizer"} /\ job[w].found # {} IN
    /\ pc \notin {"idle", "provision", "delete", "revoke"}
    /\ Spend("apiError")
    /\ \/ /\ pc = "getObClass"
          /\ Continue(w, [job[w] EXCEPT !.pc = "revoke"])
       \/ /\ pc \in {"dropObFinalizer", "deleteOb"}
          /\ SkipOb(w)
          /\ UNCHANGED queue
       \/ /\ releasing
          /\ Released(w, TRUE)
          /\ UNCHANGED queue
       \/ /\ pc \notin {"getObClass", "dropObFinalizer", "deleteOb"}
          /\ ~releasing
          /\ Requeue(w)
    /\ UNCHANGED <<kube, store>>

\* A process dies and starts again: its workers and queue are lost, and its
\* informer's first list calls AddFunc for every claim there is.
Crash(i) ==
    /\ Spend("crash")
    /\ job' = [w \in Workers |-> IF HostOf[w] = i THEN IdleJob ELSE job[w]]
    /\ queue' = [queue EXCEPT ![i] = {k \in Keys : obc[k] # None}]
    /\ UNCHANGED <<kube, store>>

-------------------------------------------------------------------------------
Init ==
    /\ ClusterInit
    /\ queue = [i \in Instances |-> {}]
    /\ job = [w \in Workers |-> IdleJob]

ProvisionStep(w) ==
    \/ GetClaim(w) \/ GetClass(w) \/ SetPending(w) \/ SetMeta(w) \/ GetOb(w)
    \/ SaveName(w) \/ Provision(w) \/ Grant(w)
    \/ \E kind \in Kinds : CreateArtifact(w, kind) \/ UpdateArtifact(w, kind)
    \/ ClaimRef(w) \/ CreateOb(w) \/ GetCurrentOb(w) \/ UpdateOb(w)
    \/ ObBound(w) \/ BindClaim(w) \/ SetBound(w)

DeleteStep(w) ==
    \/ FindOb(w) \/ FindCm(w) \/ FindSecret(w) \/ MarkReleased(w)
    \/ GetObClass(w) \/ Delete(w) \/ Revoke(w)
    \/ DropObFinalizer(w) \/ DeleteOb(w)
    \/ GetArtifact(w) \/ DropFinalizer(w)
    \/ GetClaimToRelease(w) \/ DropClaimFinalizer(w)

WorkerStep(w) == ProvisionStep(w) \/ DeleteStep(w)

Fault ==
    \/ \E w \in Workers : ProvisionError(w) \/ DeprovisionError(w) \/ ApiError(w)
    \/ \E i \in Instances : Crash(i)

\* A step of the environment and the notifications it causes.
EnvironmentStep ==
    /\ Environment
    /\ queue' = Enqueued(queue)
    /\ UNCHANGED job

Next ==
    \/ \E w \in Workers : WorkerStep(w) \/ \E k \in Keys : GetItem(w, k)
    \/ EnvironmentStep
    \/ Fault

\* A worker finishes what it started, the queue is first-in first-out per
\* process, so a waiting key is served once workers keep coming back, and the
\* garbage collector gets to every orphan.
Fairness ==
    /\ \A w \in Workers : WF_vars(WorkerStep(w))
    /\ \A i \in Instances, k \in Keys :
          SF_vars(\E w \in Workers : HostOf[w] = i /\ GetItem(w, k))
    /\ \A kind \in Kinds, k \in Keys : WF_vars(Collect(kind, k) /\ UNCHANGED <<queue, job>>)

Spec == Init /\ [][Next]_vars

FairSpec == Spec /\ Fairness

-------------------------------------------------------------------------------
\* Every variable holds what it is declared to hold.
TypeOK ==
    /\ ClusterTypeOK
    /\ queue \in [Instances -> SUBSET Keys]
    /\ job \in [Workers -> Job]

-------------------------------------------------------------------------------
(* What the reconciler must guarantee.                                     *)

Live(k) == obc[k] # None /\ ~obc[k].deleted

\* How far a stored claim has come.
Stage(o) ==
    CASE ~o.finalizer                                            -> "new"
      [] o.finalizer /\ o.phase = "Bound"                       -> "bound"
      [] o.finalizer /\ o.phase # "Bound" /\ o.ob # None        -> "linked"
      [] o.finalizer /\ o.phase # "Bound" /\ o.ob = None        -> "held"

Lifecycle == INSTANCE ClaimLifecycle WITH
    claim <- [k \in Keys |->
                 IF obc[k] = None
                 THEN [uid |-> 0, stage |-> "absent", marked |-> FALSE]
                 ELSE [uid |-> obc[k].uid, stage |-> Stage(obc[k]),
                       marked |-> obc[k].deleted]]

\* With a single process, whatever the workers, crashes and failing calls do,
\* every stored claim goes through its life in order: held by the finalizer,
\* linked to its OB, Bound; never back, no further once it is marked for
\* deletion, and the finalizer is taken from no claim that is not marked.
ClaimContract == Lifecycle!Spec

\* However often a claim is retried, by whichever worker, after whatever crash
\* or conflict, Provision is only ever asked for one bucket on its behalf: the
\* name is saved in the claim before it is used.
OneBucketPerClaim ==
    \A a, b \in asked : a[1] = b[1] => a[2] = b[2]

\* A live claim that says Bound has everything an application mounts: its OB,
\* bound to this very claim, and a guarded secret and configmap for the bucket
\* the claim names, which exists and admits the claim's user.
BoundImpliesReady ==
    \A k \in Keys :
        Live(k) /\ obc[k].phase = "Bound" =>
            LET o == obc[k]
                b == ob[ObjectBucketName(k)] IN
            /\ o.ob = ObjectBucketName(k)
            /\ b # None
            /\ b.phase = "Bound" /\ b.claim = o.uid /\ b.bucket = o.bucket
            /\ \A kind \in Kinds :
                  LET a == artifact[kind][k] IN
                  /\ a # None
                  /\ a.finalizer /\ a.owner = o.uid /\ a.bucket = o.bucket
            /\ bucket[o.bucket] # None
            /\ <<UserID(k), o.bucket>> \in access

\* Every OB belongs to a stored claim that the library's finalizer still holds:
\* cleanup never lets go of the claim before its OB is gone.
NoOrphanedObs ==
    \A n \in ObNames :
        ob[n] # None =>
            \E k \in Keys : /\ n = ObjectBucketName(k)
                            /\ obc[k] # None
                            /\ obc[k].finalizer
                            /\ obc[k].uid = ob[n].claim

\* Whatever the library creates and guards, OBs included, belongs to a stored
\* claim that the library's finalizer still holds: a claim never leaves an OB or
\* a guarded secret or configmap behind, and none exists before the claim is held.
NothingOrphaned ==
    /\ \A kind \in Kinds, k \in Keys :
          LET a == artifact[kind][k] IN
          a # None /\ a.finalizer =>
              obc[k] # None /\ obc[k].finalizer /\ obc[k].uid = a.owner
    /\ NoOrphanedObs

\* A claim without the library's finalizer has not been processed, or not any
\* more: nothing that was created for it is there.
UnheldIsUntouched ==
    \A k \in Keys :
        obc[k] # None /\ ~obc[k].finalizer =>
            /\ \A kind \in Kinds :
                  artifact[kind][k] # None => artifact[kind][k].owner # obc[k].uid
            /\ \A n \in ObNames : ob[n] # None => ob[n].claim # obc[k].uid

\* No claim, no rights: once a claim is gone its user opens no bucket, and the
\* buckets made for it are gone too unless their reclaim policy keeps them.
StoreReclaimed ==
    \A k \in Keys :
        obc[k] = None =>
            \A b \in Buckets :
                /\ <<UserID(k), b>> \notin access
                /\ bucket[b] # None /\ bucket[b].owner = UserID(k)
                      => bucket[b].policy # "Delete"

\* The same promise for a claim that had reached Bound, which survives crashes
\* and failing calls: at the moment the claim vanishes its user is locked out of
\* its bucket, and the bucket has been deleted if the policy says so, unless a
\* class was deleted or an API call failed, so that its class was not to be read.
BoundClaimsLeaveNothing ==
    [][\A k \in Keys :
          LET o == obc[k] IN
          o # None /\ o.phase = "Bound" /\ obc'[k] = None =>
                  /\ <<UserID(k), o.bucket>> \notin access'
                  /\ bucket'[o.bucket] # None /\ spent.classOp + spent.apiError = 0
                        => bucket'[o.bucket].policy # "Delete"
      ]_vars

\* A bucket leaves the store only if it was provisioned for a claim under the
\* Delete policy and that claim is being deleted or gone: a pre-existing bucket,
\* a retained one and the bucket of a live claim are never handed to Delete.
OnlyReclaimedBucketsVanish ==
    [][\A b \in Buckets :
          bucket[b] # None /\ bucket'[b] = None =>
              /\ bucket[b].owner # None
              /\ bucket[b].policy = "Delete"
              /\ ~Live(bucket[b].owner)
      ]_vars

\* No StorageClass stays deleted for ever.
ClassesReturn == []<>(\A c \in Classes : class[c] # None)

\* Unless its class stays deleted, a claim of our classes that stays is
\* eventually Bound.  The one obstacle left is an OB under its name that was made
\* for another bucket or class: errIfObcConfigHasBeenModified never gives in.
EventuallyBound ==
    ClassesReturn =>
        \A k \in Keys :
            Live(k) /\ class[obc[k].class] # None /\ class[obc[k].class].ours
                ~> \/ ~Live(k)
                   \/ obc[k].phase = "Bound"
                   \/ Modified(ob[ObjectBucketName(k)], obc[k])

\* Unless its class stays deleted, a deleted claim eventually goes away: its
\* finalizer is always removed.
EventuallyReleased ==
    ClassesReturn => \A k \in Keys : obc[k] # None /\ obc[k].deleted ~> obc[k] = None

\* The last additionalConfig a user wrote reaches the bucket provisioned for a
\* claim, even when it was written while the claim was being processed, unless
\* the claim's class stays deleted.
ConfigConverges ==
    ClassesReturn =>
        \A k \in Keys :
            LET current == LET b == bucket[obc[k].bucket] IN
                           b # None /\ (b.owner # None => b.config = obc[k].config) IN
            Live(k) /\ obc[k].phase = "Bound" /\ ~current
                ~> (Live(k) /\ obc[k].phase = "Bound" => current)
===============================================================================
