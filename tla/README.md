# lib-bucket-provisioner: TLA+ verification

TLA+ models of the ObjectBucketClaim (OBC) controller of lib-bucket-provisioner
(`src/pkg/provisioner` and the generated client it runs on), the TLC runs that
check them on small instances, and TLAPS proofs for every instance. File and line
references are to `src/`.

## The system

Users create *claims* (OBC, namespaced). A controller, linked into a
provisioner's process, watches claims, asks the provisioner to make a bucket
(greenfield) or to grant access to one (brownfield, the StorageClass names it),
and records the result: a Secret and a ConfigMap owned by the claim, a
cluster-wide ObjectBucket (OB), and `Bound` in both statuses. Deleting the claim
runs the way back: `Delete` or `Revoke`, then OB, Secret, ConfigMap and the
claim's finalizer.

| Component | State | Operations | Talks to |
|---|---|---|---|
| Manager (`manager.go`) | controller, informer factory, stop channel, result | NewProvisioner, SetLabels, Run, RunWithContext | host program, factory, Start |
| Informers (`pkg/client/informers`, generated) | cache, watch position | list, watch, notify | API server in, handlers out |
| Event handlers (`controller.go` 87-116, 574-595) | none; sees old and new claim | Add, Update with three filters, Delete (ignored) | informer in, queue out |
| Work queue, workers (120-207) | queue, dirty, processing and delayed keys | AddRateLimited, Get, Forget, Done, ShutDown | `syncHandler` |
| Provisioning (214-423, `resourcehandlers.go`) | local copies of claim, class, OB, bucket name | about 17 API and provisioner calls | API server, provisioner |
| Deletion (426-538, `resourcehandlers.go` 181-274) | local copies of OB, Secret, ConfigMap; a remembered error | gather, mark Released, Delete/Revoke, release | API server, provisioner |
| Names (`helpers.go` 132-204) | none | OB name from the key, bucket name from claim or class | reconciler |
| Provisioner interface (`api/provisioner.go`) | the object store | GenerateUserID, Provision, Grant, Delete, Revoke | external store |
| API server, garbage collector (external) | claims, OBs, artifacts, classes; finalizers, resourceVersions | Create, Get, Update, UpdateStatus, Delete, watch | everyone |
| Logging (`log.go`) | the key in the shared loggers | setLoggersWithRequest | every worker |
| Error types, deepcopy, manifests | - | - | - |

What is hard: every object may be changed, deleted or created again by somebody
else between any two of the roughly thirty calls; a process may die between any
two of them; calls fail with or without effect; several workers and, during a
rolling update, several processes serve the same claims; the watch lags, expires
and merges changes, and events are filtered; start and stop race with all of it.
`PROJECT.json` lists these as hazards, each at the line where it bites.

What must hold: one bucket per claim, whatever is retried; `Bound` means that
everything an application mounts is there; a claim never steps back; nothing is
orphaned; only buckets that are to be reclaimed are deleted; no change is lost
between the watch, the queue and the workers; claims get bound, edits arrive,
deleted claims disappear, a stopped process comes to rest.

## Modules

| Module | Content |
|---|---|
| `Objects` | deletion and finalizers of a stored object |
| `EventHandlers` (extends `Objects`) | which changes of a claim the handlers enqueue |
| `Cluster` (extends `EventHandlers`) | Kubernetes objects, object store, users, administrators, garbage collector |
| `Reconciler` (extends `Cluster`) | the workers of one or more processes, call by call; failures; properties |
| `ClaimLifecycle` | abstract: the life of a claim; `Reconciler` implements it |
| `Informer` (extends `EventHandlers`) | watch, list, cache and filters in front of a worker |
| `KeyQueue` | abstract: the queue `Reconciler` assumes |
| `WorkQueue` | client-go's queue as the code calls it; implements `KeyQueue` |
| `Process` (extends `WorkQueue`) | manager, informer factory, Start, workers, stop and restart |
| `MCReconciler`, `MCInformer`, `MCProcess` | instances for TLC |
| `ReconcilerProofs` | type correctness of `Reconciler` |
| `NamesProofs`, `LifecycleProofs` (extend `ReconcilerProofs`) | one bucket per claim; the refinement of `ClaimLifecycle` |
| `OrphanProofs` (extends `LifecycleProofs`) | nothing is orphaned |
| `ReadyProofs` (extends `NamesProofs`, `OrphanProofs`) | Bound means ready; what is reclaimed and what is not |
| `RolloutProofs` (extends `ReadyProofs`) | several processes at once |
| `ProcessProofs` | the queue and the process around it |
| `InformerProofs` | the informer |

How they fit together: `Reconciler` models what `syncHandler` does to the world
and takes for granted that changes reach a queue that gives a key to one worker
at a time and loses none. `Process` with `WorkQueue` shows that client-go's queue,
called as `controller.go` calls it, gives that (`KeyQueue`), through start, stop
and restart. `Informer` shows which changes reach the queue at all.
`EventHandlers` is shared, so `Informer` and `Reconciler` judge an event alike.

### `Cluster` and `Reconciler`

`obc[k]`, `ob[n]`, `artifact[kind][k]`, `class[c]` are the stored objects (or
`None`) with the fields the controller reads or writes. `bucket`, `access` are the
store, `asked` is a history of the names passed to `Provision`, `spent` counts
what the environment has done against the budget `Max`, the only bounds of the
model. `queue[i]` holds the waiting keys of process `i`, `job[w]` the local
variables of worker `w`, its program counter `pc` naming the next call. Each API
or provisioner call of `syncHandler` is one action, named after the function it
stands for, together with the local computation after it.

| Code | Actions |
|---|---|
| `processNextItemInQueue` | `GetItem`; `Done`, `Requeue` end a job |
| `syncHandler` | `GetClaim`, `GetClass`, `SetPending` |
| `handleProvisionClaim` | `SetMeta`, `GetOb`, `SaveName`, `Provision` / `Grant`, `CreateArtifact`, `UpdateArtifact`, `ClaimRef`, `CreateOb`, `GetCurrentOb`, `UpdateOb`, `ObBound`, `BindClaim`, `SetBound` |
| `handleDeleteClaim` | `FindOb`, `FindCm`, `FindSecret`, `MarkReleased`, `GetObClass`, `Delete` / `Revoke` |
| `deleteResources` | `DropObFinalizer`, `DeleteOb`, `GetArtifact`, `DropFinalizer`, `GetClaimToRelease`, `DropClaimFinalizer` |
| failures | `ProvisionError` (Provision, Grant), `DeprovisionError` (Delete, Revoke), each with or without effect, `ApiError`, `Crash` |
| everybody else | `CreateClaim`, `DeleteClaim`, `EditClaim`, `CreateClass`, `DeleteClass`, `Collect` |

Abstractions:
- A resourceVersion is the object's content: an update succeeds when the stored
  object equals the copy that was read. This admits more than the server does
  (an object may return to an earlier content), never less.
- The Secret and ConfigMap updates carry no resourceVersion in the code and
  overwrite whatever is stored; so do they in the model.
- The watch's delay and the rate limiter's back-off are one: a key waits in
  `queue` until a worker takes it. Every change of a claim is delivered.
- A failing API call has no effect; an effect without a reply is covered by a
  crash right after the call.
- An OB name is the concatenation of the label sequences of namespace and name,
  which is what joining with "-" makes of them. Bucket names are members of small
  sets; a generated one is a name nobody has seen.
- The store refuses to provision a bucket that another user, or nobody, owns, and
  treats repeated Delete and Revoke as done, as the interface's comments ask for.
- `GenerateUserID` returns the claim's key, so a claim that is created again has the
  user of its predecessor. The interface leaves the choice to the provisioner; one
  that gives every claim a user of its own is not modelled.
- Credentials, endpoint details and log messages are left out: no decision
  depends on them.

`ClaimLifecycle` abstracts a claim to its uid, a stage (new, held by the finalizer,
linked to an OB, bound) and whether it is marked for deletion; `ClaimContract` is
its specification under the mapping `Stage`.

### `WorkQueue` and `Process`

`queue`, `dirty`, `processing` are the fields of client-go's queue, `waiting` the
keys whose back-off has not run out, `serving[w]` what worker `w` got. The queue is
external: it is modelled from the calls of `enqueueOBC`, `Start` and
`processNextItemInQueue`. A delay is any delay.

`Process` adds the program around it: the host calls `NewProvisioner`, `SetLabels`,
`RunCalled` (`Run` or `RunWithContext`) and `AskToStop`; the factory's informers
sync (`HasSynced`) and show claims in their scope (`enqueueOBC`); the goroutine of
`Start` waits for the caches, starts `Count` workers and returns when `stopCh` is
closed; workers loop through `Until`, `GetItem`, `SyncSucceeds` or `SyncFails`.

`err` is the named result of `Run` and `RunWithContext`, which the goroutine of
`Start` assigns as well: a data race, of which every outcome is in the model.
`RunWithContext` returns in three steps: it closes `stopCh` (`CloseStopCh`), stores
nil (`ReturnNil`, `manager.go` 149), and after the deferred `Flush` the caller is given
what `err` holds (`RunReturns`). The goroutine, woken by the first, may write its error
before the second, where it is overwritten, between the second and the third, where
it is returned after all, or later, where nobody sees it. `Run` stores nothing of its
own: `RunReturns` is its only step. `"error"` stands for everything but nil, a torn
interface value included.

`todo` is a history: the claims that changed since a worker last took them, or whose
last sync failed or was cut off. A claim is `Owed` a sync while it is in `todo` or with
a worker, so a sync that was begun before a change does not serve that change,
whatever it may have read of it. `Exit` ends the process, from any state, with its
goroutines wherever they are, and starts another. A label value is one of four kinds,
as far as `IsValidLabelValue` and `labelValue` tell values apart; `SetLabels` refuses
none, as in the code. With one that is not valid a sync may fail any number of times,
or succeed, since not every sync writes labels (`controller.go` 225, 236-239, 426-470).
`Limit` bounds changes, failing syncs under valid labels, and lives.

### `Informer`

One claim; `events` are the versions the watch has not delivered, `shown` is the
cache, `held` the copy the worker works on. `Watch` shows one change, `Relist` all
of them as one, `Restart` shows the claim as added. `lost` records that a list hid
a change that would have been handled. The worker's steps are its writes to the
claim (`SaveName` only if it has no name yet) and the call of `Provision`; the rest is
`Reconciler`'s.

Definitions commented "Faulty variant" are not part of any specification: each is
a plausible bug, and substituting it for the definition it precedes makes TLC
refute the property it is paired with in `PROJECT.json`.

## Runs

`tlc -config <run>.cfg <module>`; the module is `MCReconciler` unless named.

| Run | Instance | Shows |
|---|---|---|
| `lifecycle` | 1 key, 1 worker; 4 classes (new, new with a policy the provisioner overrides, brownfield, somebody else's); 6 kinds of request; 2 creations, 1 crash, 1 API error, 1 provisioner error | `TypeOK`, `OneBucketPerClaim`, `BoundImpliesReady`, `OnlyReclaimedBucketsVanish`, `BoundClaimsLeaveNothing`, `ClaimContract` |
| `recovery` | 1 key, 1 worker; a generated name, and a brownfield claim with a name of its own; 2 creations, 1 edit, 1 crash, 1 class deletion; fairness | `NothingOrphaned`, `EventuallyBound`, `EventuallyReleased`, `ConfigConverges` |
| `two_claims` | 2 keys, 2 workers of one process, both claims want the same bucket name under different policies; 3 creations | `BoundImpliesReady`, `NothingOrphaned`, `OnlyReclaimedBucketsVanish` |
| `rollout` | 1 key, 2 processes with a worker each; 1 creation, 1 edit, 1 crash | `OneBucketPerClaim`, `BoundImpliesReady` |
| `process` (`MCProcess`) | 3 keys, one outside the namespace; 2 workers; threads unset, 2 or not a number; a valid name, a label that is not valid; 1 change, 1 failing sync, 2 lives; fairness | `TypeOK`, `DirtyIsComing`, `WorksInBounds`, `LogNamesRequest`, `ErrorMeansNoWork`, `QueueContract`, `ChangesAreServed`, `StopEndsAll` |
| `informer` (`MCInformer`) | 2 creations, 2 edits, 2 lists, 1 restart, 1 failing sync; fairness | `TypeOK`, `RestMeansSettled`, `EventuallySettled` |
| `orphaned_ob` | 1 creation, 1 API error | violated: an OB outlives its claim |
| `leaked_bucket` | 2 creations, no fault | violated: a bucket outlives its claim |
| `revoked_not_deleted` | 1 creation, 1 class deletion | violated: Revoke where Delete is due |
| `colliding_names` | `a-b`/`c` and `a`/`b-c`, no fault | violated: a bound claim loses its OB |
| `rollout_recreated` | 1 key, 2 processes, 2 creations, no fault | violated: an unprocessed claim has an OB |
| `merged_events` (`MCInformer`) | 2 creations, 1 list, no fault; fairness | violated: a claim is never reconciled |

*Bounds.* Two creations are the least that reuse a key, which every property about
leftovers needs; three let one of two competing claims come back. One crash or
error at any of the thirty program counters reaches every partial state, and the
retry that follows runs through every "already there" branch. One edit suffices to
be lost while a claim is processed; in `informer` a second one is merged with the
first. Two generated names suffice to tell whether a second one was used. Two
workers and two keys in scope let a key be added while the other worker, or the
same one, has it; a second life starts from claims the first one left half done.
`CHECK_DEADLOCK` is off: a controller without work, or stopped, stops.

*Fairness.* `recovery`: weak fairness of each worker's next call, since client-go's
requests end and `runWorker` loops; strong fairness of taking a waiting key, since
the queue is first in, first out; weak fairness of the garbage collector for each
artifact. `process`: weak fairness of each goroutine (the return of `Run`, `Start`,
each worker), of the informers and of each key's delay; the host owes nothing, and
may never call `Run`, never stop and never exit. `informer`: weak fairness of the
worker and the watch. Users, administrators, failures and crashes are not fair, and
their budgets make them finitely many, which is what "eventually" can be asked
under. In `recovery` a class that stays deleted is admitted and excluded in the
properties (`ClassesReturn`): while it is away, its claims can be neither bound nor
released.

*What the passing runs leave open, on purpose.* `EventuallyBound` has one way out,
an OB under the claim's name that `errIfObcConfigHasBeenModified` takes for another
claim's; the run contains it: a brownfield claim with a name of its own, after a
crash between the OB and the claim's update, stays Pending. So it says nothing of the
claims that hazards of `errIfObcConfigHasBeenModified` strand; those have a note.
`ChangesAreServed` has two besides the end of the process: zero workers
(`LIB_BUCKET_PROVISIONER_THREADS` not a number) and a label that is not valid. Both are
in the run, and neither is judged: nothing in the repository says what should happen.
`OneBucketPerClaim` is checked with classes that keep their kind. `EventuallyReleased`
is checked without failing provisioner calls, whose retries `BoundClaimsLeaveNothing`
has in `lifecycle`. `LogNamesRequest` holds with a single worker only: the loggers are
shared. `BoundClaimsLeaveNothing` is what remains of reclaiming once the next
paragraph's cases are taken out: for claims that had reached Bound it survives
crashes and provisioner errors. `NothingOrphaned` holds for a single
process; `ClaimContract` for one, and for several under the condition `CleanHandOver`
below.

*What the violations mean.* `deleteResources` continues past a failed OB delete
and removes the claim's finalizer; the retry finds no claim and gives up
(`orphaned_ob`). A claim deleted between `Provision` and the creation of its OB is
released without `Delete` or `Revoke` (`leaked_bucket`; the fault-free path needs a
predecessor's Secret to be collected between the Create and the Update of
`createOrUpdateSecret`, and any crash or error there has the same effect). A class
that vanishes between the two times it is read turns `Delete` into `Revoke`
(`revoked_not_deleted`). `obc-<ns>-<name>` is not injective (`colliding_names`).
`handleProvisionClaim` compares no uid: a process that is still at an old claim,
which another process has released, stores its OB for the new claim of the same key
(`rollout_recreated`). The update filters compare no uid either: a list that shows a
deletion and a re-creation as one update is dropped (`merged_events`).

## Proofs

`TypeCorrect`: `Spec => []TypeOK` of `Reconciler`. `TypeOK` is not inductive,
because a step uses fields of objects that earlier steps read. `TypeInv` adds
`JobShape`: what a job holds at each program counter. Each of the thirty actions has
a step of its own; `Continue`, `Done`, `Requeue`, `UpdateClaim` and `ReplaceOb`, the
shapes most of them share, have lemmas. `JobsWellShaped` states the added part: no
call uses a claim, class, OB or name that was not read before.

`OneBucket`: `Spec => []OneBucketPerClaim`, assuming `ClassesKeepTheirKind`: no
class is redefined from greenfield to brownfield or back. (Without it the property
is false: `BindClaim` writes the class's bucket into a claim that had its own.)
`asked` alone is not inductive, so `KnownNames` collects every name on record: asked
for, stored in a claim, or in a worker's possibly stale copy. `NamesInv` says
- `OneNamePerClaim`: names on record are unique per uid;
- `UnnamedIsUnknown`: while the stored claim has no name, none is on record for it,
  so a generated name is still private to a worker, and the first successful
  `SaveName` contradicts nothing; a second one fails on its resourceVersion;
- `UidsUnique`: uids are never used twice, so a new claim starts with no name;
- `JobNames`: a worker provisions under the name in its copy of the claim;
- `ClassesDefined`: classes are what their definitions allow.

`NoNewName` covers every step that brings in no name; `SaveName`, `CreateClaim` and
`Provision` have lemmas of their own.

`LifecycleImplemented`: `Spec => ClaimContract`, the refinement of `ClaimLifecycle`,
assuming `SingleProcess`. A worker's copy of a claim may be stale, and an update
that went through would take the claim back, so `ClaimInv` says what a copy is good
for: no two workers have the same key (`Apart`, which is where one process is
needed: one queue), a copy that holds the finalizer is of the stored claim but for
an edit or a deletion (`SameClaim`), a claim being cleaned up is stored, marked and
held, and deletion waits for the finalizer. With two processes `SameClaim` is false
(`rollout_recreated` begins that way).

`NothingIsOrphaned`: `Spec => [](spent["apiError"] = 0 => NothingOrphaned)`, assuming
`SingleProcess` and `ObNamesUnique`. Each restriction answers a run that violates it:
`orphaned_ob` (a failed API call), `colliding_names`, `rollout_recreated`. Crashes,
conflicts, class deletions and provisioner errors are all in. `OrphanInv` adds to the
property what cleanup has found: a job that has gathered an OB, a Secret or a
ConfigMap still has the stored version, and what it did not find, or is done with, is
not guarded; so when the claim's finalizer goes nothing guarded is left.

`BoundIsReady`, `OnlyReclaimedVanish` and `BoundClaimsAreCleaned`, in `ReadyProofs`,
are about the API objects and the object store together, for any number of claims,
workers, crashes, API errors and provisioner errors. Their invariants build on
`TypeInv`, `ClaimInv` and `NamesInv`:
- `ReadyInv`: a claim that has an OB names its bucket, a Bound live claim has OB and
  artifacts, and a job has written what the steps behind it were to write, for the
  bucket it has chosen (`JobReady`);
- `StoreInv`: a generated bucket name is on record, in claims, jobs, OBs and the
  store, for one key and one policy (`OneHolder`); a name is generated exactly if the
  class is for new buckets; a job past `Provision` or `Grant`, and a Bound live claim,
  can use their bucket; `Delete` is only called for a generated name under the Delete
  policy;
- `CleanedInv`: once the OB of a Bound claim is gone, or its job is past `Delete` or
  `Revoke`, the store is rid of it; `Revoke` is called for a generated bucket under the
  Delete policy only after a failure.

The conditions, and the counterexample TLC finds without each:
- `SingleProcess` and `ObNamesUnique`, as above.
- `ClassesKeepTheirBucket`: a class that comes back with another bucket makes
  `UpdateOb` change a Bound claim's OB before the claim.
- `ClassesKeepTheirPolicy` (not for `BoundIsReady`): a retry passes the new policy to
  `Provision` while the OB keeps the old one, and `Delete` goes by the OB's. TLC finds no
  counterexample to `BoundClaimsLeaveNothing` here, whose clause about the policy is for
  behaviours without class deletions; its proof uses `StoreInv`, which needs the condition.
- `GeneratedNames`: users name no new bucket, and generated names are new to users.
  With names of their own a retried `Delete` may meet a bucket that another claim got
  under the same name meanwhile. This takes a fault between `Delete` and the end of
  cleanup: `two_claims`, which has competing names and no fault, holds without it.

All of them hold of the instance `lifecycle`, on which `ReadyInv`, `StoreInv` and
`CleanedInv` were also checked as invariants by TLC.

`RolloutProofs` is about any number of processes, as during a rolling update, which
share nothing but the API server: two workers may be anywhere in the code with copies
of the same claim, and every conflict, stale read and repeated call between them can
happen. Its theorems:
- `BoundIsReadyInRollouts`: `Spec /\ [][CleanHandOver]_vars => []BoundImpliesReady`,
  assuming `ObNamesUnique`, `ClassesKeepTheirBucket` and `GeneratedNames`;
- `LifecycleInRollouts`: `Spec /\ [][CleanHandOver]_vars => ClaimContract`, with no
  hypothesis on the constants;
- `OnlyReclaimedVanishInRollouts`: `Spec /\ [][CleanHandOver]_vars =>
  OnlyReclaimedBucketsVanish`, assuming `ClassesKeepTheirPolicy` as well;
- `OneClaimIsReady`: `Spec => []BoundImpliesReady`, under the hypotheses of the first, if
  at most one claim is created, which is the situation of the run `rollout`;
- `OneProcessHandsOver`: `Spec => [][CleanHandOver]_vars` for a single process, so the
  condition is what one process guarantees by itself.

`CleanHandOver` is about what users do: a claim is created under a key only when no
worker still has a copy, with the finalizer, of an earlier claim of that key. Without
it all three properties are false with two processes, one key, two creations and no
fault: TLC finds a worker that is still provisioning the first claim and overwrites the
Secret of the second, Bound one, since the Secret's update checks neither uid nor
resourceVersion (37 states); a worker that is still cleaning up the first claim and
takes the finalizer from the second (32 states); and a worker whose `Delete` for the
first claim, released by the other process without one, comes when the second is live
(35 states). These are the same missing uid comparison as in `rollout_recreated`.

`SameClaim` of the single process is gone, so the invariants say less of a copy and
more of the stored objects:
- `CopyInv`: a copy that has the finalizer is an earlier version of the stored claim,
  or of one that is gone: same uid and class, and a mark for deletion is never taken
  back. An update from a copy that differs is refused; one that goes through therefore
  moves the claim forward (`StageInv` adds the phase and the OB's name);
- `ObjectInv`: what the steps behind a job were to write for a live claim is stored,
  whoever wrote it: workers on the same claim choose the same bucket name and write the
  same objects;
- `HolderInv`: a generated name is with one key only, in claims, copies, jobs, OBs and the
  store, and, if classes keep their policy, for one policy; `Delete` and `Revoke` of one
  claim, late as they may be, reach no other key's bucket, and `Delete` no retained one;
- `UseInv`: the bucket of a live Bound claim, or of a job past `Provision` or `Grant`
  on a live claim, is there and admits its user;
- `NothingRead`, for `OneClaimIsReady`: before the first claim is created there is no
  copy of any.

Their conjunction is `RolloutInv`. TLC checked it too, with the properties, for two
processes, one key, two creations and a class for each policy under `CleanHandOver`
(8.3 million states).

In `ProcessProofs`, `QueueKeepsContract`: `QueueSpec => QueueContract`, the refinement of
`KeyQueue`, and `NoKeyIsStuck`: `QueueSpec => []DirtyIsComing`. The contract needs that a key at
the head of the queue is with no worker, which only follows from how the queue's
four collections move together. `QueueInv` says that `processing` is exactly what
workers hold, that no two hold the same key, that a queued key is dirty, stands in
the queue once and is not being processed, that every dirty key is queued or being
processed, and that nothing waits after `ShutDown`. `TailFacts` and `AppendFacts`
state what sequences contribute.

`ProcessKeepsContract`: `Spec => QueueContract` of `Process`: every step of the
process does to the queue what a step of `WorkQueue` does (`QueueSteps`), so the
theorem above carries over. `WorkStaysInBounds` and `ErrorsMeanNoWork` come from the
same invariant `ProcessInv`: workers hold a key exactly while they sync it, exist
only after both caches were filled, keys in the queue lie in the scope of the
factory, the factory's scope is the one `NewProvisioner` was given, and an error in
`err`, or one that was read from it before something else was written there, means
that `Start` ended before it started a worker (`ErrorInv`): which write wins decides
between nil and an error, never between a process that worked and one that did not. `ProcessTypes`:
`Spec => []TypeOK`; the type invariant needs the same invariant, because what an
informer may sync depends on the state of the factory. `LogsNameRequest`:
`Spec => []LogNamesRequest`: with one worker, it alone sets the loggers, and it sets
them when it takes a key; `Counted` says that no more workers run than were asked for.

`RestIsSettled`: `Spec => []RestMeansSettled` of `Informer`, with `InformerTypes`. Rest
is reached by losing work unnoticed, so `InHand` says who has it: unless a list has
hidden a change, the claim is settled, its key is queued, the worker is busy, or one
of the changes still to be delivered passes the handlers' filters (`Coming`).
`WatchCatchesUp` ties the last of these to the stored claim, `WorkerInv` says what a
worker's copy has to do with what was applied.

The constants' assumptions used are those named in `Cluster`, `WorkQueue`, `Process`
and `Informer`; TLC evaluates them in every run. `NoneAssumption` says only that `None`
is none of the values it stands in for. The budgets `Max` and `Limit` are arbitrary
natural numbers in the proofs. `SingleProcess`, `ObNamesUnique`, `ClassesKeepTheirKind`,
`ClassesKeepTheirBucket`, `ClassesKeepTheirPolicy` and `GeneratedNames` are hypotheses of
the theorems that need them, not assumptions of the model; so is `CleanHandOver`, a
condition on behaviours.

Only model-checked: the liveness properties (`EventuallyBound`, `EventuallyReleased`,
`ConfigConverges`, `ChangesAreServed`, `StopEndsAll`, `EventuallySettled`), since fairness
is beyond the prover; `BoundImpliesReady` and `OnlyReclaimedBucketsVanish` with competing
names (`two_claims`).

## Not modelled

- The error marker type (`api/errors`): nothing in the library reads it.
- Deepcopy, fakes, listers, REST plumbing, manifests: generated code or data; the
  controller calls no lister, and a TLA+ value is never shared.
- `initFlags` (copies klog's flags) and the text of log lines.
- The length arithmetic of `generateBucketName` and of labels: names and labels are
  members of small sets.
- Users edit `additionalConfig` only. Edits of `bucketName` and `storageClassName`,
  which the update filter (`controller.go` 574-595) drops and
  `errIfObcConfigHasBeenModified` (`resourcehandlers.go` 339-356) refuses on the next
  pass, never happen; their comparisons are in `updateSupported` and `Modified`, but
  only the controller's own writes, a re-creation or a brownfield claim's names make
  the fields differ.
- What labels and provisioner names are cut to: `labelValue` gives a valid value or
  one that is not.
- A host that calls `SetLabels` after `Run` (the code then writes a map that workers
  read), calls `Run` twice, or a panic in a worker.
- More than one claim in `Informer`: informers treat keys independently.

## Plan

1. `Reconciler` and `Cluster`, type correctness and one bucket per claim (done).
2. `WorkQueue`, `KeyQueue` and `Process` with the refinement and its proof (done).
3. `Informer` (done), `ClaimLifecycle` and its refinement by TLC (done).
4. Runs for lost classes, brownfield claims with a name of their own, re-created
   claims under two processes (done).
5. `ClaimContract`, `NothingOrphaned`, `BoundImpliesReady` and the reclaim properties for
   one process, the informer's `RestMeansSettled`, the types of `Process` and `Informer`
   by proof (done).
6. `BoundImpliesReady`, `OnlyReclaimedBucketsVanish` and `ClaimContract` for several
   processes by proof (done).
7. Proofs left: `BoundClaimsAreCleaned` without `ClassesKeepTheirPolicy`; competing names
   without faults.
