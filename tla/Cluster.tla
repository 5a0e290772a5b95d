-------------------------------- MODULE Cluster --------------------------------
(***************************************************************************)
(* What the claim reconciler works on: the objects in the Kubernetes API   *)
(* server, the buckets of the object store, and those who change them      *)
(* besides the reconciler: users, administrators and the garbage           *)
(* collector.  The server, the collector and the store are external; they  *)
(* are modelled by what the code under src/pkg/provisioner relies on.      *)
(***************************************************************************)
EXTENDS EventHandlers, Integers, FiniteSets, Sequences

CONSTANTS
    Keys,        \* claim keys [ns, name]; both are sequences of "-"-free labels
    Classes,     \* StorageClass names
    ClassDefs,   \* ClassDefs[c]: the definitions class c may be given
    UserNames,   \* bucket names users and administrators write down
    GenNames,    \* bucket names generateBucketName may produce
    Existing,    \* buckets in the store before any claim (brownfield)
    Requests,    \* claim specs a user may submit: [class, bucket, generate]
    Override,    \* Override[c]: reclaim policy the provisioner sets for class c
                 \* (None: it keeps the class's)
    Max          \* bounds on what the environment does

VARIABLES
    obc,         \* obc[k]: the claim stored under key k
    ob,          \* ob[n]: the ObjectBucket stored under name n
    artifact,    \* artifact[kind][k]: the claim's secret and configmap
    class,       \* class[c]: the StorageClass named c
    bucket,      \* bucket[b]: the bucket of the object store named b
    access,      \* <<user, bucket>> pairs the store lets through
    asked,       \* history: <<claim uid, bucket>> pairs given to Provision
    spent        \* how much of Max the environment has used

kube  == <<obc, ob, artifact, class>>
store == <<bucket, access, asked>>

-------------------------------------------------------------------------------
Buckets  == UserNames \cup GenNames
Kinds    == {"secret", "cm"}

\* Faulty variant: the namespace is left out of the OB's name.
ObjectBucketNameFaulty(k) == k.name

\* The OB of a claim is named "obc-<namespace>-<name>".  Labels joined by "-"
\* do not tell where the namespace ends: "a-b"/"c" and "a"/"b-c" share a name.
ObjectBucketName(k) == k.ns \o k.name

ObNames  == {ObjectBucketName(k) : k \in Keys}
Uids     == 1 .. Max.create
Policies == {"Delete", "Retain"}

ClassDef == [ours: BOOLEAN, bucket: Buckets \cup {None}, policy: Policies \cup {None}]

Claim == [uid: Uids, deleted: BOOLEAN, finalizer: BOOLEAN, class: Classes,
          bucket: Buckets \cup {None}, generate: BOOLEAN, config: 0 .. Max.edit,
          ob: ObNames \cup {None}, phase: {None, "Pending", "Bound"}]

ObjectBucket == [deleted: BOOLEAN, finalizer: BOOLEAN, class: Classes \cup {None},
                 bucket: Buckets, user: Keys, claim: Uids \cup {None},
                 policy: Policies \cup {None}, phase: {None, "Bound", "Released"}]

Artifact == [owner: Uids, deleted: BOOLEAN, finalizer: BOOLEAN, bucket: Buckets]

StoreBucket == [owner: Keys \cup {None}, config: 0 .. Max.edit,
                policy: Policies \cup {None}]

Budgets == {"create", "edit", "crash", "apiError", "provError", "classOp"}

ASSUME MaxAssumption == Max \in [Budgets -> Nat]

ASSUME ConstantsAssumption ==
    /\ ClassDefs \in [Classes -> SUBSET ClassDef]
    /\ Requests \subseteq [class: Classes, bucket: UserNames \cup {None},
                           generate: BOOLEAN]
    /\ Existing \subseteq UserNames
    /\ Override \in [Classes -> Policies \cup {None}]

ASSUME NoneAssumption ==
    /\ None \notin Keys
    /\ None \notin Buckets
    /\ None \notin Classes
    /\ None \notin Claim
    /\ None \notin ObjectBucket
    /\ None \notin Artifact
    /\ None \notin ClassDef
    /\ None \notin StoreBucket
    /\ None \notin ObNames
    /\ None \notin Policies \cup {"Pending", "Bound", "Released"}

\* A move made by the environment, at most Max[b] times over a behaviour.
Spend(b) ==
    /\ spent[b] < Max[b]
    /\ spent' = [spent EXCEPT ![b] = @ + 1]

-------------------------------------------------------------------------------
(* What the controller reads of the API server; None stands for NotFound.  *)

claimForKey(k) == obc[k]

getObFromKey(k) == ob[ObjectBucketName(k)]

storageClassForClaim(o) == class[o.class]

\* An OB may have no class.
storageClassForObjectBucket(b) == IF b.class = None THEN None ELSE class[b.class]

-------------------------------------------------------------------------------
(* Users, administrators and the garbage collector.                        *)

\* uid is unique over all claims ever created.
CreateClaim(k, r) ==
    /\ obc[k] = None
    /\ Spend("create")
    /\ obc' = [obc EXCEPT ![k] =
                  [uid |-> spent.create + 1, deleted |-> FALSE, finalizer |-> FALSE,
                   class |-> r.class, bucket |-> r.bucket, generate |-> r.generate,
                   config |-> 0, ob |-> None, phase |-> None]]
    /\ UNCHANGED <<ob, artifact, class, store>>

DeleteClaim(k) ==
    /\ obc[k] # None
    /\ ~obc[k].deleted
    /\ obc' = [obc EXCEPT ![k] = Deleting(obc[k])]
    /\ UNCHANGED <<ob, artifact, class, store, spent>>

\* An edit of spec.additionalConfig, the only edit the controller supports.
EditClaim(k) ==
    /\ obc[k] # None
    /\ Spend("edit")
    /\ obc' = [obc EXCEPT ![k].config = spent.edit + 1]
    /\ UNCHANGED <<ob, artifact, class, store>>

\* StorageClasses are immutable: a changed class is deleted and created again.
DeleteClass(c) ==
    /\ class[c] # None
    /\ Spend("classOp")
    /\ class' = [class EXCEPT ![c] = None]
    /\ UNCHANGED <<obc, ob, artifact, store>>

CreateClass(c) ==
    /\ class[c] = None
    /\ \E d \in ClassDefs[c] : class' = [class EXCEPT ![c] = d]
    /\ UNCHANGED <<obc, ob, artifact, store, spent>>

\* The garbage collector deletes an artifact whose owner (by uid) is gone.
Collect(kind, k) ==
    LET a == artifact[kind][k] IN
    /\ a # None
    /\ ~a.deleted
    /\ obc[k] # None => obc[k].uid # a.owner
    /\ artifact' = [artifact EXCEPT ![kind][k] = Deleting(a)]
    /\ UNCHANGED <<obc, ob, class, store, spent>>

Environment ==
    \/ \E k \in Keys : \/ \E r \in Requests : CreateClaim(k, r)
                       \/ DeleteClaim(k)
                       \/ EditClaim(k)
                       \/ \E kind \in Kinds : Collect(kind, k)
    \/ \E c \in Classes : DeleteClass(c) \/ CreateClass(c)

-------------------------------------------------------------------------------
(* The provisioner's object store.  Provision and Grant are idempotent for a *)
(* user, a name that another user holds is refused, and Delete and Revoke of *)
(* what is gone already succeed.                                             *)

\* GenerateUserID: deterministic, and the same for every claim of the key.
UserID(k) == k

Provisionable(user, b) == bucket[b] # None => bucket[b].owner = user

Provisioned(user, b, config, policy) ==
    /\ bucket' = [bucket EXCEPT ![b] = [owner |-> user, config |-> config,
                                        policy |-> policy]]
    /\ access' = access \cup {<<user, b>>}

Granted(user, b) == access' = access \cup {<<user, b>>}

Removed(b) ==
    /\ bucket' = [bucket EXCEPT ![b] = None]
    /\ access' = {a \in access : a[2] # b}

Revoked(user, b) == access' = access \ {<<user, b>>}

-------------------------------------------------------------------------------
ClusterInit ==
    /\ obc = [k \in Keys |-> None]
    /\ ob = [n \in ObNames |-> None]
    /\ artifact = [kind \in Kinds |-> [k \in Keys |-> None]]
    /\ class \in [Classes -> ClassDef]
    /\ \A c \in Classes : class[c] \in ClassDefs[c]
    /\ bucket = [b \in Buckets |-> IF b \in Existing
                                   THEN [owner |-> None, config |-> 0, policy |-> None]
                                   ELSE None]
    /\ access = {}
    /\ asked = {}
    /\ spent = [b \in Budgets |-> 0]

ClusterTypeOK ==
    /\ obc \in [Keys -> Claim \cup {None}]
    /\ ob \in [ObNames -> ObjectBucket \cup {None}]
    /\ artifact \in [Kinds -> [Keys -> Artifact \cup {None}]]
    /\ class \in [Classes -> ClassDef \cup {None}]
    /\ bucket \in [Buckets -> StoreBucket \cup {None}]
    /\ access \subseteq Keys \X Buckets
    /\ asked \subseteq Uids \X Buckets
    /\ spent \in [Budgets -> Nat]
    /\ \A b \in Budgets : spent[b] <= Max[b]
===============================================================================
