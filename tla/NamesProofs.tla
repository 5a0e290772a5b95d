------------------------------ MODULE NamesProofs ------------------------------
(***************************************************************************)
(* However a claim is retried, Provision is asked for one bucket only: a   *)
(* proof for any number of claims, workers, processes, crashes and errors. *)
(***************************************************************************)
EXTENDS ReconcilerProofs

\* No class is redefined from new buckets to a given one or back: BindClaim would
\* write the given name over the claim's own, and the claim would go on with it.
ClassesKeepTheirKind ==
    \A c \in Classes : \A d, e \in ClassDefs[c] : d.bucket = None <=> e.bucket = None

Greenfield(c) == \A d \in ClassDefs[c] : d.bucket = None

\* A version of a greenfield claim that says which bucket it wants.
HasName(o) == o # None /\ Greenfield(o.class) /\ o.bucket # None

\* The names on record: given to Provision, stored in a claim, or held by a
\* worker in its copy of a claim, stale or not.
KnownNames ==
    asked \cup {<<obc[k].uid, obc[k].bucket>> : k \in {x \in Keys : HasName(obc[x])}}
          \cup {<<job[w].obc.uid, job[w].obc.bucket>> :
                   w \in {x \in Workers : HasName(job[x].obc)}}

\* A claim's name never changes once it is on record.
OneNamePerClaim == \A a, b \in KnownNames : a[1] = b[1] => a[2] = b[2]

\* While the stored claim has no name, none is on record: a name generated for it
\* is still only in the local variable of the worker that will try to save it.
UnnamedIsUnknown ==
    \A k \in Keys :
        obc[k] # None /\ Greenfield(obc[k].class) /\ obc[k].bucket = None =>
            \A a \in KnownNames : a[1] # obc[k].uid

\* Uids are never used twice.
UidsUnique ==
    /\ \A k \in Keys : obc[k] # None => obc[k].uid <= spent.create
    /\ \A a \in KnownNames : a[1] <= spent.create
    /\ \A k, l \in Keys :
          obc[k] # None /\ obc[l] # None /\ obc[k].uid = obc[l].uid => k = l

\* The name a worker passes to Provision is the one its copy of the claim has.
JobNames(j) ==
    /\ j.pc \in {"setPending", "setMeta", "getOb"} \cup Naming \cup Artifacts \cup Binding
          => j.class \in ClassDefs[j.obc.class]
    /\ j.pc = "saveName" => j.obc.bucket = None
    /\ j.pc \in {"provision"} \cup Artifacts \cup Binding /\ Greenfield(j.obc.class)
          => j.obc.bucket = j.name

ClassesDefined == \A c \in Classes : class[c] # None => class[c] \in ClassDefs[c]

NamesInv ==
    /\ OneNamePerClaim
    /\ UnnamedIsUnknown
    /\ UidsUnique
    /\ \A w \in Workers : JobNames(job[w])
    /\ ClassesDefined

-------------------------------------------------------------------------------
\* Stored and copied names are on record.
LEMMA CopiesKnown ==
    /\ asked \subseteq KnownNames
    /\ \A k \in Keys : HasName(obc[k]) => <<obc[k].uid, obc[k].bucket>> \in KnownNames
    /\ \A w \in Workers :
          HasName(job[w].obc) => <<job[w].obc.uid, job[w].obc.bucket>> \in KnownNames
BY DEF KnownNames

\* A step that brings in no claim and no name keeps the names as they are.
LEMMA NoNewName ==
    ASSUME TypeInv, NamesInv,
           asked' \subseteq KnownNames,
           \A k \in Keys :
               obc'[k] # None =>
                   /\ obc[k] # None
                   /\ obc'[k].uid = obc[k].uid /\ obc'[k].class = obc[k].class
                   /\ Greenfield(obc[k].class) => obc'[k].bucket = obc[k].bucket,
           \A w \in Workers :
               HasName(job'[w].obc) => <<job'[w].obc.uid, job'[w].obc.bucket>> \in KnownNames,
           spent'.create = spent.create
    PROVE  OneNamePerClaim' /\ UnnamedIsUnknown' /\ UidsUnique'
<1>1. KnownNames' \subseteq KnownNames
  <2>1. \A k \in Keys : HasName(obc'[k]) =>
                            <<obc'[k].uid, obc'[k].bucket>> \in KnownNames
    BY CopiesKnown DEF HasName
  <2> QED
    BY <2>1 DEF KnownNames
<1>2. OneNamePerClaim'
  BY <1>1 DEF NamesInv, OneNamePerClaim
<1>3. UnnamedIsUnknown'
  BY <1>1 DEF NamesInv, UnnamedIsUnknown
<1>4. UidsUnique'
  BY <1>1 DEF NamesInv, UidsUnique
<1> QED
  BY <1>2, <1>3, <1>4

\* A worker that writes no claim and reads at most the one it works on.
LEMMA WorkerStepNames ==
    ASSUME TypeInv, NamesInv, NEW w \in Workers, NEW j,
           job' = [job EXCEPT ![w] = j], JobNames(j),
           \/ j.obc = None
           \/ j.obc = job[w].obc
           \/ job[w].key \in Keys /\ j.obc = obc[job[w].key],
           asked' \subseteq KnownNames,
           UNCHANGED <<obc, class>>, spent'.create = spent.create
    PROVE  NamesInv'
<1>1. job \in [Workers -> Job]
  BY DEF TypeInv, ControllerInv
<1>2. \A v \in Workers : JobNames(job'[v])
  BY <1>1 DEF NamesInv
<1>3. \A v \in Workers :
         HasName(job'[v].obc) => <<job'[v].obc.uid, job'[v].obc.bucket>> \in KnownNames
  BY <1>1, CopiesKnown DEF HasName
<1>4. OneNamePerClaim' /\ UnnamedIsUnknown' /\ UidsUnique'
  BY <1>3, NoNewName
<1> QED
  BY <1>2, <1>4 DEF NamesInv, ClassesDefined

\* Outside the provisioning path a job may hold any claim.
LEMMA OtherJobNames ==
    ASSUME NEW j, j.pc \notin Provisioning
    PROVE  JobNames(j)
BY DEF JobNames, Provisioning, Naming, Artifacts, Binding

LEMMA IdleNames == JobNames(IdleJob) /\ IdleJob.obc = None
BY DEF IdleJob, JobNames, Naming, Artifacts, Binding

LEMMA RequeueNames ==
    ASSUME TypeInv, NamesInv, NEW w \in Workers, Requeue(w) \/ Done(w),
           asked' \subseteq KnownNames,
           UNCHANGED <<obc, class>>, spent'.create = spent.create
    PROVE  NamesInv'
BY IdleNames, WorkerStepNames DEF Requeue, Done

\* An update of a claim that does not touch its name.
LEMMA UpdateClaimNames ==
    ASSUME TypeInv, NamesInv, NEW w \in Workers, NEW pc, pc \notin {"idle", "getClaim"},
           NEW new, NEW next, UpdateClaim(w, pc, new, next),
           new # None, new.uid = job[w].obc.uid, new.class = job[w].obc.class,
           Greenfield(new.class) => new.bucket = job[w].obc.bucket,
           next.obc = new \/ next.obc = None, JobNames(next)
    PROVE  NamesInv'
<1> DEFINE k == job[w].key
<1>1. job \in [Workers -> Job] /\ k \in Keys /\ job[w].obc # None
      /\ obc \in [Keys -> Claim \cup {None}]
  BY NoneAssumption DEF TypeInv, ControllerInv, JobShape, UpdateClaim, At, ClusterTypeOK
<1>2. asked' \subseteq KnownNames /\ UNCHANGED <<class, spent>>
  BY CopiesKnown DEF UpdateClaim, store
<1>3. CASE obc[k] = job[w].obc /\ obc' = [obc EXCEPT ![k] = new]
           /\ job' = [job EXCEPT ![w] = next]
  <2>1. \A v \in Workers :
           HasName(job'[v].obc) => <<job'[v].obc.uid, job'[v].obc.bucket>> \in KnownNames
    BY <1>1, <1>3, CopiesKnown DEF HasName
  <2>2. \A l \in Keys :
           obc'[l] # None =>
               /\ obc[l] # None
               /\ obc'[l].uid = obc[l].uid /\ obc'[l].class = obc[l].class
               /\ Greenfield(obc[l].class) => obc'[l].bucket = obc[l].bucket
    BY <1>1, <1>3
  <2>3. OneNamePerClaim' /\ UnnamedIsUnknown' /\ UidsUnique'
    BY <1>2, <2>1, <2>2, NoNewName
  <2>4. \A v \in Workers : JobNames(job'[v])
    BY <1>1, <1>3 DEF NamesInv
  <2> QED
    BY <1>2, <2>3, <2>4 DEF NamesInv, ClassesDefined
<1>4. CASE Requeue(w) /\ UNCHANGED obc
  BY <1>2, <1>4, RequeueNames
<1> QED
  BY <1>3, <1>4 DEF UpdateClaim

\* SaveName: the claim is unnamed when the update succeeds, so the name it gets
\* contradicts none on record; a second worker with a name of its own loses.
LEMMA SaveNameNames ==
    ASSUME TypeInv, NamesInv, NEW w \in Workers, SaveName(w)
    PROVE  NamesInv'
<1> DEFINE k == job[w].key
           o == job[w].obc
           new == [o EXCEPT !.bucket = job[w].name]
           next == [job[w] EXCEPT !.pc = "provision", !.obc = new]
           pair == <<o.uid, job[w].name>>
<1>1. /\ job \in [Workers -> Job] /\ obc \in [Keys -> Claim \cup {None}]
      /\ k \in Keys /\ o \in Claim /\ o # None /\ job[w].pc = "saveName"
      /\ job[w].name \in Buckets
  BY NoneAssumption
  DEF TypeInv, ControllerInv, JobShape, SaveName, UpdateClaim, At, ClusterTypeOK, Naming
<1>2. asked' = asked /\ UNCHANGED <<class, spent>>
  BY DEF SaveName, UpdateClaim, store
<1>3. /\ new # None /\ new.uid = o.uid /\ new.class = o.class /\ new.bucket = job[w].name
      /\ job[w].name # None
  <2>1. new \in Claim
    BY <1>1 DEF Claim
  <2> QED
    BY <1>1, <2>1, NoneAssumption DEF Claim
<1>4. o.bucket = None /\ job[w].class \in ClassDefs[o.class]
  BY <1>1 DEF NamesInv, JobNames, Naming
<1>5. next.pc = "provision" /\ next.obc = new /\ next.name = job[w].name
      /\ next.class = job[w].class
  BY <1>1 DEF Job
<1>6. JobNames(next)
  BY <1>3, <1>4, <1>5 DEF JobNames
<1> HIDE DEF new, next
<1>7. CASE obc[k] = o /\ obc' = [obc EXCEPT ![k] = new] /\ job' = [job EXCEPT ![w] = next]
  <2>1. KnownNames' \subseteq KnownNames \cup {pair}
    <3>1. \A l \in Keys : HasName(obc'[l]) =>
              <<obc'[l].uid, obc'[l].bucket>> \in KnownNames \cup {pair}
      BY <1>1, <1>3, <1>7, CopiesKnown
    <3>2. \A v \in Workers : HasName(job'[v].obc) =>
              <<job'[v].obc.uid, job'[v].obc.bucket>> \in KnownNames \cup {pair}
      BY <1>1, <1>3, <1>5, <1>7, CopiesKnown
    <3> QED
      BY <1>2, <3>1, <3>2, CopiesKnown DEF KnownNames
  <2>2. o.uid <= spent.create
    BY <1>1, <1>7 DEF NamesInv, UidsUnique
  <2>3. \A l \in Keys : l # k /\ obc[l] # None => obc[l].uid # o.uid
    BY <1>1, <1>7 DEF NamesInv, UidsUnique
  <2>4. \A l \in Keys : /\ l # k => obc'[l] = obc[l]
                        /\ obc'[k] = new
    BY <1>1, <1>7
  <2>5. UidsUnique'
    <3>1. \A a \in KnownNames' : a[1] <= spent'.create
      BY <1>2, <2>1, <2>2 DEF NamesInv, UidsUnique
    <3> QED
      BY <1>2, <1>3, <2>2, <2>3, <2>4, <3>1 DEF NamesInv, UidsUnique
  <2>6. OneNamePerClaim' /\ UnnamedIsUnknown'
    <3>1. CASE Greenfield(o.class)
      <4>1. \A a \in KnownNames : a[1] # o.uid
        BY <1>1, <1>4, <1>7, <3>1 DEF NamesInv, UnnamedIsUnknown
      <4>2. OneNamePerClaim'
        BY <2>1, <4>1 DEF NamesInv, OneNamePerClaim
      <4>3. UnnamedIsUnknown'
        BY <1>3, <2>1, <2>3, <2>4 DEF NamesInv, UnnamedIsUnknown
      <4> QED
        BY <4>2, <4>3
    <3>2. CASE ~Greenfield(o.class)
      <4>1. ~HasName(new)
        BY <1>3, <3>2 DEF HasName
      <4>2. KnownNames' \subseteq KnownNames
        <5>1. \A l \in Keys : HasName(obc'[l]) =>
                  <<obc'[l].uid, obc'[l].bucket>> \in KnownNames
          BY <2>4, <4>1, CopiesKnown
        <5>2. \A v \in Workers : HasName(job'[v].obc) =>
                  <<job'[v].obc.uid, job'[v].obc.bucket>> \in KnownNames
          BY <1>1, <1>5, <1>7, <4>1, CopiesKnown
        <5> QED
          BY <1>2, <5>1, <5>2, CopiesKnown DEF KnownNames
      <4>3. OneNamePerClaim'
        BY <4>2 DEF NamesInv, OneNamePerClaim
      <4>4. UnnamedIsUnknown'
        BY <1>3, <2>4, <3>2, <4>2 DEF NamesInv, UnnamedIsUnknown
      <4> QED
        BY <4>3, <4>4
    <3> QED
      BY <3>1, <3>2
  <2>7. \A v \in Workers : JobNames(job'[v])
    BY <1>1, <1>6, <1>7 DEF NamesInv
  <2> QED
    BY <1>2, <2>5, <2>6, <2>7 DEF NamesInv, ClassesDefined
<1>8. CASE Requeue(w) /\ UNCHANGED obc
  BY <1>2, <1>8, CopiesKnown, RequeueNames
<1> QED
  BY <1>7, <1>8 DEF SaveName, UpdateClaim, new, next

\* Provision is asked for the name the worker's copy of the claim has.
LEMMA AskedKnown ==
    ASSUME TypeInv, NamesInv, ClassesKeepTheirKind, NEW w \in Workers,
           At(w, "provision"), job[w].class.bucket = None
    PROVE  Asked(job[w]) \subseteq KnownNames
<1> DEFINE j == job[w]
<1>1. j.obc \in Claim /\ j.name \in Buckets
  BY DEF TypeInv, ControllerInv, JobShape, At, Naming
<1>2. j.class \in ClassDefs[j.obc.class] /\ j.obc.class \in Classes
  BY <1>1 DEF NamesInv, JobNames, At, Naming, Claim
<1>3. Greenfield(j.obc.class)
  BY <1>2 DEF ClassesKeepTheirKind, Greenfield
<1>4. j.obc.bucket = j.name
  BY <1>3 DEF NamesInv, JobNames, At
<1>5. HasName(j.obc)
  BY <1>1, <1>3, <1>4, NoneAssumption DEF HasName
<1> QED
  BY <1>4, <1>5, CopiesKnown DEF Asked

LEMMA ProvisionStepNames ==
    ASSUME TypeInv, NamesInv, ClassesKeepTheirKind, NEW w \in Workers, ProvisionStep(w)
    PROVE  NamesInv'
<1> DEFINE j == job[w]
<1>1. j \in Job /\ JobShape(j) /\ JobNames(j)
  BY DEF TypeInv, ControllerInv, NamesInv
<1> USE DEF At
\* Steps that write no claim: where they go on, the job keeps its claim and name.
<1>2. ASSUME UNCHANGED <<obc, class, spent>>, asked' \subseteq KnownNames,
             Requeue(w) \/ Done(w)
      PROVE  NamesInv'
  BY <1>2, RequeueNames
<1>3. ASSUME NEW i, Continue(w, i), JobNames(i),
             i.obc = j.obc \/ (j.key \in Keys /\ i.obc = obc[j.key]),
             UNCHANGED <<obc, class, spent>>, asked' \subseteq KnownNames
      PROVE  NamesInv'
  BY <1>3, WorkerStepNames DEF Continue
<1>4. ASSUME NEW i, i.pc \in Artifacts \cup Binding,
             j.pc \in {"provision"} \cup Artifacts \cup Binding,
             i.obc = j.obc, i.class = j.class, i.name = j.name
      PROVE  JobNames(i)
  BY <1>1, <1>4 DEF JobNames, Naming, Artifacts, Binding
<1>5. CASE GetClaim(w)
  <2>1. UNCHANGED <<obc, class, spent>> /\ asked' \subseteq KnownNames /\ j.key \in Keys
    BY <1>1, <1>5, CopiesKnown DEF GetClaim, claimForKey, JobShape, kube, store
  <2> DEFINE i == [j EXCEPT !.pc = "getClass", !.obc = obc[j.key]]
  <2>2. i.pc = "getClass" /\ i.obc = obc[j.key]
    BY <1>1 DEF Job
  <2>3. JobNames(i)
    BY <2>2, OtherJobNames DEF Provisioning, Naming, Artifacts, Binding
  <2> QED
    BY <1>2, <1>3, <1>5, <2>1, <2>2, <2>3 DEF GetClaim, claimForKey
<1>6. CASE GetClass(w)
  <2> DEFINE c == class[j.obc.class]
             i == [j EXCEPT !.pc = AfterClass(j.obc), !.class = c]
  <2>1. UNCHANGED <<obc, class, spent>> /\ asked' \subseteq KnownNames
    BY <1>6, CopiesKnown DEF GetClass, storageClassForClaim, kube, store
  <2>2. j.obc \in Claim /\ j.obc.class \in Classes
    BY <1>1, <1>6 DEF GetClass, storageClassForClaim, JobShape, Claim
  <2>3. AfterClass(j.obc) \in {"findOb", "setPending", "setMeta"}
    BY <2>2 DEF AfterClass, Claim
  <2>4. i.pc = AfterClass(j.obc) /\ i.obc = j.obc /\ i.class = c
    BY <1>1 DEF Job
  <2>5. ASSUME c # None PROVE JobNames(i)
    <3>1. c \in ClassDefs[j.obc.class]
      BY <2>2, <2>5 DEF NamesInv, ClassesDefined
    <3> QED
      BY <2>3, <2>4, <3>1 DEF JobNames, Naming, Artifacts, Binding
  <2> QED
    BY <1>2, <1>3, <1>6, <2>1, <2>4, <2>5 DEF GetClass, storageClassForClaim
<1>7. CASE SetPending(w)
  <2> DEFINE new == [j.obc EXCEPT !.phase = "Pending"]
             next == [j EXCEPT !.pc = "setMeta", !.obc = new]
  <2>1. j.obc \in Claim /\ j.pc = "setPending"
    BY <1>1, <1>7 DEF SetPending, UpdateClaim, JobShape
  <2>2. new \in Claim /\ new.uid = j.obc.uid /\ new.class = j.obc.class
        /\ new.bucket = j.obc.bucket
    BY <2>1 DEF Claim
  <2>3. next.pc = "setMeta" /\ next.obc = new /\ next.class = j.class
    BY <1>1 DEF Job
  <2>4. JobNames(next)
    BY <1>1, <2>1, <2>2, <2>3 DEF JobNames, Naming, Artifacts, Binding
  <2> QED
    BY <1>7, <2>2, <2>3, <2>4, UpdateClaimNames, NoneAssumption DEF SetPending
<1>8. CASE SetMeta(w)
  <2> DEFINE new == addFinalizers(j.obc)
             next == [j EXCEPT !.pc = "getOb", !.obc = new]
  <2>1. j.obc \in Claim /\ j.pc = "setMeta"
    BY <1>1, <1>8 DEF SetMeta, UpdateClaim, JobShape
  <2>2. new \in Claim /\ new.uid = j.obc.uid /\ new.class = j.obc.class
        /\ new.bucket = j.obc.bucket
    BY <2>1 DEF Claim, addFinalizers
  <2>3. next.pc = "getOb" /\ next.obc = new /\ next.class = j.class
    BY <1>1 DEF Job
  <2>4. JobNames(next)
    BY <1>1, <2>1, <2>2, <2>3 DEF JobNames, Naming, Artifacts, Binding
  <2> QED
    BY <1>8, <2>2, <2>3, <2>4, UpdateClaimNames, NoneAssumption DEF SetMeta
<1>9. CASE GetOb(w)
  <2>1. UNCHANGED <<obc, class, spent>> /\ asked' \subseteq KnownNames
    BY <1>9, CopiesKnown DEF GetOb, getObFromKey, kube, store
  <2>2. j.obc \in Claim /\ j.class \in ClassDef /\ j.class \in ClassDefs[j.obc.class]
    BY <1>1, <1>9 DEF GetOb, getObFromKey, JobShape, JobNames
  <2>3. ASSUME NEW n \in NamesFor(j.class, j.obc)
        PROVE  LET i == [j EXCEPT !.pc = IF j.obc.bucket = None THEN "saveName"
                                         ELSE "provision", !.name = n]
               IN  JobNames(i) /\ i.obc = j.obc
    <3> DEFINE pc == IF j.obc.bucket = None THEN "saveName" ELSE "provision"
               i == [j EXCEPT !.pc = pc, !.name = n]
    <3>1. i.pc = pc /\ i.obc = j.obc /\ i.class = j.class /\ i.name = n
      BY <1>1 DEF Job
    <3>2. ASSUME Greenfield(j.obc.class), j.obc.bucket # None
          PROVE  n = j.obc.bucket
      <4>1. j.class.bucket = None
        BY <2>2, <3>2 DEF Greenfield
      <4> QED
        BY <3>2, <4>1 DEF NamesFor
    <3>3. pc \in {"saveName", "provision"} /\ (pc = "saveName" <=> j.obc.bucket = None)
      OBVIOUS
    <3> HIDE DEF pc, i
    <3>4. JobNames(i)
      BY <2>2, <3>1, <3>2, <3>3 DEF JobNames, Naming, Artifacts, Binding
    <3> QED
      BY <3>1, <3>4 DEF i, pc
  <2> QED
    BY <1>2, <1>3, <1>9, <2>1, <2>3 DEF GetOb, getObFromKey
<1>10. CASE SaveName(w)
  BY <1>10, SaveNameNames
<1>11. ASSUME j.pc = "provision"
       PROVE  LET i == [j EXCEPT !.pc = "createSecret", !.ob = ReturnedOb(j)]
              IN  JobNames(i) /\ i.obc = j.obc
  <2> DEFINE i == [j EXCEPT !.pc = "createSecret", !.ob = ReturnedOb(j)]
  <2>1. i.pc = "createSecret" /\ i.obc = j.obc /\ i.class = j.class /\ i.name = j.name
    BY <1>1 DEF Job
  <2> QED
    BY <1>1, <1>11, <2>1 DEF JobNames, Naming, Artifacts, Binding
<1>12. CASE Provision(w)
  <2>1. UNCHANGED <<obc, class, spent>> /\ asked' \subseteq KnownNames
    BY <1>12, AskedKnown DEF Provision, kube
  <2> QED
    BY <1>2, <1>3, <1>11, <1>12, <2>1 DEF Provision
<1>13. CASE Grant(w)
  <2>1. UNCHANGED <<obc, class, spent>> /\ asked' \subseteq KnownNames
    BY <1>13, CopiesKnown DEF Grant, kube
  <2> QED
    BY <1>2, <1>3, <1>11, <1>13, <2>1 DEF Grant
<1>14. ASSUME NEW kind \in Kinds, CreateArtifact(w, kind) \/ UpdateArtifact(w, kind)
       PROVE  NamesInv'
  <2>1. UNCHANGED <<obc, class, spent>> /\ asked' \subseteq KnownNames
    BY <1>14, CopiesKnown DEF CreateArtifact, UpdateArtifact, store
  <2>2. {AfterPc[kind], CreatePc[kind], UpdatePc[kind]} \subseteq Artifacts \cup Binding
    BY DEF AfterPc, CreatePc, UpdatePc, Artifacts, Kinds
  <2>3. j.pc \in Artifacts \cup Binding
    BY <1>14, <2>2 DEF CreateArtifact, UpdateArtifact
  <2>4. \A pc \in {AfterPc[kind], UpdatePc[kind]} :
           LET i == [j EXCEPT !.pc = pc]
           IN  i.pc = pc /\ i.obc = j.obc /\ i.class = j.class /\ i.name = j.name
    BY <1>1 DEF Job
  <2>5. \A pc \in {AfterPc[kind], UpdatePc[kind]} : JobNames([j EXCEPT !.pc = pc])
    BY <1>4, <2>2, <2>3, <2>4
  <2> QED
    BY <1>2, <1>3, <1>14, <2>1, <2>4, <2>5 DEF CreateArtifact, UpdateArtifact
<1>15. CASE ClaimRef(w)
  <2> DEFINE b == addFinalizers([j.ob EXCEPT !.class = j.obc.class,
                                             !.policy = PolicyFor(j),
                                             !.claim = obc[j.key].uid])
             i == [j EXCEPT !.pc = "createOb", !.ob = b]
  <2>1. UNCHANGED <<obc, class, spent>> /\ asked' \subseteq KnownNames
    BY <1>15, CopiesKnown DEF ClaimRef, claimForKey, kube, store
  <2>2. i.pc = "createOb" /\ i.obc = j.obc /\ i.class = j.class /\ i.name = j.name
    BY <1>1 DEF Job
  <2> HIDE DEF b, i
  <2>3. JobNames(i)
    BY <1>4, <1>15, <2>2 DEF ClaimRef, claimForKey, Artifacts, Binding
  <2> QED
    BY <1>2, <1>3, <1>15, <2>1, <2>2, <2>3 DEF ClaimRef, claimForKey, ContinueIfFound, b, i
<1>16. CASE CreateOb(w)
  <2>1. UNCHANGED <<obc, class, spent>> /\ asked' \subseteq KnownNames
    BY <1>16, CopiesKnown DEF CreateOb, store
  <2>2. \A pc \in {"obBound", "getCurrentOb"} :
           LET i == [j EXCEPT !.pc = pc]
           IN  i.pc = pc /\ i.obc = j.obc /\ i.class = j.class /\ i.name = j.name
    BY <1>1 DEF Job
  <2>3. \A pc \in {"obBound", "getCurrentOb"} : JobNames([j EXCEPT !.pc = pc])
    BY <1>4, <1>16, <2>2 DEF CreateOb, Binding
  <2> QED
    BY <1>2, <1>3, <1>16, <2>1, <2>2, <2>3 DEF CreateOb
<1>17. CASE GetCurrentOb(w)
  <2> DEFINE b == ob[ObjectBucketName(j.key)]
             i == [j EXCEPT !.pc = "updateOb", !.base = b]
  <2>1. UNCHANGED <<obc, class, spent>> /\ asked' \subseteq KnownNames
    BY <1>17, CopiesKnown DEF GetCurrentOb, kube, store
  <2>2. i.pc = "updateOb" /\ i.obc = j.obc /\ i.class = j.class /\ i.name = j.name
    BY <1>1 DEF Job
  <2> HIDE DEF b, i
  <2>3. JobNames(i)
    BY <1>4, <1>17, <2>2 DEF GetCurrentOb, Binding
  <2> QED
    BY <1>2, <1>3, <1>17, <2>1, <2>2, <2>3 DEF GetCurrentOb, ContinueIfFound, b, i
<1>18. ASSUME NEW pc \in Binding, NEW old, NEW new, NEW next \in Binding,
              ReplaceOb(w, pc, old, new, next)
       PROVE  NamesInv'
  <2>1. UNCHANGED <<obc, class, spent>> /\ asked' \subseteq KnownNames
    BY <1>18, CopiesKnown DEF ReplaceOb, store
  <2> DEFINE i == [j EXCEPT !.pc = next, !.ob = new, !.base = None]
  <2>2. i.pc = next /\ i.obc = j.obc /\ i.class = j.class /\ i.name = j.name
    BY <1>1 DEF Job
  <2> HIDE DEF i
  <2>3. JobNames(i)
    BY <1>4, <1>18, <2>2 DEF ReplaceOb
  <2> QED
    BY <1>2, <1>3, <1>18, <2>1, <2>2, <2>3 DEF ReplaceOb, i
<1>19. CASE UpdateOb(w) \/ ObBound(w)
  BY <1>18, <1>19 DEF UpdateOb, ObBound, Binding
<1>20. CASE BindClaim(w)
  <2> DEFINE new == [j.obc EXCEPT !.ob = ObjectBucketName(j.key), !.bucket = j.name]
             next == [j EXCEPT !.pc = "setBound", !.obc = new]
  <2>1. j.obc \in Claim /\ j.pc = "bindClaim" /\ j.name \in Buckets /\ j.key \in Keys
    BY <1>1, <1>20 DEF BindClaim, UpdateClaim, JobShape, Binding
  <2>2. new \in Claim /\ new.uid = j.obc.uid /\ new.class = j.obc.class
        /\ new.bucket = j.name
    BY <2>1 DEF Claim, ObNames
  <2>3. next.pc = "setBound" /\ next.obc = new /\ next.class = j.class /\ next.name = j.name
    BY <1>1 DEF Job
  <2>4. JobNames(next)
    BY <1>1, <2>1, <2>2, <2>3 DEF JobNames, Naming, Artifacts, Binding
  <2>5. Greenfield(new.class) => new.bucket = j.obc.bucket
    BY <1>1, <2>1, <2>2 DEF JobNames, Binding
  <2> QED
    BY <1>20, <2>2, <2>3, <2>4, <2>5, UpdateClaimNames, NoneAssumption DEF BindClaim
<1>21. CASE SetBound(w)
  <2> DEFINE new == [j.obc EXCEPT !.phase = "Bound"]
  <2>1. j.obc \in Claim
    BY <1>1, <1>21 DEF SetBound, UpdateClaim, JobShape
  <2>2. new \in Claim /\ new.uid = j.obc.uid /\ new.class = j.obc.class
        /\ new.bucket = j.obc.bucket
    BY <2>1 DEF Claim
  <2> QED
    BY <1>21, <2>2, UpdateClaimNames, IdleNames, NoneAssumption DEF SetBound
<1> QED
  BY <1>5, <1>6, <1>7, <1>8, <1>9, <1>10, <1>12, <1>13, <1>14, <1>15, <1>16, <1>17,
     <1>19, <1>20, <1>21
  DEF ProvisionStep

\* Cleanup never writes a name: its jobs are outside the provisioning path.
LEMMA CleanupStepNames ==
    ASSUME TypeInv, NamesInv, NEW w \in Workers, NEW j, j.pc \notin Provisioning,
           j.obc = job[w].obc \/ (job[w].key \in Keys /\ j.obc = obc[job[w].key]),
           job' = [job EXCEPT ![w] = j],
           asked' = asked, UNCHANGED <<obc, class>>, spent'.create = spent.create
    PROVE  NamesInv'
<1>1. JobNames(j)
  BY OtherJobNames
<1> QED
  BY <1>1, WorkerStepNames, CopiesKnown

LEMMA ReleasedNames ==
    ASSUME TypeInv, NamesInv, NEW w \in Workers, NEW failed \in BOOLEAN,
           Released(w, failed) \/ SkipOb(w),
           asked' = asked, UNCHANGED <<obc, class>>, spent'.create = spent.create
    PROVE  NamesInv'
<1> DEFINE j == job[w]
           r == [j EXCEPT !.pc = "release", !.found = @ \ {Current(j)}, !.base = None,
                          !.failed = @ \/ failed]
           s == [j EXCEPT !.pc = "release", !.failed = TRUE]
<1>1. job \in [Workers -> Job] /\ j \in Job
  BY DEF TypeInv, ControllerInv
<1>2. r.pc = "release" /\ r.obc = j.obc /\ s.pc = "release" /\ s.obc = j.obc
  BY <1>1 DEF Job
<1>3. "release" \notin Provisioning
  BY DEF Provisioning, Naming, Artifacts, Binding
<1>4. job' = [job EXCEPT ![w] = r] \/ job' = [job EXCEPT ![w] = s]
  BY DEF Released, SkipOb
<1> HIDE DEF r, s
<1> QED
  BY <1>2, <1>3, <1>4, CleanupStepNames

LEMMA DeleteStepNames ==
    ASSUME TypeInv, NamesInv, NEW w \in Workers, DeleteStep(w)
    PROVE  NamesInv'
<1> DEFINE j == job[w]
           Cleaning == {"findCm", "findSecret", "release", "markReleased", "getObClass",
                        "delete", "revoke", "dropObFinalizer", "deleteOb",
                        "dropFinalizer", "dropClaimFinalizer"}
<1>1. j \in Job /\ JobShape(j) /\ job \in [Workers -> Job] /\ (j.pc # "idle" => j.key \in Keys)
  BY DEF TypeInv, ControllerInv, JobShape
<1>2. Cleaning \cap Provisioning = {}
  BY DEF Provisioning, Naming, Artifacts, Binding
<1>3. asked' = asked /\ UNCHANGED <<class, spent>>
  BY DEF DeleteStep, FindOb, FindCm, FindSecret, MarkReleased, ReplaceOb, GetObClass,
         Delete, Revoke, DropObFinalizer, DeleteOb, GetArtifact, DropFinalizer,
         GetClaimToRelease, DropClaimFinalizer, kube, store
<1>4. ASSUME NEW i, i.pc \in Cleaning, i.obc = j.obc \/ (j.key \in Keys /\ i.obc = obc[j.key]),
             job' = [job EXCEPT ![w] = i], UNCHANGED obc
      PROVE  NamesInv'
  BY <1>2, <1>3, <1>4, CleanupStepNames
<1>5. ASSUME Requeue(w) \/ Done(w), UNCHANGED obc
      PROVE  NamesInv'
  BY <1>3, <1>5, RequeueNames, CopiesKnown
<1> USE DEF At
<1>6. CASE FindOb(w)
  <2> DEFINE i == [j EXCEPT !.pc = "findCm", !.ob = ob[ObjectBucketName(j.key)]]
  <2>1. i.pc \in Cleaning /\ i.obc = j.obc
    BY <1>1 DEF Job
  <2>2. job' = [job EXCEPT ![w] = i] /\ UNCHANGED obc
    BY <1>6 DEF FindOb, Continue, kube
  <2> HIDE DEF i, Cleaning
  <2> QED
    BY <1>4, <2>1, <2>2
<1>7. CASE FindCm(w)
  <2> DEFINE i == [j EXCEPT !.pc = "findSecret", !.found = IfStored("cm", j.key)]
  <2>1. i.pc \in Cleaning /\ i.obc = j.obc
    BY <1>1 DEF Job
  <2>2. job' = [job EXCEPT ![w] = i] /\ UNCHANGED obc
    BY <1>7 DEF FindCm, Continue, kube
  <2> HIDE DEF i, Cleaning
  <2> QED
    BY <1>4, <2>1, <2>2
<1>8. CASE FindSecret(w)
  <2> DEFINE i == [j EXCEPT !.pc = IF j.ob = None THEN "release" ELSE "markReleased",
                            !.found = @ \cup IfStored("secret", j.key)]
  <2>1. i.pc \in Cleaning /\ i.obc = j.obc
    BY <1>1 DEF Job
  <2>2. (job' = [job EXCEPT ![w] = i] \/ Done(w)) /\ UNCHANGED obc
    BY <1>8 DEF FindSecret, Continue, kube
  <2> HIDE DEF i, Cleaning
  <2> QED
    BY <1>4, <1>5, <2>1, <2>2
<1>9. CASE MarkReleased(w)
  <2> DEFINE new == [j.ob EXCEPT !.phase = "Released"]
             i == [j EXCEPT !.pc = "getObClass", !.ob = new, !.base = None]
  <2>1. i.pc \in Cleaning /\ i.obc = j.obc
    BY <1>1 DEF Job
  <2>2. (job' = [job EXCEPT ![w] = i] \/ Requeue(w)) /\ UNCHANGED obc
    BY <1>9 DEF MarkReleased, ReplaceOb, Continue
  <2> HIDE DEF i, Cleaning
  <2> QED
    BY <1>4, <1>5, <2>1, <2>2
\* The steps that only move the program counter.
<1>10. ASSUME NEW pc \in Cleaning
       PROVE  [j EXCEPT !.pc = pc].pc = pc /\ [j EXCEPT !.pc = pc].obc = j.obc
  BY <1>1 DEF Job
<1>11. ASSUME NEW pc \in Cleaning, job' = [job EXCEPT ![w].pc = pc], UNCHANGED obc
       PROVE  NamesInv'
  <2>1. job' = [job EXCEPT ![w] = [j EXCEPT !.pc = pc]]
    BY <1>11
  <2> DEFINE i == [j EXCEPT !.pc = pc]
  <2>2. i.pc \in Cleaning /\ i.obc = j.obc
    BY <1>10
  <2> HIDE DEF i, Cleaning
  <2> QED
    BY <1>4, <1>11, <2>1, <2>2 DEF i
<1>12. CASE GetObClass(w) \/ Delete(w) \/ Revoke(w) \/ DeleteOb(w)
  <2>1. UNCHANGED obc
    BY <1>12 DEF GetObClass, Delete, Revoke, DeleteOb, kube
  <2>2. \/ job' = [job EXCEPT ![w].pc = "delete"]
        \/ job' = [job EXCEPT ![w].pc = "revoke"]
        \/ job' = [job EXCEPT ![w].pc = "dropObFinalizer"]
        \/ job' = [job EXCEPT ![w].pc = "release"]
    BY <1>12 DEF GetObClass, Continue, Delete, Revoke, DeleteOb
  <2> QED
    BY <1>11, <2>1, <2>2
<1>13. CASE DropObFinalizer(w)
  <2>1. UNCHANGED obc
    BY <1>13 DEF DropObFinalizer
  <2>2. SkipOb(w) \/ job' = [job EXCEPT ![w].pc = "deleteOb"]
    BY <1>13 DEF DropObFinalizer
  <2> QED
    BY <1>3, <1>11, <2>1, <2>2, ReleasedNames
<1>14. CASE GetArtifact(w) \/ DropFinalizer(w)
  <2> DEFINE a == artifact[Current(j)][j.key]
             i == [j EXCEPT !.pc = "dropFinalizer", !.base = a]
  <2>1. i.pc \in Cleaning /\ i.obc = j.obc
    BY <1>1 DEF Job
  <2>2. /\ UNCHANGED obc
        /\ job' = [job EXCEPT ![w] = i] \/ Released(w, TRUE) \/ Released(w, FALSE)
    BY <1>14 DEF GetArtifact, DropFinalizer, kube
  <2> HIDE DEF i, Cleaning
  <2> QED
    BY <1>3, <1>4, <2>1, <2>2, ReleasedNames
<1>15. CASE GetClaimToRelease(w)
  <2> DEFINE i == [j EXCEPT !.pc = "dropClaimFinalizer", !.obc = obc[j.key]]
  <2>1. i.pc \in Cleaning /\ i.obc = obc[j.key]
    BY <1>1 DEF Job
  <2>2. /\ j.key \in Keys /\ UNCHANGED obc
        /\ job' = [job EXCEPT ![w] = i] \/ Requeue(w)
    BY <1>1, <1>15 DEF GetClaimToRelease, ContinueIfFound, Continue, kube
  <2> HIDE DEF i, Cleaning
  <2> QED
    BY <1>4, <1>5, <2>1, <2>2
<1>16. CASE DropClaimFinalizer(w)
  <2>1. j.key \in Keys /\ j.obc \in Claim
    BY <1>1, <1>16 DEF DropClaimFinalizer, JobShape
  <2>2. CASE obc[j.key] = j.obc /\ obc' = [obc EXCEPT ![j.key] = removeFinalizer(j.obc)]
             /\ job' = [job EXCEPT ![w] = IdleJob]
    <3> DEFINE o == removeFinalizer(j.obc)
    <3>1. o # None => o.uid = j.obc.uid /\ o.class = j.obc.class /\ o.bucket = j.obc.bucket
      BY <2>1 DEF removeFinalizer, Stored, Claim
    <3> HIDE DEF o
    <3>2. \A k \in Keys :
             obc'[k] # None =>
                 /\ obc[k] # None
                 /\ obc'[k].uid = obc[k].uid /\ obc'[k].class = obc[k].class
                 /\ Greenfield(obc[k].class) => obc'[k].bucket = obc[k].bucket
      BY <2>1, <2>2, <3>1, NoneAssumption DEF TypeInv, ClusterTypeOK, o
    <3>3. \A v \in Workers :
             HasName(job'[v].obc) =>
                 <<job'[v].obc.uid, job'[v].obc.bucket>> \in KnownNames
      BY <1>1, <2>2, IdleNames, CopiesKnown DEF HasName
    <3>4. OneNamePerClaim' /\ UnnamedIsUnknown' /\ UidsUnique'
      BY <1>3, <3>2, <3>3, CopiesKnown, NoNewName
    <3>5. \A v \in Workers : JobNames(job'[v])
      BY <1>1, <2>2, IdleNames DEF NamesInv
    <3> QED
      BY <1>3, <3>4, <3>5 DEF NamesInv, ClassesDefined
  <2> QED
    BY <1>5, <1>16, <2>2 DEF DropClaimFinalizer
<1> QED
  BY <1>6, <1>7, <1>8, <1>9, <1>12, <1>13, <1>14, <1>15, <1>16 DEF DeleteStep

LEMMA GetItemNames ==
    ASSUME TypeInv, NamesInv, NEW w \in Workers, NEW k \in Keys, GetItem(w, k)
    PROVE  NamesInv'
<1> DEFINE i == [IdleJob EXCEPT !.pc = "getClaim", !.key = k]
<1>1. i.pc \notin Provisioning /\ i.obc = None
  BY DEF IdleJob, Provisioning, Naming, Artifacts, Binding
<1>2. JobNames(i)
  BY <1>1, OtherJobNames
<1>3. job' = [job EXCEPT ![w] = i] /\ UNCHANGED <<obc, class, spent>> /\ asked' = asked
  BY DEF GetItem, kube, store
<1> HIDE DEF i
<1> QED
  BY <1>1, <1>2, <1>3, WorkerStepNames, CopiesKnown

\* A new claim has a uid that no name on record belongs to.
LEMMA CreateClaimNames ==
    ASSUME TypeInv, NamesInv, NEW k \in Keys, NEW r \in Requests, CreateClaim(k, r),
           UNCHANGED job
    PROVE  NamesInv'
<1> DEFINE u == spent.create + 1
           new == [uid |-> u, deleted |-> FALSE, finalizer |-> FALSE,
                   class |-> r.class, bucket |-> r.bucket, generate |-> r.generate,
                   config |-> 0, ob |-> None, phase |-> None]
           pair == <<u, r.bucket>>
<1>1. new.uid = u /\ new.class = r.class /\ new.bucket = r.bucket
  OBVIOUS
<1>2. /\ obc[k] = None /\ obc' = [obc EXCEPT ![k] = new] /\ asked' = asked
      /\ UNCHANGED class /\ obc \in [Keys -> Claim \cup {None}]
  BY DEF CreateClaim, TypeInv, ClusterTypeOK, store
<1>3. spent["create"] \in Nat /\ spent'["create"] = spent["create"] + 1
  BY DEF CreateClaim, Spend, TypeInv, ClusterTypeOK, Budgets
<1> HIDE DEF new
<1>4. \A l \in Keys : obc'[l] = IF l = k THEN new ELSE obc[l]
  BY <1>2
<1>5. KnownNames' \subseteq KnownNames \cup {pair}
  <2>1. \A l \in Keys : HasName(obc'[l]) =>
            <<obc'[l].uid, obc'[l].bucket>> \in KnownNames \cup {pair}
    BY <1>1, <1>4, CopiesKnown
  <2> QED
    BY <1>2, <2>1, CopiesKnown DEF KnownNames
<1>6. /\ \A l \in Keys : obc[l] # None => obc[l].uid \in Int /\ obc[l].uid # u /\ obc[l].uid <= u
      /\ \A a \in KnownNames : a[1] # u
      /\ \A a \in KnownNames : a[1] <= u
  <2>1. \A l \in Keys : obc[l] # None => obc[l].uid \in Int
    BY <1>2 DEF Claim, Uids
  <2>2. \A a \in KnownNames : a[1] \in Int
    BY DEF KnownNames, HasName, TypeInv, ClusterTypeOK, ControllerInv, Job, Claim, Uids
  <2>3. \A i \in Int : i <= spent["create"] => i # u /\ i <= u
    BY <1>3
  <2> QED
    BY <2>1, <2>2, <2>3 DEF NamesInv, UidsUnique
<1>7. OneNamePerClaim'
  BY <1>5, <1>6 DEF NamesInv, OneNamePerClaim
<1>8. UnnamedIsUnknown'
  <2>1. ASSUME new.bucket = None, Greenfield(new.class)
        PROVE  KnownNames' \subseteq KnownNames
    <3>1. ~HasName(new)
      BY <2>1 DEF HasName
    <3>2. \A l \in Keys : HasName(obc'[l]) => <<obc'[l].uid, obc'[l].bucket>> \in KnownNames
      BY <1>4, <3>1, CopiesKnown
    <3> QED
      BY <1>2, <3>2, CopiesKnown DEF KnownNames
  <2>2. ASSUME NEW l \in Keys, obc'[l] # None, Greenfield(obc'[l].class),
               obc'[l].bucket = None, NEW a \in KnownNames'
        PROVE  a[1] # obc'[l].uid
    <3>1. CASE l = k
      BY <1>1, <1>4, <1>6, <2>1, <2>2, <3>1
    <3>2. CASE l # k
      BY <1>4, <1>5, <1>6, <2>2, <3>2 DEF NamesInv, UnnamedIsUnknown
    <3> QED
      BY <3>1, <3>2
  <2> QED
    BY <2>2 DEF UnnamedIsUnknown
<1>9. UidsUnique'
  <2>1. spent'.create = u
    BY <1>3
  <2>2. u <= u
    BY <1>3
  <2>3. \A l \in Keys : obc'[l] # None => obc'[l].uid <= u
    BY <1>1, <1>4, <1>6, <2>2
  <2>4. \A a \in KnownNames' : a[1] <= u
    BY <1>5, <1>6, <2>2
  <2>5. \A l, m \in Keys :
           obc'[l] # None /\ obc'[m] # None /\ obc'[l].uid = obc'[m].uid => l = m
    BY <1>1, <1>4, <1>6 DEF NamesInv, UidsUnique
  <2> QED
    BY <2>1, <2>3, <2>4, <2>5 DEF UidsUnique
<1> QED
  BY <1>2, <1>7, <1>8, <1>9 DEF NamesInv, ClassesDefined

LEMMA EnvironmentNames ==
    ASSUME TypeInv, NamesInv, EnvironmentStep
    PROVE  NamesInv'
<1>1. UNCHANGED job /\ Environment
  BY DEF EnvironmentStep
<1>2. ASSUME asked' = asked, spent'.create = spent.create, ClassesDefined',
             \A k \in Keys :
                 obc'[k] # None =>
                     /\ obc[k] # None
                     /\ obc'[k].uid = obc[k].uid /\ obc'[k].class = obc[k].class
                     /\ Greenfield(obc[k].class) => obc'[k].bucket = obc[k].bucket
      PROVE  NamesInv'
  <2>1. OneNamePerClaim' /\ UnnamedIsUnknown' /\ UidsUnique'
    BY <1>1, <1>2, NoNewName, CopiesKnown
  <2> QED
    BY <1>1, <1>2, <2>1 DEF NamesInv
<1>3. ASSUME NEW k \in Keys, DeleteClaim(k) \/ EditClaim(k)
      PROVE  NamesInv'
  <2>1. obc \in [Keys -> Claim \cup {None}] /\ obc[k] \in Claim
    BY <1>3 DEF DeleteClaim, EditClaim, TypeInv, ClusterTypeOK
  <2>2. Deleting(obc[k]) # None =>
            LET o == Deleting(obc[k])
            IN  o.uid = obc[k].uid /\ o.class = obc[k].class /\ o.bucket = obc[k].bucket
    BY <2>1 DEF Deleting, Stored, Claim
  <2>3. LET o == [obc[k] EXCEPT !.config = spent.edit + 1]
        IN  o.uid = obc[k].uid /\ o.class = obc[k].class /\ o.bucket = obc[k].bucket
    BY <2>1 DEF Claim
  <2>4. \/ obc' = [obc EXCEPT ![k] = Deleting(obc[k])]
        \/ obc' = [obc EXCEPT ![k] = [obc[k] EXCEPT !.config = spent.edit + 1]]
    BY <1>3 DEF DeleteClaim, EditClaim
  <2>5. obc[k] # None
    BY <1>3 DEF DeleteClaim, EditClaim
  <2>6. \A l \in Keys :
           obc'[l] # None =>
               /\ obc[l] # None
               /\ obc'[l].uid = obc[l].uid /\ obc'[l].class = obc[l].class
               /\ Greenfield(obc[l].class) => obc'[l].bucket = obc[l].bucket
    BY <2>1, <2>2, <2>3, <2>4, <2>5
  <2>7. spent'.create = spent.create /\ asked' = asked /\ ClassesDefined'
    BY <1>3 DEF DeleteClaim, EditClaim, Spend, TypeInv, ClusterTypeOK, Budgets, store,
                NamesInv, ClassesDefined
  <2> QED
    BY <1>2, <2>6, <2>7
<1>4. ASSUME NEW c \in Classes, DeleteClass(c) \/ CreateClass(c)
      PROVE  NamesInv'
  <2>1. ClassesDefined'
    BY <1>4 DEF DeleteClass, CreateClass, NamesInv, ClassesDefined, TypeInv, ClusterTypeOK
  <2>2. spent'.create = spent.create /\ asked' = asked /\ UNCHANGED obc
    BY <1>4 DEF DeleteClass, CreateClass, Spend, TypeInv, ClusterTypeOK, Budgets, store
  <2> QED
    BY <1>2, <2>1, <2>2
<1>5. ASSUME NEW k \in Keys, NEW kind \in Kinds, Collect(kind, k)
      PROVE  NamesInv'
  <2>1. UNCHANGED <<obc, class, spent, asked>>
    BY <1>5 DEF Collect, store
  <2> QED
    BY <1>2, <2>1 DEF NamesInv, ClassesDefined
<1> QED
  BY <1>1, <1>3, <1>4, <1>5, CreateClaimNames DEF Environment

LEMMA FaultNames ==
    ASSUME TypeInv, NamesInv, ClassesKeepTheirKind, Fault
    PROVE  NamesInv'
<1>1. ASSUME NEW b \in {"provError", "apiError", "crash"}, Spend(b)
      PROVE  spent'.create = spent.create
  BY <1>1 DEF Spend, TypeInv, ClusterTypeOK, Budgets
<1>2. job \in [Workers -> Job]
  BY DEF TypeInv, ControllerInv
<1>3. ASSUME NEW w \in Workers, ProvisionError(w)
      PROVE  NamesInv'
  <2>1. asked' \subseteq KnownNames
    BY <1>3, AskedKnown, CopiesKnown DEF ProvisionError, store
  <2> QED
    BY <1>1, <1>3, <2>1, RequeueNames DEF ProvisionError, kube
<1>4. ASSUME NEW w \in Workers, DeprovisionError(w)
      PROVE  NamesInv'
  <2>1. asked' \subseteq KnownNames
    BY <1>4, CopiesKnown DEF DeprovisionError, store
  <2> QED
    BY <1>1, <1>4, <2>1, RequeueNames DEF DeprovisionError, kube
<1>5. ASSUME NEW w \in Workers, ApiError(w)
      PROVE  NamesInv'
  <2> DEFINE i == [job[w] EXCEPT !.pc = "revoke"]
  <2>1. asked' = asked /\ UNCHANGED <<obc, class>> /\ spent'.create = spent.create
    BY <1>1, <1>5 DEF ApiError, kube, store
  <2>2. i.pc \notin Provisioning /\ i.obc = job[w].obc
    BY <1>2 DEF Job, Provisioning, Naming, Artifacts, Binding
  <2>3. \/ job' = [job EXCEPT ![w] = i]
        \/ SkipOb(w) \/ Released(w, TRUE)
        \/ Requeue(w)
    BY <1>5 DEF ApiError, Continue
  <2> HIDE DEF i
  <2> QED
    BY <2>1, <2>2, <2>3, CleanupStepNames, ReleasedNames, RequeueNames, CopiesKnown
<1>6. ASSUME NEW p \in Instances, Crash(p)
      PROVE  NamesInv'
  <2>1. asked' = asked /\ UNCHANGED <<obc, class>> /\ spent'.create = spent.create
    BY <1>1, <1>6 DEF Crash, kube, store
  <2>2. \A v \in Workers : job'[v] = job[v] \/ job'[v] = IdleJob
    BY <1>2, <1>6 DEF Crash
  <2>3. \A v \in Workers :
           HasName(job'[v].obc) => <<job'[v].obc.uid, job'[v].obc.bucket>> \in KnownNames
    BY <2>2, IdleNames, CopiesKnown DEF HasName
  <2>4. OneNamePerClaim' /\ UnnamedIsUnknown' /\ UidsUnique'
    BY <2>1, <2>3, NoNewName, CopiesKnown
  <2>5. \A v \in Workers : JobNames(job'[v])
    BY <2>2, IdleNames DEF NamesInv
  <2> QED
    BY <2>1, <2>4, <2>5 DEF NamesInv, ClassesDefined
<1> QED
  BY <1>3, <1>4, <1>5, <1>6 DEF Fault

LEMMA InitNames == Init => NamesInv
<1> SUFFICES ASSUME Init PROVE NamesInv
  OBVIOUS
<1>1. KnownNames = {}
  BY IdleNames DEF Init, ClusterInit, KnownNames, HasName
<1>2. \A w \in Workers : JobNames(job[w])
  BY IdleNames DEF Init
<1> QED
  BY <1>1, <1>2
  DEF Init, ClusterInit, NamesInv, OneNamePerClaim, UnnamedIsUnknown, UidsUnique,
      ClassesDefined

LEMMA NextNames ==
    ASSUME ClassesKeepTheirKind
    PROVE  TypeInv /\ NamesInv /\ [Next]_vars => NamesInv'
<1> SUFFICES ASSUME TypeInv, NamesInv, [Next]_vars PROVE NamesInv'
  OBVIOUS
<1>1. CASE UNCHANGED vars
  <2>1. KnownNames' = KnownNames
    BY <1>1 DEF vars, KnownNames
  <2> QED
    BY <1>1, <2>1
    DEF vars, NamesInv, OneNamePerClaim, UnnamedIsUnknown, UidsUnique, ClassesDefined
<1> QED
  BY <1>1, ProvisionStepNames, DeleteStepNames, GetItemNames, EnvironmentNames, FaultNames
  DEF Next, WorkerStep

\* However often syncHandler is retried for a claim, by however many workers of
\* however many processes, after any crashes, conflicts and failed calls, Provision
\* is asked for one bucket only on the claim's behalf, as long as no StorageClass
\* is redefined from new buckets to a given one or back.
THEOREM OneBucket ==
    ASSUME ClassesKeepTheirKind
    PROVE  Spec => []OneBucketPerClaim
<1>1. NamesInv => OneBucketPerClaim
  BY DEF NamesInv, OneNamePerClaim, KnownNames, OneBucketPerClaim
<1>2. TypeInv /\ NamesInv /\ [Next]_vars => NamesInv'
  BY NextNames
<1> QED
  BY <1>1, <1>2, InitNames, Invariance, PTL DEF Spec
===============================================================================
