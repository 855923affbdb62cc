--------------------------- MODULE LifecycleProofs ---------------------------
(***************************************************************************)
(* Proof that the reconcile loop of CertificateController implements       *)
(* CertificateLifecycle, for every value of the constants: each step, of   *)
(* the loop, of users, of ACM or of a crash, is one of the steps of the    *)
(* abstract specification or changes nothing it can see.                   *)
(***************************************************************************)
EXTENDS CertificateProofs

-----------------------------------------------------------------------------
(* What the abstract specification sees of a step *)

(* Nothing it can see changes. *)
Unseen ==
  /\ Phase' = Phase
  /\ Recorded' = Recorded
  /\ Fate' = Fate
  /\ budget'["vanish"] = budget["vanish"]

(* Such a step is a stutter. *)
LEMMA UnseenStutters ==
  ASSUME Unseen
  PROVE  [Lifecycle!Next]_(Lifecycle!vars)
  BY DEF Unseen, Lifecycle!vars

(* The fate of an ARN says no more than whether it is unused, gone or live. *)
LEMMA FateIs ==
  ASSUME NEW id \in CertIds
  PROVE  /\ Fate[id] = "unused" <=> acm[id] = Unused
         /\ Fate[id] = "gone" <=> acm[id] = Gone
         /\ Fate[id] = "live" <=> Live(id)
  BY ControllerAssumption DEF Fate, Live

(* A certificate that changes and stays a certificate keeps its fate. *)
LEMMA FateKept ==
  ASSUME TypeOK, NEW id \in CertIds, Live(id), NEW c \in AcmCertificate,
         acm' = [acm EXCEPT ![id] = c]
  PROVE  Fate' = Fate
  BY ControllerAssumption DEF Fate, Live, TypeOK

(* The fates of the others are kept when one ARN changes. *)
LEMMA FateBecomes ==
  ASSUME TypeOK, NEW id \in CertIds, NEW c, acm' = [acm EXCEPT ![id] = c]
  PROVE  /\ c = Gone => Fate' = [Fate EXCEPT ![id] = "gone"]
         /\ c \in AcmCertificate => Fate' = [Fate EXCEPT ![id] = "live"]
  BY ControllerAssumption DEF Fate, Live, TypeOK

(* The recorded certificate is there for the abstract specification when it *)
(* is in ACM.                                                               *)
LEMMA HasCertificateIs ==
  ASSUME TypeOK
  PROVE  Lifecycle!HasCertificate <=> IsLive(Recorded)
  <1>1. Recorded \in CertIds \cup {Nil}
    BY DEF TypeOK, Recorded, CertificateStatus, Opt
  <1> QED BY <1>1, FateIs DEF Lifecycle!HasCertificate, IsLive

(* A managed resource is cared for. *)
LEMMA CaredIs ==
  ASSUME TypeOK, cr.exists, cr.finalizer
  PROVE  Lifecycle!Cared
  BY DEF Lifecycle!Cared, Phase, TypeOK

(* Only Vanish spends the budget of lost certificates. *)
LEMMA SpendUnseen ==
  ASSUME TypeOK, NEW k \in Bounded \ {"vanish"}, Spend(k)
  PROVE  budget'["vanish"] = budget["vanish"]
  BY DEF Spend, TypeOK, Bounded

(* Calls that fail, or lose their reply, do not. *)
LEMMA FailsUnseen ==
  ASSUME TypeOK, NEW call, NEW r, Fails(call, r) \/ LosesReply(call, r)
  PROVE  budget'["vanish"] = budget["vanish"]
  BY SpendUnseen DEF Fails, LosesReply, Bounded

-----------------------------------------------------------------------------
(* One lemma for each kind of step *)

(* Steps that read, fail, or work on the Secret or the spec. *)
LEMMA QuietStep ==
  ASSUME IInv,
         \/ Start \/ Describe \/ ListTags \/ RefuseCreate
         \/ Export \/ WriteCertificate \/ WriteKey \/ PatchSpec
         \/ Crash \/ EditSpec \/ CreateSecret
  PROVE  Unseen
  <1>1. TypeOK
    BY DEF IInv
  <1>2. budget'["vanish"] = budget["vanish"]
    <2>1. CASE \/ Start \/ Describe \/ ListTags \/ RefuseCreate
               \/ Export \/ WriteCertificate \/ WriteKey \/ PatchSpec
      BY <1>1, <2>1, FailsUnseen
         DEF Start, Describe, ListTags, RefuseCreate, Export, WriteCertificate, WriteKey, PatchSpec
    <2>2. CASE Crash \/ EditSpec \/ CreateSecret
      BY <1>1, <2>2, SpendUnseen DEF Crash, EditSpec, CreateSecret, Bounded
    <2> QED BY <2>1, <2>2
  <1>3. acm' = acm
    BY DEF Start, Describe, ListTags, RefuseCreate, Export, WriteCertificate, WriteKey, PatchSpec,
       Crash, EditSpec, CreateSecret
  <1>4. /\ cr'.exists = cr.exists /\ cr'.deleting = cr.deleting
        /\ cr'.finalizer = cr.finalizer /\ cr'.status = cr.status
    <2>1. CASE PatchSpec
      BY <1>1, <2>1 DEF PatchSpec, TypeOK
    <2>2. CASE EditSpec
      <3>1. PICK f \in DOMAIN Edits : \E v \in Edits[f] \ {cr.spec[f]} :
              cr' = [cr EXCEPT !.spec[f] = v]
        BY <2>2 DEF EditSpec
      <3> QED BY <1>1, <3>1 DEF TypeOK
    <2>3. CASE ~PatchSpec /\ ~EditSpec
      BY <2>3 DEF Start, Describe, ListTags, RefuseCreate, Export, WriteCertificate, WriteKey,
         Crash, CreateSecret
    <2> QED BY <2>1, <2>2, <2>3
  <1> QED BY <1>2, <1>3, <1>4 DEF Unseen, Phase, Recorded, Fate, Live

(* A certificate with other tags. *)
LEMMA RetagStep ==
  ASSUME TypeOK, NEW id \in CertIds, Live(id), NEW t \in TagMap,
         acm' = [acm EXCEPT ![id].tags = t]
  PROVE  Fate' = Fate
  <1>1. [acm[id] EXCEPT !.tags = t] \in AcmCertificate
    BY DEF TypeOK, Live, AcmCertificate
  <1>2. acm' = [acm EXCEPT ![id] = [acm[id] EXCEPT !.tags = t]]
    OBVIOUS
  <1> QED BY <1>1, <1>2, FateKept

(* The calls of an update change the tags and the options of a certificate. *)
LEMMA UpdateCallStep ==
  ASSUME IInv, RemoveTags \/ AddTags \/ UpdateOptions
  PROVE  Unseen
  <1> DEFINE id == desired.status.arn
  <1>1. /\ TypeOK /\ cr' = cr /\ id \in CertIds
        /\ desired.spec.tags \in TagMap
        /\ desired.spec.options \in Opt(OptionValues)
    BY DEF IInv, RemoveTags, AddTags, UpdateOptions, MemoryOK, OnCertificate, Resource,
       CertificateSpec
  <1>2. budget'["vanish"] = budget["vanish"]
    BY <1>1, FailsUnseen DEF RemoveTags, AddTags, UpdateOptions
  <1>3. Live(id) => acm[id] \in AcmCertificate /\ acm[id].tags \in TagMap
    BY <1>1 DEF TypeOK, Live, AcmCertificate
  <1>4. Fate' = Fate
    <2>1. CASE acm' = acm
      BY <2>1 DEF Fate, Live
    <2>2. CASE RemoveTags /\ acm' # acm
      <3> DEFINE removed == toDelete(desired.spec.tags, latest.spec.tags)
                 t == [k \in TagKeys |-> IF k \in removed THEN Nil ELSE acm[id].tags[k]]
      <3>1. Live(id) /\ acm' = [acm EXCEPT ![id].tags = t]
        BY <2>2 DEF RemoveTags
      <3>2. t \in TagMap
        BY <1>3, <3>1 DEF TagMap, Opt
      <3> QED BY <1>1, <3>1, <3>2, RetagStep
    <2>3. CASE AddTags /\ acm' # acm
      <3> DEFINE added == toAdd(desired.spec.tags, latest.spec.tags)
                 t == [k \in TagKeys |-> IF k \in added THEN desired.spec.tags[k]
                                                        ELSE acm[id].tags[k]]
      <3>1. Live(id) /\ acm' = [acm EXCEPT ![id].tags = t]
        BY <2>3 DEF AddTags
      <3>2. t \in TagMap
        BY <1>1, <1>3, <3>1 DEF TagMap
      <3> QED BY <1>1, <3>1, <3>2, RetagStep
    <2>4. CASE UpdateOptions /\ acm' # acm
      <3> DEFINE c == [acm[id] EXCEPT !.options = desired.spec.options]
      <3>1. Live(id) /\ acm' = [acm EXCEPT ![id] = c]
        BY <2>4 DEF UpdateOptions
      <3>2. c \in AcmCertificate
        BY <1>1, <1>3, <3>1 DEF AcmCertificate
      <3> QED BY <1>1, <3>1, <3>2, FateKept
    <2> QED BY <2>1, <2>2, <2>3, <2>4
  <1> QED BY <1>1, <1>2, <1>4 DEF Unseen, Phase, Recorded

(* ACM issues, fails and renews certificates, and AWS services tag them. *)
LEMMA AcmStep ==
  ASSUME IInv, NEW id \in CertIds, Validate(id) \/ Renew(id) \/ Expire(id) \/ SetAwsTag(id)
  PROVE  Unseen
  <1>1. /\ TypeOK /\ cr' = cr /\ Live(id) /\ serials + 1 \in Nat
        /\ acm[id] \in AcmCertificate /\ acm[id].tags \in TagMap
    BY DEF IInv, TypeOK, Validate, Renew, Expire, SetAwsTag, Live, AcmCertificate
  <1>2. budget'["vanish"] = budget["vanish"]
    BY <1>1, SpendUnseen DEF Validate, Renew, Expire, SetAwsTag, Bounded
  <1>3. Fate' = Fate
    <2>1. CASE Validate(id)
      <3>1. /\ [acm[id] EXCEPT !.status = "ISSUED", !.serial = serials + 1] \in AcmCertificate
            /\ [acm[id] EXCEPT !.status = "FAILED"] \in AcmCertificate
        <4>1. {"ISSUED", "FAILED"} \subseteq CertStates
          BY DEF CertStates
        <4> QED BY <1>1, <4>1 DEF AcmCertificate
      <3>2. \/ acm' = [acm EXCEPT ![id] = [acm[id] EXCEPT !.status = "ISSUED",
                                                          !.serial = serials + 1]]
            \/ acm' = [acm EXCEPT ![id] = [acm[id] EXCEPT !.status = "FAILED"]]
        BY <1>1, <2>1 DEF Validate, TypeOK
      <3> QED BY <1>1, <3>1, <3>2, FateKept
    <2>2. CASE Renew(id)
      <3>1. [acm[id] EXCEPT !.serial = serials + 1] \in AcmCertificate
        BY <1>1 DEF AcmCertificate
      <3>2. acm' = [acm EXCEPT ![id] = [acm[id] EXCEPT !.serial = serials + 1]]
        BY <2>2 DEF Renew
      <3> QED BY <1>1, <3>1, <3>2, FateKept
    <2>3. CASE Expire(id)
      <3>1. [acm[id] EXCEPT !.status = "EXPIRED"] \in AcmCertificate
        BY <1>1 DEF AcmCertificate, CertStates
      <3>2. acm' = [acm EXCEPT ![id] = [acm[id] EXCEPT !.status = "EXPIRED"]]
        BY <2>3 DEF Expire
      <3> QED BY <1>1, <3>1, <3>2, FateKept
    <2>4. CASE SetAwsTag(id)
      <3>1. PICK k \in AwsTagKeys, v \in TagValues \cup {Nil} :
              acm' = [acm EXCEPT ![id].tags[k] = v]
        BY <2>4 DEF SetAwsTag
      <3>2. [acm[id].tags EXCEPT ![k] = v] \in TagMap
        BY <1>1, DataAssumption DEF TagMap, Opt
      <3>3. acm' = [acm EXCEPT ![id].tags = [acm[id].tags EXCEPT ![k] = v]]
        BY <3>1
      <3> QED BY <1>1, <3>2, <3>3, RetagStep
    <2> QED BY <2>1, <2>2, <2>3, <2>4
  <1> QED BY <1>1, <1>2, <1>3 DEF Unseen, Phase, Recorded

(* A certificate somebody else deletes is lost. *)
LEMMA VanishStep ==
  ASSUME IInv, NEW id \in CertIds, Vanish(id)
  PROVE  Lifecycle!Lose(id)
  <1>1. /\ TypeOK /\ cr' = cr /\ Live(id) /\ acm' = [acm EXCEPT ![id] = Gone]
        /\ budget'["vanish"] = budget["vanish"] + 1
    BY DEF IInv, Vanish, Spend, TypeOK, Bounded
  <1>2. Fate[id] = "live" /\ Fate' = [Fate EXCEPT ![id] = "gone"]
    BY <1>1, FateIs, FateBecomes
  <1> QED BY <1>1, <1>2 DEF Lifecycle!Lose, Phase, Recorded

(* The patch of the finalizer puts the resource under management. *)
LEMMA MarkManagedStep ==
  ASSUME IInv, MarkManaged
  PROVE  Lifecycle!Manage \/ Unseen
  <1>1. TypeOK /\ acm' = acm
    BY DEF IInv, MarkManaged
  <1>2. budget'["vanish"] = budget["vanish"]
    BY <1>1, FailsUnseen DEF MarkManaged
  <1>3. Fate' = Fate
    BY <1>1 DEF Fate, Live
  <1>4. CASE cr' = cr
    BY <1>2, <1>3, <1>4 DEF Unseen, Phase, Recorded
  <1>5. CASE cr.exists /\ cr' = [cr EXCEPT !.finalizer = TRUE] /\ cr' # cr
    <2>1. ~cr.finalizer /\ ~cr.deleting
      BY <1>1, <1>5 DEF TypeOK, IInv, Managed
    <2>2. /\ cr'.exists = cr.exists /\ cr'.deleting = cr.deleting
          /\ cr'.finalizer /\ cr'.status = cr.status
      BY <1>1, <1>5 DEF TypeOK
    <2> QED BY <1>2, <1>3, <1>5, <2>1, <2>2 DEF Lifecycle!Manage, Phase, Recorded
  <1> QED BY <1>4, <1>5 DEF MarkManaged

(* A new certificate for a resource without one. *)
LEMMA NewCertificateStep ==
  ASSUME IInv, pc = "create", cr' = cr, budget'["vanish"] = budget["vanish"],
         NEW id \in CertIds, NextArn(id), NEW c \in AcmCertificate,
         acm' = [acm EXCEPT ![id] = c]
  PROVE  Lifecycle!Create(id)
  <1>1. TypeOK /\ cr.exists /\ cr.finalizer /\ ~IsLive(Recorded)
    BY CreateIsManaged DEF IInv
  <1>2. Fate[id] = "unused" /\ Fate' = [Fate EXCEPT ![id] = "live"]
    BY <1>1, FateIs, FateBecomes DEF NextArn
  <1>3. Lifecycle!Cared /\ ~Lifecycle!HasCertificate
    BY <1>1, CaredIs, HasCertificateIs
  <1> QED BY <1>2, <1>3 DEF Lifecycle!Create, Phase, Recorded

(* An import makes a certificate, or gives one that is there a new content. *)
LEMMA ImportStep ==
  ASSUME IInv, Import
  PROVE  Unseen \/ \E id \in CertIds : Lifecycle!Create(id)
  <1> DEFINE target == desired.spec.certificateARN
  <1>1. /\ TypeOK /\ cr' = cr /\ pc = "create" /\ desired.spec.tags \in TagMap
        /\ target \in CertIds \cup {Nil} /\ Nil \notin CertIds
    BY DataAssumption DEF Import, IInv, MemoryOK, Resource, CertificateSpec, Opt
  <1>2. budget'["vanish"] = budget["vanish"]
    BY <1>1, FailsUnseen DEF Import
  <1>3. CASE acm' = acm
    BY <1>1, <1>2, <1>3 DEF Unseen, Phase, Recorded, Fate, Live
  <1>4. ASSUME NEW id \in CertIds, NextArn(id),
               acm' = [acm EXCEPT ![id] = importedCertificate(desired.spec.tags)]
        PROVE  Lifecycle!Create(id)
    <2>1. importedCertificate(desired.spec.tags) \in AcmCertificate
      BY <1>1, importedCertificateType DEF TypeOK
    <2> QED BY <1>1, <1>2, <1>4, <2>1, NewCertificateStep
  <1>5. ASSUME target # Nil, Live(target),
               acm' = [acm EXCEPT ![target] = importedCertificate(acm[target].tags)]
        PROVE  Unseen
    <2>1. acm[target].tags \in TagMap
      BY <1>1, <1>5 DEF TypeOK, Live, AcmCertificate
    <2>2. importedCertificate(acm[target].tags) \in AcmCertificate
      BY <1>1, <2>1, importedCertificateType DEF TypeOK
    <2>3. Fate' = Fate
      BY <1>1, <1>5, <2>2, FateKept
    <2> QED BY <1>1, <1>2, <2>3 DEF Unseen, Phase, Recorded
  <1>6. CASE acm' # acm
    <2>1. PICK id \in CertIds :
            /\ IF target = Nil THEN NextArn(id) /\ ~TooManyTags(desired.spec.tags)
                               ELSE id = target /\ Live(id)
            /\ acm' = [acm EXCEPT ![id] = importedCertificate(
                         IF target = Nil THEN desired.spec.tags ELSE acm[id].tags)]
      BY <1>6 DEF Import
    <2> QED BY <1>4, <1>5, <2>1
  <1> QED BY <1>3, <1>6

(* A request makes a certificate. *)
LEMMA RequestStep ==
  ASSUME IInv, Request
  PROVE  Unseen \/ \E id \in CertIds : Lifecycle!Create(id)
  <1>1. TypeOK /\ cr' = cr /\ pc = "create" /\ desired.spec \in CertificateSpec
    BY DEF Request, IInv, MemoryOK, Resource
  <1>2. budget'["vanish"] = budget["vanish"]
    BY <1>1, FailsUnseen DEF Request
  <1>3. CASE acm' = acm
    BY <1>1, <1>2, <1>3 DEF Unseen, Phase, Recorded, Fate, Live
  <1>4. CASE acm' # acm
    <2>1. PICK id \in CertIds :
            NextArn(id) /\ acm' = [acm EXCEPT ![id] = requestedCertificate(desired.spec)]
      BY <1>4 DEF Request
    <2>2. requestedCertificate(desired.spec) \in AcmCertificate
      BY <1>1, requestedCertificateType
    <2> QED BY <1>1, <1>2, <2>1, <2>2, NewCertificateStep
  <1> QED BY <1>3, <1>4

(* The patch of the status records the certificate the reconcile made, or   *)
(* leaves the record as it is.                                              *)
LEMMA PatchStatusStep ==
  ASSUME IInv, PatchStatus
  PROVE  Unseen \/ \E id \in CertIds : Lifecycle!Record(id)
  <1>1. /\ TypeOK /\ pc = "patchStatus" /\ acm' = acm /\ latest \in Resource
        /\ latest.status.arn \in CertIds \cup {Nil}
    BY DEF IInv, PatchStatus, MemoryOK, Resource, CertificateStatus, Opt
  <1>2. budget'["vanish"] = budget["vanish"]
    BY <1>1, SpendUnseen DEF PatchStatus, Bounded
  <1>3. Fate' = Fate
    BY <1>1 DEF Fate, Live
  <1>4. CASE cr' = cr
    BY <1>2, <1>3, <1>4 DEF Unseen, Phase, Recorded
  <1>5. CASE cr.exists /\ cr' = [cr EXCEPT !.status = latest.status]
    <2>1. /\ cr'.exists = cr.exists /\ cr'.deleting = cr.deleting
          /\ cr'.finalizer = cr.finalizer /\ Recorded' = latest.status.arn
      BY <1>1, <1>5 DEF TypeOK, Recorded
    <2>2. CASE latest.status.arn = Recorded
      BY <1>2, <1>3, <2>1, <2>2 DEF Unseen, Phase
    <2>3. CASE latest.status.arn # Recorded
      <3>1. latest.status.arn \in CertIds /\ acm[latest.status.arn] # Unused /\ ~IsLive(Recorded)
        BY <1>1, <1>5, <2>3 DEF IInv, Provenance, HandedOut
      <3>2. Fate[latest.status.arn] # "unused"
        BY <3>1, FateIs
      <3>3. Lifecycle!Cared /\ ~Lifecycle!HasCertificate
        <4>1. cr.finalizer
          BY <1>1, <3>1, DataAssumption DEF IInv, Managed, InMemory
        <4> QED BY <1>1, <1>5, <3>1, <4>1, CaredIs, HasCertificateIs
      <3> QED BY <1>2, <1>3, <2>1, <3>1, <3>2, <3>3 DEF Lifecycle!Record, Phase
    <2> QED BY <2>2, <2>3
  <1> QED BY <1>4, <1>5 DEF PatchStatus

(* The deletion of the recorded certificate. *)
LEMMA DeleteStep ==
  ASSUME IInv, Delete
  PROVE  Unseen \/ Lifecycle!Remove
  <1> DEFINE id == latest.status.arn
  <1>1. /\ TypeOK /\ pc = "delete" /\ cr' = cr /\ id \in CertIds /\ id = Recorded
        /\ cr.exists /\ cr.deleting
    BY DEF IInv, Delete, MemoryOK, OnCertificate, OnManaged, Managed, Provenance
  <1>2. budget'["vanish"] = budget["vanish"]
    BY <1>1, FailsUnseen DEF Delete
  <1>3. CASE acm' = acm
    BY <1>1, <1>2, <1>3 DEF Unseen, Phase, Recorded, Fate, Live
  <1>4. CASE Live(id) /\ acm' = [acm EXCEPT ![id] = Gone]
    <2>1. Fate' = [Fate EXCEPT ![id] = "gone"]
      BY <1>1, <1>4, FateBecomes
    <2>2. Lifecycle!HasCertificate
      BY <1>1, <1>4, HasCertificateIs, DataAssumption DEF IsLive
    <2> QED BY <1>1, <1>2, <2>1, <2>2 DEF Lifecycle!Remove, Phase, Recorded
  <1> QED BY <1>3, <1>4 DEF Delete

(* The removal of the finalizer lets the resource go. *)
LEMMA MarkUnmanagedStep ==
  ASSUME IInv, MarkUnmanaged
  PROVE  Unseen \/ Lifecycle!Release
  <1>1. /\ TypeOK /\ pc = "unmanage" /\ acm' = acm /\ cr.exists /\ cr.deleting
        /\ ~IsLive(Recorded)
    BY DEF IInv, MarkUnmanaged, OnManaged, Managed, Provenance
  <1>2. budget'["vanish"] = budget["vanish"]
    BY <1>1, FailsUnseen DEF MarkUnmanaged
  <1>3. Fate' = Fate
    BY <1>1 DEF Fate, Live
  <1>4. CASE cr' = cr
    BY <1>2, <1>3, <1>4 DEF Unseen, Phase, Recorded
  <1>5. CASE cr' = [cr EXCEPT !.finalizer = FALSE, !.exists = FALSE]
    <2>1. ~cr'.exists /\ cr'.status = cr.status
      BY <1>1, <1>5 DEF TypeOK
    <2>2. ~Lifecycle!HasCertificate
      BY <1>1, HasCertificateIs
    <2> QED BY <1>1, <1>2, <1>3, <2>1, <2>2 DEF Lifecycle!Release, Phase, Recorded
  <1> QED BY <1>4, <1>5 DEF MarkUnmanaged

(* A user deletes the resource: a managed one has still to be cleaned up,   *)
(* one without the finalizer goes, and has no certificate.                  *)
LEMMA DeleteResourceStep ==
  ASSUME IInv, DeleteResource
  PROVE  Lifecycle!RequestDeletion \/ Lifecycle!Abandon
  <1>1. /\ TypeOK /\ acm' = acm /\ cr.exists /\ ~cr.deleting
    BY DEF IInv, DeleteResource
  <1>2. budget'["vanish"] = budget["vanish"]
    BY <1>1, SpendUnseen DEF DeleteResource, Bounded
  <1>3. Fate' = Fate
    BY <1>1 DEF Fate, Live
  <1>4. CASE cr.finalizer
    <2>1. cr'.exists /\ cr'.deleting /\ cr'.status = cr.status
      BY <1>1, <1>4 DEF DeleteResource, TypeOK
    <2> QED BY <1>1, <1>2, <1>3, <1>4, <2>1 DEF Lifecycle!RequestDeletion, Phase, Recorded
  <1>5. CASE ~cr.finalizer
    <2>1. ~cr'.exists /\ cr'.status = cr.status
      BY <1>1, <1>5 DEF DeleteResource, TypeOK
    <2>2. Recorded = Nil
      BY <1>1, <1>5 DEF IInv, Managed
    <2> QED BY <1>1, <1>2, <1>3, <1>5, <2>1, <2>2 DEF Lifecycle!Abandon, Phase, Recorded
  <1> QED BY <1>4, <1>5

-----------------------------------------------------------------------------
(* The theorem *)

(* The loop starts where the abstract specification starts. *)
LEMMA LifecycleInit == Init => Lifecycle!Init
  <1> SUFFICES ASSUME Init PROVE Lifecycle!Init
    OBVIOUS
  <1>1. Phase = "unmanaged"
    BY DEF Init, Phase
  <1>2. Recorded = Nil
    BY DEF Init, Recorded, NoStatus
  <1>3. Fate \in [CertIds -> {"unused", "live"}]
    <2>1. \A id \in CertIds : acm[id] # Gone
      BY ControllerAssumption DEF Init
    <2> QED BY <2>1 DEF Fate, Live
  <1>4. budget["vanish"] = 0
    BY DEF Init, Bounded
  <1> QED BY <1>1, <1>2, <1>3, <1>4 DEF Lifecycle!Init

(* Each step is a step of the abstract specification, or a stutter. *)
LEMMA LifecycleNext == IInv /\ [Next]_vars => [Lifecycle!Next]_(Lifecycle!vars)
  <1> SUFFICES ASSUME IInv, [Next]_vars PROVE Lifecycle!Next \/ Unseen
    BY UnseenStutters
  <1>1. CASE Reconcile
    BY <1>1, QuietStep, UpdateCallStep, MarkManagedStep, ImportStep, RequestStep,
       PatchStatusStep, DeleteStep, MarkUnmanagedStep
       DEF Reconcile, Lifecycle!Next
  <1>2. CASE Environment
    BY <1>2, QuietStep, AcmStep, VanishStep, DeleteResourceStep
       DEF Environment, Lifecycle!Next
  <1>3. CASE UNCHANGED vars
    BY <1>3 DEF vars, Unseen, Phase, Recorded, Fate, Live
  <1> QED BY <1>1, <1>2, <1>3 DEF Next, Rest

(* The reconcile loop implements CertificateLifecycle: certificates come,   *)
(* are recorded, go, and let their resource go in the promised order,       *)
(* through every failed call, lost reply and crash.                         *)
THEOREM LifecycleImplemented == Spec => ImplementsLifecycle
  <1>1. Init => Lifecycle!Init
    BY LifecycleInit
  <1>2. IInv /\ [Next]_vars => [Lifecycle!Next]_(Lifecycle!vars)
    BY LifecycleNext
  <1> QED BY <1>1, <1>2, InvariantCorrect, PTL DEF Spec, ImplementsLifecycle, Lifecycle!Spec
=============================================================================
