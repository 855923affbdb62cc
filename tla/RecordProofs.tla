---------------------------- MODULE RecordProofs ----------------------------
(***************************************************************************)
(* Proofs about what the controller knows of its certificates: as long as  *)
(* nothing is lost it knows every one it made, and of those it knows ACM   *)
(* holds what a request or an import makes, whatever has become of them.   *)
(* The lemmas on how certificates, budgets and ARNs change from one state  *)
(* to the next are used by ExportProofs and UpdateProofs as well.          *)
(***************************************************************************)
EXTENDS CertificateProofs, CertificateInvariants

-----------------------------------------------------------------------------
(* Counters *)

(* A bounded event is counted. *)
LEMMA SpendGrows ==
  ASSUME TypeOK, NEW k \in Bounded, Spend(k)
  PROVE  \A j \in Bounded : budget'[j] = IF j = k THEN budget[j] + 1 ELSE budget[j]
  BY DEF Spend, TypeOK

(* Every step counts one event or none. *)
LEMMA BudgetStep ==
  ASSUME TypeOK, Next
  PROVE  UNCHANGED budget \/ \E k \in Bounded : Spend(k)
  <1>1. ASSUME NEW call \in Calls, NEW r, Fails(call, r) \/ LosesReply(call, r)
        PROVE  \E k \in Bounded : Spend(k)
    BY <1>1 DEF Fails, LosesReply, Bounded
  <1>2. CASE Start \/ Describe \/ ListTags \/ MarkManaged \/ RefuseCreate \/ Import \/ Request
    BY <1>1, <1>2 DEF Start, Describe, ListTags, MarkManaged, RefuseCreate, Import, Request, Calls
  <1>3. CASE Export \/ WriteCertificate \/ WriteKey \/ RemoveTags \/ AddTags \/ UpdateOptions
    BY <1>1, <1>3 DEF Export, WriteCertificate, WriteKey, RemoveTags, AddTags, UpdateOptions, Calls
  <1>4. CASE PatchSpec \/ PatchStatus \/ Delete \/ MarkUnmanaged
    BY <1>1, <1>4 DEF PatchSpec, PatchStatus, Delete, MarkUnmanaged, Calls, Bounded
  <1>5. CASE Environment
    BY <1>5 DEF Environment, Crash, EditSpec, DeleteResource, CreateSecret, Validate, Renew,
       Expire, Vanish, SetAwsTag, Bounded
  <1> QED BY <1>2, <1>3, <1>4, <1>5 DEF Next, Reconcile, Rest, vars

(* No count goes back. *)
LEMMA BudgetGrows ==
  ASSUME TypeOK, [Next]_vars
  PROVE  \A k \in Bounded : budget[k] <= budget'[k] /\ (budget'[k] = 0 => budget[k] = 0)
  <1>1. CASE UNCHANGED budget
    BY <1>1 DEF TypeOK
  <1>2. ASSUME NEW k \in Bounded, Spend(k)
        PROVE  \A j \in Bounded : budget[j] <= budget'[j] /\ (budget'[j] = 0 => budget[j] = 0)
    BY <1>2, SpendGrows DEF TypeOK
  <1> QED BY <1>1, <1>2, BudgetStep DEF vars

(* Serial numbers are used one after the other. *)
LEMMA SerialsGrow ==
  ASSUME TypeOK, [Next]_vars
  PROVE  serials' \in Nat /\ serials' \in {serials, serials + 1}
  <1>1. serials \in Nat
    BY DEF TypeOK
  <1>2. serials' \in {serials, serials + 1}
    BY DEF Next, Reconcile, Start, Describe, ListTags, MarkManaged, RefuseCreate, Import,
       Request, Export, WriteCertificate, WriteKey, RemoveTags, AddTags, UpdateOptions,
       PatchSpec, PatchStatus, Delete, MarkUnmanaged, Environment, Crash, EditSpec,
       DeleteResource, CreateSecret, Validate, Renew, Expire, Vanish, SetAwsTag, Rest, vars
  <1> QED BY <1>1, <1>2

-----------------------------------------------------------------------------
(* Certificates *)

(* What may become of a certificate that stays in ACM, unless it is         *)
(* replaced by an import.                                                   *)
Ages(c, d) ==
  /\ d.exportable = c.exportable
  /\ d.type = c.type
  /\ d.keyAlgorithm = c.keyAlgorithm
  /\ \/ d.serial = c.serial /\ d.status = c.status
     \/ d.serial = c.serial /\ c.status = "PENDING_VALIDATION" /\ d.status = "FAILED"
     \/ d.serial = c.serial /\ c.status = "ISSUED" /\ d.status = "EXPIRED" /\ budget'["expire"] > 0
     \/ /\ d.serial = serials + 1
        /\ serials' = serials + 1
        /\ c.status \in {"PENDING_VALIDATION", "ISSUED"}
        /\ d.status = "ISSUED"

(* A step changes one certificate, which ages, or goes when the resource is *)
(* deleted or somebody else deletes it.                                     *)
OneAges ==
  \/ UNCHANGED acm
  \/ \E id \in CertIds :
       /\ Live(id)
       /\ \/ /\ acm' = [acm EXCEPT ![id] = Gone]
             /\ pc = "delete" \/ Spend("vanish")
          \/ \E d \in AcmCertificate :
               /\ acm' = [acm EXCEPT ![id] = d]
               /\ Ages(acm[id], d)

(* A certificate with other tags ages, one with other options too. *)
LEMMA TagsAge ==
  ASSUME TypeOK, NEW id \in CertIds, Live(id), NEW t \in TagMap
  PROVE  /\ [acm[id] EXCEPT !.tags = t] \in AcmCertificate
         /\ Ages(acm[id], [acm[id] EXCEPT !.tags = t])
  <1>1. acm[id] \in AcmCertificate
    BY DEF TypeOK, Live
  <1> QED BY <1>1 DEF AcmCertificate, Ages

(* An update of the options only makes a certificate older (Ages).           *)
LEMMA OptionsAge ==
  ASSUME TypeOK, NEW id \in CertIds, Live(id), NEW o \in Opt(OptionValues)
  PROVE  /\ [acm[id] EXCEPT !.options = o] \in AcmCertificate
         /\ Ages(acm[id], [acm[id] EXCEPT !.options = o])
  <1>1. acm[id] \in AcmCertificate
    BY DEF TypeOK, Live
  <1> QED BY <1>1 DEF AcmCertificate, Ages

(* The calls of an update age the certificate of the desired resource. *)
LEMMA UpdateAges ==
  ASSUME IInv, RemoveTags \/ AddTags \/ UpdateOptions
  PROVE  OneAges
  <1> DEFINE id == desired.status.arn
  <1>1. /\ TypeOK /\ id \in CertIds
        /\ desired.spec.tags \in TagMap /\ desired.spec.options \in Opt(OptionValues)
    BY DEF IInv, RemoveTags, AddTags, UpdateOptions, MemoryOK, OnCertificate, Resource,
       CertificateSpec
  <1>2. Live(id) => acm[id].tags \in TagMap
    BY <1>1 DEF TypeOK, Live, AcmCertificate
  <1>3. CASE UNCHANGED acm
    BY <1>3 DEF OneAges
  <1>4. CASE RemoveTags /\ ~UNCHANGED acm
    <2> DEFINE removed == toDelete(desired.spec.tags, latest.spec.tags)
               t == [k \in TagKeys |-> IF k \in removed THEN Nil ELSE acm[id].tags[k]]
    <2>1. Live(id) /\ acm' = [acm EXCEPT ![id] = [acm[id] EXCEPT !.tags = t]]
      BY <1>4 DEF RemoveTags
    <2>2. t \in TagMap
      BY <1>2, <2>1 DEF TagMap, Opt
    <2> HIDE DEF id, t
    <2> QED BY <1>1, <2>1, <2>2, TagsAge DEF OneAges
  <1>5. CASE AddTags /\ ~UNCHANGED acm
    <2> DEFINE added == toAdd(desired.spec.tags, latest.spec.tags)
               t == [k \in TagKeys |-> IF k \in added THEN desired.spec.tags[k]
                                                      ELSE acm[id].tags[k]]
    <2>1. Live(id) /\ acm' = [acm EXCEPT ![id] = [acm[id] EXCEPT !.tags = t]]
      BY <1>5 DEF AddTags
    <2>2. t \in TagMap
      BY <1>1, <1>2, <2>1 DEF TagMap
    <2> HIDE DEF id, t
    <2> QED BY <1>1, <2>1, <2>2, TagsAge DEF OneAges
  <1>6. CASE UpdateOptions /\ ~UNCHANGED acm
    <2>1. /\ Live(id)
          /\ acm' = [acm EXCEPT ![id] = [acm[id] EXCEPT !.options = desired.spec.options]]
      BY <1>6 DEF UpdateOptions
    <2> DEFINE o == desired.spec.options
    <2> HIDE DEF id, o
    <2> QED BY <1>1, <2>1, OptionsAge DEF OneAges, o
  <1> QED BY <1>3, <1>4, <1>5, <1>6

(* So do ACM and the services of AWS. *)
LEMMA AcmAges ==
  ASSUME IInv, NEW id \in CertIds,
         Validate(id) \/ Renew(id) \/ Expire(id) \/ Vanish(id) \/ SetAwsTag(id)
  PROVE  OneAges
  <1>1. /\ TypeOK /\ Live(id) /\ acm[id] \in AcmCertificate
        /\ serials \in Nat /\ acm[id].tags \in TagMap
        /\ {"ISSUED", "FAILED", "EXPIRED"} \subseteq CertStates
    BY DEF IInv, TypeOK, Validate, Renew, Expire, Vanish, SetAwsTag, Live, AcmCertificate,
       CertStates
  <1>2. CASE Validate(id)
    <2> DEFINE issued == [acm[id] EXCEPT !.status = "ISSUED", !.serial = serials + 1]
               failed == [acm[id] EXCEPT !.status = "FAILED"]
    <2>1. issued \in AcmCertificate /\ failed \in AcmCertificate
      <3>1. serials + 1 \in Nat
        BY <1>1
      <3> QED BY <1>1, <3>1 DEF AcmCertificate
    <2>2. \/ acm' = [acm EXCEPT ![id] = issued] /\ serials' = serials + 1
          \/ acm' = [acm EXCEPT ![id] = failed]
      BY <1>1, <1>2 DEF Validate, TypeOK
    <2>3. acm[id].status = "PENDING_VALIDATION"
      BY <1>2 DEF Validate
    <2>4. serials' = serials + 1 => Ages(acm[id], issued)
      BY <1>1, <2>3 DEF Ages, AcmCertificate
    <2>5. Ages(acm[id], failed)
      BY <1>1, <2>3 DEF Ages, AcmCertificate
    <2> HIDE DEF issued, failed
    <2> QED BY <1>1, <2>1, <2>2, <2>4, <2>5 DEF OneAges
  <1>3. CASE Renew(id)
    <2> DEFINE d == [acm[id] EXCEPT !.serial = serials + 1]
    <2>1. d \in AcmCertificate
      BY <1>1 DEF AcmCertificate
    <2>2. acm' = [acm EXCEPT ![id] = d] /\ serials' = serials + 1 /\ acm[id].status = "ISSUED"
      BY <1>3 DEF Renew
    <2>3. Ages(acm[id], d)
      BY <1>1, <2>2 DEF Ages, AcmCertificate
    <2> QED BY <1>1, <2>1, <2>2, <2>3 DEF OneAges
  <1>4. CASE Expire(id)
    <2> DEFINE d == [acm[id] EXCEPT !.status = "EXPIRED"]
    <2>1. d \in AcmCertificate
      BY <1>1 DEF AcmCertificate
    <2>2. acm' = [acm EXCEPT ![id] = d] /\ acm[id].status = "ISSUED" /\ Spend("expire")
      BY <1>4 DEF Expire
    <2>3. budget'["expire"] > 0
      <3>1. "expire" \in Bounded
        BY DEF Bounded
      <3> QED BY <1>1, <2>2, <3>1, SpendGrows DEF TypeOK
    <2>4. Ages(acm[id], d)
      BY <1>1, <2>2, <2>3 DEF Ages, AcmCertificate
    <2> QED BY <1>1, <2>1, <2>2, <2>4 DEF OneAges
  <1>5. CASE Vanish(id)
    BY <1>1, <1>5 DEF Vanish, OneAges
  <1>6. CASE SetAwsTag(id)
    <2>1. PICK k \in AwsTagKeys, v \in TagValues \cup {Nil} : acm' = [acm EXCEPT ![id].tags[k] = v]
      BY <1>6 DEF SetAwsTag
    <2> DEFINE t == [acm[id].tags EXCEPT ![k] = v]
    <2>2. t \in TagMap
      BY <1>1, DataAssumption DEF TagMap, Opt
    <2>3. acm' = [acm EXCEPT ![id] = [acm[id] EXCEPT !.tags = t]]
      BY <2>1
    <2> HIDE DEF t
    <2> QED BY <1>1, <2>2, <2>3, TagsAge DEF OneAges
  <1> QED BY <1>2, <1>3, <1>4, <1>5, <1>6

(* Every step but a create ages certificates. *)
LEMMA NextAges ==
  ASSUME IInv, Next, ~Import, ~Request
  PROVE  OneAges
  <1>1. TypeOK
    BY DEF IInv
  <1>2. CASE RemoveTags \/ AddTags \/ UpdateOptions
    BY <1>2, UpdateAges
  <1>3. CASE Delete
    <2>1. latest.status.arn \in CertIds
      BY <1>3 DEF Delete, IInv, MemoryOK, OnCertificate
    <2> QED BY <1>3, <2>1 DEF Delete, OneAges
  <1>4. CASE \/ Start \/ Describe \/ ListTags \/ MarkManaged \/ RefuseCreate
             \/ Export \/ WriteCertificate \/ WriteKey \/ PatchSpec \/ PatchStatus \/ MarkUnmanaged
             \/ Crash \/ EditSpec \/ DeleteResource \/ CreateSecret \/ Rest
    <2>1. UNCHANGED acm
      BY <1>4 DEF Start, Describe, ListTags, MarkManaged, RefuseCreate,
         Export, WriteCertificate, WriteKey, PatchSpec, PatchStatus, MarkUnmanaged,
         Crash, EditSpec, DeleteResource, CreateSecret, Rest, vars
    <2> QED BY <2>1 DEF OneAges
  <1> QED BY <1>2, <1>3, <1>4, AcmAges DEF Next, Reconcile, Environment

(* Seen from one ARN: a certificate that is there was there and has aged.   *)
LEMMA LiveAges ==
  ASSUME IInv, Next, ~Import, ~Request, NEW id \in CertIds, Live(id)'
  PROVE  Live(id) /\ (acm'[id] = acm[id] \/ Ages(acm[id], acm'[id]))
  BY NextAges, ControllerAssumption DEF OneAges, Live, IInv, TypeOK

(* What a read found is a resource with the status of its first call. *)
LEMMA FoundType ==
  ASSUME TypeOK, NEW o \in Resource, NEW id \in CertIds, Live(id)
  PROVE  /\ [o EXCEPT !.spec.tags = acm[id].tags] \in Resource
         /\ [o EXCEPT !.spec.tags = acm[id].tags].status = o.status
  <1>1. acm[id].tags \in TagMap /\ o.spec \in CertificateSpec
    BY DEF TypeOK, Live, AcmCertificate, Resource
  <1>2. [o.spec EXCEPT !.tags = acm[id].tags] \in CertificateSpec
    BY <1>1, SpecWithTags
  <1>3. [o EXCEPT !.spec.tags = acm[id].tags]
          = [o EXCEPT !.spec = [o.spec EXCEPT !.tags = acm[id].tags]]
    OBVIOUS
  <1> QED BY <1>2, <1>3 DEF Resource

(* A create makes one certificate, new or over the one it was told to       *)
(* replace, or none.                                                        *)
LEMMA CreateStep ==
  ASSUME IInv, Import \/ Request
  PROVE  /\ pc = "create" /\ UNCHANGED <<cr, secret, queued, desired, observed, exported>>
         /\ \/ \E id \in CertIds :
                 /\ acm[id] = Unused \/ Live(id)
                 /\ \E c \in AcmCertificate :
                      /\ acm' = [acm EXCEPT ![id] = c]
                      /\ \/ c.serial = 0 /\ c.status = "PENDING_VALIDATION" /\ serials' = serials
                         \/ c.serial = serials + 1 /\ c.status = "ISSUED" /\ serials' = serials + 1
                      /\ c.keyAlgorithm # Nil
                      /\ c.exportable => c.type # "IMPORTED"
                      /\ c.serial > 0 => ~c.exportable
                 /\ \/ /\ pc' = "describe" /\ caller' = "create" /\ outcome' = outcome
                       /\ latest' = [desired EXCEPT !.status.arn = id]
                       /\ UNCHANGED budget
                    \/ /\ pc' = "patchStatus" /\ latest' = desired /\ outcome' = "error"
                       /\ Spend("lost")
            \/ /\ pc' = "patchStatus" /\ latest' = desired /\ outcome' # "ok"
               /\ UNCHANGED <<acm, serials>>
  <1>1. /\ TypeOK /\ desired \in Resource /\ pc = "create" /\ serials \in Nat
        /\ desired.spec \in CertificateSpec /\ desired.spec.tags \in TagMap
    BY DEF IInv, MemoryOK, Import, Request, Resource, CertificateSpec, TypeOK
  <1>2. \A call \in Calls : Fails(call, desired)
          => pc' = "patchStatus" /\ latest' = desired /\ outcome' # "ok"
    BY <1>1, FailsStep
  <1>3. \A call \in Calls : LosesReply(call, desired)
          => pc' = "patchStatus" /\ latest' = desired /\ outcome' = "error" /\ Spend("lost")
    BY DEF LosesReply, Finish
  <1>4. CASE Import
    <2>1. ASSUME NEW id \in CertIds, NEW t \in TagMap,
                 acm' = [acm EXCEPT ![id] = importedCertificate(t)]
          PROVE  \E c \in AcmCertificate :
                      /\ acm' = [acm EXCEPT ![id] = c]
                      /\ c.serial = serials + 1 /\ c.status = "ISSUED"
                      /\ c.keyAlgorithm # Nil /\ ~c.exportable
      <3>1. importedCertificate(t) \in AcmCertificate
        BY <1>1, importedCertificateType
      <3>2. /\ importedCertificate(t).serial = serials + 1
            /\ importedCertificate(t).status = "ISSUED"
            /\ importedCertificate(t).keyAlgorithm # Nil /\ ~importedCertificate(t).exportable
        BY DataAssumption, ControllerAssumption DEF importedCertificate
      <3> QED BY <2>1, <3>1, <3>2
    <2>2. ASSUME NEW id \in CertIds,
                 IF desired.spec.certificateARN = Nil
                   THEN NextArn(id) /\ ~TooManyTags(desired.spec.tags)
                   ELSE id = desired.spec.certificateARN /\ Live(id)
          PROVE  /\ acm[id] = Unused \/ Live(id)
                 /\ (IF desired.spec.certificateARN = Nil THEN desired.spec.tags
                                                          ELSE acm[id].tags) \in TagMap
      BY <1>1, <2>2 DEF NextArn, Live, TypeOK, AcmCertificate
    <2> QED BY <1>1, <1>2, <1>3, <1>4, <2>1, <2>2 DEF Import, Goto, Finish, Calls
  <1>5. CASE Request
    <2>1. /\ requestedCertificate(desired.spec) \in AcmCertificate
          /\ requestedCertificate(desired.spec).serial = 0
          /\ requestedCertificate(desired.spec).status = "PENDING_VALIDATION"
          /\ requestedCertificate(desired.spec).type # "IMPORTED"
      BY <1>1, requestedCertificateType DEF requestedCertificate
    <2>2. requestedCertificate(desired.spec).keyAlgorithm # Nil
      BY <1>1, DataAssumption, ControllerAssumption
         DEF requestedCertificate, orDefault, CertificateSpec, Opt
    <2> QED BY <1>1, <1>2, <1>3, <1>5, <2>1, <2>2 DEF Request, NextArn, Goto, Finish, Calls
  <1> QED BY <1>4, <1>5

-----------------------------------------------------------------------------
(* ARNs *)

(* These steps go on with the certificate they work on, or end with it.     *)
OnSameCertificate ==
  \/ Describe \/ ListTags \/ MarkManaged \/ RefuseCreate
  \/ Export \/ WriteCertificate \/ WriteKey
  \/ RemoveTags \/ AddTags \/ UpdateOptions
  \/ PatchSpec \/ Delete
  \/ /\ MarkUnmanaged
     /\ cr' = cr

(* Steps about the certificate at hand leave the recorded and held ARNs.     *)
LEMMA SameArns ==
  ASSUME IInv, OnSameCertificate
  PROVE  /\ cr'.status = cr.status /\ cr'.exists = cr.exists
         /\ pc # "idle" /\ pc' # "idle" /\ latest'.status.arn = latest.status.arn
  <1>1. TypeOK /\ MemoryOK
    BY DEF IInv
  <1>2. \A call \in Calls : \A r : Fails(call, r) \/ LosesReply(call, r)
          => pc' = "patchStatus" /\ latest' = r
    BY DEF Fails, LosesReply, Finish
  <1>3. CASE Describe \/ RefuseCreate \/ Delete \/ Export \/ WriteCertificate
    BY <1>1, <1>2, <1>3 DEF Describe, RefuseCreate, Delete, Export, WriteCertificate, NotFound,
       Goto, Finish, MemoryOK, Calls
  <1>4. CASE MarkManaged
    BY <1>1, <1>2, <1>4 DEF MarkManaged, Goto, Finish, MemoryOK, Calls, IInv, Provenance, Recorded,
       TypeOK
  <1>5. CASE WriteKey \/ UpdateOptions
    <2>1. /\ desired \in Resource /\ latest \in Resource
          /\ desired.status.arn = latest.status.arn
      BY <1>1, <1>5 DEF WriteKey, UpdateOptions, MemoryOK
    <2> QED BY <1>2, <1>5, <2>1, withExportedStatusType
            DEF WriteKey, UpdateOptions, LateInitialize, Goto, Finish, Calls
  <1>6. CASE RemoveTags \/ AddTags
    <2>1. /\ desired \in Resource /\ latest \in Resource
          /\ desired.status.arn = latest.status.arn
      BY <1>1, <1>6 DEF RemoveTags, AddTags, MemoryOK
    <2>2. UpdateBehindTags(desired, latest)
            => pc' # "idle" /\ latest'.status.arn = latest.status.arn
      BY <2>1, UpdateBehindTagsStep
    <2> QED BY <1>2, <1>6, <2>2 DEF RemoveTags, AddTags, Goto, Finish, Calls
  <1>7. CASE PatchSpec \/ (MarkUnmanaged /\ cr' = cr)
    <2>1. PatchSpec => observed.status.arn = latest.status.arn
      BY <1>1 DEF PatchSpec, MemoryOK
    <2>2. MarkUnmanaged /\ cr' = cr => cr'.exists = cr.exists /\ Fails("MarkUnmanaged", latest)
      BY <1>1 DEF MarkUnmanaged, IInv, Managed, OnManaged, TypeOK
    <2> QED BY <1>1, <1>2, <1>7, <2>1, <2>2 DEF PatchSpec, MarkUnmanaged, Finish, Calls, TypeOK
  <1>8. CASE ListTags
    <2> DEFINE found == [observed EXCEPT !.spec.tags = acm[latest.status.arn].tags]
    <2>1. /\ desired \in Resource /\ latest \in Resource /\ observed \in Resource
          /\ latest.status.arn \in CertIds /\ observed.status.arn = latest.status.arn
          /\ caller = "sync" => desired.status.arn = latest.status.arn
          /\ pc = "listTags" /\ UNCHANGED cr
      BY <1>1, <1>8 DEF ListTags, MemoryOK, OnCertificate
    <2>2. CASE Live(latest.status.arn) /\
               (\/ ReadForSync(found) \/ ReadForCreate(found)
                \/ ReadForLateInitialization(found) \/ ReadForDelete(found))
      <3>1. found \in Resource /\ found.status = observed.status
        BY <1>1, <2>1, <2>2, FoundType
      <3> HIDE DEF found
      <3>2. CASE ReadForSync(found)
        <4>1. /\ mirrorAWSTags(desired, found) \in Resource
              /\ mirrorAWSTags(desired, found).status = desired.status
          BY <2>1, <3>1, mirrorAWSTagsType
        <4>2. Update(mirrorAWSTags(desired, found), found) /\ caller = "sync"
          BY <3>2 DEF ReadForSync
        <4> QED BY <2>1, <3>1, <4>1, <4>2, UpdateStep
      <3>3. CASE ReadForCreate(found)
        BY <2>1, <3>1, <3>3 DEF ReadForCreate, LateInitialize, Goto, Resource
      <3>4. CASE ReadForLateInitialization(found)
        <4>1. lateInitializeFromReadOneOutput(found, latest).status = latest.status
          BY <2>1, <3>1, lateInitializeType
        <4> QED BY <2>1, <3>4, <4>1 DEF ReadForLateInitialization, Goto, Finish
      <3>5. CASE ReadForDelete(found)
        BY <2>1, <3>1, <3>5 DEF ReadForDelete, Goto
      <3> QED BY <2>2, <3>2, <3>3, <3>4, <3>5
    <2>3. CASE Finish(latest, "error") \/ Fails("ListTagsForCertificate", latest)
      BY <1>2, <2>1, <2>3 DEF Finish, Calls
    <2> QED BY <1>8, <2>2, <2>3 DEF ListTags
  <1> QED BY <1>3, <1>4, <1>5, <1>6, <1>7, <1>8 DEF OnSameCertificate

(* What users and ACM do leaves the reconcile and the status alone. *)
LEMMA OutsideStep ==
  ASSUME IInv, Environment, ~Crash
  PROVE  /\ UNCHANGED <<pc, memory>> /\ cr'.status = cr.status
         /\ cr'.deleting = cr.deleting \/ cr'.deleting
         /\ ~DeleteResource => cr'.exists = cr.exists
         /\ cr'.spec = cr.spec \/ EditSpec
         /\ secret'.crt = secret.crt /\ secret'.key = secret.key
         /\ secret.exists => secret'.exists
  <1>1. TypeOK
    BY DEF IInv
  <1>2. CASE EditSpec
    <2>1. PICK f \in DOMAIN Edits : \E v \in Edits[f] \ {cr.spec[f]} :
            cr' = [cr EXCEPT !.spec[f] = v]
      BY <1>2 DEF EditSpec
    <2>2. PICK v \in Edits[f] : cr' = [cr EXCEPT !.spec = [cr.spec EXCEPT ![f] = v]]
      BY <2>1
    <2>3. cr'.status = cr.status /\ cr'.deleting = cr.deleting /\ cr'.exists = cr.exists
      BY <1>1, <2>2 DEF TypeOK
    <2> QED BY <1>2, <2>3 DEF EditSpec
  <1>3. CASE DeleteResource
    BY <1>1, <1>3 DEF DeleteResource, TypeOK
  <1>4. CASE CreateSecret
    BY <1>1, <1>4 DEF CreateSecret, TypeOK
  <1>5. ASSUME NEW id \in CertIds,
               Validate(id) \/ Renew(id) \/ Expire(id) \/ Vanish(id) \/ SetAwsTag(id)
        PROVE  UNCHANGED <<cr, secret, pc, memory>>
    BY <1>5 DEF Validate, Renew, Expire, Vanish, SetAwsTag
  <1> QED BY <1>2, <1>3, <1>4, <1>5 DEF Environment

(* A lost reply and a crash are counted. *)
LEMMA LossIsCounted ==
  ASSUME TypeOK, NEW k \in Bounded, Spend(k)
  PROVE  budget'[k] # 0
  BY SpendGrows DEF TypeOK

-----------------------------------------------------------------------------
(* Every certificate is recorded *)

(* Nothing is left in ACM when the controller is about to create.           *)
LEMMA NoneBeforeCreate ==
  ASSUME IInv, pc = "create", NEW id \in CertIds, id \in {Recorded, InMemory}
  PROVE  ~Live(id)
  BY DataAssumption DEF IInv, Managed, OnManaged, MemoryOK, Provenance, InMemory, Recorded, IsLive

(* One step: what was recorded or in memory is recorded or in memory        *)
(* afterwards, and so is what the step made.                                *)
LEMMA EveryCertificateStep ==
  ASSUME IInv, EveryCertificateRecorded, [Next]_vars
  PROVE  EveryCertificateRecorded'
  <1> SUFFICES ASSUME budget'["lost"] = 0, budget'["crash"] = 0,
                      NEW id \in CertIds, Live(id)', InitAcm[id] = Unused
               PROVE  cr'.exists /\ id \in {Recorded', InMemory'}
    BY DEF EveryCertificateRecorded
  <1>1. /\ TypeOK /\ {"lost", "crash"} \subseteq Bounded
        /\ id # Nil /\ budget["lost"] = 0 /\ budget["crash"] = 0
        /\ ~Spend("lost") /\ ~Spend("crash")
    BY BudgetGrows, LossIsCounted, DataAssumption DEF IInv, Bounded
  <1>2. Live(id) => cr.exists /\ id \in {Recorded, InMemory}
    BY <1>1 DEF EveryCertificateRecorded
  <1>3. CASE Import \/ Request
    <2>1. pc = "create"
      BY <1>3, CreateStep
    <2>2. ~Live(id)
      BY <1>2, <2>1, NoneBeforeCreate
    <2>3. acm' # acm
      BY <2>2 DEF Live
    <2>4. PICK j \in CertIds, c \in AcmCertificate :
            /\ acm' = [acm EXCEPT ![j] = c]
            /\ pc' = "describe" /\ latest' = [desired EXCEPT !.status.arn = j]
      BY <1>1, <1>3, <2>3, CreateStep
    <2>5. j = id
      BY <1>1, <2>2, <2>4 DEF Live, TypeOK
    <2>6. latest'.status.arn = id
      BY <2>1, <2>4, <2>5 DEF IInv, MemoryOK, Resource, CertificateStatus
    <2>7. cr'.exists
      BY <1>3, <2>1, CreateStep, CreateIsManaged
    <2> QED BY <2>4, <2>6, <2>7 DEF InMemory
  <1>4. CASE UNCHANGED vars
    BY <1>2, <1>4 DEF vars, memory, Live, InMemory, Recorded
  <1>5. CASE Next /\ ~Import /\ ~Request
    <2>1. Live(id) /\ cr.exists /\ id \in {Recorded, InMemory}
      BY <1>2, <1>5, LiveAges
    <2>2. CASE Start
      <3>1. InMemory = Nil /\ cr' = cr
        BY <2>2 DEF Start, InMemory
      <3> QED BY <1>1, <2>1, <3>1 DEF Recorded
    <2>3. CASE PatchStatus
      <3>1. cr' = [cr EXCEPT !.status = latest.status]
        BY <1>1, <2>1, <2>3 DEF PatchStatus
      <3>2. id = latest.status.arn
        BY <1>1, <2>1, <2>3 DEF PatchStatus, IInv, Provenance, InMemory, IsLive
      <3> QED BY <1>1, <2>1, <3>1, <3>2 DEF Recorded, TypeOK
    <2>4. CASE MarkUnmanaged /\ cr' # cr
      BY <1>1, <2>1, <2>4 DEF MarkUnmanaged, IInv, Provenance, Managed, OnManaged, InMemory, IsLive
    <2>5. CASE Crash
      BY <1>1, <2>5 DEF Crash
    <2>6. CASE DeleteResource
      <3>1. cr.finalizer
        BY <1>1, <2>1 DEF IInv, Managed, MemoryOK, TypeOK, Pcs, InMemory, OnManaged, OnCertificate
      <3>2. cr'.exists /\ cr'.status = cr.status /\ UNCHANGED <<pc, memory>>
        BY <1>1, <2>1, <2>6, <3>1 DEF DeleteResource, TypeOK
      <3> QED BY <2>1, <3>2 DEF Recorded, InMemory, memory
    <2>7. CASE Environment /\ ~Crash /\ ~DeleteResource
      <3>1. UNCHANGED <<pc, memory>> /\ cr'.status = cr.status /\ cr'.exists = cr.exists
        BY <2>7, OutsideStep
      <3> QED BY <2>1, <3>1 DEF Recorded, InMemory, memory
    <2>8. CASE OnSameCertificate
      <3>1. /\ cr'.status = cr.status /\ cr'.exists = cr.exists
            /\ pc # "idle" /\ pc' # "idle" /\ latest'.status.arn = latest.status.arn
        BY <2>8, SameArns
      <3> QED BY <2>1, <3>1 DEF Recorded, InMemory
    <2>9. CASE Rest
      BY <1>4, <2>9 DEF Rest
    <2> QED BY <1>5, <2>2, <2>3, <2>4, <2>5, <2>6, <2>7, <2>8, <2>9
           DEF Next, Reconcile, OnSameCertificate
  <1> QED BY <1>3, <1>4, <1>5

(* As long as no reply of a create, no status patch and no process is lost, *)
(* every certificate the controller made is recorded or in the hands of the *)
(* reconcile that will record it.                                           *)
THEOREM CertificatesAreRecorded == Spec => []EveryCertificateRecorded
  <1>1. Init => EveryCertificateRecorded
    BY DEF Init, EveryCertificateRecorded, Live
  <1> QED BY <1>1, EveryCertificateStep, InvariantCorrect, PTL DEF Spec

-----------------------------------------------------------------------------
(* The certificates the controller knows *)

(* Unless it creates one, a step leaves no ARN in memory or in the status   *)
(* that was not there.                                                      *)
LEMMA ArnsKept ==
  ASSUME IInv, [Next]_vars, ~Import, ~Request
  PROVE  {Recorded', InMemory'} \subseteq {Recorded, InMemory, Nil}
  <1>1. TypeOK
    BY DEF IInv
  <1>2. CASE Start
    BY <1>2 DEF Start, NotFound, Goto, Finish, Recorded, InMemory
  <1>3. CASE PatchStatus
    BY <1>1, <1>3 DEF PatchStatus, EndReconcile, Recorded, InMemory, TypeOK
  <1>4. CASE MarkUnmanaged /\ cr' # cr
    BY <1>1, <1>4 DEF MarkUnmanaged, EndReconcile, Recorded, InMemory, TypeOK
  <1>5. CASE Crash
    BY <1>5 DEF Crash, Recorded, InMemory
  <1>6. CASE Environment /\ ~Crash
    <2>1. UNCHANGED <<pc, memory>> /\ cr'.status = cr.status
      BY <1>6, OutsideStep
    <2> QED BY <2>1 DEF Recorded, InMemory, memory
  <1>7. CASE OnSameCertificate
    <2>1. /\ cr'.status = cr.status
          /\ pc # "idle" /\ pc' # "idle" /\ latest'.status.arn = latest.status.arn
      BY <1>7, SameArns
    <2> QED BY <2>1 DEF Recorded, InMemory
  <1>8. CASE UNCHANGED vars
    BY <1>8 DEF vars, memory, Recorded, InMemory
  <1> QED BY <1>2, <1>3, <1>4, <1>5, <1>6, <1>7, <1>8
         DEF Next, Reconcile, OnSameCertificate, Rest

(* The certificates the controller knows stay such as a request or an       *)
(* import makes them.                                                       *)
LEMMA KnownAreMadeHereStep ==
  ASSUME IInv, KnownAreMadeHere, [Next]_vars
  PROVE  KnownAreMadeHere'
  <1>1. /\ TypeOK /\ serials \in Nat /\ "expire" \in Bounded
        /\ serials' \in {serials, serials + 1}
        /\ budget'["expire"] \in Nat /\ budget["expire"] \in Nat
        /\ budget["expire"] <= budget'["expire"]
    BY SerialsGrow, BudgetGrows, NextIInv DEF IInv, TypeOK, Bounded
  <1>2. TypeOK' /\ MemoryOK'
    BY NextIInv DEF IInv
  <1> SUFFICES ASSUME NEW id \in CertIds, id \in {Recorded', InMemory'}, Live(id)'
               PROVE  MadeHere(acm[id])'
    BY <1>2 DEF KnownAreMadeHere, IsLive, TypeOK, MemoryOK, Recorded, InMemory, Resource,
                CertificateStatus, Opt
  <1>3. CASE Import \/ Request
    <2>1. pc = "create" /\ Recorded' = Recorded
      BY <1>3, CreateStep DEF Recorded
    <2>2. desired.status.arn = Recorded /\ ~IsLive(Recorded)
      BY <2>1, CreateIsManaged DEF IInv, Provenance
    <2>3. desired \in Resource
      BY <2>1 DEF IInv, MemoryOK
    <2>4. CASE UNCHANGED acm /\ latest' = desired
      BY <2>1, <2>2, <2>4, DataAssumption DEF InMemory, IsLive, Live
    <2>5. ASSUME NEW j \in CertIds, NEW c \in AcmCertificate,
                 acm' = [acm EXCEPT ![j] = c],
                 \/ c.serial = 0 /\ c.status = "PENDING_VALIDATION" /\ serials' = serials
                 \/ c.serial = serials + 1 /\ c.status = "ISSUED" /\ serials' = serials + 1,
                 c.keyAlgorithm # Nil, c.exportable => c.type # "IMPORTED",
                 latest'.status.arn \in {j, desired.status.arn}
          PROVE  MadeHere(acm[id])'
      <3>1. id # j => ~Live(id)'
        BY <1>1, <2>1, <2>2, <2>5, DataAssumption DEF InMemory, IsLive, Live, TypeOK
      <3>2. acm'[id] = c
        BY <1>1, <2>5, <3>1 DEF TypeOK
      <3> QED BY <1>1, <2>5, <3>2 DEF MadeHere
    <2>6. ASSUME NEW j \in CertIds
          PROVE  [desired EXCEPT !.status.arn = j].status.arn = j
      BY <2>3 DEF Resource, CertificateStatus
    <2>7. CASE \E j \in CertIds : \E c \in AcmCertificate :
                 /\ acm' = [acm EXCEPT ![j] = c]
                 /\ \/ c.serial = 0 /\ c.status = "PENDING_VALIDATION" /\ serials' = serials
                    \/ c.serial = serials + 1 /\ c.status = "ISSUED" /\ serials' = serials + 1
                 /\ c.keyAlgorithm # Nil
                 /\ c.exportable => c.type # "IMPORTED"
                 /\ latest' = desired \/ latest' = [desired EXCEPT !.status.arn = j]
      <3>1. PICK j \in CertIds, c \in AcmCertificate :
                 /\ acm' = [acm EXCEPT ![j] = c]
                 /\ \/ c.serial = 0 /\ c.status = "PENDING_VALIDATION" /\ serials' = serials
                    \/ c.serial = serials + 1 /\ c.status = "ISSUED" /\ serials' = serials + 1
                 /\ c.keyAlgorithm # Nil
                 /\ c.exportable => c.type # "IMPORTED"
                 /\ latest' = desired \/ latest' = [desired EXCEPT !.status.arn = j]
        BY <2>7
      <3>2. latest'.status.arn \in {j, desired.status.arn}
        BY <2>6, <3>1
      <3> QED BY <2>5, <3>1, <3>2
    <2> QED BY <1>3, <2>4, <2>7, CreateStep
  <1>4. CASE ~Import /\ ~Request
    <2>1. id \in {Recorded, InMemory} /\ Live(id)
      BY <1>4, ArnsKept, LiveAges, DataAssumption DEF vars, Live
    <2>2. MadeHere(acm[id])
      BY <2>1, DataAssumption DEF KnownAreMadeHere, IsLive
    <2>3. acm'[id] = acm[id] \/ Ages(acm[id], acm'[id])
      BY <1>4, LiveAges DEF vars
    <2>4. acm[id] \in AcmCertificate
      BY <1>1, <2>1 DEF TypeOK, Live
    <2> QED BY <1>1, <2>2, <2>3, <2>4 DEF MadeHere, Ages, AcmCertificate
  <1> QED BY <1>3, <1>4

-----------------------------------------------------------------------------
(* How each step continues *)

(* The reconcile ends with r, and not well. *)
Ends(r) == pc' = "patchStatus" /\ caller' = caller /\ latest' = r /\ outcome' # "ok"

(* A failure ends a reconcile, or leads to the patch of the status.          *)
LEMMA FailsEnds ==
  ASSUME TypeOK, NEW call \in Calls, NEW r, Fails(call, r) \/ LosesReply(call, r)
  PROVE  /\ Ends(r)
         /\ call \in ExportCalls /\ Fails(call, r) => budget'["exportFault"] # 0
  <1>1. /\ Fails(call, r) => Spend(IF call \in ExportCalls THEN "exportFault" ELSE "fault")
        /\ {"exportFault", "fault"} \subseteq Bounded
    BY DEF Fails, Bounded
  <1> QED BY <1>1, FailsStep, LosesReplyStep, LossIsCounted DEF Ends

(* What a start changes.                                                     *)
LEMMA StartStep ==
  ASSUME IInv, Start
  PROVE  /\ pc = "idle" /\ pc' \in {"describe", "create", "manage", "unmanage"}
         /\ caller' \in {"sync", "delete"}
         /\ desired' = latest' /\ desired' \in Resource /\ desired'.status = cr.status
         /\ desired'.spec = IF cr.deleting THEN cr.spec
                                           ELSE [cr.spec EXCEPT !.tags = EnsureTags(cr.spec.tags)]
         /\ pc' \in {"describe", "listTags"} /\ caller' = "sync" => ~cr.deleting
         /\ UNCHANGED <<cr, acm, serials, secret, observed, exported, budget>>
  <1>1. TypeOK
    BY DEF IInv
  <1> QED BY <1>1, ReadType DEF Start, NotFound, Goto, Finish

(* What a DescribeCertificate changes, and where it leads.                   *)
LEMMA DescribeStep ==
  ASSUME IInv, Describe
  PROVE  /\ pc = "describe" /\ latest' = latest
         /\ UNCHANGED <<cr, acm, serials, secret, desired, exported>>
         /\ \/ /\ Live(latest.status.arn) /\ pc' = "listTags" /\ caller' = caller
               /\ observed' = sdkFind(latest, latest.status.arn, acm[latest.status.arn])
            \/ /\ ~Live(latest.status.arn) /\ pc' \in {"create", "manage"} /\ caller = "sync"
            \/ /\ ~Live(latest.status.arn) /\ pc' = "unmanage" /\ caller = "delete"
            \/ Ends(latest)
  <1>1. TypeOK
    BY DEF IInv
  <1>2. Fails("DescribeCertificate", latest) => Ends(latest)
    BY <1>1, FailsEnds DEF Calls
  <1> QED BY <1>2 DEF Describe, NotFound, Goto, Finish, Ends

(* What a read found when it lists the tags. *)
FoundNow == [observed EXCEPT !.spec.tags = acm[latest.status.arn].tags]

(* What the end of a read changes, and where it leads.                       *)
LEMMA ListTagsStep ==
  ASSUME IInv, ListTags
  PROVE  /\ pc = "listTags"
         /\ UNCHANGED <<cr, acm, serials, secret, exported>>
         /\ \/ /\ Live(latest.status.arn) /\ FoundNow \in Resource /\ UNCHANGED budget
               /\ FoundNow.status = observed.status
               /\ FoundNow.spec = [observed.spec EXCEPT !.tags = acm[latest.status.arn].tags]
               /\ \/ ReadForSync(FoundNow) \/ ReadForCreate(FoundNow)
                  \/ ReadForLateInitialization(FoundNow) \/ ReadForDelete(FoundNow)
            \/ Ends(latest) /\ desired' = desired
  <1>1. TypeOK /\ pc = "listTags"
    BY DEF IInv, ListTags
  <1>2. observed \in Resource /\ latest.status.arn \in CertIds
    BY <1>1 DEF IInv, MemoryOK, OnCertificate
  <1>3. Fails("ListTagsForCertificate", latest) \/ Finish(latest, "error") => Ends(latest)
    BY <1>1, FailsEnds DEF Calls, Finish, Ends
  <1>4. Live(latest.status.arn)
          => /\ FoundNow \in Resource /\ FoundNow.status = observed.status
             /\ FoundNow.spec = [observed.spec EXCEPT !.tags = acm[latest.status.arn].tags]
    <2>1. observed.spec \in CertificateSpec
      BY <1>2 DEF Resource
    <2>2. FoundNow = [observed EXCEPT !.spec = [observed.spec EXCEPT !.tags = acm[latest.status.arn].tags]]
      BY DEF FoundNow
    <2>3. FoundNow.spec = [observed.spec EXCEPT !.tags = acm[latest.status.arn].tags]
      BY <1>2, <2>2 DEF Resource
    <2> QED BY <1>1, <1>2, <2>3, FoundType DEF FoundNow
  <1> QED BY <1>1, <1>3, <1>4 DEF ListTags, FoundNow

(* An update exports exactly when an export is due. *)
LEMMA UpdateDue ==
  ASSUME NEW a \in Resource, NEW b \in Resource, Update(a, b)
  PROVE  /\ \/ /\ pc' = "describe" /\ caller' = "late" /\ ~ExportDue(a, b)
               /\ latest' \in {a, b}
            \/ /\ pc' = "export" /\ caller' = "sync" /\ ExportDue(a, b) /\ latest' = b
            \/ /\ pc' \in {"removeTags", "addTags"} /\ caller' = "sync"
               /\ ~ExportDue(a, b) /\ latest' = b
            \/ /\ pc' = "updateOptions" /\ caller' = "sync" /\ ~ExportDue(a, b) /\ latest' = b
            \/ /\ Ends(b) /\ ~ExportDue(a, b)
  <1>1. newResourceDelta(a, b) \cap {"issuedAt", "serial"} = compareCertificateIssuedAt(a, b)
    BY DEF newResourceDelta, compareCertificateIssuedAt, compareKeyAlgorithm, ComparedFields
  <1>2. newResourceDelta(a, b) = {} => newResourceDelta(a, b) \cap {"issuedAt", "serial"} = {}
    OBVIOUS
  <1>3. UpdateBehindTags(a, b)
          => \/ pc' = "describe" /\ caller' = "late" /\ latest' = a
             \/ pc' = "updateOptions" /\ caller' = "sync" /\ latest' = b
             \/ Ends(b)
    BY DEF UpdateBehindTags, LateInitialize, Goto, Finish, Ends
  <1> QED BY <1>1, <1>2, <1>3 DEF Update, ExportDue, LateInitialize, Goto

(* What the patch of the finalizer changes.                                  *)
LEMMA MarkManagedStep ==
  ASSUME IInv, MarkManaged
  PROVE  /\ pc = "manage" /\ cr'.status = cr.status /\ cr'.spec = cr.spec
         /\ cr'.deleting = cr.deleting
         /\ UNCHANGED <<acm, serials, secret, observed, exported>>
         /\ \/ /\ pc' = "create" /\ latest' = desired' /\ desired' \in Resource
               /\ desired'.status = cr.status
               /\ desired'.spec = [cr.spec EXCEPT !.tags = EnsureTags(cr.spec.tags)]
            \/ Ends(latest) /\ desired' = desired
  <1>1. TypeOK
    BY DEF IInv
  <1>2. Fails("MarkManaged", latest) \/ Finish(latest, "error") => Ends(latest)
    BY <1>1, FailsEnds DEF Calls, Finish, Ends
  <1> QED BY <1>1, <1>2, ReadType DEF MarkManaged, Goto, TypeOK

(* What a refused create changes.                                            *)
LEMMA RefuseCreateStep ==
  ASSUME RefuseCreate
  PROVE  /\ pc = "create" /\ Ends(desired)
         /\ UNCHANGED <<cr, acm, serials, secret, desired, observed, exported, budget>>
  BY DEF RefuseCreate, Finish, Ends

(* What an ExportCertificate changes.                                        *)
LEMMA ExportStep ==
  ASSUME IInv, Export
  PROVE  /\ pc = "export" /\ latest' = latest
         /\ UNCHANGED <<cr, acm, serials, secret, desired, observed>>
         /\ \/ /\ Live(latest.status.arn) /\ acm[latest.status.arn].status = "ISSUED"
               /\ acm[latest.status.arn].exportable
               /\ pc' = "writeCertificate" /\ exported' = acm[latest.status.arn].serial
            \/ /\ Ends(latest)
               /\ \/ /\ Live(latest.status.arn) /\ acm[latest.status.arn].status = "ISSUED"
                        => ~acm[latest.status.arn].exportable
                  \/ budget'["exportFault"] # 0
  <1>1. TypeOK
    BY DEF IInv
  <1>2. Fails("ExportCertificate", latest) => Ends(latest) /\ budget'["exportFault"] # 0
    BY <1>1, FailsEnds DEF Calls, ExportCalls
  <1> QED BY <1>2 DEF Export, Goto, Finish, Ends

(* What the first write to the Secret changes.                               *)
LEMMA WriteCertificateStep ==
  ASSUME IInv, WriteCertificate
  PROVE  /\ pc = "writeCertificate" /\ latest' = latest
         /\ UNCHANGED <<cr, acm, serials, desired, observed, exported>>
         /\ \/ /\ pc' = "writeKey" /\ secret.exists
               /\ secret' = [secret EXCEPT !.crt = exported]
            \/ /\ Ends(latest) /\ secret' = secret
               /\ ~secret.exists \/ budget'["exportFault"] # 0
  <1>1. TypeOK
    BY DEF IInv
  <1>2. Fails("WriteCertificate", latest) => Ends(latest) /\ budget'["exportFault"] # 0
    BY <1>1, FailsEnds DEF Calls, ExportCalls
  <1> QED BY <1>2 DEF WriteCertificate, Goto, Finish, Ends

(* What the second write to the Secret changes.                              *)
LEMMA WriteKeyStep ==
  ASSUME IInv, WriteKey
  PROVE  /\ pc = "writeKey"
         /\ UNCHANGED <<cr, acm, serials, desired, observed, exported>>
         /\ \/ /\ pc' = "describe" /\ caller' = "late"
               /\ latest' = withExportedStatus(desired, latest)
               /\ secret' = [secret EXCEPT !.key = exported]
            \/ Ends(latest) /\ secret' = secret /\ budget'["exportFault"] # 0
  <1>1. TypeOK
    BY DEF IInv
  <1>2. Fails("WriteKey", latest) => Ends(latest) /\ budget'["exportFault"] # 0
    BY <1>1, FailsEnds DEF Calls, ExportCalls
  <1> QED BY <1>2 DEF WriteKey, LateInitialize, Goto

(* What the calls that change tags and options change.                       *)
LEMMA TagsStep ==
  ASSUME IInv, RemoveTags \/ AddTags \/ UpdateOptions
  PROVE  /\ pc \in {"removeTags", "addTags", "updateOptions"}
         /\ UNCHANGED <<cr, serials, secret, desired, observed, exported>>
         /\ \/ pc \in {"removeTags", "addTags"} /\ pc' = "describe" /\ caller' = "late" /\ latest' = desired
            \/ /\ pc = "updateOptions" /\ pc' = "describe" /\ caller' = "late"
               /\ latest' = withExportedStatus(desired, latest)
            \/ pc = "removeTags" /\ pc' = "addTags" /\ latest' = latest
            \/ pc' = "updateOptions" /\ latest' = latest
            \/ Ends(latest)
  <1>1. TypeOK
    BY DEF IInv
  <1>2. \A call \in Calls : Fails(call, latest) => Ends(latest)
    BY <1>1, FailsEnds
  <1>3. UpdateBehindTags(desired, latest)
          => \/ pc' = "describe" /\ caller' = "late" /\ latest' = desired
             \/ pc' = "updateOptions" /\ latest' = latest
             \/ Ends(latest)
    BY DEF UpdateBehindTags, LateInitialize, Goto, Finish, Ends
  <1>4. \A o \in {"error", "terminal"} : Finish(latest, o) => Ends(latest)
    BY DEF Finish, Ends
  <1> QED BY <1>2, <1>3, <1>4
          DEF RemoveTags, AddTags, UpdateOptions, LateInitialize, Goto, Calls

(* What the patch of a late initialisation changes.                          *)
LEMMA PatchSpecStep ==
  ASSUME IInv, PatchSpec
  PROVE  /\ pc = "patchSpec" /\ pc' = "patchStatus" /\ latest' = observed
         /\ UNCHANGED <<acm, serials, secret, desired, exported>>
         /\ \/ cr' = cr
            \/ cr' = [cr EXCEPT !.spec = mergePatch(cr.spec, latest.spec, observed.spec)]
         /\ cr'.status = cr.status /\ cr'.deleting = cr.deleting
  <1>1. TypeOK
    BY DEF IInv
  <1>2. Fails("PatchSpec", observed) => Ends(observed)
    BY <1>1, FailsEnds DEF Calls
  <1> QED BY <1>1, <1>2 DEF PatchSpec, Finish, Ends, TypeOK

(* What the end of a reconcile changes.                                      *)
LEMMA PatchStatusStep ==
  ASSUME IInv, PatchStatus
  PROVE  /\ pc = "patchStatus" /\ pc' = "idle"
         /\ UNCHANGED <<acm, serials, secret>>
         /\ cr'.status = cr.status \/ cr'.status = latest.status
         /\ cr'.spec = cr.spec /\ cr'.deleting = cr.deleting
  <1>1. TypeOK
    BY DEF IInv
  <1> QED BY <1>1 DEF PatchStatus, EndReconcile, TypeOK

(* What a DeleteCertificate changes.                                         *)
LEMMA DeleteStep ==
  ASSUME IInv, Delete
  PROVE  /\ pc = "delete" /\ latest' = latest
         /\ UNCHANGED <<cr, serials, secret, desired, observed, exported>>
         /\ pc' = "unmanage" \/ Ends(latest)
  <1>1. TypeOK
    BY DEF IInv
  <1>2. \A call \in Calls : Fails(call, latest) \/ LosesReply(call, latest) => Ends(latest)
    BY <1>1, FailsEnds
  <1> QED BY <1>2 DEF Delete, Goto, Finish, Ends, Calls

(* What the removal of the finalizer changes.                                *)
LEMMA MarkUnmanagedStep ==
  ASSUME IInv, MarkUnmanaged
  PROVE  /\ pc = "unmanage" /\ cr'.status = cr.status /\ cr'.spec = cr.spec
         /\ cr'.deleting = cr.deleting
         /\ UNCHANGED <<acm, serials, secret>>
         /\ pc' = "idle" \/ (Ends(latest) /\ desired' = desired)
  <1>1. TypeOK
    BY DEF IInv
  <1>2. Fails("MarkUnmanaged", latest) => Ends(latest)
    BY <1>1, FailsEnds DEF Calls
  <1> QED BY <1>1, <1>2 DEF MarkUnmanaged, EndReconcile, TypeOK
=============================================================================
