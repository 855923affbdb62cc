-------------------------- MODULE CertificateProofs --------------------------
(***************************************************************************)
(* Proofs about CertificateController: its type invariant, and the safety  *)
(* properties that tie the custom resource to the certificates in ACM, for *)
(* every set of ARNs, values, tags, edits, failures and limits.            *)
(***************************************************************************)
EXTENDS CertificateProperties, TLAPS

-----------------------------------------------------------------------------
(* The operators of CertificateResource return values of their types *)

(* The tags after EnsureTags are tags: the default tags are. *)
LEMMA EnsureTagsType ==
  ASSUME NEW tags \in TagMap
  PROVE  EnsureTags(tags) \in TagMap
  BY DataAssumption DEF EnsureTags, TagMap, Opt

(* Tags with the aws: tags of others copied over them are tags. *)
LEMMA syncAWSTagsType ==
  ASSUME NEW a \in TagMap, NEW b \in TagMap
  PROVE  syncAWSTags(a, b) \in TagMap
  BY DEF syncAWSTags, TagMap, Opt

(* A spec with other tags is a spec. *)
LEMMA SpecWithTags ==
  ASSUME NEW s \in CertificateSpec, NEW t \in TagMap
  PROVE  [s EXCEPT !.tags = t] \in CertificateSpec
  BY DEF CertificateSpec

(* ReadOne changes the tags of the resource it is given and nothing of its  *)
(* status.                                                                  *)
LEMMA mirrorAWSTagsType ==
  ASSUME NEW r \in Resource, NEW b \in Resource
  PROVE  /\ mirrorAWSTags(r, b) \in Resource
         /\ mirrorAWSTags(r, b).status = r.status
  <1>1. r.spec \in CertificateSpec /\ r.spec.tags \in TagMap /\ b.spec.tags \in TagMap
    BY DEF Resource, CertificateSpec
  <1>2. [r.spec EXCEPT !.tags = syncAWSTags(r.spec.tags, b.spec.tags)] \in CertificateSpec
    BY <1>1, syncAWSTagsType, SpecWithTags
  <1>3. mirrorAWSTags(r, b) = [r EXCEPT !.spec = [r.spec EXCEPT !.tags = syncAWSTags(r.spec.tags, b.spec.tags)]]
    BY DEF mirrorAWSTags
  <1> QED BY <1>2, <1>3 DEF Resource

(* The status sdkFind builds from what ACM reports is a status. *)
LEMMA describedStatusType ==
  ASSUME NEW id \in CertIds, NEW c \in AcmCertificate
  PROVE  describedStatus(id, c) \in CertificateStatus /\ describedStatus(id, c).arn = id
  BY DEF describedStatus, CertificateStatus, AcmCertificate, Opt

(* The spec sdkFind overwrites with what ACM reports is a spec. *)
LEMMA describedSpecType ==
  ASSUME NEW s \in CertificateSpec, NEW c \in AcmCertificate
  PROVE  describedSpec(s, c) \in CertificateSpec
  BY DEF describedSpec, CertificateSpec, AcmCertificate

(* sdkFind returns a resource with the ARN it asked for. *)
LEMMA sdkFindType ==
  ASSUME NEW r \in Resource, NEW id \in CertIds, NEW c \in AcmCertificate
  PROVE  sdkFind(r, id, c) \in Resource /\ sdkFind(r, id, c).status.arn = id
  <1>1. r.spec \in CertificateSpec
    BY DEF Resource
  <1> QED BY <1>1, describedStatusType, describedSpecType DEF sdkFind, Resource

(* The result of an update is a resource and keeps the ARN of the desired   *)
(* one.                                                                     *)
LEMMA withExportedStatusType ==
  ASSUME NEW a \in Resource, NEW b \in Resource
  PROVE  /\ withExportedStatus(a, b) \in Resource
         /\ withExportedStatus(a, b).status.arn = a.status.arn
  BY DEF withExportedStatus, Resource, CertificateStatus

(* Late initialisation returns a resource and keeps the status. *)
LEMMA lateInitializeType ==
  ASSUME NEW o \in Resource, NEW r \in Resource
  PROVE  /\ lateInitializeFromReadOneOutput(o, r) \in Resource
         /\ lateInitializeFromReadOneOutput(o, r).status = r.status
  <1> DEFINE s == [f \in DOMAIN r.spec |->
                     IF f \in LateInitializedFields /\ r.spec[f] = Nil
                     THEN o.spec[f] ELSE r.spec[f]]
  <1>1. r.spec \in CertificateSpec /\ o.spec \in CertificateSpec
    BY DEF Resource
  <1>2. s \in CertificateSpec
    BY <1>1 DEF CertificateSpec, LateInitializedFields
  <1> QED BY <1>2 DEF lateInitializeFromReadOneOutput, Resource

(* The patch of a late initialisation leaves a spec in the API server. *)
LEMMA mergePatchType ==
  ASSUME NEW s \in CertificateSpec, NEW before \in CertificateSpec, NEW after \in CertificateSpec
  PROVE  mergePatch(s, before, after) \in CertificateSpec
  BY DEF mergePatch, CertificateSpec, LateInitializedFields

(* ImportCertificate makes a certificate. *)
LEMMA importedCertificateType ==
  ASSUME NEW t \in TagMap, serials \in Nat
  PROVE  importedCertificate(t) \in AcmCertificate
  BY DataAssumption, ControllerAssumption
     DEF importedCertificate, AcmCertificate, CertStates, CertTypes, Opt

(* RequestCertificate makes a certificate. *)
LEMMA requestedCertificateType ==
  ASSUME NEW s \in CertificateSpec
  PROVE  requestedCertificate(s) \in AcmCertificate
  BY DataAssumption, ControllerAssumption
     DEF requestedCertificate, orDefault, AcmCertificate, CertificateSpec, CertStates, CertTypes, Opt

-----------------------------------------------------------------------------
(* Init, and one lemma for each action: the invariant is preserved *)

(* The invariant holds of a resource no reconcile has seen. *)
LEMMA InitIInv == Init => IInv
  <1> SUFFICES ASSUME Init PROVE IInv
    OBVIOUS
  <1>1. TypeOK
    BY DataAssumption, ControllerAssumption
       DEF Init, TypeOK, Pcs, NoStatus, CertificateStatus, Opt
  <1>2. MemoryOK /\ Managed /\ Provenance
    BY DataAssumption DEF Init, MemoryOK, Managed, Provenance, NoStatus, Recorded, HandedOut,
       OnCertificate, OnManaged
  <1> QED BY <1>1, <1>2 DEF IInv

(* The resource a reconcile works on. *)
LEMMA ReadType ==
  ASSUME TypeOK
  PROVE  /\ [spec |-> cr.spec, status |-> cr.status] \in Resource
         /\ [spec |-> [cr.spec EXCEPT !.tags = EnsureTags(cr.spec.tags)], status |-> cr.status]
              \in Resource
  <1>1. cr.spec \in CertificateSpec /\ cr.status \in CertificateStatus
    BY DEF TypeOK
  <1>2. cr.spec.tags \in TagMap
    BY <1>1 DEF CertificateSpec
  <1>3. [cr.spec EXCEPT !.tags = EnsureTags(cr.spec.tags)] \in CertificateSpec
    BY <1>1, <1>2, EnsureTagsType, SpecWithTags
  <1> QED BY <1>1, <1>3 DEF Resource

(* A reconcile that starts reads the recorded ARN; with none it goes on to  *)
(* a create.                                                                *)
LEMMA StartIInv == IInv /\ Start => IInv'
  <1> SUFFICES ASSUME IInv, Start PROVE IInv'
    OBVIOUS
  <1> USE DEF IInv
  <1>1. /\ desired' \in Resource
        /\ latest' = desired'
        /\ desired'.status = cr.status
    BY ReadType DEF Start, NotFound, Goto, Finish
  <1>2. cr.status.arn \in CertIds \cup {Nil}
    BY DEF TypeOK, CertificateStatus, Opt
  <1>3. TypeOK'
    BY <1>1 DEF Start, NotFound, Goto, Finish, TypeOK, Pcs
  <1>4. MemoryOK'
    BY <1>1, <1>2 DEF Start, NotFound, Goto, Finish, MemoryOK, OnCertificate, Managed, Recorded,
       requiredFieldsMissingFromReadOneInput
  <1>5. Managed'
    BY <1>1 DEF Start, NotFound, Goto, Finish, Managed, OnCertificate, OnManaged, Recorded, InMemory,
       requiredFieldsMissingFromReadOneInput
  <1>6. Provenance'
    BY <1>1 DEF Start, NotFound, Goto, Finish, Provenance, HandedOut, IsLive, Live, Recorded,
       requiredFieldsMissingFromReadOneInput
  <1> QED BY <1>3, <1>4, <1>5, <1>6

(* A certificate ACM does not know is gone for good, and so may be created  *)
(* again or its resource let go.                                            *)
LEMMA DescribeIInv == IInv /\ Describe => IInv'
  <1> SUFFICES ASSUME IInv, Describe PROVE IInv'
    OBVIOUS
  <1> USE DEF IInv
  <1> DEFINE id == latest.status.arn
  <1>1. id \in CertIds /\ latest \in Resource /\ pc = "describe"
    BY DEF Describe, MemoryOK, OnCertificate
  <1>2. Live(id) => sdkFind(latest, id, acm[id]) \in Resource
                      /\ sdkFind(latest, id, acm[id]).status.arn = id
    <2>1. Live(id) => acm[id] \in AcmCertificate
      BY <1>1 DEF TypeOK, Live
    <2> QED BY <1>1, <2>1, sdkFindType
  <1>3. latest' = latest /\ desired' = desired /\ cr' = cr /\ acm' = acm
    BY DEF Describe, NotFound, Goto, Fails, Finish
  <1>4. TypeOK'
    <2>1. /\ observed' \in Resource \cup {Nil}
          /\ budget' \in [Bounded -> Nat]
          /\ outcome' \in {outcome, "error", "terminal"}
      BY <1>1, <1>2, ControllerAssumption
         DEF Describe, NotFound, Goto, Fails, Finish, Spend, TypeOK, Calls
    <2>2. /\ caller' \in {"sync", "create", "late", "delete", Nil}
          /\ pc' \in {"listTags", "unmanage", "create", "manage", "patchStatus"}
          /\ UNCHANGED <<serials, secret, queued, exported>>
      BY <1>1 DEF Describe, NotFound, Goto, Fails, Finish, TypeOK
    <2> QED BY <1>1, <1>3, <2>1, <2>2 DEF TypeOK, Pcs
  <1>5. MemoryOK'
    BY <1>1, <1>2, <1>3 DEF Describe, NotFound, Goto, Fails, Finish, MemoryOK, OnCertificate,
       Managed, OnManaged
  <1>6. Managed'
    BY <1>1, <1>3 DEF Describe, NotFound, Goto, Fails, Finish, Managed, OnCertificate, OnManaged,
       Recorded, InMemory
  <1>7. Provenance'
    BY <1>1, <1>3 DEF Describe, NotFound, Goto, Fails, Finish, Provenance, HandedOut, IsLive, Live,
       Recorded, MemoryOK, OnCertificate
  <1> QED BY <1>4, <1>5, <1>6, <1>7

(* What the head of an update leaves behind: it goes on to a step on the    *)
(* same certificate, or finishes with the observed resource.                *)
LEMMA UpdateBehindTagsStep ==
  ASSUME NEW a \in Resource, NEW b \in Resource, UpdateBehindTags(a, b)
  PROVE  /\ \/ pc' = "describe" /\ caller' = "late" /\ latest' = a
            \/ pc' = "updateOptions" /\ caller' = "sync" /\ latest' = b
            \/ pc' = "patchStatus" /\ caller' = caller /\ latest' = b
         /\ outcome' \in {outcome, "terminal"}
  BY DEF UpdateBehindTags, LateInitialize, Goto, Finish

(* Where an update goes, and with which resource. *)
LEMMA UpdateStep ==
  ASSUME NEW a \in Resource, NEW b \in Resource, Update(a, b)
  PROVE  /\ \/ pc' = "describe" /\ caller' = "late" /\ latest' \in {a, b}
            \/ pc' \in {"export", "removeTags", "addTags", "updateOptions"}
                 /\ caller' = "sync" /\ latest' = b
            \/ pc' = "patchStatus" /\ caller' = caller /\ latest' = b
         /\ outcome' \in {outcome, "terminal"}
  BY UpdateBehindTagsStep DEF Update, LateInitialize, Goto, Finish

(* After the read of a sync the desired and the observed resource have one  *)
(* ARN.                                                                     *)
LEMMA ReadForSyncIInv ==
  ASSUME IInv, ListTags, NEW found \in Resource, ReadForSync(found),
         found.status.arn = latest.status.arn,
         UNCHANGED <<cr, acm, serials, secret, queued, exported, budget>>
  PROVE  IInv'
  <1> USE DEF IInv
  <1> DEFINE id == latest.status.arn
             a  == mirrorAWSTags(desired, found)
  <1>1. /\ id \in CertIds /\ latest \in Resource /\ desired \in Resource /\ pc = "listTags"
        /\ desired.status.arn = id
    BY DEF ListTags, ReadForSync, MemoryOK, OnCertificate
  <1>2. a \in Resource /\ a.status = desired.status
    BY <1>1, mirrorAWSTagsType
  <1>3. desired' = a /\ observed' = Nil /\ Update(a, found) /\ caller = "sync"
    BY DEF ReadForSync
  <1>4. /\ \/ pc' = "describe" /\ caller' = "late"
           \/ pc' \in {"export", "removeTags", "addTags", "updateOptions"} /\ caller' = "sync"
           \/ pc' = "patchStatus" /\ caller' = "sync"
        /\ latest' \in {a, found}
        /\ outcome' \in {outcome, "terminal"}
    BY <1>2, <1>3, UpdateStep
  <1>5. latest' \in Resource /\ latest'.status.arn = id /\ desired'.status.arn = id
    BY <1>1, <1>2, <1>3, <1>4
  <1>6. TypeOK'
    BY <1>2, <1>3, <1>4, <1>5 DEF TypeOK, Pcs
  <1>7. MemoryOK'
    BY <1>1, <1>2, <1>3, <1>4, <1>5 DEF MemoryOK, OnCertificate
  <1>8. Managed'
    BY <1>1, <1>4 DEF Managed, OnCertificate, OnManaged, Recorded, InMemory
  <1>9. Provenance'
    BY <1>1, <1>4, <1>5 DEF Provenance, HandedOut, IsLive, Live, Recorded
  <1> QED BY <1>6, <1>7, <1>8, <1>9

(* The end of a read: one step per purpose of the read, and its failures. *)
LEMMA ListTagsIInv == IInv /\ ListTags => IInv'
  <1> SUFFICES ASSUME IInv, ListTags PROVE IInv'
    OBVIOUS
  <1> USE DEF IInv
  <1> DEFINE id    == latest.status.arn
             found == [observed EXCEPT !.spec.tags = acm[id].tags]
  <1>1. /\ id \in CertIds /\ latest \in Resource /\ desired \in Resource /\ pc = "listTags"
        /\ observed \in Resource /\ observed.status.arn = id
        /\ UNCHANGED <<cr, acm, serials, secret, queued, exported>>
    BY DEF ListTags, MemoryOK, OnCertificate
  <1>2. CASE Live(id) /\ UNCHANGED budget /\
             (\/ ReadForSync(found) \/ ReadForCreate(found)
              \/ ReadForLateInitialization(found) \/ ReadForDelete(found))
    <2>1. found \in Resource /\ found.status = observed.status
      <3>1. acm[id].tags \in TagMap
        BY <1>1, <1>2 DEF TypeOK, Live, AcmCertificate
      <3>2. observed.spec \in CertificateSpec
        BY <1>1 DEF Resource
      <3>3. [observed.spec EXCEPT !.tags = acm[id].tags] \in CertificateSpec
        BY <3>1, <3>2, SpecWithTags
      <3>4. found = [observed EXCEPT !.spec = [observed.spec EXCEPT !.tags = acm[id].tags]]
        OBVIOUS
      <3> QED BY <1>1, <3>3, <3>4 DEF Resource
    <2> HIDE DEF found
    <2>2. CASE ReadForSync(found)
      BY <1>1, <1>2, <2>1, <2>2, ReadForSyncIInv
    <2>3. CASE ReadForCreate(found)
      <3>1. latest' = [latest EXCEPT !.status = found.status] /\ desired' = desired
            /\ observed' = Nil /\ pc' = "describe" /\ caller' = "late" /\ outcome' = outcome
        BY <2>3 DEF ReadForCreate, LateInitialize, Goto
      <3>2. latest' \in Resource /\ latest'.status.arn = id
        BY <1>1, <2>1, <3>1 DEF Resource
      <3>3. TypeOK'
        BY <1>1, <1>2, <3>1, <3>2 DEF TypeOK, Pcs
      <3>4. MemoryOK'
        BY <1>1, <3>1, <3>2 DEF MemoryOK, OnCertificate
      <3>5. Managed' /\ Provenance'
        BY <1>1, <3>1, <3>2 DEF Managed, OnCertificate, OnManaged, Recorded, InMemory,
           Provenance, HandedOut, IsLive, Live
      <3> QED BY <3>3, <3>4, <3>5
    <2>4. CASE ReadForLateInitialization(found)
      <3> DEFINE after == lateInitializeFromReadOneOutput(found, latest)
      <3>1. after \in Resource /\ after.status = latest.status
        BY <1>1, <2>1, lateInitializeType
      <3>2. desired' = desired
        BY <2>4 DEF ReadForLateInitialization
      <3>3. \/ /\ observed' = after /\ pc' = "patchSpec" /\ caller' = "late"
               /\ latest' = latest /\ outcome' = outcome
            \/ /\ observed' = Nil /\ pc' = "patchStatus" /\ caller' = caller
               /\ latest' = after /\ outcome' \in {"ok", "error"}
        BY <2>4 DEF ReadForLateInitialization, Goto, Finish
      <3> HIDE DEF after
      <3>4. TypeOK'
        BY <1>1, <1>2, <3>1, <3>2, <3>3 DEF TypeOK, Pcs
      <3>5. MemoryOK'
        BY <1>1, <3>1, <3>2, <3>3 DEF MemoryOK, OnCertificate
      <3>6. Managed' /\ Provenance'
        BY <1>1, <3>1, <3>2, <3>3 DEF Managed, OnCertificate, OnManaged, Recorded, InMemory,
           Provenance, HandedOut, IsLive, Live
      <3> QED BY <3>4, <3>5, <3>6
    <2>5. CASE ReadForDelete(found)
      <3>1. /\ latest' = found /\ desired' = desired /\ observed' = Nil
            /\ pc' = "delete" /\ caller = "delete" /\ caller' = "delete" /\ outcome' = outcome
        BY <2>5 DEF ReadForDelete, Goto
      <3>2. TypeOK'
        BY <1>1, <1>2, <2>1, <3>1 DEF TypeOK, Pcs
      <3>3. MemoryOK'
        BY <1>1, <2>1, <3>1 DEF MemoryOK, OnCertificate
      <3>4. Managed' /\ Provenance'
        BY <1>1, <2>1, <3>1 DEF Managed, OnCertificate, OnManaged, Recorded, InMemory,
           Provenance, HandedOut, IsLive, Live
      <3> QED BY <3>2, <3>3, <3>4
    <2> QED BY <1>2, <2>2, <2>3, <2>4, <2>5
  <1>3. CASE ~(Live(id) /\ UNCHANGED budget /\
             (\/ ReadForSync(found) \/ ReadForCreate(found)
              \/ ReadForLateInitialization(found) \/ ReadForDelete(found)))
    <2>1. /\ pc' = "patchStatus" /\ latest' = latest /\ desired' = desired /\ observed' = Nil
          /\ caller' = caller /\ outcome' \in {"error", "terminal"}
          /\ budget' \in [Bounded -> Nat]
      BY <1>1, <1>3, ControllerAssumption DEF ListTags, Fails, Finish, Spend, TypeOK, Calls
    <2>2. TypeOK'
      BY <1>1, <2>1 DEF TypeOK, Pcs
    <2>3. MemoryOK'
      BY <1>1, <2>1 DEF MemoryOK, OnCertificate
    <2>4. Managed' /\ Provenance'
      BY <1>1, <2>1 DEF Managed, OnCertificate, OnManaged, Recorded, InMemory,
         Provenance, HandedOut, IsLive, Live
    <2> QED BY <2>2, <2>3, <2>4
  <1> QED BY <1>2, <1>3

(* A bounded event leaves the budget a budget. *)
LEMMA SpendType ==
  ASSUME TypeOK, NEW k \in Bounded, Spend(k)
  PROVE  budget' \in [Bounded -> Nat]
  BY DEF Spend, TypeOK

(* A call that fails ends the reconcile with r. *)
LEMMA FailsStep ==
  ASSUME TypeOK, NEW call \in Calls, NEW r, Fails(call, r)
  PROVE  /\ pc' = "patchStatus" /\ caller' = caller /\ latest' = r
         /\ outcome' \in {"error", "terminal"}
         /\ budget' \in [Bounded -> Nat]
  <1>1. PICK o \in Failures[call] : Finish(r, o)
    BY DEF Fails
  <1>2. o \in {"error", "terminal"}
    BY ControllerAssumption
  <1>3. budget' \in [Bounded -> Nat]
    BY SpendType DEF Fails, Bounded
  <1> QED BY <1>1, <1>2, <1>3 DEF Finish

(* A call whose reply is lost ends the reconcile with r. *)
LEMMA LosesReplyStep ==
  ASSUME TypeOK, NEW call \in Calls, NEW r, LosesReply(call, r)
  PROVE  /\ pc' = "patchStatus" /\ caller' = caller /\ latest' = r
         /\ outcome' = "error"
         /\ budget' \in [Bounded -> Nat]
  BY SpendType DEF LosesReply, Finish, Bounded

(* ACM after a step: no ARN is handed out again, and no certificate comes   *)
(* back.                                                                    *)
AcmGrows ==
  /\ acm' \in [CertIds -> AcmCertificate \cup {Unused, Gone}]
  /\ \A id \in CertIds : acm[id] # Unused => acm'[id] # Unused
  /\ \A id \in CertIds : acm[id] = Gone => acm'[id] = Gone

(* One certificate changes, or goes. *)
LEMMA AcmGrowsByOne ==
  ASSUME TypeOK, NEW id \in CertIds, acm[id] # Gone, NEW c \in AcmCertificate \cup {Gone},
         acm' = [acm EXCEPT ![id] = c]
  PROVE  AcmGrows
  BY ControllerAssumption DEF AcmGrows, TypeOK

(* A step that ends the reconcile with the resource it works on. *)
LEMMA FinishIInv ==
  ASSUME IInv, pc \notin {"idle", "patchStatus"},
         pc' = "patchStatus", caller' = caller,
         latest' \in Resource, latest'.status.arn = latest.status.arn,
         outcome' \in {"ok", "error", "terminal"},
         budget' \in [Bounded -> Nat],
         observed' \in Resource \cup {Nil}, exported' \in Nat,
         serials' \in Nat, AcmGrows,
         latest.status.arn # Nil => cr.exists /\ cr.finalizer,
         UNCHANGED <<cr, secret, queued, desired>>
  PROVE  IInv'
  <1> USE DEF IInv
  <1>1. TypeOK'
    BY DEF TypeOK, Pcs, AcmGrows
  <1>2. MemoryOK'
    BY DEF MemoryOK, OnCertificate
  <1>3. Managed'
    BY DEF Managed, OnCertificate, OnManaged, Recorded, InMemory, MemoryOK
  <1>4. cr.status.arn \in CertIds \cup {Nil}
    BY DEF TypeOK, CertificateStatus, Opt
  <1>5. /\ desired.status.arn \in CertIds \cup {Nil}
        /\ latest.status.arn \in CertIds \cup {Nil}
    BY DEF MemoryOK, Resource, CertificateStatus, Opt
  <1>6. Provenance'
    BY <1>4, <1>5 DEF Provenance, HandedOut, IsLive, Live, Recorded, AcmGrows
  <1> QED BY <1>1, <1>2, <1>3, <1>6

(* The finalizer is patched into a resource that is still there, and before *)
(* the create.                                                              *)
LEMMA MarkManagedIInv == IInv /\ MarkManaged => IInv'
  <1> SUFFICES ASSUME IInv, MarkManaged PROVE IInv'
    OBVIOUS
  <1> USE DEF IInv
  <1> DEFINE r == [spec   |-> [cr.spec EXCEPT !.tags = EnsureTags(cr.spec.tags)],
                   status |-> cr.status]
  <1>1. /\ pc = "manage" /\ latest \in Resource /\ desired \in Resource
        /\ latest.status.arn = Nil
        /\ UNCHANGED <<acm, serials, secret, queued, observed, exported>>
    BY DEF MarkManaged, MemoryOK
  <1>2. CASE /\ cr.exists
             /\ cr' = [cr EXCEPT !.finalizer = TRUE]
             /\ desired' = r
             /\ Goto("create", "sync", desired')
             /\ UNCHANGED budget
    <2>1. r \in Resource /\ r.status = cr.status
      BY ReadType
    <2>2. /\ desired' = r /\ latest' = r /\ pc' = "create" /\ caller' = "sync"
          /\ outcome' = outcome
      BY <1>2 DEF Goto
    <2> HIDE DEF r
    <2>3. /\ cr' \in [exists : BOOLEAN, deleting : BOOLEAN, finalizer : BOOLEAN,
                      spec : CertificateSpec, status : CertificateStatus]
          /\ cr'.exists /\ cr'.finalizer /\ cr'.status = cr.status
          /\ cr'.deleting = cr.deleting
      BY <1>2 DEF TypeOK
    <2>4. TypeOK'
      BY <1>1, <1>2, <2>1, <2>2, <2>3 DEF TypeOK, Pcs
    <2>5. MemoryOK'
      BY <2>1, <2>2 DEF MemoryOK, OnCertificate
    <2>6. Managed'
      BY <2>2, <2>3 DEF Managed, OnCertificate, OnManaged, Recorded, InMemory
    <2>7. cr.status.arn = Nil
      BY <1>1, <1>2 DEF Provenance, MemoryOK, Managed, Recorded, TypeOK
    <2>8. Provenance'
      BY <1>1, <2>1, <2>2, <2>3, <2>7 DEF Provenance, HandedOut, IsLive, Live, Recorded
    <2> QED BY <2>4, <2>5, <2>6, <2>8
  <1>3. CASE \/ ~cr.exists /\ Finish(latest, "error") /\ UNCHANGED <<cr, desired, budget>>
             \/ Fails("MarkManaged", latest) /\ UNCHANGED <<cr, desired>>
    <2>1. /\ pc' = "patchStatus" /\ caller' = caller /\ latest' = latest
          /\ outcome' \in {"error", "terminal"} /\ budget' \in [Bounded -> Nat]
          /\ UNCHANGED <<cr, desired>>
      BY <1>3, FailsStep DEF Finish, Calls, TypeOK
    <2>2. observed' \in Resource \cup {Nil} /\ exported' \in Nat
      BY <1>1 DEF TypeOK
    <2>3. AcmGrows /\ serials' \in Nat
      BY <1>1 DEF AcmGrows, TypeOK
    <2> QED BY <1>1, <2>1, <2>2, <2>3, FinishIInv
  <1> QED BY <1>2, <1>3 DEF MarkManaged

(* A step of a create that fails, before or after ACM made the certificate. *)
LEMMA CreateFailsIInv ==
  ASSUME IInv, pc = "create", AcmGrows, serials' \in Nat,
         pc' = "patchStatus", caller' = caller, latest' = desired,
         outcome' \in {"error", "terminal"}, budget' \in [Bounded -> Nat],
         UNCHANGED <<cr, secret, queued, desired, observed, exported>>
  PROVE  IInv'
  <1>1. /\ desired \in Resource /\ desired.status.arn = latest.status.arn
        /\ cr.exists /\ cr.finalizer
        /\ observed \in Resource \cup {Nil} /\ exported \in Nat
    BY DEF IInv, TypeOK, MemoryOK, Managed, OnManaged
  <1> QED BY <1>1, FinishIInv

(* A certificate was made, and the read after the create follows. *)
LEMMA CreatedIInv ==
  ASSUME IInv, pc = "create", NEW id \in CertIds, acm'[id] # Unused, AcmGrows,
         serials' \in Nat,
         pc' = "describe", caller' = "create",
         latest' = [desired EXCEPT !.status.arn = id], outcome' = outcome,
         UNCHANGED <<cr, secret, queued, desired, observed, exported, budget>>
  PROVE  IInv'
  <1> USE DEF IInv
  <1>1. desired \in Resource /\ cr.exists /\ cr.finalizer
    BY DEF MemoryOK, Managed, OnManaged
  <1>2. latest' \in Resource /\ latest'.status.arn = id
    BY <1>1 DEF Resource, CertificateStatus, Opt
  <1>3. TypeOK'
    BY <1>2 DEF TypeOK, Pcs, AcmGrows
  <1>4. MemoryOK'
    BY <1>1, <1>2 DEF MemoryOK, OnCertificate
  <1>5. Managed'
    BY <1>1 DEF Managed, OnCertificate, OnManaged, Recorded, InMemory
  <1>6. /\ desired.status.arn \in CertIds \cup {Nil}
        /\ cr.status.arn \in CertIds \cup {Nil}
    BY <1>1 DEF TypeOK, Resource, CertificateStatus, Opt
  <1>7. Provenance'
    BY <1>2, <1>6, DataAssumption DEF Provenance, HandedOut, IsLive, Live, Recorded, AcmGrows
  <1> QED BY <1>3, <1>4, <1>5, <1>7

(* A refused create ends the reconcile with the desired resource. *)
LEMMA RefuseCreateIInv == IInv /\ RefuseCreate => IInv'
  <1> SUFFICES ASSUME IInv, RefuseCreate PROVE IInv'
    OBVIOUS
  <1>1. AcmGrows /\ serials' \in Nat /\ budget' \in [Bounded -> Nat]
    BY DEF RefuseCreate, AcmGrows, IInv, TypeOK
  <1> QED BY <1>1, CreateFailsIInv DEF RefuseCreate, Finish

(* An import takes a new ARN or replaces the certificate the spec names. *)
LEMMA ImportIInv == IInv /\ Import => IInv'
  <1> SUFFICES ASSUME IInv, Import PROVE IInv'
    OBVIOUS
  <1> DEFINE target == desired.spec.certificateARN
  <1>1. /\ TypeOK /\ pc = "create" /\ desired \in Resource
        /\ target \in CertIds \cup {Nil} /\ desired.spec.tags \in TagMap
    BY DEF Import, IInv, MemoryOK, Resource, CertificateSpec, Opt
  <1>2. ASSUME NEW id \in CertIds,
               IF target = Nil THEN NextArn(id) /\ ~TooManyTags(desired.spec.tags)
                               ELSE id = target /\ Live(id),
               acm' = [acm EXCEPT ![id] = importedCertificate(
                         IF target = Nil THEN desired.spec.tags ELSE acm[id].tags)],
               serials' = serials + 1,
               \/ /\ Goto("describe", "create", [desired EXCEPT !.status.arn = id])
                  /\ UNCHANGED budget
               \/ LosesReply("ImportCertificate", desired)
        PROVE  IInv'
    <2> DEFINE c == importedCertificate(
                      IF target = Nil THEN desired.spec.tags ELSE acm[id].tags)
    <2>1. (IF target = Nil THEN desired.spec.tags ELSE acm[id].tags) \in TagMap
      BY <1>1, <1>2 DEF TypeOK, Live, AcmCertificate
    <2>2. c \in AcmCertificate
      BY <1>1, <2>1, importedCertificateType DEF TypeOK
    <2>3. acm' = [acm EXCEPT ![id] = c]
      BY <1>2
    <2> HIDE DEF c
    <2>4. AcmGrows
      <3>1. acm[id] # Gone
        BY <1>2, ControllerAssumption DEF NextArn, Live
      <3> QED BY <1>1, <2>2, <2>3, <3>1, AcmGrowsByOne
    <2>5. acm'[id] # Unused
      BY <1>1, <2>2, <2>3, ControllerAssumption DEF TypeOK
    <2>6. serials' \in Nat
      BY <1>1, <1>2 DEF TypeOK
    <2>7. CASE Goto("describe", "create", [desired EXCEPT !.status.arn = id]) /\ UNCHANGED budget
      BY <1>1, <2>4, <2>5, <2>6, <2>7, CreatedIInv DEF Goto, Import
    <2>8. CASE LosesReply("ImportCertificate", desired)
      BY <1>1, <2>4, <2>6, <2>8, LosesReplyStep, CreateFailsIInv DEF Calls, Import
    <2> QED BY <1>2, <2>7, <2>8
  <1>3. CASE \/ target # Nil /\ ~Live(target) /\ Finish(desired, "error")
                /\ UNCHANGED <<acm, serials, budget>>
             \/ target = Nil /\ TooManyTags(desired.spec.tags) /\ Finish(desired, "terminal")
                /\ UNCHANGED <<acm, serials, budget>>
             \/ Fails("ImportCertificate", desired) /\ UNCHANGED <<acm, serials>>
    <2>1. /\ pc' = "patchStatus" /\ caller' = caller /\ latest' = desired
          /\ outcome' \in {"error", "terminal"} /\ budget' \in [Bounded -> Nat]
          /\ AcmGrows /\ serials' \in Nat
      BY <1>1, <1>3, FailsStep DEF Finish, Calls, TypeOK, AcmGrows
    <2> QED BY <1>1, <2>1, CreateFailsIInv DEF Import
  <1> QED BY <1>2, <1>3 DEF Import

(* A request takes a new ARN. *)
LEMMA RequestIInv == IInv /\ Request => IInv'
  <1> SUFFICES ASSUME IInv, Request PROVE IInv'
    OBVIOUS
  <1>1. /\ TypeOK /\ pc = "create" /\ desired \in Resource /\ desired.spec \in CertificateSpec
        /\ serials' \in Nat
    BY DEF Request, IInv, MemoryOK, Resource, TypeOK
  <1>2. ASSUME NEW id \in CertIds, NextArn(id),
               acm' = [acm EXCEPT ![id] = requestedCertificate(desired.spec)],
               \/ /\ Goto("describe", "create", [desired EXCEPT !.status.arn = id])
                  /\ UNCHANGED budget
               \/ LosesReply("RequestCertificate", desired)
        PROVE  IInv'
    <2>1. requestedCertificate(desired.spec) \in AcmCertificate
      BY <1>1, requestedCertificateType
    <2>2. AcmGrows /\ acm'[id] # Unused
      <3>1. acm[id] # Gone
        BY <1>2, ControllerAssumption DEF NextArn
      <3> QED BY <1>1, <1>2, <2>1, <3>1, AcmGrowsByOne, ControllerAssumption DEF TypeOK
    <2>3. CASE Goto("describe", "create", [desired EXCEPT !.status.arn = id]) /\ UNCHANGED budget
      BY <1>1, <2>2, <2>3, CreatedIInv DEF Goto, Request
    <2>4. CASE LosesReply("RequestCertificate", desired)
      BY <1>1, <2>2, <2>4, LosesReplyStep, CreateFailsIInv DEF Calls, Request
    <2> QED BY <1>2, <2>3, <2>4
  <1>3. CASE \/ Finish(desired, "error") /\ UNCHANGED <<acm, budget>>
             \/ Finish(desired, "terminal") /\ UNCHANGED <<acm, budget>>
             \/ Fails("RequestCertificate", desired) /\ UNCHANGED acm
    <2>1. /\ pc' = "patchStatus" /\ caller' = caller /\ latest' = desired
          /\ outcome' \in {"error", "terminal"} /\ budget' \in [Bounded -> Nat]
          /\ AcmGrows
      BY <1>1, <1>3, FailsStep DEF Finish, Calls, TypeOK, AcmGrows
    <2> QED BY <1>1, <2>1, CreateFailsIInv DEF Request
  <1> QED BY <1>2, <1>3 DEF Request

(* The steps of an update, on the certificate of desired and latest. *)
UpdateSteps == {"export", "writeCertificate", "writeKey", "removeTags", "addTags",
                "updateOptions"}

(* A step inside an update, which keeps desired and latest on one ARN. *)
LEMMA UpdateStepIInv ==
  ASSUME IInv, pc \in UpdateSteps,
         \/ pc' \in UpdateSteps
         \/ pc' = "describe" /\ caller' = "late"
         \/ pc' = "patchStatus",
         caller' \in {"sync", "create", "late", "delete", Nil},
         latest' \in Resource, latest'.status.arn = latest.status.arn,
         outcome' \in {outcome, "error", "terminal"},
         budget' \in [Bounded -> Nat], exported' \in Nat, AcmGrows,
         secret' \in [exists : BOOLEAN, crt : Nat, key : Nat],
         UNCHANGED <<cr, serials, queued, desired, observed>>
  PROVE  IInv'
  <1> USE DEF IInv
  <1>1. /\ latest.status.arn \in CertIds /\ desired.status.arn = latest.status.arn
        /\ desired \in Resource /\ cr.exists /\ cr.finalizer
    BY DEF MemoryOK, Managed, OnManaged, OnCertificate, UpdateSteps
  <1>2. TypeOK'
    BY DEF TypeOK, Pcs, AcmGrows, UpdateSteps
  <1>3. MemoryOK'
    BY <1>1 DEF MemoryOK, OnCertificate, UpdateSteps
  <1>4. Managed'
    BY <1>1 DEF Managed, OnCertificate, OnManaged, Recorded, InMemory, UpdateSteps
  <1>5. cr.status.arn \in CertIds \cup {Nil}
    BY DEF TypeOK, CertificateStatus, Opt
  <1>6. Provenance'
    BY <1>1, <1>5 DEF Provenance, HandedOut, IsLive, Live, Recorded, AcmGrows, UpdateSteps
  <1> QED BY <1>2, <1>3, <1>4, <1>6

(* ExportCertificate reads ACM and changes only the memory of the           *)
(* reconcile.                                                               *)
LEMMA ExportIInv == IInv /\ Export => IInv'
  <1> SUFFICES ASSUME IInv, Export PROVE IInv'
    OBVIOUS
  <1>1. TypeOK /\ latest \in Resource /\ pc \in UpdateSteps
    BY DEF Export, IInv, MemoryOK, UpdateSteps
  <1>2. AcmGrows /\ secret' \in [exists : BOOLEAN, crt : Nat, key : Nat]
    BY <1>1 DEF Export, AcmGrows, TypeOK
  <1>3. exported' \in Nat
    BY <1>1 DEF Export, TypeOK, Live, AcmCertificate, IInv, MemoryOK, OnCertificate
  <1>4. /\ pc' \in {"writeCertificate", "patchStatus"} /\ caller' = caller /\ latest' = latest
        /\ outcome' \in {outcome, "error", "terminal"}
        /\ budget' \in [Bounded -> Nat]
    BY <1>1, FailsStep DEF Export, Goto, Finish, Calls, TypeOK
  <1> QED BY <1>1, <1>2, <1>3, <1>4, UpdateStepIInv DEF Export, UpdateSteps, TypeOK

(* The certificate in the Secret is none of the invariant's concern. *)
LEMMA WriteCertificateIInv == IInv /\ WriteCertificate => IInv'
  <1> SUFFICES ASSUME IInv, WriteCertificate PROVE IInv'
    OBVIOUS
  <1>1. TypeOK /\ latest \in Resource /\ pc \in UpdateSteps
    BY DEF WriteCertificate, IInv, MemoryOK, UpdateSteps
  <1>2. AcmGrows /\ secret' \in [exists : BOOLEAN, crt : Nat, key : Nat] /\ exported' \in Nat
    BY <1>1 DEF WriteCertificate, AcmGrows, TypeOK
  <1>3. /\ pc' \in {"writeKey", "patchStatus"} /\ caller' = caller /\ latest' = latest
        /\ outcome' \in {outcome, "error", "terminal"}
        /\ budget' \in [Bounded -> Nat]
    BY <1>1, FailsStep DEF WriteCertificate, Goto, Finish, Calls, TypeOK
  <1> QED BY <1>1, <1>2, <1>3, UpdateStepIInv DEF WriteCertificate, UpdateSteps, TypeOK

(* After the key is written the desired resource goes on, with the same     *)
(* ARN.                                                                     *)
LEMMA WriteKeyIInv == IInv /\ WriteKey => IInv'
  <1> SUFFICES ASSUME IInv, WriteKey PROVE IInv'
    OBVIOUS
  <1>1. /\ TypeOK /\ latest \in Resource /\ desired \in Resource /\ pc \in UpdateSteps
        /\ desired.status.arn = latest.status.arn
    BY DEF WriteKey, IInv, MemoryOK, UpdateSteps
  <1>2. AcmGrows /\ secret' \in [exists : BOOLEAN, crt : Nat, key : Nat] /\ exported' \in Nat
    BY <1>1 DEF WriteKey, AcmGrows, TypeOK
  <1>3. CASE Fails("WriteKey", latest)
    BY <1>1, <1>2, <1>3, FailsStep, UpdateStepIInv DEF WriteKey, Calls, TypeOK
  <1>4. CASE LateInitialize(withExportedStatus(desired, latest)) /\ UNCHANGED budget
    <2>1. /\ withExportedStatus(desired, latest) \in Resource
          /\ withExportedStatus(desired, latest).status.arn = latest.status.arn
      BY <1>1, withExportedStatusType
    <2> QED BY <1>1, <1>2, <1>4, <2>1, UpdateStepIInv DEF WriteKey, LateInitialize, Goto, TypeOK
  <1> QED BY <1>3, <1>4 DEF WriteKey

(* Other tags leave a certificate the certificate it was. *)
LEMMA NewTagsGrow ==
  ASSUME TypeOK, NEW id \in CertIds, Live(id), NEW t \in TagMap,
         acm' = [acm EXCEPT ![id].tags = t]
  PROVE  AcmGrows
  <1> DEFINE c == [acm[id] EXCEPT !.tags = t]
  <1>1. c \in AcmCertificate
    BY DEF TypeOK, Live, AcmCertificate
  <1>2. acm' = [acm EXCEPT ![id] = c]
    OBVIOUS
  <1> QED BY <1>1, <1>2, AcmGrowsByOne DEF Live

(* The rest of an update, after a call on ACM. *)
LEMMA UpdateBehindTagsIInv ==
  ASSUME IInv, pc \in UpdateSteps, UpdateBehindTags(desired, latest),
         budget' = budget, AcmGrows,
         UNCHANGED <<cr, serials, secret, queued, desired, observed, exported>>
  PROVE  IInv'
  <1>1. /\ TypeOK /\ latest \in Resource /\ desired \in Resource
        /\ desired.status.arn = latest.status.arn
    BY DEF IInv, MemoryOK, UpdateSteps
  <1>2. /\ \/ pc' = "describe" /\ caller' = "late"
           \/ pc' = "updateOptions" /\ caller' = "sync"
           \/ pc' = "patchStatus" /\ caller' = caller
        /\ latest' \in {desired, latest}
        /\ outcome' \in {outcome, "terminal"}
    BY <1>1, UpdateBehindTagsStep
  <1> QED BY <1>1, <1>2, UpdateStepIInv DEF UpdateSteps, TypeOK

(* A call of an update that fails. *)
LEMMA UpdateFailsIInv ==
  ASSUME IInv, pc \in UpdateSteps, pc' = "patchStatus", caller' = caller, latest' = latest,
         outcome' \in {"error", "terminal"}, budget' \in [Bounded -> Nat],
         UNCHANGED <<cr, acm, serials, secret, queued, desired, observed, exported>>
  PROVE  IInv'
  <1>1. TypeOK /\ latest \in Resource /\ AcmGrows
    BY DEF IInv, MemoryOK, UpdateSteps, AcmGrows, TypeOK
  <1> QED BY <1>1, UpdateStepIInv DEF TypeOK

(* The removal of tags keeps the certificate, and goes on to the addition   *)
(* or past it.                                                              *)
LEMMA RemoveTagsIInv == IInv /\ RemoveTags => IInv'
  <1> SUFFICES ASSUME IInv, RemoveTags PROVE IInv'
    OBVIOUS
  <1> DEFINE id      == desired.status.arn
             removed == toDelete(desired.spec.tags, latest.spec.tags)
             tags    == [k \in TagKeys |-> IF k \in removed THEN Nil ELSE acm[id].tags[k]]
  <1>1. /\ TypeOK /\ pc \in UpdateSteps /\ id \in CertIds
        /\ latest \in Resource /\ latest.status.arn = id
        /\ UNCHANGED <<cr, serials, secret, queued, desired, observed, exported>>
    BY DEF RemoveTags, IInv, MemoryOK, UpdateSteps, OnCertificate
  <1>2. CASE /\ Live(id)
             /\ acm' = [acm EXCEPT ![id].tags =
                          [k \in TagKeys |-> IF k \in removed THEN Nil ELSE @[k]]]
             /\ IF toAdd(desired.spec.tags, latest.spec.tags) # {}
                THEN Goto("addTags", caller, latest)
                ELSE UpdateBehindTags(desired, latest)
             /\ UNCHANGED budget
    <2>1. tags \in TagMap
      BY <1>1, <1>2 DEF TypeOK, Live, AcmCertificate, TagMap, Opt
    <2>2. acm' = [acm EXCEPT ![id].tags = tags]
      BY <1>2
    <2>3. AcmGrows
      BY <1>1, <1>2, <2>1, <2>2, NewTagsGrow
    <2>4. CASE Goto("addTags", caller, latest)
      BY <1>1, <1>2, <2>3, <2>4, UpdateStepIInv DEF Goto, UpdateSteps, TypeOK
    <2>5. CASE UpdateBehindTags(desired, latest)
      BY <1>1, <1>2, <2>3, <2>5, UpdateBehindTagsIInv
    <2> QED BY <1>2, <2>4, <2>5
  <1>3. CASE \/ ~Live(id) /\ Finish(latest, "error") /\ UNCHANGED <<acm, budget>>
             \/ Fails("RemoveTagsFromCertificate", latest) /\ UNCHANGED acm
    BY <1>1, <1>3, FailsStep, UpdateFailsIInv DEF Finish, Calls, TypeOK
  <1> QED BY <1>2, <1>3 DEF RemoveTags

(* The addition of tags keeps the certificate. *)
LEMMA AddTagsIInv == IInv /\ AddTags => IInv'
  <1> SUFFICES ASSUME IInv, AddTags PROVE IInv'
    OBVIOUS
  <1> DEFINE id    == desired.status.arn
             added == toAdd(desired.spec.tags, latest.spec.tags)
             tags  == [k \in TagKeys |-> IF k \in added THEN desired.spec.tags[k]
                                                        ELSE acm[id].tags[k]]
  <1>1. /\ TypeOK /\ pc \in UpdateSteps /\ id \in CertIds /\ desired.spec.tags \in TagMap
        /\ UNCHANGED <<cr, serials, secret, queued, desired, observed, exported>>
    BY DEF AddTags, IInv, MemoryOK, UpdateSteps, OnCertificate, Resource, CertificateSpec
  <1>2. CASE /\ Live(id)
             /\ acm' = [acm EXCEPT ![id].tags = tags]
             /\ UpdateBehindTags(desired, latest)
             /\ UNCHANGED budget
    <2>1. tags \in TagMap
      BY <1>1, <1>2 DEF TypeOK, Live, AcmCertificate, TagMap, Opt
    <2>2. AcmGrows
      BY <1>1, <1>2, <2>1, NewTagsGrow
    <2> QED BY <1>1, <1>2, <2>2, UpdateBehindTagsIInv
  <1>3. CASE \/ ~Live(id) /\ Finish(latest, "error") /\ UNCHANGED <<acm, budget>>
             \/ Finish(latest, "terminal") /\ UNCHANGED <<acm, budget>>
             \/ Fails("AddTagsToCertificate", latest) /\ UNCHANGED acm
    BY <1>1, <1>3, FailsStep, UpdateFailsIInv DEF Finish, Calls, TypeOK
  <1> QED BY <1>2, <1>3 DEF AddTags

(* The update of the options keeps the certificate. *)
LEMMA UpdateOptionsIInv == IInv /\ UpdateOptions => IInv'
  <1> SUFFICES ASSUME IInv, UpdateOptions PROVE IInv'
    OBVIOUS
  <1> DEFINE id    == desired.status.arn
             valid == desired.spec.options # Nil /\ Live(id)
  <1>1. /\ TypeOK /\ pc \in UpdateSteps /\ id \in CertIds /\ latest.status.arn = id
        /\ desired \in Resource /\ latest \in Resource
        /\ desired.spec.options \in Opt(OptionValues)
        /\ UNCHANGED <<cr, serials, secret, queued, desired, observed, exported>>
    BY DEF UpdateOptions, IInv, MemoryOK, UpdateSteps, OnCertificate, Resource, CertificateSpec
  <1>2. CASE /\ valid
             /\ acm' = [acm EXCEPT ![id].options = desired.spec.options]
             /\ LateInitialize(withExportedStatus(desired, latest))
             /\ UNCHANGED budget
    <2> DEFINE c == [acm[id] EXCEPT !.options = desired.spec.options]
    <2>1. c \in AcmCertificate
      BY <1>1, <1>2 DEF TypeOK, Live, AcmCertificate
    <2>2. acm' = [acm EXCEPT ![id] = c]
      BY <1>2
    <2>3. AcmGrows
      BY <1>1, <1>2, <2>1, <2>2, AcmGrowsByOne DEF Live
    <2>4. /\ withExportedStatus(desired, latest) \in Resource
          /\ withExportedStatus(desired, latest).status.arn = latest.status.arn
      BY <1>1, withExportedStatusType
    <2> QED BY <1>1, <1>2, <2>3, <2>4, UpdateStepIInv DEF LateInitialize, Goto, TypeOK
  <1>3. CASE \/ ~valid /\ Finish(latest, "error") /\ UNCHANGED <<acm, budget>>
             \/ Fails("UpdateCertificateOptions", latest) /\ UNCHANGED acm
    BY <1>1, <1>3, FailsStep, UpdateFailsIInv DEF Finish, Calls, TypeOK
  <1> QED BY <1>2, <1>3 DEF UpdateOptions

(* The patch of the spec keeps the status, and so the recorded ARN. *)
LEMMA PatchSpecIInv == IInv /\ PatchSpec => IInv'
  <1> SUFFICES ASSUME IInv, PatchSpec PROVE IInv'
    OBVIOUS
  <1> USE DEF IInv
  <1>1. /\ pc = "patchSpec" /\ latest \in Resource /\ observed \in Resource /\ desired \in Resource
        /\ observed.status.arn = latest.status.arn /\ cr.exists /\ cr.finalizer
        /\ UNCHANGED <<acm, serials, secret, queued, desired, exported>> /\ observed' = Nil
    BY DEF PatchSpec, MemoryOK, Managed, OnManaged, OnCertificate
  <1>2. /\ pc' = "patchStatus" /\ caller' = caller /\ latest' = observed
        /\ outcome' \in {"ok", "error", "terminal"} /\ budget' \in [Bounded -> Nat]
    <2>1. CASE Fails("PatchSpec", observed)
      BY <2>1, FailsStep DEF Calls
    <2>2. CASE ~Fails("PatchSpec", observed)
      BY <2>2 DEF PatchSpec, Finish, TypeOK
    <2> QED BY <2>1, <2>2
  <1>3. /\ cr' \in [exists : BOOLEAN, deleting : BOOLEAN, finalizer : BOOLEAN,
                    spec : CertificateSpec, status : CertificateStatus]
        /\ cr' = [cr EXCEPT !.spec = cr'.spec]
    <2>1. mergePatch(cr.spec, latest.spec, observed.spec) \in CertificateSpec
      BY <1>1, mergePatchType DEF TypeOK, Resource
    <2> QED BY <2>1 DEF PatchSpec, TypeOK
  <1>4. /\ cr'.exists = cr.exists /\ cr'.finalizer = cr.finalizer /\ cr'.status = cr.status
        /\ cr'.deleting = cr.deleting
    BY <1>3 DEF TypeOK
  <1>5. TypeOK'
    BY <1>1, <1>2, <1>3 DEF TypeOK, Pcs
  <1>6. MemoryOK'
    BY <1>1, <1>2 DEF MemoryOK, OnCertificate
  <1>7. Managed'
    BY <1>1, <1>2, <1>4 DEF Managed, OnCertificate, OnManaged, Recorded, InMemory
  <1>8. Provenance'
    BY <1>1, <1>2, <1>4 DEF Provenance, HandedOut, IsLive, Live, Recorded
  <1> QED BY <1>5, <1>6, <1>7, <1>8

(* The end of a reconcile. *)
LEMMA EndReconcileIInv ==
  ASSUME IInv, NEW o, EndReconcile(o), acm' = acm,
         serials' = serials, secret' = secret, budget' \in [Bounded -> Nat],
         cr' \in [exists : BOOLEAN, deleting : BOOLEAN, finalizer : BOOLEAN,
                  spec : CertificateSpec, status : CertificateStatus],
         cr'.exists /\ (cr'.deleting \/ cr'.status.arn # Nil) => cr'.finalizer,
         HandedOut(cr'.status.arn)
  PROVE  IInv'
  <1> USE DEF IInv
  <1>1. /\ pc' = "idle" /\ caller' = Nil /\ desired' = Nil /\ latest' = Nil
        /\ observed' = Nil /\ exported' = 0 /\ outcome' = Nil /\ queued' \in BOOLEAN
    BY DEF EndReconcile, Forget, TypeOK
  <1>2. TypeOK'
    BY <1>1 DEF TypeOK, Pcs
  <1>3. MemoryOK'
    BY <1>1 DEF MemoryOK, OnCertificate
  <1>4. Managed'
    BY <1>1 DEF Managed, OnCertificate, OnManaged, Recorded, InMemory
  <1>5. Provenance'
    BY <1>1 DEF Provenance, HandedOut, Recorded
  <1> QED BY <1>2, <1>3, <1>4, <1>5

(* The ARN the reconcile holds becomes the recorded one, while the          *)
(* finalizer is there.                                                      *)
LEMMA PatchStatusIInv == IInv /\ PatchStatus => IInv'
  <1> SUFFICES ASSUME IInv, PatchStatus PROVE IInv'
    OBVIOUS
  <1>1. /\ TypeOK /\ pc = "patchStatus" /\ latest \in Resource
        /\ HandedOut(cr.status.arn) /\ HandedOut(latest.status.arn)
        /\ latest.status.arn # Nil => cr.exists /\ cr.finalizer
        /\ cr.exists /\ (cr.deleting \/ cr.status.arn # Nil) => cr.finalizer
        /\ UNCHANGED <<acm, serials, secret>> /\ EndReconcile(outcome)
    BY DEF PatchStatus, IInv, MemoryOK, Managed, Provenance, Recorded, InMemory
  <1>2. budget' \in [Bounded -> Nat]
    <2>1. CASE Spend("lost")
      BY <1>1, <2>1, SpendType DEF Bounded
    <2> QED BY <1>1, <2>1 DEF PatchStatus, TypeOK
  <1>3. CASE cr.exists /\ cr' = [cr EXCEPT !.status = latest.status]
    <2>1. /\ cr' \in [exists : BOOLEAN, deleting : BOOLEAN, finalizer : BOOLEAN,
                      spec : CertificateSpec, status : CertificateStatus]
          /\ cr'.exists = cr.exists /\ cr'.deleting = cr.deleting
          /\ cr'.finalizer = cr.finalizer /\ cr'.status = latest.status
      BY <1>1, <1>3 DEF TypeOK, Resource
    <2> QED BY <1>1, <1>2, <1>3, <2>1, EndReconcileIInv
  <1>4. CASE UNCHANGED cr
    BY <1>1, <1>2, <1>4, EndReconcileIInv DEF TypeOK
  <1> QED BY <1>3, <1>4 DEF PatchStatus

(* After a delete that succeeds the certificate is gone, and so the         *)
(* finalizer may go.                                                        *)
LEMMA DeleteIInv == IInv /\ Delete => IInv'
  <1> SUFFICES ASSUME IInv, Delete PROVE IInv'
    OBVIOUS
  <1> USE DEF IInv
  <1> DEFINE id == latest.status.arn
  <1>1. /\ TypeOK /\ pc = "delete" /\ id \in CertIds /\ desired.status.arn = id
        /\ latest \in Resource /\ desired \in Resource /\ cr.exists /\ cr.finalizer
        /\ UNCHANGED <<cr, serials, secret, queued, desired, observed, exported>>
    BY DEF Delete, MemoryOK, OnCertificate, Managed, OnManaged
  <1>2. observed \in Resource \cup {Nil} /\ exported \in Nat /\ serials \in Nat
    BY <1>1 DEF TypeOK
  <1>3. CASE Live(id) /\ acm' = [acm EXCEPT ![id] = Gone] /\ UNCHANGED budget
             /\ Goto("unmanage", "delete", latest)
    <2>1. AcmGrows /\ acm'[id] = Gone
      BY <1>1, <1>3, AcmGrowsByOne DEF Live, TypeOK
    <2>2. pc' = "unmanage" /\ caller' = "delete" /\ latest' = latest /\ outcome' = outcome
      BY <1>3 DEF Goto
    <2>3. TypeOK'
      BY <1>1, <1>2, <1>3, <2>1, <2>2 DEF TypeOK, Pcs, AcmGrows
    <2>4. MemoryOK' /\ Managed'
      BY <1>1, <2>2 DEF MemoryOK, Managed, OnCertificate, OnManaged, Recorded, InMemory
    <2>5. cr.status.arn \in CertIds \cup {Nil}
      BY <1>1 DEF TypeOK, CertificateStatus, Opt
    <2>6. Provenance'
      BY <1>1, <2>1, <2>2, <2>5 DEF Provenance, HandedOut, IsLive, Live, Recorded, AcmGrows
    <2> QED BY <2>3, <2>4, <2>6
  <1>4. CASE Live(id) /\ acm' = [acm EXCEPT ![id] = Gone]
             /\ LosesReply("DeleteCertificate", latest)
    <2>1. AcmGrows
      BY <1>1, <1>4, AcmGrowsByOne DEF Live
    <2> QED BY <1>1, <1>2, <1>4, <2>1, LosesReplyStep, FinishIInv DEF Calls
  <1>5. CASE \/ ~Live(id) /\ Finish(latest, "error") /\ UNCHANGED <<acm, budget>>
             \/ Fails("DeleteCertificate", latest) /\ UNCHANGED acm
    <2>1. AcmGrows
      BY <1>1, <1>5 DEF AcmGrows, TypeOK
    <2> QED BY <1>1, <1>2, <1>5, <2>1, FailsStep, FinishIInv DEF Finish, Calls, TypeOK
  <1> QED BY <1>3, <1>4, <1>5 DEF Delete

(* The resource goes away, and the reconcile ends. *)
LEMMA MarkUnmanagedIInv == IInv /\ MarkUnmanaged => IInv'
  <1> SUFFICES ASSUME IInv, MarkUnmanaged PROVE IInv'
    OBVIOUS
  <1>1. /\ TypeOK /\ pc = "unmanage" /\ latest \in Resource /\ cr.exists /\ cr.finalizer
        /\ HandedOut(cr.status.arn)
        /\ UNCHANGED <<acm, serials, secret>>
    BY DEF MarkUnmanaged, IInv, MemoryOK, Managed, OnManaged, Provenance, Recorded
  <1>2. CASE cr' = [cr EXCEPT !.finalizer = FALSE, !.exists = FALSE] /\ EndReconcile("ok")
             /\ UNCHANGED budget
    <2>1. /\ cr' \in [exists : BOOLEAN, deleting : BOOLEAN, finalizer : BOOLEAN,
                      spec : CertificateSpec, status : CertificateStatus]
          /\ ~cr'.exists /\ cr'.status = cr.status
      BY <1>1, <1>2 DEF TypeOK
    <2> QED BY <1>1, <1>2, <2>1, EndReconcileIInv DEF TypeOK
  <1>3. CASE Fails("MarkUnmanaged", latest) /\ UNCHANGED <<cr, queued, desired, observed, exported>>
    <2>1. /\ AcmGrows /\ serials' \in Nat
          /\ observed' \in Resource \cup {Nil} /\ exported' \in Nat
      BY <1>1, <1>3 DEF AcmGrows, TypeOK
    <2> QED BY <1>1, <1>3, <2>1, FailsStep, FinishIInv DEF Calls
  <1> QED BY <1>2, <1>3 DEF MarkUnmanaged

-----------------------------------------------------------------------------
(* The environment *)

(* What users, ACM and its services may change under a running reconcile.   *)
LEMMA OutsideIInv ==
  ASSUME IInv, UNCHANGED <<pc, memory>>,
         cr' \in [exists : BOOLEAN, deleting : BOOLEAN, finalizer : BOOLEAN,
                  spec : CertificateSpec, status : CertificateStatus],
         cr'.status = cr.status, cr'.finalizer = cr.finalizer,
         cr'.exists => cr.exists, cr.finalizer => cr'.exists = cr.exists,
         cr'.deleting => cr.deleting \/ cr.finalizer, cr.deleting => cr'.deleting,
         AcmGrows, \A id \in CertIds : ~Live(id) => acm'[id] = acm[id],
         serials' \in Nat, secret' \in [exists : BOOLEAN, crt : Nat, key : Nat],
         queued' \in BOOLEAN, budget' \in [Bounded -> Nat]
  PROVE  IInv'
  <1> USE DEF IInv, memory
  <1>1. TypeOK'
    BY DEF TypeOK, AcmGrows
  <1>2. MemoryOK'
    BY DEF MemoryOK
  <1>3. Managed'
    BY DEF Managed, Recorded, InMemory
  <1>4. cr.status.arn \in CertIds \cup {Nil}
    BY DEF TypeOK, CertificateStatus, Opt
  <1>5. pc # "idle" => /\ desired.status.arn \in CertIds \cup {Nil}
                       /\ latest.status.arn \in CertIds \cup {Nil}
    BY DEF MemoryOK, Resource, CertificateStatus, Opt
  <1>6. Provenance'
    <2>1. pc \in {"create", "unmanage"} => pc # "idle"
      OBVIOUS
    <2> QED BY <1>4, <1>5, <2>1 DEF Provenance, HandedOut, IsLive, Live, Recorded, AcmGrows
  <1> QED BY <1>1, <1>2, <1>3, <1>6

(* A crash forgets the memory; what is recorded stays as it is. *)
LEMMA CrashIInv == IInv /\ Crash => IInv'
  <1> SUFFICES ASSUME IInv, Crash PROVE IInv'
    OBVIOUS
  <1> USE DEF IInv
  <1>1. /\ pc' = "idle" /\ caller' = Nil /\ desired' = Nil /\ latest' = Nil
        /\ observed' = Nil /\ exported' = 0 /\ outcome' = Nil /\ queued' = TRUE
        /\ UNCHANGED <<cr, acm, serials, secret>>
    BY DEF Crash, Forget
  <1>2. budget' \in [Bounded -> Nat]
    BY SpendType DEF Crash, Bounded
  <1>3. TypeOK'
    BY <1>1, <1>2 DEF TypeOK, Pcs
  <1>4. MemoryOK' /\ Managed' /\ Provenance'
    BY <1>1 DEF MemoryOK, Managed, Provenance, OnCertificate, OnManaged, Recorded, InMemory,
       HandedOut
  <1> QED BY <1>3, <1>4

(* The users: the custom resource, and the Secret. *)
LEMMA UsersIInv == IInv /\ (EditSpec \/ DeleteResource \/ CreateSecret) => IInv'
  <1> SUFFICES ASSUME IInv, EditSpec \/ DeleteResource \/ CreateSecret PROVE IInv'
    OBVIOUS
  <1>1. TypeOK
    BY DEF IInv
  <1>2. CASE EditSpec
    <2>1. PICK f \in DOMAIN Edits : \E v \in Edits[f] \ {cr.spec[f]} :
            cr' = [cr EXCEPT !.spec[f] = v]
      BY <1>2 DEF EditSpec
    <2>2. PICK v \in Edits[f] : cr' = [cr EXCEPT !.spec[f] = v]
      BY <2>1
    <2>3. f \in DOMAIN EditableFields /\ v \in EditableFields[f]
      BY <2>1, <2>2, ControllerAssumption
    <2>4. [cr.spec EXCEPT ![f] = v] \in CertificateSpec
      BY <1>1, <2>3 DEF EditableFields, CertificateSpec, TypeOK
    <2>5. cr' = [cr EXCEPT !.spec = [cr.spec EXCEPT ![f] = v]]
      BY <2>2
    <2>6. /\ cr' \in [exists : BOOLEAN, deleting : BOOLEAN, finalizer : BOOLEAN,
                      spec : CertificateSpec, status : CertificateStatus]
          /\ cr'.status = cr.status /\ cr'.finalizer = cr.finalizer
          /\ cr'.exists = cr.exists /\ cr'.deleting = cr.deleting
      BY <1>1, <2>4, <2>5 DEF TypeOK
    <2>7. budget' \in [Bounded -> Nat]
      BY <1>1, <1>2, SpendType DEF EditSpec, Bounded
    <2>8. /\ AcmGrows /\ serials' \in Nat /\ queued' \in BOOLEAN
          /\ secret' \in [exists : BOOLEAN, crt : Nat, key : Nat]
          /\ UNCHANGED <<acm, pc, memory>>
      BY <1>1, <1>2 DEF EditSpec, AcmGrows, TypeOK
    <2> QED BY <2>6, <2>7, <2>8, OutsideIInv
  <1>3. CASE DeleteResource
    <2>1. /\ cr' \in [exists : BOOLEAN, deleting : BOOLEAN, finalizer : BOOLEAN,
                      spec : CertificateSpec, status : CertificateStatus]
          /\ cr'.status = cr.status /\ cr'.finalizer = cr.finalizer
          /\ cr'.exists => cr.exists
          /\ cr.finalizer => cr'.exists = cr.exists
          /\ cr'.deleting => cr.deleting \/ cr.finalizer
          /\ cr.deleting => cr'.deleting
      BY <1>1, <1>3 DEF DeleteResource, TypeOK
    <2>2. budget' \in [Bounded -> Nat]
      BY <1>1, <1>3, SpendType DEF DeleteResource, Bounded
    <2>3. /\ AcmGrows /\ serials' \in Nat /\ queued' \in BOOLEAN
          /\ secret' \in [exists : BOOLEAN, crt : Nat, key : Nat]
          /\ UNCHANGED <<acm, pc, memory>>
      BY <1>1, <1>3 DEF DeleteResource, AcmGrows, TypeOK
    <2> QED BY <2>1, <2>2, <2>3, OutsideIInv
  <1>4. CASE CreateSecret
    <2>1. /\ secret' \in [exists : BOOLEAN, crt : Nat, key : Nat]
          /\ AcmGrows /\ serials' \in Nat /\ queued' \in BOOLEAN
          /\ budget' \in [Bounded -> Nat] /\ UNCHANGED <<cr, acm, pc, memory>>
      BY <1>1, <1>4 DEF CreateSecret, AcmGrows, TypeOK
    <2> QED BY <1>1, <2>1, OutsideIInv DEF TypeOK
  <1> QED BY <1>2, <1>3, <1>4

(* ACM and other AWS users: a certificate that is there changes or goes. *)
LEMMA AcmIInv ==
  ASSUME NEW id \in CertIds, IInv,
         Validate(id) \/ Renew(id) \/ Expire(id) \/ Vanish(id) \/ SetAwsTag(id)
  PROVE  IInv'
  <1>1. /\ TypeOK /\ Live(id) /\ acm[id] \in AcmCertificate
        /\ UNCHANGED <<cr, secret, queued, pc, memory>>
    BY DEF IInv, TypeOK, Validate, Renew, Expire, Vanish, SetAwsTag, Live
  <1>2. serials' \in Nat
    BY <1>1 DEF Validate, Renew, Expire, Vanish, SetAwsTag, TypeOK
  <1>3. budget' \in [Bounded -> Nat]
    BY <1>1, SpendType DEF Validate, Renew, Expire, Vanish, SetAwsTag, Bounded, TypeOK
  <1>4. \E c \in AcmCertificate \cup {Gone} : acm' = [acm EXCEPT ![id] = c]
    <2>1. CASE Validate(id)
      <3>1. /\ [acm[id] EXCEPT !.status = "ISSUED", !.serial = serials + 1] \in AcmCertificate
            /\ [acm[id] EXCEPT !.status = "FAILED"] \in AcmCertificate
        <4>1. serials + 1 \in Nat /\ {"ISSUED", "FAILED"} \subseteq CertStates
          BY <1>1 DEF CertStates, TypeOK
        <4> QED BY <1>1, <4>1 DEF AcmCertificate
      <3>2. \/ acm' = [acm EXCEPT ![id] = [acm[id] EXCEPT !.status = "ISSUED",
                                                          !.serial = serials + 1]]
            \/ acm' = [acm EXCEPT ![id] = [acm[id] EXCEPT !.status = "FAILED"]]
        BY <1>1, <2>1 DEF Validate, TypeOK
      <3> QED BY <3>1, <3>2
    <2>2. CASE Renew(id)
      <3>1. [acm[id] EXCEPT !.serial = serials + 1] \in AcmCertificate
        BY <1>1 DEF AcmCertificate, TypeOK
      <3>2. acm' = [acm EXCEPT ![id] = [acm[id] EXCEPT !.serial = serials + 1]]
        BY <2>2 DEF Renew
      <3> QED BY <3>1, <3>2
    <2>3. CASE Expire(id)
      <3>1. [acm[id] EXCEPT !.status = "EXPIRED"] \in AcmCertificate
        BY <1>1 DEF AcmCertificate, CertStates
      <3>2. acm' = [acm EXCEPT ![id] = [acm[id] EXCEPT !.status = "EXPIRED"]]
        BY <2>3 DEF Expire
      <3> QED BY <3>1, <3>2
    <2>4. CASE Vanish(id)
      BY <2>4 DEF Vanish
    <2>5. CASE SetAwsTag(id)
      <3>1. PICK k \in AwsTagKeys, v \in TagValues \cup {Nil} :
              acm' = [acm EXCEPT ![id].tags[k] = v]
        BY <2>5 DEF SetAwsTag
      <3>2. [acm[id] EXCEPT !.tags = [acm[id].tags EXCEPT ![k] = v]] \in AcmCertificate
        BY <1>1, DataAssumption DEF AcmCertificate, TagMap, Opt
      <3>3. acm' = [acm EXCEPT ![id] =
                      [acm[id] EXCEPT !.tags = [acm[id].tags EXCEPT ![k] = v]]]
        BY <3>1
      <3> QED BY <3>2, <3>3
    <2> QED BY <2>1, <2>2, <2>3, <2>4, <2>5
  <1>5. PICK c \in AcmCertificate \cup {Gone} : acm' = [acm EXCEPT ![id] = c]
    BY <1>4
  <1>6. AcmGrows
    BY <1>1, <1>5, AcmGrowsByOne DEF Live
  <1>7. \A j \in CertIds : ~Live(j) => acm'[j] = acm[j]
    BY <1>1, <1>5 DEF TypeOK
  <1> QED BY <1>1, <1>2, <1>3, <1>6, <1>7, OutsideIInv DEF TypeOK

(* Every step keeps the invariant: one lemma for each action. *)
LEMMA NextIInv == IInv /\ [Next]_vars => IInv'
  <1> SUFFICES ASSUME IInv, [Next]_vars PROVE IInv'
    OBVIOUS
  <1>1. CASE Reconcile
    BY <1>1, StartIInv, DescribeIInv, ListTagsIInv, MarkManagedIInv, RefuseCreateIInv,
       ImportIInv, RequestIInv, ExportIInv, WriteCertificateIInv, WriteKeyIInv,
       RemoveTagsIInv, AddTagsIInv, UpdateOptionsIInv, PatchSpecIInv, PatchStatusIInv,
       DeleteIInv, MarkUnmanagedIInv
       DEF Reconcile
  <1>2. CASE Environment
    BY <1>2, CrashIInv, UsersIInv, AcmIInv DEF Environment
  <1>3. CASE UNCHANGED vars
    BY <1>3 DEF vars, memory, IInv, TypeOK, MemoryOK, Managed, Provenance, Recorded, InMemory,
       HandedOut, IsLive, Live
  <1> QED BY <1>1, <1>2, <1>3 DEF Next, Rest

-----------------------------------------------------------------------------
(* The theorems *)

(* The inductive invariant: what a reconcile holds in memory at each of its *)
(* steps, that a resource with something to clean up carries the finalizer, *)
(* and how the ARNs the controller knows relate to ACM.                     *)
THEOREM InvariantCorrect == Spec => []IInv
  <1> QED BY InitIInv, NextIInv, PTL DEF Spec

(* The variables of the reconcile loop keep their types through every       *)
(* interleaving of users, ACM, failed calls and crashes.                    *)
THEOREM TypeCorrect == Spec => []TypeOK
  <1>1. IInv => TypeOK
    BY DEF IInv
  <1> QED BY <1>1, InvariantCorrect, PTL

(* Only a create takes an ARN ACM has not handed out yet. *)
LEMMA OnlyCreateHandsOut ==
  ASSUME IInv, Next, pc # "create", NEW id \in CertIds, acm[id] = Unused
  PROVE  acm'[id] = Unused
  <1>1. TypeOK
    BY DEF IInv
  <1>2. CASE Reconcile
    <2>1. CASE UNCHANGED acm
      BY <2>1
    <2>2. CASE \E j \in CertIds : Live(j) /\ \E c : acm' = [acm EXCEPT ![j] = c]
      BY <1>1, <2>2 DEF Live, TypeOK
    <2>3. CASE RemoveTags
      <3>1. desired.status.arn \in CertIds
        BY <2>3 DEF RemoveTags, IInv, MemoryOK, OnCertificate
      <3> QED BY <2>1, <2>2, <2>3, <3>1 DEF RemoveTags
    <2>4. CASE AddTags
      <3>1. desired.status.arn \in CertIds
        BY <2>4 DEF AddTags, IInv, MemoryOK, OnCertificate
      <3> QED BY <2>1, <2>2, <2>4, <3>1 DEF AddTags
    <2>5. CASE UpdateOptions
      <3>1. desired.status.arn \in CertIds
        BY <2>5 DEF UpdateOptions, IInv, MemoryOK, OnCertificate
      <3> QED BY <2>1, <2>2, <2>5, <3>1 DEF UpdateOptions
    <2>6. CASE Delete
      <3>1. latest.status.arn \in CertIds
        BY <2>6 DEF Delete, IInv, MemoryOK, OnCertificate
      <3> QED BY <2>1, <2>2, <2>6, <3>1 DEF Delete
    <2> QED BY <1>2, <2>1, <2>3, <2>4, <2>5, <2>6
            DEF Reconcile, Start, Describe, ListTags, MarkManaged, RefuseCreate, Import,
                Request, Export, WriteCertificate, WriteKey, PatchSpec, PatchStatus,
                MarkUnmanaged
  <1>3. CASE Environment
    <2>1. CASE Crash \/ EditSpec \/ DeleteResource \/ CreateSecret
      BY <2>1 DEF Crash, EditSpec, DeleteResource, CreateSecret
    <2>2. ASSUME NEW j \in CertIds, Validate(j) \/ Renew(j) \/ Expire(j) \/ Vanish(j) \/ SetAwsTag(j)
          PROVE  acm'[id] = Unused
      <3>1. Live(j) /\ j # id
        BY <2>2 DEF Validate, Renew, Expire, Vanish, SetAwsTag, Live
      <3> QED BY <1>1, <2>2, <3>1 DEF Validate, Renew, Expire, Vanish, SetAwsTag, TypeOK
    <2> QED BY <1>3, <2>1, <2>2 DEF Environment
  <1> QED BY <1>2, <1>3 DEF Next, Rest, vars

(* While a create is under way the resource is there with its finalizer,    *)
(* and its recorded certificate is not in ACM.                              *)
LEMMA CreateIsManaged ==
  ASSUME IInv, pc = "create"
  PROVE  cr.exists /\ cr.finalizer /\ ~IsLive(Recorded)
  BY DEF IInv, Managed, OnManaged, Provenance

(* A certificate comes into being only while the custom resource exists and *)
(* carries the finalizer.                                                   *)
THEOREM CreationIsManaged == Spec => CreatedOnlyWhenManaged
  <1>1. IInv /\ [Next]_vars
          => [\A id \in CertIds : acm[id] = Unused /\ acm'[id] # Unused
                                    => cr.exists /\ cr.finalizer]_vars
    BY OnlyCreateHandsOut, CreateIsManaged
  <1> QED BY <1>1, InvariantCorrect, PTL DEF Spec, CreatedOnlyWhenManaged

(* While the recorded certificate is in ACM no other one is made for the    *)
(* resource, whatever fails and wherever the process is cut off.            *)
THEOREM OneCertificate == Spec => NoSecondCertificate
  <1>1. IInv /\ [Next]_vars
          => [\A id \in CertIds : acm[id] = Unused /\ acm'[id] # Unused
                                    => ~IsLive(Recorded)]_vars
    BY OnlyCreateHandsOut, CreateIsManaged
  <1> QED BY <1>1, InvariantCorrect, PTL DEF Spec, NoSecondCertificate

(* Only the removal of the finalizer, and the deletion of a resource        *)
(* without one, make a resource go away.                                    *)
LEMMA OnlyTheseRemove ==
  ASSUME IInv, Next, cr.exists, ~cr'.exists
  PROVE  \/ pc = "unmanage"
         \/ ~cr.finalizer
  <1>1. TypeOK
    BY DEF IInv
  <1>2. CASE Reconcile
    BY <1>1, <1>2 DEF Reconcile, Start, Describe, ListTags, MarkManaged, RefuseCreate, Import,
       Request, Export, WriteCertificate, WriteKey, RemoveTags, AddTags, UpdateOptions,
       PatchSpec, PatchStatus, Delete, MarkUnmanaged, TypeOK
  <1>3. CASE Environment
    BY <1>1, <1>3 DEF Environment, Crash, EditSpec, DeleteResource, CreateSecret, Validate,
       Renew, Expire, Vanish, SetAwsTag, TypeOK
  <1> QED BY <1>2, <1>3 DEF Next, Rest, vars

(* The custom resource goes away only when neither the recorded certificate *)
(* nor the one a running reconcile holds is left in ACM.                    *)
THEOREM GoneAfterCertificate == Spec => GoneOnlyAfterCertificate
  <1>1. ASSUME IInv, Next, cr.exists, ~cr'.exists
        PROVE  ~IsLive(Recorded) /\ ~IsLive(InMemory)
    <2>1. CASE pc = "unmanage"
      BY <1>1, <2>1 DEF IInv, Provenance, InMemory
    <2>2. CASE ~cr.finalizer
      <3>1. Recorded = Nil /\ pc \notin OnManaged
        BY <1>1, <2>2 DEF IInv, Managed
      <3>2. InMemory = Nil
        BY <1>1, <2>2, <3>1 DEF IInv, Managed, MemoryOK, TypeOK, Pcs, InMemory, OnManaged,
           OnCertificate
      <3> QED BY <3>1, <3>2 DEF IsLive
    <2> QED BY <1>1, <2>1, <2>2, OnlyTheseRemove
  <1>2. IInv /\ [Next]_vars
          => [cr.exists /\ ~cr'.exists => ~IsLive(Recorded) /\ ~IsLive(InMemory)]_vars
    BY <1>1
  <1> QED BY <1>2, InvariantCorrect, PTL DEF Spec, GoneOnlyAfterCertificate
=============================================================================
