---------------------------- MODULE UpdateProofs ----------------------------
(***************************************************************************)
(* Proofs about what an update and a late initialisation leave alone: the  *)
(* tags of AWS, and the fields a user has set.                             *)
(***************************************************************************)
EXTENDS RecordProofs

-----------------------------------------------------------------------------
(* Late initialisation *)

(* An update goes on to a late initialisation with a resource that has all  *)
(* the fields the desired one has.                                          *)
LEMMA UpdateKeepsFields ==
  ASSUME NEW a \in Resource, NEW b \in Resource, Update(a, b), b.spec.keyAlgorithm # Nil,
         pc' = "describe"
  PROVE  /\ caller' = "late"
         /\ \A f \in LateInitializedFields : a.spec[f] # Nil => latest'.spec[f] # Nil
  <1>1. CASE newResourceDelta(a, b) = {} /\ LateInitialize(b)
    <2>1. \A f \in ComparedFields : a.spec[f] = b.spec[f]
      BY <1>1 DEF newResourceDelta
    <2> QED BY <1>1, <2>1 DEF LateInitialize, Goto, LateInitializedFields, ComparedFields
  <1>2. CASE UpdateBehindTags(a, b)
    BY <1>2 DEF UpdateBehindTags, LateInitialize, Goto, Finish
  <1> QED BY <1>1, <1>2 DEF Update, Goto

(* LateInitInv is disturbed only on the way to, and in, the reads of a      *)
(* create, of a sync and of a late initialisation.                          *)
LEMMA ElsewhereLateInitInv ==
  ASSUME pc' \notin {"describe", "listTags", "patchSpec"}
  PROVE  LateInitInv'
  BY DEF LateInitInv, LateReads

(* A late initialisation starts with all the fields of the desired resource.*)
LEMMA LateLateInitInv ==
  ASSUME pc' = "describe", caller' = "late",
         \A f \in LateInitializedFields : desired'.spec[f] # Nil => latest'.spec[f] # Nil
  PROVE  LateInitInv'
  BY DEF LateInitInv, LateReads

(* The end of a read preserves LateInitInv.                                  *)
LEMMA ListTagsLateInitInv ==
  ASSUME IInv, LateInitInv, ListTags
  PROVE  LateInitInv'
  <1>1. /\ pc = "listTags" /\ latest \in Resource /\ observed \in Resource /\ desired \in Resource
    BY DEF ListTags, IInv, MemoryOK
  <1>2. CASE Ends(latest)
    BY <1>2, ElsewhereLateInitInv DEF Ends
  <1>3. CASE /\ FoundNow \in Resource
             /\ FoundNow.spec = [observed.spec EXCEPT !.tags = acm[latest.status.arn].tags]
             /\ ReadForSync(FoundNow)
    <2> DEFINE a == mirrorAWSTags(desired, FoundNow)
    <2>1. /\ caller = "sync" /\ desired' = a /\ Update(a, FoundNow) /\ a \in Resource
      BY <1>1, <1>3, mirrorAWSTagsType DEF ReadForSync
    <2>2. FoundNow.spec.keyAlgorithm # Nil
      BY <1>1, <1>3, <2>1 DEF LateInitInv, Resource, CertificateSpec
    <2> HIDE DEF a
    <2>3. pc' = "describe"
            => /\ caller' = "late"
               /\ \A f \in LateInitializedFields : a.spec[f] # Nil => latest'.spec[f] # Nil
      BY <1>3, <2>1, <2>2, UpdateKeepsFields
    <2>4. pc' = "describe" \/ pc' \notin {"describe", "listTags", "patchSpec"}
      BY <1>3, <2>1, UpdateDue DEF Ends
    <2> QED BY <2>1, <2>3, <2>4, LateLateInitInv, ElsewhereLateInitInv
  <1>4. CASE ReadForCreate(FoundNow)
    <2>1. /\ caller = "create" /\ desired' = desired /\ pc' = "describe" /\ caller' = "late"
          /\ latest' = [latest EXCEPT !.status = FoundNow.status]
      BY <1>4 DEF ReadForCreate, LateInitialize, Goto
    <2>2. latest'.spec = desired.spec
      BY <1>1, <2>1 DEF LateInitInv, Resource
    <2> QED BY <2>1, <2>2, LateLateInitInv
  <1>5. CASE ReadForLateInitialization(FoundNow)
    <2> DEFINE after == lateInitializeFromReadOneOutput(FoundNow, latest)
    <2>1. /\ caller = "late" /\ desired' = desired
          /\ \/ pc' = "patchSpec" /\ latest' = latest /\ observed' = after
             \/ pc' = "patchStatus"
      BY <1>5 DEF ReadForLateInitialization, Goto, Finish
    <2>2. \A f \in LateInitializedFields : latest.spec[f] # Nil => after.spec[f] = latest.spec[f]
      BY <1>1 DEF lateInitializeFromReadOneOutput, LateInitializedFields, Resource, CertificateSpec
    <2> HIDE DEF after
    <2>3. \A f \in LateInitializedFields : desired.spec[f] # Nil => latest.spec[f] # Nil
      BY <1>1, <2>1 DEF LateInitInv, LateReads
    <2> QED BY <2>1, <2>2, <2>3, ElsewhereLateInitInv DEF LateInitInv, LateReads
  <1>6. CASE ReadForDelete(FoundNow)
    BY <1>6, ElsewhereLateInitInv DEF ReadForDelete, Goto
  <1> QED BY <1>2, <1>3, <1>4, <1>5, <1>6, ListTagsStep

(* So does every step.                                                       *)
LEMMA LateInitInvStep ==
  ASSUME IInv, KnownAreMadeHere, LateInitInv, [Next]_vars
  PROVE  LateInitInv'
  <1>1. TypeOK /\ MemoryOK
    BY DEF IInv
  <1>2. CASE Start
    BY <1>2, StartStep DEF LateInitInv, LateReads
  <1>3. CASE Describe
    <2> DEFINE id == latest.status.arn
    <2>1. pc = "describe" /\ latest' = latest /\ desired' = desired
      BY <1>3, DescribeStep
    <2>2. CASE /\ Live(id) /\ pc' = "listTags" /\ caller' = caller
               /\ observed' = sdkFind(latest, id, acm[id])
      <3>1. id \in CertIds /\ id # Nil /\ latest \in Resource
        BY <1>1, <2>1, DataAssumption DEF MemoryOK, OnCertificate
      <3>2. acm[id].keyAlgorithm # Nil
        BY <2>1, <2>2, <3>1 DEF KnownAreMadeHere, InMemory, IsLive, MadeHere
      <3>3. observed'.spec.keyAlgorithm = acm[id].keyAlgorithm
        BY <2>2, <3>1 DEF sdkFind, describedSpec, Resource, CertificateSpec
      <3> HIDE DEF id
      <3> QED BY <2>1, <2>2, <3>2, <3>3 DEF LateInitInv, LateReads
    <2>3. CASE pc' \notin {"describe", "listTags", "patchSpec"}
      BY <2>3, ElsewhereLateInitInv
    <2> QED BY <1>3, <2>2, <2>3, DescribeStep DEF Ends
  <1>4. CASE ListTags
    BY <1>4, ListTagsLateInitInv
  <1>5. CASE Import \/ Request
    <2>1. CASE pc' = "patchStatus"
      BY <2>1, ElsewhereLateInitInv
    <2>2. ASSUME NEW id \in CertIds, pc' = "describe", caller' = "create",
                 latest' = [desired EXCEPT !.status.arn = id], desired' = desired,
                 desired \in Resource
          PROVE  LateInitInv'
      BY <2>2 DEF LateInitInv, LateReads, Resource
    <2>3. desired \in Resource
      BY <1>1, <1>5, CreateStep DEF MemoryOK
    <2> QED BY <1>5, <2>1, <2>2, <2>3, CreateStep
  <1>6. CASE WriteKey \/ RemoveTags \/ AddTags \/ UpdateOptions
    <2>1. /\ desired' = desired /\ desired \in Resource
          /\ \/ pc' \notin {"describe", "listTags", "patchSpec"}
             \/ /\ pc' = "describe" /\ caller' = "late"
                /\ latest' \in {desired, withExportedStatus(desired, latest)}
      BY <1>1, <1>6, WriteKeyStep, TagsStep DEF MemoryOK, Ends
    <2>2. withExportedStatus(desired, latest).spec = desired.spec
      BY <2>1 DEF withExportedStatus, Resource
    <2> QED BY <2>1, <2>2, ElsewhereLateInitInv, LateLateInitInv
  <1>7. CASE \/ MarkManaged \/ RefuseCreate \/ Export \/ WriteCertificate
             \/ PatchSpec \/ PatchStatus \/ Delete \/ MarkUnmanaged \/ Crash
    <2>1. pc' \notin {"describe", "listTags", "patchSpec"}
      BY <1>7, MarkManagedStep, RefuseCreateStep, ExportStep, WriteCertificateStep, PatchSpecStep,
         PatchStatusStep, DeleteStep, MarkUnmanagedStep DEF Ends, Crash
    <2> QED BY <2>1, ElsewhereLateInitInv
  <1>8. CASE (Environment /\ ~Crash) \/ UNCHANGED vars
    <2>1. UNCHANGED <<pc, caller, desired, latest, observed>>
      BY <1>8, OutsideStep DEF vars, memory
    <2> QED BY <2>1 DEF LateInitInv, LateReads
  <1> QED BY <1>2, <1>3, <1>4, <1>5, <1>6, <1>7, <1>8 DEF Next, Reconcile, Rest

(* Initially the controller knows no certificate.                            *)
LEMMA InitKnown == Init => KnownAreMadeHere /\ LateInitInv
  BY DEF Init, KnownAreMadeHere, Recorded, InMemory, IsLive, NoStatus, LateInitInv, LateReads

(* The certificates the controller knows are of its own making, and a late  *)
(* initialisation has every field the resource had set.                     *)
THEOREM LateInitInvCorrect == Spec => [](KnownAreMadeHere /\ LateInitInv)
  <1>1. IInv /\ KnownAreMadeHere /\ LateInitInv /\ [Next]_vars
          => (KnownAreMadeHere /\ LateInitInv)'
    BY KnownAreMadeHereStep, LateInitInvStep
  <1> QED BY <1>1, InitKnown, InvariantCorrect, PTL DEF Spec

(* The patch of a late initialisation leaves alone every field that was set *)
(* when the reconcile read the resource.                                    *)
THEOREM ProvidedFieldsAreKept == Spec => ProvidedFieldsKept
  <1>1. ASSUME IInv, LateInitInv, [Next]_vars, pc = "patchSpec", pc' # pc,
               NEW f \in DOMAIN cr.spec, desired.spec[f] # Nil
        PROVE  cr'.spec[f] = cr.spec[f]
    <2>1. CASE UNCHANGED cr
      BY <2>1
    <2>2. CASE PatchSpec /\ cr' = [cr EXCEPT !.spec = mergePatch(cr.spec, latest.spec, observed.spec)]
      <3>1. cr'.spec = mergePatch(cr.spec, latest.spec, observed.spec)
        BY <2>2 DEF IInv, TypeOK
      <3>2. f \in LateInitializedFields => observed.spec[f] = latest.spec[f]
        BY <1>1 DEF LateInitInv
      <3> QED BY <1>1, <3>1, <3>2 DEF mergePatch
    <2>3. CASE PatchSpec
      BY <2>1, <2>2, <2>3, <1>1, PatchSpecStep
    <2>4. CASE Environment
      BY <1>1, <2>1, <2>4, OutsideStep DEF Crash
    <2>5. CASE Reconcile /\ ~PatchSpec
      BY <1>1, <2>5
         DEF Reconcile, Start, Describe, ListTags, MarkManaged, RefuseCreate, Import, Request,
             Export, WriteCertificate, WriteKey, RemoveTags, AddTags, UpdateOptions, PatchStatus,
             Delete, MarkUnmanaged
    <2> QED BY <1>1, <2>3, <2>4, <2>5 DEF Next, Rest, vars
  <1>2. IInv /\ KnownAreMadeHere /\ LateInitInv /\ [Next]_vars
          => [pc = "patchSpec" /\ pc' # pc =>
                \A f \in DOMAIN cr.spec : desired.spec[f] # Nil => cr'.spec[f] = cr.spec[f]]_vars
    BY <1>1
  <1> QED BY <1>2, InvariantCorrect, LateInitInvCorrect, PTL DEF ProvidedFieldsKept, Spec

-----------------------------------------------------------------------------
(* The tags of AWS *)

(* Default tags are not among the tags of AWS, so that ensuring them adds   *)
(* none.                                                                    *)
LEMMA EnsureNoAwsTags ==
  ASSUME NEW spec \in CertificateSpec, NoAwsTags(spec.tags)
  PROVE  NoAwsTags([spec EXCEPT !.tags = EnsureTags(spec.tags)].tags)
  <1>1. [spec EXCEPT !.tags = EnsureTags(spec.tags)].tags = EnsureTags(spec.tags)
    BY DEF CertificateSpec
  <1>2. NoAwsTags(EnsureTags(spec.tags))
    BY DataAssumption DEF NoAwsTags, EnsureTags
  <1> QED BY <1>1, <1>2

(* Mirrored, the aws: tags of a resource without any are those of the read. *)
LEMMA MirroredAwsTags ==
  ASSUME NEW a \in Resource, NEW b \in Resource, NoAwsTags(a.spec.tags)
  PROVE  \A k \in AwsTagKeys : mirrorAWSTags(a, b).spec.tags[k] = b.spec.tags[k]
  <1>1. mirrorAWSTags(a, b).spec.tags = syncAWSTags(a.spec.tags, b.spec.tags)
    BY DEF mirrorAWSTags, Resource, CertificateSpec
  <1>2. \A k \in AwsTagKeys : syncAWSTags(a.spec.tags, b.spec.tags)[k] = b.spec.tags[k]
    BY DataAssumption DEF NoAwsTags, syncAWSTags
  <1> QED BY <1>1, <1>2

(* Only users change the tags of the spec. *)
LEMMA TagsOfSpec ==
  ASSUME IInv, [Next]_vars, UsersLeaveAwsTags, NoAwsTags(cr.spec.tags)
  PROVE  NoAwsTags(cr'.spec.tags)
  <1>1. TypeOK /\ cr.spec \in CertificateSpec
    BY DEF IInv, TypeOK
  <1>2. CASE EditSpec
    <2>1. PICK f \in DOMAIN Edits : \E v \in Edits[f] :
            cr' = [cr EXCEPT !.spec = [cr.spec EXCEPT ![f] = v]]
      BY <1>2 DEF EditSpec
    <2>2. PICK v \in Edits[f] : cr'.spec = [cr.spec EXCEPT ![f] = v]
      BY <1>1, <2>1 DEF TypeOK
    <2>3. CASE f = "tags"
      BY <1>1, <2>1, <2>2, <2>3 DEF UsersLeaveAwsTags, CertificateSpec
    <2>4. CASE f # "tags"
      BY <1>1, <2>2, <2>4 DEF CertificateSpec
    <2> QED BY <2>3, <2>4
  <1>3. CASE PatchSpec
    <2>1. mergePatch(cr.spec, latest.spec, observed.spec).tags = cr.spec.tags
      BY <1>1 DEF mergePatch, LateInitializedFields, CertificateSpec
    <2> QED BY <1>1, <1>3, <2>1, PatchSpecStep DEF TypeOK
  <1>4. CASE cr'.spec = cr.spec
    BY <1>4
  <1>5. CASE MarkManaged \/ PatchStatus \/ MarkUnmanaged
    BY <1>4, <1>5, MarkManagedStep, PatchStatusStep, MarkUnmanagedStep
  <1>6. CASE (Environment /\ ~EditSpec) \/ UNCHANGED vars
    BY <1>4, <1>6, OutsideStep DEF Crash, vars
  <1>7. CASE /\ Reconcile
             /\ ~PatchSpec /\ ~MarkManaged /\ ~PatchStatus /\ ~MarkUnmanaged
    BY <1>4, <1>7
       DEF Reconcile, Start, Describe, ListTags, RefuseCreate, Import, Request,
           Export, WriteCertificate, WriteKey, RemoveTags, AddTags, UpdateOptions, Delete
  <1> QED BY <1>2, <1>3, <1>5, <1>6, <1>7 DEF Next, Rest

(* Every step preserves AwsTagsInv while users leave the tags of AWS alone.  *)
LEMMA AwsTagsInvStep ==
  ASSUME IInv, [Next]_vars, UsersLeaveAwsTags, AwsTagsInv
  PROVE  AwsTagsInv'
  <1>1. /\ TypeOK /\ MemoryOK /\ NoAwsTags(cr'.spec.tags)
        /\ NoAwsTags(cr'.spec.tags) <=> NoAwsTags(cr.spec.tags)'
    BY TagsOfSpec DEF IInv, AwsTagsInv, NoAwsTags
  <1>2. CASE /\ pc' \notin {"removeTags", "addTags"}
             /\ pc' \in {"describe", "listTags"} => caller' # "sync"
    BY <1>1, <1>2 DEF AwsTagsInv
  <1>3. CASE Start /\ pc' \in {"describe", "listTags"} /\ caller' = "sync"
    <2>1. desired'.spec = [cr.spec EXCEPT !.tags = EnsureTags(cr.spec.tags)]
      BY <1>3, StartStep
    <2>2. NoAwsTags([cr.spec EXCEPT !.tags = EnsureTags(cr.spec.tags)].tags)
      BY <1>1, EnsureNoAwsTags DEF AwsTagsInv, TypeOK
    <2> QED BY <1>1, <1>3, <2>1, <2>2 DEF AwsTagsInv, NoAwsTags
  <1>4. CASE Describe /\ pc' = "listTags" /\ caller' = "sync"
    <2>1. pc = "describe" /\ caller = "sync" /\ desired' = desired
      BY <1>4, DescribeStep DEF Ends
    <2> QED BY <1>1, <1>4, <2>1 DEF AwsTagsInv, NoAwsTags
  <1>5. CASE ListTags /\ FoundNow \in Resource /\ ReadForSync(FoundNow)
    <2> DEFINE a == mirrorAWSTags(desired, FoundNow)
    <2>1. /\ pc = "listTags" /\ caller = "sync" /\ desired \in Resource
          /\ desired' = a /\ Update(a, FoundNow) /\ a \in Resource
      BY <1>1, <1>5, mirrorAWSTagsType DEF ReadForSync, ListTags, MemoryOK
    <2>2. \A k \in AwsTagKeys : a.spec.tags[k] = FoundNow.spec.tags[k]
      BY <1>5, <2>1, MirroredAwsTags DEF AwsTagsInv
    <2> HIDE DEF a
    <2>3. \/ latest' = FoundNow
          \/ /\ pc' \notin {"removeTags", "addTags"}
             /\ pc' \in {"describe", "listTags"} => caller' # "sync"
      BY <1>5, <2>1, UpdateDue DEF Ends
    <2>4. pc' \in {"describe", "listTags"} => caller' # "sync"
      BY <1>5, <2>1, UpdateDue DEF Ends
    <2> QED BY <1>1, <1>2, <2>1, <2>2, <2>3, <2>4 DEF AwsTagsInv, NoAwsTags
  <1>6. CASE RemoveTags /\ pc' = "addTags"
    <2>1. pc = "removeTags" /\ latest' = latest /\ desired' = desired
      BY <1>6, TagsStep DEF Ends
    <2> QED BY <1>1, <1>6, <2>1 DEF AwsTagsInv, NoAwsTags
  <1>7. CASE (Environment /\ ~Crash) \/ UNCHANGED vars
    <2>1. UNCHANGED <<pc, caller, desired, latest>>
      BY <1>7, OutsideStep DEF vars, memory
    <2> QED BY <1>1, <2>1 DEF AwsTagsInv, NoAwsTags
  <1>8. CASE Reconcile
    <2>1. Start => pc' \notin {"removeTags", "addTags"}
      BY StartStep
    <2>2. Describe => pc' \notin {"removeTags", "addTags", "describe"}
      BY DescribeStep DEF Ends
    <2>3. CASE ListTags /\ ~(FoundNow \in Resource /\ ReadForSync(FoundNow))
      <3>1. \/ ReadForCreate(FoundNow) \/ ReadForLateInitialization(FoundNow)
            \/ ReadForDelete(FoundNow) \/ Ends(latest)
        BY <2>3, ListTagsStep
      <3> QED BY <1>2, <3>1
              DEF ReadForCreate, LateInitialize, ReadForLateInitialization, ReadForDelete, Goto,
                  Finish, Ends
    <2>4. \/ MarkManaged \/ RefuseCreate \/ Import \/ Request \/ Export \/ WriteCertificate
          \/ WriteKey \/ PatchSpec \/ PatchStatus \/ Delete \/ MarkUnmanaged
          => /\ pc' \notin {"removeTags", "addTags"}
             /\ pc' \in {"describe", "listTags"} => caller' # "sync"
      BY MarkManagedStep, RefuseCreateStep, CreateStep, ExportStep, WriteCertificateStep,
         WriteKeyStep, PatchSpecStep, PatchStatusStep, DeleteStep, MarkUnmanagedStep DEF Ends
    <2>5. RemoveTags \/ AddTags \/ UpdateOptions
            => /\ pc' \in {"describe", "listTags"} => caller' # "sync"
               /\ pc' \in {"removeTags", "addTags"} => RemoveTags /\ pc' = "addTags"
      <3>1. AddTags => pc = "addTags"
        BY DEF AddTags
      <3>2. UpdateOptions => pc = "updateOptions"
        BY DEF UpdateOptions
      <3> QED BY <3>1, <3>2, TagsStep DEF Ends
    <2> QED BY <1>2, <1>3, <1>4, <1>5, <1>6, <1>8, <2>1, <2>2, <2>3, <2>4, <2>5 DEF Reconcile
  <1>9. CASE Crash
    BY <1>2, <1>9 DEF Crash
  <1> QED BY <1>7, <1>8, <1>9 DEF Next, Rest

(* No call of the controller changes an aws: tag of a certificate in ACM.   *)
LEMMA AwsTagsKeptStep ==
  ASSUME IInv, AwsTagsInv, [Next]_vars, pc' # pc, NEW id \in CertIds, NEW k \in AwsTagKeys,
         Live(id), acm'[id] \notin {Unused, Gone}
  PROVE  acm'[id].tags[k] = acm[id].tags[k]
  <1>1. /\ TypeOK /\ k \in TagKeys /\ acm[id] \in AcmCertificate
        /\ acm \in [CertIds -> AcmCertificate \cup {Unused, Gone}]
    BY DataAssumption DEF IInv, TypeOK, Live
  <1>2. CASE UNCHANGED acm
    BY <1>2
  <1>3. CASE RemoveTags
    <2>1. /\ pc = "removeTags" /\ desired.spec.tags[k] = latest.spec.tags[k]
      BY <1>3 DEF RemoveTags, AwsTagsInv
    <2>2. k \notin toDelete(desired.spec.tags, latest.spec.tags)
      BY <2>1 DEF toDelete
    <2> QED BY <1>1, <1>3, <2>2 DEF RemoveTags, AcmCertificate, TagMap
  <1>4. CASE AddTags
    <2>1. /\ pc = "addTags" /\ desired.spec.tags[k] = latest.spec.tags[k]
      BY <1>4 DEF AddTags, AwsTagsInv
    <2>2. k \notin toAdd(desired.spec.tags, latest.spec.tags)
      BY <2>1 DEF toAdd
    <2> QED BY <1>1, <1>4, <2>2 DEF AddTags, AcmCertificate, TagMap
  <1>5. CASE UpdateOptions
    BY <1>1, <1>5 DEF UpdateOptions, AcmCertificate
  <1>6. CASE Import
    <2>1. ASSUME NEW j \in CertIds, NEW t,
                 acm' = [acm EXCEPT ![j] = importedCertificate(t)],
                 j = id => t = acm[id].tags
          PROVE  acm'[id].tags = acm[id].tags
      BY <1>1, <2>1 DEF importedCertificate
    <2>2. \A j : NextArn(j) => j # id
      BY ControllerAssumption DEF NextArn, Live
    <2> QED BY <1>2, <1>6, <2>1, <2>2 DEF Import
  <1>7. CASE Request
    <2>1. \A j : NextArn(j) => j # id
      BY ControllerAssumption DEF NextArn, Live
    <2> QED BY <1>1, <1>2, <1>7, <2>1 DEF Request
  <1>8. CASE Delete
    BY <1>1, <1>2, <1>8 DEF Delete
  <1>9. CASE Environment
    <2>1. Crash \/ pc' = pc
      BY <1>9, OutsideStep
    <2> QED BY <1>2, <2>1 DEF Crash
  <1>10. CASE /\ Reconcile
              /\ ~RemoveTags /\ ~AddTags /\ ~UpdateOptions /\ ~Import /\ ~Request /\ ~Delete
    BY <1>2, <1>10
       DEF Reconcile, Start, Describe, ListTags, MarkManaged, RefuseCreate, Export,
           WriteCertificate, WriteKey, PatchSpec, PatchStatus, MarkUnmanaged
  <1> QED BY <1>3, <1>4, <1>5, <1>6, <1>7, <1>8, <1>9, <1>10 DEF Next, Rest, vars

(* As long as users leave the tags of AWS alone, as ACM makes them, so does *)
(* every step of the controller.                                            *)
THEOREM AwsTagsAreLeftAlone ==
  ASSUME UsersLeaveAwsTags
  PROVE  Spec => AwsTagsLeftAlone
  <1>1. Init => AwsTagsInv
    BY DEF Init, AwsTagsInv, UsersLeaveAwsTags
  <1>2. IInv /\ AwsTagsInv /\ [Next]_vars => AwsTagsInv'
    BY AwsTagsInvStep
  <1>3. IInv /\ AwsTagsInv /\ [Next]_vars
          => [pc' # pc => \A id \in CertIds, k \in AwsTagKeys :
                            IsLive(id) /\ acm'[id] \notin {Unused, Gone}
                              => acm'[id].tags[k] = acm[id].tags[k]]_vars
    BY AwsTagsKeptStep DEF IsLive
  <1> QED BY <1>1, <1>2, <1>3, InvariantCorrect, PTL DEF AwsTagsLeftAlone, Spec

-----------------------------------------------------------------------------
(* The other tags *)

(* Users, ACM and the services of AWS leave the other tags of a certificate *)
(* alone.                                                                   *)
LEMMA OtherTagsStay ==
  ASSUME IInv, Environment \/ UNCHANGED vars, NEW id \in CertIds, Live(id)',
         NEW k \in TagKeys \ AwsTagKeys
  PROVE  Live(id) /\ acm'[id].tags[k] = acm[id].tags[k]
  <1>1. TypeOK
    BY DEF IInv
  <1>2. CASE UNCHANGED acm
    BY <1>2 DEF Live
  <1>3. ASSUME NEW j \in CertIds, NEW c, Live(j), acm' = [acm EXCEPT ![j] = c],
               c = Gone \/ c.tags[k] = acm[j].tags[k]
        PROVE  Live(id) /\ acm'[id].tags[k] = acm[id].tags[k]
    BY <1>1, <1>3 DEF TypeOK, Live
  <1>4. ASSUME NEW j \in CertIds,
               Validate(j) \/ Renew(j) \/ Expire(j) \/ Vanish(j) \/ SetAwsTag(j)
        PROVE  Live(id) /\ acm'[id].tags[k] = acm[id].tags[k]
    <2>1. Live(j) /\ acm[j] \in AcmCertificate /\ acm[j].tags \in TagMap
      BY <1>1, <1>4
         DEF Validate, Renew, Expire, Vanish, SetAwsTag, TypeOK, Live, AcmCertificate
    <2>2. CASE Validate(j) \/ Renew(j) \/ Expire(j)
      <3>1. \E c : acm' = [acm EXCEPT ![j] = c] /\ c.tags[k] = acm[j].tags[k]
        <4>1. /\ \A n : [acm[j] EXCEPT !.status = "ISSUED", !.serial = n].tags = acm[j].tags
              /\ \A n : [acm[j] EXCEPT !.serial = n].tags = acm[j].tags
              /\ \A n : [acm[j] EXCEPT !.status = n].tags = acm[j].tags
          BY <2>1 DEF AcmCertificate
        <4> QED BY <2>2, <4>1 DEF Validate, Renew, Expire
      <3> QED BY <1>3, <2>1, <3>1
    <2>3. CASE Vanish(j)
      BY <1>3, <2>1, <2>3 DEF Vanish
    <2>4. CASE SetAwsTag(j)
      <3>1. PICK l \in AwsTagKeys, v \in TagValues \cup {Nil} :
              acm' = [acm EXCEPT ![j].tags[l] = v]
        BY <2>4 DEF SetAwsTag
      <3> DEFINE c == [acm[j] EXCEPT !.tags = [acm[j].tags EXCEPT ![l] = v]]
      <3>2. acm' = [acm EXCEPT ![j] = c]
        BY <3>1
      <3>3. c.tags[k] = acm[j].tags[k]
        BY <2>1 DEF AcmCertificate, TagMap
      <3> HIDE DEF c
      <3> QED BY <1>3, <2>1, <3>2, <3>3
    <2> QED BY <1>4, <2>2, <2>3, <2>4
  <1> QED BY <1>2, <1>4
          DEF Environment, Crash, EditSpec, DeleteResource, CreateSecret, vars

(* What a successful removal, and a successful addition, makes of the tags. *)
LEMMA RemovedTags ==
  ASSUME IInv, RemoveTags, pc' # "patchStatus", NEW k \in TagKeys
  PROVE  LET id == desired.status.arn
             gone == toDelete(desired.spec.tags, latest.spec.tags)
         IN  /\ pc = "removeTags" /\ Live(id) /\ id \in CertIds /\ id = latest.status.arn
             /\ acm'[id].tags[k] = IF k \in gone THEN Nil ELSE acm[id].tags[k]
             /\ pc' # "addTags" => toAdd(desired.spec.tags, latest.spec.tags) = {}
  <1> DEFINE id == desired.status.arn
             gone == toDelete(desired.spec.tags, latest.spec.tags)
             t == [l \in TagKeys |-> IF l \in gone THEN Nil ELSE acm[id].tags[l]]
  <1>1. /\ pc = "removeTags" /\ id \in CertIds /\ id = latest.status.arn /\ TypeOK
    BY DEF RemoveTags, IInv, MemoryOK, OnCertificate
  <1>2. \A call \in Calls : Fails(call, latest) => pc' = "patchStatus"
    BY <1>1, FailsEnds DEF Ends
  <1>3. /\ Live(id) /\ acm' = [acm EXCEPT ![id] = [acm[id] EXCEPT !.tags = t]]
        /\ pc' # "addTags" => toAdd(desired.spec.tags, latest.spec.tags) = {}
    BY <1>2 DEF RemoveTags, Goto, Finish, Calls
  <1>4. acm[id] \in AcmCertificate
    BY <1>1, <1>3 DEF TypeOK, Live
  <1> HIDE DEF id, t
  <1>5. acm'[id].tags = t
    BY <1>1, <1>3, <1>4 DEF TypeOK, AcmCertificate
  <1> USE DEF id, t
  <1> QED BY <1>1, <1>3, <1>5

(* An addition of tags adds those of toAdd to what the certificate has.      *)
LEMMA AddedTags ==
  ASSUME IInv, AddTags, pc' # "patchStatus", NEW k \in TagKeys
  PROVE  LET id == desired.status.arn
             new == toAdd(desired.spec.tags, latest.spec.tags)
         IN  /\ pc = "addTags" /\ Live(id) /\ id \in CertIds /\ id = latest.status.arn
             /\ acm'[id].tags[k] = IF k \in new THEN desired.spec.tags[k] ELSE acm[id].tags[k]
             /\ pc' # "addTags"
  <1> DEFINE id == desired.status.arn
             new == toAdd(desired.spec.tags, latest.spec.tags)
             t == [l \in TagKeys |-> IF l \in new THEN desired.spec.tags[l] ELSE acm[id].tags[l]]
  <1>1. /\ pc = "addTags" /\ id \in CertIds /\ id = latest.status.arn /\ TypeOK
    BY DEF AddTags, IInv, MemoryOK, OnCertificate
  <1>2. \A call \in Calls : Fails(call, latest) => pc' = "patchStatus"
    BY <1>1, FailsEnds DEF Ends
  <1>3. /\ Live(id) /\ acm' = [acm EXCEPT ![id] = [acm[id] EXCEPT !.tags = t]]
        /\ UpdateBehindTags(desired, latest)
    BY <1>2 DEF AddTags, Finish, Calls
  <1>4. acm[id] \in AcmCertificate /\ pc' # "addTags"
    BY <1>1, <1>3 DEF TypeOK, Live, UpdateBehindTags, LateInitialize, Goto, Finish
  <1> HIDE DEF id, t
  <1>5. acm'[id].tags = t
    BY <1>1, <1>3, <1>4 DEF TypeOK, AcmCertificate
  <1> USE DEF id, t
  <1> QED BY <1>1, <1>3, <1>4, <1>5

(* Every step preserves ListedTagsInv.                                       *)
LEMMA ListedTagsInvStep ==
  ASSUME IInv, ListedTagsInv, [Next]_vars
  PROVE  ListedTagsInv'
  <1> SUFFICES ASSUME pc' \in {"removeTags", "addTags"}, Live(latest.status.arn)',
                      NEW k \in TagKeys \ AwsTagKeys
               PROVE  acm'[latest'.status.arn].tags[k]
                        = IF pc' = "addTags" /\ k \in toDelete(desired'.spec.tags, latest'.spec.tags)
                          THEN Nil ELSE latest'.spec.tags[k]
    BY DEF ListedTagsInv, ListedTags
  <1>1. TypeOK /\ MemoryOK
    BY DEF IInv
  <1>2. CASE ListTags
    <2>1. /\ FoundNow \in Resource /\ ReadForSync(FoundNow) /\ UNCHANGED acm
          /\ FoundNow.status = observed.status
          /\ FoundNow.spec = [observed.spec EXCEPT !.tags = acm[latest.status.arn].tags]
          /\ pc = "listTags" /\ observed \in Resource /\ desired \in Resource
      BY <1>1, <1>2, ListTagsStep
         DEF Ends, ReadForCreate, LateInitialize, ReadForLateInitialization, ReadForDelete, Goto,
             Finish, MemoryOK
    <2>2. FoundNow.spec.tags = acm[latest.status.arn].tags
      BY <2>1 DEF Resource, CertificateSpec
    <2> DEFINE a == mirrorAWSTags(desired, FoundNow)
    <2>3. a \in Resource /\ desired' = a /\ Update(a, FoundNow)
      BY <2>1, mirrorAWSTagsType DEF ReadForSync
    <2> HIDE DEF a
    <2>4. latest' = FoundNow
      BY <2>1, <2>3, UpdateDue DEF Ends
    <2>5. pc' = "addTags" => toDelete(a.spec.tags, FoundNow.spec.tags) = {}
      BY <2>3 DEF Update, UpdateBehindTags, LateInitialize, Goto, Finish
    <2>6. latest'.status.arn = latest.status.arn
      BY <1>1, <2>1, <2>4 DEF MemoryOK
    <2> QED BY <2>1, <2>2, <2>3, <2>4, <2>5, <2>6
  <1>3. CASE RemoveTags
    <2>1. /\ pc' = "addTags" /\ pc = "removeTags" /\ latest' = latest /\ desired' = desired
      BY <1>3, TagsStep DEF Ends, RemoveTags
    <2>2. acm[latest.status.arn].tags[k] = latest.spec.tags[k]
      BY <1>3, <2>1, RemovedTags DEF ListedTagsInv, ListedTags
    <2> QED BY <1>3, <2>1, <2>2, RemovedTags
  <1>4. CASE Environment \/ UNCHANGED vars
    <2>1. UNCHANGED <<pc, latest, desired>>
      BY <1>4, OutsideStep DEF Crash, vars, memory
    <2>2. PICK id \in CertIds : id = latest.status.arn /\ Live(id)'
      BY <1>1, <2>1 DEF MemoryOK, OnCertificate, Live
    <2>3. Live(id) /\ acm'[id].tags[k] = acm[id].tags[k]
      BY <1>4, <2>2, OtherTagsStay
    <2> QED BY <2>1, <2>2, <2>3 DEF ListedTagsInv, ListedTags
  <1>5. CASE AddTags
    BY <1>5, AddedTags, TagsStep DEF AddTags, Ends
  <1>6. CASE UpdateOptions
    BY <1>6, TagsStep DEF UpdateOptions, Ends
  <1>7. CASE Reconcile /\ ~ListTags /\ ~RemoveTags /\ ~AddTags /\ ~UpdateOptions
    BY <1>7, StartStep, DescribeStep, MarkManagedStep, RefuseCreateStep, CreateStep, ExportStep,
       WriteCertificateStep, WriteKeyStep, PatchSpecStep, PatchStatusStep, DeleteStep,
       MarkUnmanagedStep DEF Reconcile, Ends
  <1> QED BY <1>2, <1>3, <1>4, <1>5, <1>6, <1>7 DEF Next, Rest

(* An update that gets past the tags has made those of the certificate the  *)
(* desired ones.                                                            *)
THEOREM TagsAreSynced == Spec => SyncedTagsAreDesired
  <1>1. Init => ListedTagsInv
    BY DEF Init, ListedTagsInv
  <1>2. ASSUME IInv, ListedTagsInv, Next,
               pc \in {"removeTags", "addTags"}, pc' \in {"describe", "updateOptions"},
               NEW k \in TagKeys \ AwsTagKeys
        PROVE  acm'[desired.status.arn].tags[k] = desired.spec.tags[k]
    <2>1. CASE RemoveTags
      <3>1. /\ acm[latest.status.arn].tags[k] = latest.spec.tags[k]
            /\ toAdd(desired.spec.tags, latest.spec.tags) = {}
        BY <1>2, <2>1, RemovedTags DEF ListedTagsInv, ListedTags
      <3> QED BY <1>2, <2>1, <3>1, RemovedTags DEF toAdd, toDelete
    <2>2. CASE AddTags
      <3>1. acm[latest.status.arn].tags[k]
              = IF k \in toDelete(desired.spec.tags, latest.spec.tags)
                THEN Nil ELSE latest.spec.tags[k]
        BY <1>2, <2>2, AddedTags DEF ListedTagsInv, ListedTags
      <3> QED BY <1>2, <2>2, <3>1, AddedTags DEF toAdd, toDelete
    <2>3. CASE Environment
      BY <1>2, <2>3, OutsideStep DEF Crash
    <2>4. CASE Reconcile /\ ~RemoveTags /\ ~AddTags
      BY <1>2, <2>4
         DEF Reconcile, Start, Describe, ListTags, MarkManaged, RefuseCreate, Import, Request,
             Export, WriteCertificate, WriteKey, UpdateOptions, PatchSpec, PatchStatus, Delete,
             MarkUnmanaged
    <2> QED BY <1>2, <2>1, <2>2, <2>3, <2>4 DEF Next, Rest, vars
  <1>3. IInv /\ ListedTagsInv /\ [Next]_vars => ListedTagsInv'
    BY ListedTagsInvStep
  <1>4. IInv /\ ListedTagsInv /\ [Next]_vars
          => [(pc \in {"removeTags", "addTags"} /\ pc' \in {"describe", "updateOptions"})
                => \A k \in TagKeys \ AwsTagKeys :
                     acm'[desired.status.arn].tags[k] = desired.spec.tags[k]]_vars
    BY <1>2
  <1> QED BY <1>1, <1>3, <1>4, InvariantCorrect, PTL DEF Spec, SyncedTagsAreDesired
=============================================================================
