---------------------------- MODULE ExportProofs ----------------------------
(***************************************************************************)
(* Proofs about the export to the Secret: a serial number the controller   *)
(* records is in the Secret, certificate and key, and without failures it  *)
(* never records one the Secret holds half of.                             *)
(***************************************************************************)
EXTENDS RecordProofs

-----------------------------------------------------------------------------
(* Statuses and certificates *)

(* What a step makes of a certificate: an older one ages, a new one carries *)
(* no serial number or the next one.                                        *)
LEMMA AcmStep ==
  ASSUME IInv, [Next]_vars, NEW id \in CertIds, Live(id)'
  PROVE  \/ Live(id) /\ (acm'[id] = acm[id] \/ Ages(acm[id], acm'[id]))
         \/ /\ acm'[id].serial = 0 \/ (acm'[id].serial = serials + 1 /\ serials' = serials + 1)
            /\ acm'[id].serial > 0 => ~acm'[id].exportable
            /\ Import \/ Request
  <1>1. TypeOK
    BY DEF IInv
  <1>2. CASE UNCHANGED vars
    BY <1>2 DEF vars, Live
  <1>3. CASE Import \/ Request
    <2>1. CASE UNCHANGED acm
      BY <2>1 DEF Live
    <2>2. ASSUME NEW j \in CertIds, NEW c \in AcmCertificate,
                 acm' = [acm EXCEPT ![j] = c],
                 \/ c.serial = 0
                 \/ c.serial = serials + 1 /\ serials' = serials + 1,
                 c.serial > 0 => ~c.exportable
          PROVE  \/ Live(id) /\ acm'[id] = acm[id]
                 \/ /\ acm'[id].serial = 0
                       \/ (acm'[id].serial = serials + 1 /\ serials' = serials + 1)
                    /\ acm'[id].serial > 0 => ~acm'[id].exportable
      <3>1. CASE id = j
        BY <1>1, <2>2, <3>1 DEF TypeOK
      <3>2. CASE id # j
        BY <1>1, <2>2, <3>2 DEF TypeOK, Live
      <3> QED BY <3>1, <3>2
    <2> QED BY <1>3, <2>1, <2>2, CreateStep
  <1>4. CASE Next /\ ~Import /\ ~Request
    BY <1>4, LiveAges
  <1> QED BY <1>2, <1>3, <1>4

(* A status that is not ahead of ACM does not get ahead: ACM does not go    *)
(* back.                                                                    *)
LEMMA NotAheadStays ==
  ASSUME IInv, [Next]_vars, NEW st \in CertificateStatus, NotAhead(st)
  PROVE  NotAhead(st)'
  <1>1. /\ serials \in Nat /\ serials' \in {serials, serials + 1}
        /\ st.serial \in Nat /\ st.arn \in CertIds \cup {Nil} /\ TypeOK /\ TypeOK'
    BY SerialsGrow, NextIInv DEF IInv, TypeOK, CertificateStatus, Opt
  <1> DEFINE id == st.arn
  <1>2. CASE IsLive(id)'
    <2>1. id \in CertIds /\ Live(id)' /\ id # Nil
      BY <1>1, <1>2 DEF IsLive
    <2>2. acm'[id] \in AcmCertificate /\ (Live(id) => acm[id] \in AcmCertificate)
      BY <1>1, <2>1 DEF TypeOK, Live
    <2>3. CASE Live(id) /\ (acm'[id] = acm[id] \/ Ages(acm[id], acm'[id]))
      BY <1>1, <2>1, <2>2, <2>3 DEF NotAhead, Ages, IsLive, AcmCertificate
    <2>4. CASE \/ acm'[id].serial = 0
               \/ acm'[id].serial = serials + 1 /\ serials' = serials + 1
      BY <1>1, <2>1, <2>4 DEF NotAhead
    <2> QED BY <2>1, <2>3, <2>4, AcmStep
  <1>3. CASE ~IsLive(id)'
    BY <1>1, <1>3 DEF NotAhead
  <1> QED BY <1>2, <1>3

(* What a describe returns is not ahead. *)
LEMMA DescribedNotAhead ==
  ASSUME IInv, NEW id \in CertIds, Live(id), MadeHere(acm[id])
  PROVE  NotAhead(describedStatus(id, acm[id]))
  <1>1. acm[id] \in AcmCertificate /\ serials \in Nat
    BY DEF IInv, TypeOK, Live
  <1> DEFINE st == describedStatus(id, acm[id])
  <1>2. /\ st.serial = acm[id].serial /\ st.arn = id
        /\ st.issuedAt = (acm[id].status \in {"ISSUED", "EXPIRED"} /\ acm[id].type # "IMPORTED")
    BY DEF describedStatus
  <1> HIDE DEF st
  <1>3. /\ st.serial <= serials
        /\ st.issuedAt => st.serial > 0
        /\ acm[id].serial > 0 /\ acm[id].exportable => st.issuedAt
    BY <1>1, <1>2 DEF MadeHere, AcmCertificate
  <1> QED BY <1>1, <1>2, <1>3 DEF NotAhead, AcmCertificate, st

(* The status an update returns is as far as the observed one. *)
LEMMA ExportedNotAhead ==
  ASSUME NEW a \in Resource, NEW b \in Resource, a.status.arn = b.status.arn,
         NotAhead(b.status)
  PROVE  NotAhead(withExportedStatus(a, b).status)
  <1>1. /\ withExportedStatus(a, b).status.arn = b.status.arn
        /\ withExportedStatus(a, b).status.serial = b.status.serial
        /\ withExportedStatus(a, b).status.issuedAt = b.status.issuedAt
    BY DEF withExportedStatus, Resource, CertificateStatus
  <1> QED BY <1>1 DEF NotAhead

-----------------------------------------------------------------------------
(* AcknowledgeInv *)

(* Initially nothing is recorded.                                            *)
LEMMA InitAcknowledgeInv == Init => AcknowledgeInv
  <1> SUFFICES ASSUME Init PROVE AcknowledgeInv
    OBVIOUS
  <1>1. pc = "idle" /\ cr.status = NoStatus /\ serials = 0
    BY DEF Init
  <1> QED BY <1>1 DEF AcknowledgeInv, DesiredIsRecorded, KnownAreMadeHere, StatusesNotAhead, NotAhead,
             LateKeepsStatus, FoundBySync, ExportSteps, RecordsSettled, LateReads, CreatedIsNew,
             Recorded, InMemory, IsLive, NoStatus

NotAheadStatuses == {st \in CertificateStatus : NotAhead(st)}

(* Statuses that were not ahead are not ahead after the step. *)
LEMMA StatusesStay ==
  ASSUME IInv, [Next]_vars,
         cr'.status \in NotAheadStatuses,
         pc' # "idle" => latest'.status \in NotAheadStatuses,
         pc' \in {"listTags", "patchSpec"} => observed'.status \in NotAheadStatuses
  PROVE  StatusesNotAhead'
  <1>1. \A st \in NotAheadStatuses : NotAhead(st)'
    BY NotAheadStays DEF NotAheadStatuses
  <1> QED BY <1>1 DEF StatusesNotAhead, NotAhead, IsLive, Live

(* The statuses in memory and in the resource are such. *)
LEMMA StatusesNow ==
  ASSUME IInv, StatusesNotAhead
  PROVE  /\ cr.status \in NotAheadStatuses
         /\ pc # "idle" => latest.status \in NotAheadStatuses
         /\ pc \in {"listTags", "patchSpec"} => observed.status \in NotAheadStatuses
  BY DEF IInv, TypeOK, MemoryOK, Resource, StatusesNotAhead, NotAheadStatuses

(* While a reconcile may still write, its resource is the recorded one. *)
LEMMA DesiredArn ==
  ASSUME IInv, pc \in OnManaged
  PROVE  cr.exists /\ desired.status.arn = Recorded
  BY DEF IInv, Managed, Provenance, OnManaged, OnCertificate

(* A step to the end of a reconcile, not a successful one. *)
LEMMA EndsAcknowledgeInv ==
  ASSUME IInv, AcknowledgeInv, [Next]_vars,
         pc # "idle", Ends(latest'), desired' = desired, cr'.status = cr.status,
         latest'.status \in NotAheadStatuses
  PROVE  AcknowledgeInv'
  <1>1. StatusesNotAhead' /\ KnownAreMadeHere'
    BY StatusesStay, StatusesNow, KnownAreMadeHereStep DEF AcknowledgeInv, Ends
  <1> QED BY <1>1 DEF AcknowledgeInv, Ends, DesiredIsRecorded, LateKeepsStatus, FoundBySync, ExportSteps,
             RecordsSettled, LateReads, CreatedIsNew

(* A step to the end of a reconcile or to the removal of the finalizer, and *)
(* one that goes on to a create.                                            *)
LEMMA QuietAcknowledgeInv ==
  ASSUME IInv, AcknowledgeInv, [Next]_vars,
         pc' \in {"idle", "manage", "create", "unmanage", "delete"},
         pc' # "idle" => desired'.status = cr'.status,
         cr'.status \in NotAheadStatuses,
         pc' # "idle" => latest'.status \in NotAheadStatuses
  PROVE  AcknowledgeInv'
  <1>1. StatusesNotAhead' /\ KnownAreMadeHere'
    BY StatusesStay, KnownAreMadeHereStep DEF AcknowledgeInv
  <1> QED BY <1>1 DEF AcknowledgeInv, DesiredIsRecorded, LateKeepsStatus, FoundBySync, ExportSteps,
             RecordsSettled, LateReads, CreatedIsNew

(* What a read for a sync found stays true while ACM goes on. *)
LEMMA FoundStays ==
  ASSUME IInv, [Next]_vars, ~Import, ~Request, cr'.status = cr.status,
         NEW st \in CertificateStatus, Found(st)
  PROVE  Found(st)'
  <1>1. /\ "expire" \in Bounded /\ TypeOK /\ TypeOK' /\ serials \in Nat
        /\ budget["expire"] <= budget'["expire"]
        /\ budget["expire"] \in Nat /\ budget'["expire"] \in Nat
        /\ st.arn \in CertIds \cup {Nil}
    BY BudgetGrows, NextIInv DEF IInv, TypeOK, Bounded, CertificateStatus, Opt
  <1>2. CASE st.serial > 0 /\ IsLive(st.arn)'
    <2>1. st.arn \in CertIds /\ Live(st.arn)' /\ st.arn # Nil
      BY <1>1, <1>2 DEF IsLive
    <2>2. Live(st.arn) /\ (acm'[st.arn] = acm[st.arn] \/ Ages(acm[st.arn], acm'[st.arn]))
      BY <2>1, AcmStep
    <2>3. acm[st.arn] \in AcmCertificate /\ acm'[st.arn] \in AcmCertificate
      BY <1>1, <2>1, <2>2 DEF TypeOK, Live
    <2>4. acm'[st.arn].serial > 0
      BY <1>1, <1>2, <2>1, <2>2, <2>3 DEF Found, IsLive, Ages, AcmCertificate
    <2> QED BY <1>1, <2>4 DEF Found
  <1>3. CASE ~(st.serial > 0 /\ IsLive(st.arn)')
    BY <1>1, <1>3 DEF Found, IsLive, Live
  <1> QED BY <1>2, <1>3

(* Users, ACM and idling leave a reconcile as it is. *)
LEMMA OutsideAcknowledgeInv ==
  ASSUME IInv, AcknowledgeInv, Environment \/ UNCHANGED vars, ~Crash
  PROVE  AcknowledgeInv'
  <1>1. /\ UNCHANGED <<pc, memory>> /\ cr'.status = cr.status
        /\ secret'.crt = secret.crt /\ secret'.key = secret.key /\ [Next]_vars
        /\ UNCHANGED <<caller, desired, latest, observed, exported, outcome>>
    BY OutsideStep DEF vars, Next, memory
  <1>2. ~Import /\ ~Request
    <2>1. Import \/ Request => pc = "create" /\ pc' # pc
      BY CreateStep DEF Ends
    <2> QED BY <1>1, <2>1
  <1>3. StatusesNotAhead' /\ KnownAreMadeHere'
    BY <1>1, StatusesStay, StatusesNow, KnownAreMadeHereStep DEF AcknowledgeInv
  <1>4. FoundBySync'
    <2>1. /\ pc = "listTags" => observed.status \in CertificateStatus
          /\ pc \in {"export", "removeTags", "addTags", "updateOptions"}
               => latest.status \in CertificateStatus
      BY DEF IInv, MemoryOK, Resource
    <2>2. /\ pc = "listTags" /\ caller = "sync" => Found(observed.status)
          /\ pc \in {"export", "removeTags", "addTags", "updateOptions"} => Found(latest.status)
      BY DEF AcknowledgeInv, FoundBySync
    <2>3. \A st \in CertificateStatus : Found(st) => Found(st)'
      BY <1>1, <1>2, FoundStays
    <2> QED BY <1>1, <2>1, <2>2, <2>3 DEF FoundBySync, Found, IsLive, Live
  <1>5. ExportSteps'
    <2>1. pc \in {"writeCertificate", "writeKey"} /\ IsLive(latest.status.arn)'
             /\ acm'[latest.status.arn].serial = exported
             => acm'[latest.status.arn].exportable
      <3> DEFINE id == latest.status.arn
      <3> SUFFICES ASSUME pc \in {"writeCertificate", "writeKey"}, IsLive(latest.status.arn)',
                          acm'[id].serial = exported
                   PROVE  acm'[id].exportable
        OBVIOUS
      <3>1. /\ id \in CertIds /\ Live(id)' /\ id # Nil /\ serials \in Nat
            /\ exported <= serials /\ exported \in Nat /\ TypeOK
        BY <1>1, DataAssumption
           DEF IInv, TypeOK, MemoryOK, OnCertificate, IsLive, Live, AcknowledgeInv, ExportSteps
      <3>2. Live(id) /\ (acm'[id] = acm[id] \/ Ages(acm[id], acm'[id]))
        BY <1>1, <1>2, <3>1, AcmStep
      <3>3. acm[id] \in AcmCertificate
        BY <3>1, <3>2 DEF TypeOK, Live
      <3>4. acm'[id].serial = acm[id].serial /\ acm'[id].exportable = acm[id].exportable
        BY <3>1, <3>2, <3>3 DEF Ages, AcmCertificate
      <3> QED BY <3>1, <3>2, <3>4 DEF AcknowledgeInv, ExportSteps, IsLive
    <2>2. serials \in Nat /\ serials' \in {serials, serials + 1} /\ exported \in Nat
      BY <1>1, SerialsGrow DEF IInv, TypeOK
    <2> QED BY <1>1, <2>1, <2>2 DEF AcknowledgeInv, ExportSteps, ExportDue, IsLive, Live
  <1>6. RecordsSettled'
    BY <1>1 DEF AcknowledgeInv, RecordsSettled, LateReads, Settled, Recorded
  <1> QED BY <1>1, <1>3, <1>4, <1>5, <1>6
          DEF AcknowledgeInv, DesiredIsRecorded, LateKeepsStatus, CreatedIsNew, Recorded

(* Start, MarkManaged, RefuseCreate and Delete.                             *)
LEMMA StartAcknowledgeInv ==
  ASSUME IInv, AcknowledgeInv, Start
  PROVE  AcknowledgeInv'
  <1>1. /\ pc' \in {"describe", "create", "manage", "unmanage"} /\ caller' \in {"sync", "delete"}
        /\ desired'.status = cr.status /\ latest'.status = cr.status /\ cr' = cr
    BY StartStep
  <1>2. StatusesNotAhead' /\ KnownAreMadeHere'
    BY <1>1, StatusesStay, StatusesNow, KnownAreMadeHereStep DEF AcknowledgeInv, Next, Reconcile
  <1> QED BY <1>1, <1>2 DEF AcknowledgeInv, DesiredIsRecorded, LateKeepsStatus, FoundBySync, ExportSteps,
             RecordsSettled, LateReads, CreatedIsNew

(* The finalizer, a refused create and a deletion preserve AcknowledgeInv.   *)
LEMMA OthersAcknowledgeInv ==
  ASSUME IInv, AcknowledgeInv, MarkManaged \/ RefuseCreate \/ Delete \/ MarkUnmanaged
  PROVE  AcknowledgeInv'
  <1>1. [Next]_vars /\ pc \in {"manage", "create", "delete", "unmanage"}
    BY DEF Next, Reconcile, MarkManaged, RefuseCreate, Delete, MarkUnmanaged
  <1>2. /\ cr.status \in NotAheadStatuses /\ latest.status \in NotAheadStatuses
        /\ desired.status = cr.status
    BY <1>1, StatusesNow DEF AcknowledgeInv, DesiredIsRecorded
  <1>3. CASE MarkManaged
    BY <1>1, <1>2, <1>3, MarkManagedStep, EndsAcknowledgeInv, QuietAcknowledgeInv DEF Ends
  <1>4. CASE RefuseCreate
    BY <1>1, <1>2, <1>4, RefuseCreateStep, EndsAcknowledgeInv DEF Ends
  <1>5. CASE Delete
    BY <1>1, <1>2, <1>5, DeleteStep, EndsAcknowledgeInv, QuietAcknowledgeInv DEF Ends
  <1>6. CASE MarkUnmanaged
    BY <1>1, <1>2, <1>6, MarkUnmanagedStep, EndsAcknowledgeInv, QuietAcknowledgeInv DEF Ends
  <1> QED BY <1>3, <1>4, <1>5, <1>6

(* A read of ACM: its answer is not behind the resource.                    *)
LEMMA DescribeAcknowledgeInv ==
  ASSUME IInv, AcknowledgeInv, Describe
  PROVE  AcknowledgeInv'
  <1> DEFINE id == latest.status.arn
  <1>1. /\ [Next]_vars /\ pc = "describe" /\ latest' = latest
        /\ UNCHANGED <<cr, acm, serials, secret, desired, exported>>
        /\ TypeOK /\ latest \in Resource /\ id \in CertIds
    BY DescribeStep DEF Next, Reconcile, IInv, MemoryOK, OnCertificate
  <1>2. /\ cr.status \in NotAheadStatuses /\ latest.status \in NotAheadStatuses
        /\ desired.status = cr.status
    BY <1>1, StatusesNow DEF AcknowledgeInv, DesiredIsRecorded
  <1>3. CASE Ends(latest)
    BY <1>1, <1>2, <1>3, EndsAcknowledgeInv
  <1>4. CASE pc' \in {"create", "manage", "unmanage"}
    BY <1>1, <1>2, <1>4, QuietAcknowledgeInv
  <1>5. CASE /\ Live(id) /\ pc' = "listTags" /\ caller' = caller
             /\ observed' = sdkFind(latest, id, acm[id])
    <2>1. acm[id] \in AcmCertificate /\ id # Nil
      BY <1>1, <1>5, DataAssumption DEF TypeOK, Live
    <2>2. MadeHere(acm[id])
      BY <1>1, <1>5, <2>1 DEF AcknowledgeInv, KnownAreMadeHere, InMemory, IsLive
    <2>3. observed'.status = describedStatus(id, acm[id])
      BY <1>5 DEF sdkFind
    <2>4. observed'.status \in NotAheadStatuses
      BY <1>1, <1>5, <2>1, <2>2, <2>3, DescribedNotAhead, describedStatusType DEF NotAheadStatuses
    <2>5. StatusesNotAhead' /\ KnownAreMadeHere'
      BY <1>1, <1>2, <1>5, <2>4, StatusesStay, KnownAreMadeHereStep DEF AcknowledgeInv
    <2>6. FoundBySync'
      <3> SUFFICES ASSUME caller = "sync" PROVE Found(observed.status)'
        BY <1>5 DEF FoundBySync
      <3>1. Recorded = id
        BY <1>1, DesiredArn DEF OnManaged, OnCertificate, IInv, MemoryOK
      <3>2. /\ observed'.status.serial = acm[id].serial /\ observed'.status.arn = id
            /\ observed'.status.status = acm[id].status
        BY <2>3 DEF describedStatus
      <3>3. acm[id].serial > 0 => cr.status.serial <= acm[id].serial
        BY <1>5, <2>1, <3>1 DEF AcknowledgeInv, StatusesNotAhead, NotAhead, IsLive, Recorded
      <3>4. budget'["expire"] > 0 \/ ~(budget["expire"] > 0)
        BY <1>1, BudgetGrows, NextIInv DEF IInv, TypeOK, Bounded
      <3>5. Found(observed.status)'
        BY <1>1, <2>1, <2>2, <3>2, <3>3, <3>4 DEF Found, MadeHere, AcmCertificate, IsLive, Live
      <3> QED BY <3>5
    <2>7. RecordsSettled' /\ CreatedIsNew'
      BY <1>1, <1>5 DEF AcknowledgeInv, RecordsSettled, LateReads, Settled, Recorded, CreatedIsNew
    <2> QED BY <1>1, <1>5, <2>5, <2>6, <2>7
            DEF AcknowledgeInv, DesiredIsRecorded, LateKeepsStatus, ExportSteps
  <1> QED BY <1>1, <1>3, <1>4, <1>5, DescribeStep

(* What is recorded when no export is due was recorded before.              *)
LEMMA NotDueIsSettled ==
  ASSUME IInv, AcknowledgeInv, NEW a \in Resource, NEW b \in Resource,
         a.status = cr.status, ~ExportDue(a, b), Found(b.status)
  PROVE  a.spec.exportTo /\ b.status.status = "ISSUED"
           => b.status.serial = cr.status.serial /\ cr.status.issuedAt
  <1> SUFFICES ASSUME a.spec.exportTo, b.status.status = "ISSUED"
               PROVE  b.status.serial = cr.status.serial /\ cr.status.issuedAt
    OBVIOUS
  <1>1. cr.status.issuedAt /\ (cr.status.serial # 0 /\ b.status.serial # 0
                                 => cr.status.serial = b.status.serial)
    BY DEF ExportDue, compareCertificateIssuedAt
  <1>2. cr.status.serial > 0
    BY <1>1 DEF AcknowledgeInv, StatusesNotAhead, NotAhead
  <1>3. b.status.serial > 0
    BY DEF Found
  <1>4. cr.status.serial \in Nat /\ b.status.serial \in Nat
    BY DEF IInv, TypeOK, CertificateStatus, Resource
  <1> QED BY <1>1, <1>2, <1>3, <1>4

(* A step to the reads of a late initialisation, with a status that is      *)
(* settled.                                                                 *)
LEMMA LateAcknowledgeInv ==
  ASSUME IInv, AcknowledgeInv, [Next]_vars,
         pc # "idle", pc' = "describe", caller' = "late",
         desired'.status = desired.status, cr'.status = cr.status,
         StatusesNotAhead', Settled(latest.status)'
  PROVE  AcknowledgeInv'
  <1>1. KnownAreMadeHere'
    BY KnownAreMadeHereStep DEF AcknowledgeInv
  <1> QED BY <1>1 DEF AcknowledgeInv, DesiredIsRecorded, LateKeepsStatus, FoundBySync, ExportSteps,
             RecordsSettled, CreatedIsNew

(* The end of a read for a sync. *)
LEMMA ReadForSyncAcknowledgeInv ==
  ASSUME IInv, AcknowledgeInv, ListTags, ReadForSync(FoundNow),
         Live(latest.status.arn), FoundNow \in Resource, FoundNow.status = observed.status
  PROVE  AcknowledgeInv'
  <1> DEFINE a == mirrorAWSTags(desired, FoundNow)
  <1>1. /\ pc = "listTags" /\ [Next]_vars /\ caller = "sync" /\ desired' = a
        /\ Update(a, FoundNow) /\ ~Import /\ ~Request
        /\ UNCHANGED <<cr, acm, serials, secret, exported>>
    BY ListTagsStep, CreateStep DEF Next, Reconcile, ReadForSync
  <1>2. /\ desired \in Resource /\ observed \in Resource /\ a \in Resource
        /\ a.status = desired.status /\ desired.status = cr.status
    BY <1>1, mirrorAWSTagsType DEF IInv, MemoryOK, AcknowledgeInv, DesiredIsRecorded
  <1>3. /\ cr.status \in NotAheadStatuses /\ observed.status \in NotAheadStatuses
        /\ Found(observed.status)
    BY <1>1, StatusesNow DEF AcknowledgeInv, FoundBySync
  <1>4. Found(observed.status) => \A st \in CertificateStatus : st = observed.status => Found(st)'
    BY <1>1, FoundStays
  <1> HIDE DEF a
  <1>5. \/ /\ pc' = "describe" /\ caller' = "late" /\ ~ExportDue(a, FoundNow)
           /\ latest' \in {a, FoundNow}
        \/ /\ pc' = "export" /\ ExportDue(a, FoundNow) /\ latest' = FoundNow
        \/ /\ pc' \in {"removeTags", "addTags", "updateOptions"}
           /\ ~ExportDue(a, FoundNow) /\ latest' = FoundNow
        \/ Ends(FoundNow)
    BY <1>1, <1>2, UpdateDue
  <1>6. latest'.status \in NotAheadStatuses /\ pc' \notin {"listTags", "patchSpec"}
    BY <1>2, <1>3, <1>5 DEF Ends
  <1>7. StatusesNotAhead' /\ KnownAreMadeHere'
    BY <1>1, <1>3, <1>6, StatusesStay, KnownAreMadeHereStep DEF AcknowledgeInv
  <1>8. CASE pc' = "describe"
    <2>1. Settled(latest.status)'
      <3>1. CASE latest' = a
        BY <1>1, <1>2, <3>1 DEF Settled
      <3>2. CASE latest' = FoundNow /\ ~ExportDue(a, FoundNow)
        <4>1. a.spec.exportTo /\ FoundNow.status.status = "ISSUED"
                => FoundNow.status.serial = cr.status.serial /\ cr.status.issuedAt
          BY <1>2, <1>3, <3>2, NotDueIsSettled
        <4> QED BY <1>1, <3>2, <4>1 DEF Settled
      <3> QED BY <1>5, <1>8, <3>1, <3>2 DEF Ends
    <2> QED BY <1>1, <1>2, <1>5, <1>7, <1>8, <2>1, LateAcknowledgeInv DEF Ends
  <1>9. CASE pc' \in {"export", "removeTags", "addTags", "updateOptions"}
    <2>1. FoundBySync'
      BY <1>3, <1>4, <1>5, <1>9 DEF FoundBySync, Found, IsLive, Live, NotAheadStatuses, Ends
    <2>2. ExportSteps'
      BY <1>1, <1>5, <1>9 DEF ExportSteps, Ends
    <2> QED BY <1>1, <1>2, <1>7, <1>9, <2>1, <2>2
            DEF AcknowledgeInv, DesiredIsRecorded, LateKeepsStatus, RecordsSettled, LateReads,
                CreatedIsNew
  <1>10. CASE Ends(FoundNow)
    BY <1>1, <1>2, <1>7, <1>10
       DEF Ends, AcknowledgeInv, DesiredIsRecorded, LateKeepsStatus, FoundBySync, ExportSteps,
           RecordsSettled, LateReads, CreatedIsNew
  <1> QED BY <1>5, <1>8, <1>9, <1>10

(* The end of a read keeps AcknowledgeInv, wherever it continues.            *)
LEMMA ListTagsAcknowledgeInv ==
  ASSUME IInv, AcknowledgeInv, ListTags
  PROVE  AcknowledgeInv'
  <1>1. /\ pc = "listTags" /\ [Next]_vars /\ latest \in Resource /\ observed \in Resource
        /\ UNCHANGED <<cr, acm, serials, secret, exported>>
        /\ desired.status = cr.status /\ observed.status.arn = latest.status.arn
    BY ListTagsStep
       DEF Next, Reconcile, IInv, MemoryOK, AcknowledgeInv, DesiredIsRecorded
  <1>2. /\ cr.status \in NotAheadStatuses /\ latest.status \in NotAheadStatuses
        /\ observed.status \in NotAheadStatuses
    BY <1>1, StatusesNow DEF AcknowledgeInv
  <1>3. CASE Ends(latest) /\ desired' = desired
    BY <1>1, <1>2, <1>3, EndsAcknowledgeInv DEF Ends
  <1>4. CASE /\ Live(latest.status.arn) /\ FoundNow \in Resource
             /\ FoundNow.status = observed.status
             /\ \/ ReadForSync(FoundNow) \/ ReadForCreate(FoundNow)
                \/ ReadForLateInitialization(FoundNow) \/ ReadForDelete(FoundNow)
    <2>1. CASE ReadForSync(FoundNow)
      BY <1>4, <2>1, ReadForSyncAcknowledgeInv
    <2>2. CASE ReadForCreate(FoundNow)
      <3>1. /\ caller = "create" /\ pc' = "describe" /\ caller' = "late" /\ desired' = desired
            /\ latest' = [latest EXCEPT !.status = FoundNow.status]
        BY <2>2 DEF ReadForCreate, LateInitialize, Goto
      <3>2. latest'.status = observed.status
        BY <1>1, <1>4, <3>1 DEF Resource
      <3>3. StatusesNotAhead'
        BY <1>1, <1>2, <3>1, <3>2, StatusesStay
      <3>4. Settled(latest.status)'
        BY <1>1, <3>1, <3>2 DEF Settled, AcknowledgeInv, CreatedIsNew, Recorded
      <3> QED BY <1>1, <3>1, <3>3, <3>4, LateAcknowledgeInv
    <2>3. CASE ReadForLateInitialization(FoundNow)
      <3> DEFINE after == lateInitializeFromReadOneOutput(FoundNow, latest)
      <3>1. after.status = latest.status
        BY <1>1, <1>4, lateInitializeType
      <3>2. /\ caller = "late" /\ desired' = desired
            /\ \/ observed' = after /\ pc' = "patchSpec" /\ latest' = latest
               \/ pc' = "patchStatus" /\ latest' = after
        BY <2>3 DEF ReadForLateInitialization, Goto, Finish
      <3> HIDE DEF after
      <3>3. StatusesNotAhead' /\ KnownAreMadeHere'
        BY <1>1, <1>2, <3>1, <3>2, StatusesStay, KnownAreMadeHereStep DEF AcknowledgeInv
      <3>4. RecordsSettled'
        BY <1>1, <3>1, <3>2 DEF AcknowledgeInv, RecordsSettled, LateReads, Settled, Recorded
      <3> QED BY <1>1, <3>1, <3>2, <3>3, <3>4
              DEF AcknowledgeInv, DesiredIsRecorded, LateKeepsStatus, FoundBySync, ExportSteps,
                  CreatedIsNew
    <2>4. CASE ReadForDelete(FoundNow)
      <3>1. pc' = "delete" /\ latest' = FoundNow /\ desired' = desired
        BY <2>4 DEF ReadForDelete, Goto
      <3> QED BY <1>1, <1>2, <1>4, <3>1, QuietAcknowledgeInv
    <2> QED BY <1>4, <2>1, <2>2, <2>3, <2>4
  <1> QED BY <1>3, <1>4, ListTagsStep

(* A create: what it makes is not the recorded certificate. *)
LEMMA CreateAcknowledgeInv ==
  ASSUME IInv, AcknowledgeInv, Import \/ Request
  PROVE  AcknowledgeInv'
  <1>1. /\ [Next]_vars /\ pc = "create" /\ UNCHANGED <<cr, secret, desired, observed, exported>>
        /\ desired \in Resource /\ desired.status = cr.status /\ TypeOK
        /\ desired.status.arn = Recorded /\ ~IsLive(Recorded) /\ HandedOut(Recorded)
    BY CreateStep, CreateIsManaged
       DEF Next, Reconcile, IInv, MemoryOK, AcknowledgeInv, DesiredIsRecorded, Provenance, Recorded
  <1>2. cr.status \in NotAheadStatuses
    BY StatusesNow DEF AcknowledgeInv
  <1>3. CASE pc' = "patchStatus" /\ latest' = desired /\ outcome' # "ok"
    <2>1. StatusesNotAhead' /\ KnownAreMadeHere'
      BY <1>1, <1>2, <1>3, StatusesStay, KnownAreMadeHereStep DEF AcknowledgeInv
    <2> QED BY <1>1, <1>3, <2>1 DEF AcknowledgeInv, DesiredIsRecorded, LateKeepsStatus, FoundBySync,
               ExportSteps, RecordsSettled, LateReads, CreatedIsNew
  <1>4. ASSUME NEW id \in CertIds, acm[id] = Unused \/ Live(id),
               NEW c \in AcmCertificate, acm' = [acm EXCEPT ![id] = c],
               c.serial = 0 \/ (c.serial = serials + 1 /\ serials' = serials + 1),
               pc' = "describe", caller' = "create",
               latest' = [desired EXCEPT !.status.arn = id]
        PROVE  AcknowledgeInv'
    <2>1. id # Recorded
      BY <1>1, <1>4, DataAssumption DEF IsLive, Live, HandedOut
    <2>2. /\ latest'.status.arn = id /\ latest'.status.serial = cr.status.serial
          /\ latest'.status.issuedAt = cr.status.issuedAt
      BY <1>1, <1>4 DEF Resource, CertificateStatus
    <2>3. acm'[id] = c /\ c.serial \in Nat
      BY <1>1, <1>4 DEF TypeOK, AcmCertificate
    <2>4. NotAhead(latest.status)'
      <3>1. /\ cr.status.serial <= serials
            /\ cr.status.issuedAt => cr.status.serial > 0
            /\ cr.status.serial \in Nat /\ serials \in Nat
            /\ serials' \in {serials, serials + 1}
        BY <1>1, <1>2, SerialsGrow DEF NotAheadStatuses, NotAhead, TypeOK, CertificateStatus
      <3> QED BY <1>4, <2>2, <2>3, <3>1 DEF NotAhead
    <2>5. NotAhead(cr.status)'
      BY <1>1, <1>2, NotAheadStays DEF NotAheadStatuses, NotAhead, IsLive, Live
    <2>6. KnownAreMadeHere'
      BY <1>1, KnownAreMadeHereStep DEF AcknowledgeInv
    <2> QED BY <1>1, <1>4, <2>1, <2>2, <2>4, <2>5, <2>6
            DEF AcknowledgeInv, StatusesNotAhead, DesiredIsRecorded, LateKeepsStatus, FoundBySync,
                ExportSteps, RecordsSettled, LateReads, CreatedIsNew, Recorded
  <1> QED BY <1>3, <1>4, CreateStep

(* The export: ACM hands out a serial newer than the recorded one, and not  *)
(* older than the observed one.                                             *)
LEMMA ExportAcknowledgeInv ==
  ASSUME IInv, AcknowledgeInv, Export
  PROVE  AcknowledgeInv'
  <1> DEFINE id == latest.status.arn
  <1>1. /\ [Next]_vars /\ pc = "export" /\ latest' = latest
        /\ UNCHANGED <<cr, acm, serials, secret, desired, observed>>
        /\ TypeOK /\ latest \in Resource /\ desired \in Resource /\ id \in CertIds
        /\ id = Recorded /\ desired.status = cr.status /\ serials \in Nat
    BY ExportStep, DesiredArn
       DEF Next, Reconcile, IInv, TypeOK, MemoryOK, OnCertificate, OnManaged, AcknowledgeInv,
           DesiredIsRecorded
  <1>2. cr.status \in NotAheadStatuses /\ latest.status \in NotAheadStatuses
    BY <1>1, StatusesNow DEF AcknowledgeInv
  <1>3. CASE Ends(latest)
    BY <1>1, <1>2, <1>3, EndsAcknowledgeInv
  <1>4. CASE /\ Live(id) /\ acm[id].status = "ISSUED" /\ acm[id].exportable
             /\ pc' = "writeCertificate" /\ exported' = acm[id].serial
    <2>1. acm[id] \in AcmCertificate /\ IsLive(id) /\ MadeHere(acm[id])
      BY <1>1, <1>4, DataAssumption
         DEF TypeOK, Live, IsLive, AcknowledgeInv, KnownAreMadeHere
    <2>2. acm[id].serial > 0 /\ acm[id].serial <= serials /\ acm[id].serial \in Nat
      BY <1>4, <2>1 DEF MadeHere, AcmCertificate
    <2>3. /\ latest.status.serial <= exported'
          /\ cr.status.serial <= exported'
          /\ cr.status.serial = exported' => cr.status.issuedAt
      BY <1>1, <1>2, <1>4, <2>1, <2>2 DEF NotAheadStatuses, NotAhead, Recorded
    <2>4. ExportDue(desired, latest) /\ Found(latest.status)
      BY <1>1 DEF AcknowledgeInv, ExportSteps, FoundBySync
    <2>5. cr.status.serial < exported'
      <3>1. /\ cr.status.serial \in Nat /\ latest.status.serial \in Nat /\ exported' \in Nat
        BY <1>1, <1>4, <2>2 DEF TypeOK, CertificateStatus, Resource
      <3>2. CASE ~cr.status.issuedAt
        BY <2>3, <3>1, <3>2
      <3>3. CASE latest.status.serial # 0 /\ cr.status.serial # latest.status.serial
        BY <2>3, <2>4, <3>1, <3>3 DEF Found
      <3> QED BY <1>1, <2>4, <3>2, <3>3 DEF ExportDue, compareCertificateIssuedAt
    <2>6. StatusesNotAhead' /\ KnownAreMadeHere'
      BY <1>1, <1>2, <1>4, StatusesStay, KnownAreMadeHereStep DEF AcknowledgeInv
    <2>7. ExportSteps'
      BY <1>1, <1>4, <2>2, <2>3, <2>4, <2>5 DEF ExportSteps, ExportDue, IsLive, Live
    <2> QED BY <1>1, <1>4, <2>6, <2>7
            DEF AcknowledgeInv, DesiredIsRecorded, LateKeepsStatus, FoundBySync, RecordsSettled,
                LateReads, CreatedIsNew
  <1> QED BY <1>3, <1>4, ExportStep

(* The first write to the Secret preserves AcknowledgeInv.                   *)
LEMMA WriteCertificateAcknowledgeInv ==
  ASSUME IInv, AcknowledgeInv, WriteCertificate
  PROVE  AcknowledgeInv'
  <1>1. /\ [Next]_vars /\ pc = "writeCertificate" /\ latest' = latest
        /\ UNCHANGED <<cr, acm, serials, desired, observed, exported>>
        /\ TypeOK /\ desired.status = cr.status
    BY WriteCertificateStep DEF Next, Reconcile, IInv, AcknowledgeInv, DesiredIsRecorded
  <1>2. cr.status \in NotAheadStatuses /\ latest.status \in NotAheadStatuses
    BY <1>1, StatusesNow DEF AcknowledgeInv
  <1>3. CASE Ends(latest)
    BY <1>1, <1>2, <1>3, EndsAcknowledgeInv
  <1>4. CASE pc' = "writeKey" /\ secret' = [secret EXCEPT !.crt = exported]
    <2>1. StatusesNotAhead' /\ KnownAreMadeHere'
      BY <1>1, <1>2, <1>4, StatusesStay, KnownAreMadeHereStep DEF AcknowledgeInv
    <2>2. ExportSteps'
      BY <1>1, <1>4 DEF AcknowledgeInv, ExportSteps, ExportDue, IsLive, Live, TypeOK
    <2> QED BY <1>1, <1>4, <2>1, <2>2
            DEF AcknowledgeInv, DesiredIsRecorded, LateKeepsStatus, FoundBySync, RecordsSettled,
                LateReads, CreatedIsNew
  <1> QED BY <1>3, <1>4, WriteCertificateStep

(* With the key written the Secret holds what will be recorded.             *)
LEMMA WriteKeyAcknowledgeInv ==
  ASSUME IInv, AcknowledgeInv, WriteKey
  PROVE  AcknowledgeInv'
  <1>1. /\ [Next]_vars /\ pc = "writeKey"
        /\ UNCHANGED <<cr, acm, serials, desired, observed, exported>>
        /\ TypeOK /\ desired.status = cr.status /\ desired \in Resource /\ latest \in Resource
        /\ desired.status.arn = latest.status.arn
    BY WriteKeyStep DEF Next, Reconcile, IInv, MemoryOK, AcknowledgeInv, DesiredIsRecorded
  <1>2. cr.status \in NotAheadStatuses /\ latest.status \in NotAheadStatuses
    BY <1>1, StatusesNow DEF AcknowledgeInv
  <1>3. CASE Ends(latest) /\ secret' = secret
    BY <1>1, <1>2, <1>3, EndsAcknowledgeInv DEF Ends
  <1>4. CASE /\ pc' = "describe" /\ caller' = "late"
             /\ latest' = withExportedStatus(desired, latest)
             /\ secret' = [secret EXCEPT !.key = exported]
    <2>1. latest'.status \in NotAheadStatuses
      BY <1>1, <1>2, <1>4, ExportedNotAhead, withExportedStatusType
         DEF NotAheadStatuses, Resource
    <2>2. StatusesNotAhead'
      BY <1>1, <1>2, <1>4, <2>1, StatusesStay
    <2>3. latest'.status.serial = latest.status.serial
      BY <1>1, <1>4 DEF withExportedStatus, Resource, CertificateStatus
    <2>4. secret'.crt = exported /\ secret'.key = exported /\ latest.status.serial <= exported
      BY <1>1, <1>4 DEF AcknowledgeInv, ExportSteps, TypeOK
    <2>5. Settled(latest.status)'
      BY <2>3, <2>4 DEF Settled
    <2> QED BY <1>1, <1>4, <2>2, <2>5, LateAcknowledgeInv
  <1> QED BY <1>3, <1>4, WriteKeyStep

(* The other steps of an update. *)
LEMMA TagsAcknowledgeInv ==
  ASSUME IInv, AcknowledgeInv, RemoveTags \/ AddTags \/ UpdateOptions
  PROVE  AcknowledgeInv'
  <1>1. /\ [Next]_vars /\ pc \in {"removeTags", "addTags", "updateOptions"}
        /\ UNCHANGED <<cr, serials, secret, desired, observed, exported>>
        /\ TypeOK /\ desired.status = cr.status /\ desired \in Resource /\ latest \in Resource
        /\ desired.status.arn = latest.status.arn /\ ~Import /\ ~Request
    BY TagsStep, CreateStep DEF Next, Reconcile, IInv, MemoryOK, AcknowledgeInv, DesiredIsRecorded
  <1>2. /\ cr.status \in NotAheadStatuses /\ latest.status \in NotAheadStatuses
        /\ Found(latest.status) /\ ~ExportDue(desired, latest)
    BY <1>1, StatusesNow DEF AcknowledgeInv, FoundBySync, ExportSteps
  <1>3. CASE Ends(latest)
    BY <1>1, <1>2, <1>3, EndsAcknowledgeInv DEF Ends
  <1>4. CASE /\ pc' = "describe" /\ caller' = "late"
             /\ latest' \in {desired, withExportedStatus(desired, latest)}
    <2>1. withExportedStatus(desired, latest).status \in NotAheadStatuses
      BY <1>1, <1>2, ExportedNotAhead, withExportedStatusType
         DEF NotAheadStatuses, Resource
    <2>2. StatusesNotAhead'
      BY <1>1, <1>2, <1>4, <2>1, StatusesStay
    <2>3. Settled(latest.status)'
      <3>1. CASE latest' = desired
        BY <1>1, <3>1 DEF Settled
      <3>2. CASE latest' = withExportedStatus(desired, latest)
        <4>1. /\ latest'.status.serial = latest.status.serial
              /\ latest'.status.status = latest.status.status
              /\ latest'.status.issuedAt = latest.status.issuedAt
          BY <1>1, <3>2 DEF withExportedStatus, Resource, CertificateStatus
        <4>2. desired.spec.exportTo /\ latest.status.status = "ISSUED"
                => latest.status.serial = cr.status.serial /\ cr.status.issuedAt
          BY <1>1, <1>2, NotDueIsSettled
        <4> QED BY <1>1, <4>1, <4>2 DEF Settled
      <3> QED BY <1>4, <3>1, <3>2
    <2> QED BY <1>1, <1>4, <2>2, <2>3, LateAcknowledgeInv
  <1>5. CASE pc' \in {"addTags", "updateOptions"} /\ latest' = latest
    <2>1. StatusesNotAhead' /\ KnownAreMadeHere'
      BY <1>1, <1>2, <1>5, StatusesStay, KnownAreMadeHereStep DEF AcknowledgeInv
    <2>2. FoundBySync'
      <3>1. \A st \in CertificateStatus : Found(st) => Found(st)'
        BY <1>1, FoundStays
      <3> QED BY <1>1, <1>2, <1>5, <3>1 DEF FoundBySync, Found, IsLive, Live, Resource
    <2>3. ExportSteps'
      BY <1>1, <1>2, <1>5 DEF ExportSteps
    <2> QED BY <1>1, <1>5, <2>1, <2>2, <2>3
            DEF AcknowledgeInv, DesiredIsRecorded, LateKeepsStatus, RecordsSettled, LateReads,
                CreatedIsNew
  <1> QED BY <1>3, <1>4, <1>5, TagsStep

(* The patches that end a reconcile. *)
LEMMA PatchAcknowledgeInv ==
  ASSUME IInv, AcknowledgeInv, PatchSpec \/ PatchStatus \/ Crash
  PROVE  AcknowledgeInv'
  <1>1. [Next]_vars /\ cr.status \in NotAheadStatuses
    BY StatusesNow DEF Next, Reconcile, Environment, AcknowledgeInv
  <1>2. CASE PatchSpec
    <2>1. /\ pc = "patchSpec" /\ pc' = "patchStatus" /\ latest' = observed
          /\ UNCHANGED <<acm, serials, secret, desired, exported>> /\ cr'.status = cr.status
          /\ observed.status = latest.status
      BY <1>2, PatchSpecStep DEF AcknowledgeInv, LateKeepsStatus
    <2>2. StatusesNotAhead' /\ KnownAreMadeHere'
      BY <1>1, <2>1, StatusesNow, StatusesStay, KnownAreMadeHereStep DEF AcknowledgeInv
    <2>3. RecordsSettled'
      BY <2>1 DEF AcknowledgeInv, RecordsSettled, Settled, Recorded, LateReads
    <2> QED BY <2>1, <2>2, <2>3
            DEF AcknowledgeInv, DesiredIsRecorded, LateKeepsStatus, FoundBySync, ExportSteps,
                CreatedIsNew
  <1>3. CASE PatchStatus
    BY <1>1, <1>3, PatchStatusStep, StatusesNow, QuietAcknowledgeInv DEF AcknowledgeInv
  <1>4. CASE Crash
    BY <1>1, <1>4, QuietAcknowledgeInv DEF Crash
  <1> QED BY <1>2, <1>3, <1>4

(* AcknowledgeInv is preserved by every step.                                *)
LEMMA NextAcknowledgeInv == IInv /\ AcknowledgeInv /\ [Next]_vars => AcknowledgeInv'
  BY StartAcknowledgeInv, OthersAcknowledgeInv, DescribeAcknowledgeInv, ListTagsAcknowledgeInv,
     CreateAcknowledgeInv, ExportAcknowledgeInv, WriteCertificateAcknowledgeInv,
     WriteKeyAcknowledgeInv, TagsAcknowledgeInv, PatchAcknowledgeInv, OutsideAcknowledgeInv
     DEF Next, Reconcile, Rest

(* What the controller knows of its certificates is not ahead of ACM, and   *)
(* what it is about to record has been exported.                            *)
THEOREM AcknowledgeInvCorrect == Spec => []AcknowledgeInv
  BY InitAcknowledgeInv, NextAcknowledgeInv, InvariantCorrect, PTL DEF Spec

(* When a successful reconcile of a resource with an exportTo records a     *)
(* first issuance or another serial number of the certificate it knew, the  *)
(* Secret holds it or a newer one, certificate and key.                     *)
THEOREM SerialsAreExported == Spec => AcknowledgedIsExported
  <1>1. ASSUME IInv, AcknowledgeInv, Next, Acknowledges
        PROVE  secret'.crt >= cr'.status.serial /\ secret'.key >= cr'.status.serial
    <2>1. pc = "patchStatus" /\ outcome = "ok" /\ cr'.status # cr.status
      BY <1>1 DEF Acknowledges
    <2>2. CASE PatchStatus
      <3>1. cr'.status = latest.status /\ secret' = secret
        BY <2>1, <2>2, <1>1, PatchStatusStep
      <3>2. Settled(latest.status)
        BY <1>1, <2>1 DEF AcknowledgeInv, RecordsSettled
      <3>3. /\ latest.status.serial \in Nat /\ secret.crt \in Nat /\ secret.key \in Nat
        BY <1>1, <2>1 DEF IInv, TypeOK, MemoryOK, Resource, CertificateStatus
      <3> QED BY <1>1, <3>1, <3>2, <3>3 DEF Acknowledges, Settled
    <2>3. CASE ~PatchStatus
      <3>1. cr'.status = cr.status
        <4>1. CASE Environment
          BY <1>1, <4>1, OutsideStep DEF Crash
        <4>2. CASE Reconcile
          BY <2>1, <2>3, <4>2 DEF Reconcile, Start, Describe, ListTags, MarkManaged, RefuseCreate,
             Import, Request, Export, WriteCertificate, WriteKey, RemoveTags, AddTags,
             UpdateOptions, PatchSpec, Delete, MarkUnmanaged
        <4> QED BY <1>1, <4>1, <4>2 DEF Next, Rest, vars
      <3> QED BY <2>1, <3>1
    <2> QED BY <2>2, <2>3
  <1>2. IInv /\ AcknowledgeInv /\ [Next]_vars
          => [Acknowledges => /\ secret'.crt >= cr'.status.serial
                              /\ secret'.key >= cr'.status.serial]_vars
    BY <1>1
  <1> QED BY <1>2, InvariantCorrect, AcknowledgeInvCorrect, PTL DEF Spec, AcknowledgedIsExported

-----------------------------------------------------------------------------
(* SecretInv *)

(* SecretInv holds initially.                                                *)
LEMMA InitSecretInv == Init => SecretInv
  <1> SUFFICES ASSUME Init PROVE SecretInv
    OBVIOUS
  <1>1. /\ pc = "idle" /\ cr.status = NoStatus /\ serials = 0
        /\ secret.crt = 0 /\ acm = InitAcm
    BY DEF Init
  <1>2. \A id \in CertIds : acm[id] # Gone
    BY <1>1, ControllerAssumption
  <1> QED BY <1>1, <1>2, InitAcknowledgeInv
          DEF SecretInv, SecretFromAcm, NoneGone, FoundInSecret, NothingTorn, Torn, NoStatus,
              Recorded, InMemory, IsLive

(* The resource stays with its deletion timestamp, and only edits change    *)
(* whether it has an exportTo.                                              *)
LEMMA SpecStep ==
  ASSUME IInv, [Next]_vars
  PROVE  /\ cr.deleting => cr'.deleting
         /\ budget'["edit"] = 0 => cr'.spec.exportTo = cr.spec.exportTo
         /\ budget'["edit"] = 0 => budget["edit"] = 0
         /\ pc' # "idle" /\ pc # "idle" /\ ~MarkManaged
              => desired'.spec.exportTo = desired.spec.exportTo
         /\ pc' # "idle" /\ (pc = "idle" \/ (MarkManaged /\ desired' # desired))
              => desired'.spec.exportTo = cr.spec.exportTo
  <1>1. TypeOK /\ MemoryOK /\ "edit" \in Bounded /\ cr.spec \in CertificateSpec
    BY DEF IInv, Bounded, TypeOK
  <1>2. budget'["edit"] = 0 => budget["edit"] = 0 /\ ~EditSpec
    BY <1>1, BudgetGrows, LossIsCounted DEF EditSpec
  <1>3. CASE Start
    BY <1>1, <1>2, <1>3, StartStep DEF CertificateSpec
  <1>4. CASE MarkManaged
    BY <1>1, <1>2, <1>4, MarkManagedStep DEF CertificateSpec
  <1>5. CASE ListTags
    <2>1. ReadForSync(FoundNow) => desired'.spec.exportTo = desired.spec.exportTo
      <3>1. ReadForSync(FoundNow) => desired' = mirrorAWSTags(desired, FoundNow)
        BY DEF ReadForSync
      <3>2. desired \in Resource
        BY <1>1, <1>5, ListTagsStep DEF MemoryOK
      <3>3. mirrorAWSTags(desired, FoundNow).spec.exportTo = desired.spec.exportTo
        BY <3>2 DEF mirrorAWSTags, Resource, CertificateSpec
      <3> QED BY <3>1, <3>3
    <2>2. \/ ReadForCreate(FoundNow) \/ ReadForLateInitialization(FoundNow)
          \/ ReadForDelete(FoundNow)
          => desired' = desired
      BY DEF ReadForCreate, ReadForLateInitialization, ReadForDelete
    <2> QED BY <1>2, <1>5, <2>1, <2>2, ListTagsStep, MarkManagedStep
  <1>6. CASE PatchSpec
    <2>1. mergePatch(cr.spec, latest.spec, observed.spec).exportTo = cr.spec.exportTo
      BY <1>1 DEF mergePatch, LateInitializedFields, CertificateSpec
    <2> QED BY <1>1, <1>2, <1>6, <2>1, PatchSpecStep DEF TypeOK
  <1>7. CASE PatchStatus \/ MarkUnmanaged
    BY <1>2, <1>7, PatchStatusStep, MarkUnmanagedStep
  <1>8. CASE Environment \/ UNCHANGED vars
    <2>1. CASE Crash
      BY <1>2, <2>1 DEF Crash
    <2>2. CASE ~Crash
      BY <1>2, <1>8, <2>2, OutsideStep DEF vars, memory
    <2> QED BY <2>1, <2>2
  <1>9. CASE \/ Describe \/ RefuseCreate \/ Import \/ Request
             \/ Export \/ WriteCertificate \/ WriteKey \/ RemoveTags \/ AddTags \/ UpdateOptions
             \/ Delete
    <2>1. UNCHANGED <<cr, desired>> /\ pc # "idle"
      BY <1>9 DEF Describe, RefuseCreate, Import, Request, Export, WriteCertificate, WriteKey,
         RemoveTags, AddTags, UpdateOptions, Delete
    <2> QED BY <1>2, <2>1
  <1> QED BY <1>3, <1>4, <1>5, <1>6, <1>7, <1>8, <1>9 DEF Next, Reconcile, Rest

(* A certificate goes only with its resource, or at the hand of others. *)
LEMMA NoneGoneStep ==
  ASSUME IInv, NoneGone, [Next]_vars
  PROVE  NoneGone'
  <1>1. TypeOK /\ TypeOK' /\ "vanish" \in Bounded
    BY NextIInv DEF IInv, Bounded
  <1> SUFFICES ASSUME budget'["vanish"] = 0, ~cr'.deleting, NEW id \in CertIds
               PROVE  acm'[id] # Gone
    BY DEF NoneGone
  <1>2. acm[id] # Gone /\ ~cr.deleting /\ ~Spend("vanish")
    BY <1>1, BudgetGrows, SpecStep, LossIsCounted DEF NoneGone
  <1>3. CASE Import \/ Request
    <2>1. CASE UNCHANGED acm
      BY <1>2, <2>1
    <2>2. ASSUME NEW j \in CertIds, NEW c \in AcmCertificate, acm' = [acm EXCEPT ![j] = c]
          PROVE  acm'[id] # Gone
      BY <1>1, <1>2, <2>2, ControllerAssumption DEF TypeOK
    <2> QED BY <1>3, <2>1, <2>2, CreateStep
  <1>4. CASE Next /\ ~Import /\ ~Request
    <2>1. pc # "delete"
      BY <1>2 DEF IInv, Managed
    <2> QED BY <1>1, <1>2, <1>4, <2>1, NextAges, ControllerAssumption DEF OneAges, TypeOK
  <1>5. CASE UNCHANGED vars
    BY <1>2, <1>5 DEF vars
  <1> QED BY <1>3, <1>4, <1>5

(* Only an export writes to the Secret. *)
LEMMA SecretStep ==
  ASSUME IInv, [Next]_vars
  PROVE  /\ secret.exists => secret'.exists
         /\ ~(WriteCertificate \/ WriteKey) => secret'.crt = secret.crt /\ secret'.key = secret.key
         /\ WriteCertificate
              => /\ secret'.crt = secret.crt \/ (secret'.crt = exported /\ secret.exists)
                 /\ secret'.key = secret.key
         /\ WriteKey => secret'.crt = secret.crt /\ secret'.key \in {secret.key, exported}
  <1>1. TypeOK
    BY DEF IInv
  <1>2. CASE WriteCertificate
    BY <1>1, <1>2, WriteCertificateStep, WriteKeyStep DEF TypeOK
  <1>3. CASE WriteKey
    BY <1>1, <1>3, WriteCertificateStep, WriteKeyStep DEF TypeOK
  <1>4. CASE ~WriteCertificate /\ ~WriteKey /\ (Environment \/ UNCHANGED vars)
    <2>1. CASE Crash
      BY <1>4, <2>1 DEF Crash
    <2>2. CASE ~Crash
      BY <1>4, <2>2, OutsideStep DEF vars
    <2> QED BY <2>1, <2>2
  <1>5. CASE ~WriteCertificate /\ ~WriteKey /\ Reconcile
    <2>1. UNCHANGED secret
      BY <1>5 DEF Reconcile, Start, Describe, ListTags, MarkManaged, RefuseCreate, Import, Request,
         Export, RemoveTags, AddTags, UpdateOptions, PatchSpec, PatchStatus, Delete,
         MarkUnmanaged
    <2> QED BY <1>5, <2>1
  <1> QED BY <1>2, <1>3, <1>4, <1>5 DEF Next, Rest

(* What the Secret holds is of certificates that can be exported.           *)
LEMMA SecretFromAcmStep ==
  ASSUME IInv, AcknowledgeInv, SecretFromAcm, [Next]_vars
  PROVE  SecretFromAcm'
  <1>1. /\ TypeOK /\ TypeOK' /\ MemoryOK' /\ serials \in Nat /\ secret.crt \in Nat
        /\ serials' \in {serials, serials + 1} /\ exported \in Nat
    BY SerialsGrow, NextIInv DEF IInv, TypeOK
  <1>2. WriteCertificate
          => /\ exported <= serials /\ desired.spec.exportTo /\ pc = "writeCertificate"
             /\ IsLive(latest.status.arn) /\ acm[latest.status.arn].serial = exported
                  => acm[latest.status.arn].exportable
             /\ latest.status.arn = Recorded /\ InMemory = Recorded
             /\ UNCHANGED acm /\ ~Import /\ ~Request
    BY WriteCertificateStep, CreateStep, DesiredArn
       DEF AcknowledgeInv, ExportSteps, ExportDue, compareCertificateIssuedAt, OnManaged,
           OnCertificate, IInv, MemoryOK, InMemory
  <1>3. WriteKey => secret'.crt = secret.crt
    BY SecretStep
  <1>4. secret'.crt = secret.crt \/ (WriteCertificate /\ secret'.crt = exported /\ secret.exists)
    BY <1>3, SecretStep
  <1>5. secret'.crt <= serials' /\ (secret'.crt > 0 => secret'.exists)
    BY <1>1, <1>2, <1>4, SecretStep DEF SecretFromAcm
  <1>6. ASSUME NEW id \in CertIds, id \in {Recorded', InMemory'}, Live(id)',
               secret'.crt > 0, acm'[id].serial = secret'.crt
        PROVE  acm'[id].exportable
    <2>1. CASE Live(id) /\ (acm'[id] = acm[id] \/ Ages(acm[id], acm'[id]))
      <3>1. acm[id] \in AcmCertificate /\ id # Nil
        BY <1>1, <2>1, DataAssumption DEF TypeOK, Live
      <3>2. acm'[id].serial <= serials
        BY <1>1, <1>2, <1>4, <1>6 DEF SecretFromAcm
      <3>3. acm'[id].serial = acm[id].serial /\ acm'[id].exportable = acm[id].exportable
        BY <1>1, <2>1, <3>1, <3>2 DEF Ages, AcmCertificate
      <3>4. ~Import /\ ~Request => id \in {Recorded, InMemory}
        BY <1>6, <3>1, ArnsKept
      <3>5. CASE Import \/ Request
        <4>1. /\ pc = "create" /\ UNCHANGED <<cr, secret>>
              /\ \/ latest'.status.arn \in {desired.status.arn}
                 \/ \E j \in CertIds, c \in AcmCertificate :
                      /\ acm' = [acm EXCEPT ![j] = c]
                      /\ c.serial > 0 => ~c.exportable
                      /\ c.serial = 0 \/ c.serial = serials + 1
                      /\ latest'.status.arn = j
          <5>1. desired \in Resource /\ pc = "create"
            BY <3>5, CreateStep DEF IInv, MemoryOK
          <5>2. \A j \in CertIds : [desired EXCEPT !.status.arn = j].status.arn = j
            BY <5>1 DEF Resource, CertificateStatus
          <5> QED BY <3>5, <5>1, <5>2, CreateStep
        <4>2. desired.status.arn = Recorded /\ ~IsLive(Recorded) /\ Recorded' = Recorded
          BY <4>1, CreateIsManaged DEF IInv, Provenance, Recorded
        <4>3. id = latest'.status.arn /\ id # desired.status.arn
          BY <1>6, <2>1, <3>1, <4>1, <4>2 DEF InMemory, IsLive
        <4>4. acm'[id].serial = 0 \/ acm'[id].serial = serials + 1
          BY <1>1, <4>1, <4>3 DEF TypeOK
        <4> QED BY <1>1, <1>6, <3>2, <4>4
      <3>6. CASE ~Import /\ ~Request
        BY <1>2, <1>4, <1>6, <2>1, <3>1, <3>3, <3>4, <3>6 DEF SecretFromAcm, IsLive
      <3> QED BY <3>5, <3>6
    <2>2. CASE acm'[id].serial = 0 \/ (acm'[id].serial = serials + 1 /\ serials' = serials + 1)
      BY <1>1, <1>2, <1>4, <1>6, <2>2 DEF SecretFromAcm
    <2> QED BY <1>6, <2>1, <2>2, AcmStep
  <1>7. budget'["edit"] = 0 /\ secret'.crt > 0 => cr'.spec.exportTo
    BY <1>2, <1>4, SpecStep DEF SecretFromAcm
  <1>8. budget'["edit"] = 0 /\ pc' # "idle" => desired'.spec.exportTo = cr'.spec.exportTo
    <2>1. budget'["edit"] = 0 => /\ budget["edit"] = 0
                                 /\ cr'.spec.exportTo = cr.spec.exportTo
      BY SpecStep
    <2>2. MarkManaged => desired' = desired \/ desired'.spec.exportTo = cr.spec.exportTo
      BY <1>1, MarkManagedStep DEF TypeOK, CertificateSpec
    <2>3. MarkManaged => pc # "idle"
      BY MarkManagedStep
    <2> QED BY <2>1, <2>2, <2>3, SpecStep DEF SecretFromAcm
  <1>9. \A id \in {Recorded', InMemory'} : id \in CertIds \cup {Nil}
    BY <1>1 DEF TypeOK, MemoryOK, Recorded, InMemory, Resource, CertificateStatus, Opt
  <1> QED BY <1>5, <1>6, <1>7, <1>8, <1>9 DEF SecretFromAcm, IsLive, Recorded

(* A certificate keeps whether it can be exported, and its serial number    *)
(* unless it is given the next one.                                         *)
LEMMA SerialAges ==
  ASSUME IInv, [Next]_vars, ~Import, ~Request, NEW id \in CertIds, Live(id)'
  PROVE  /\ Live(id) /\ acm[id].serial \in Nat /\ acm'[id].serial \in Nat
         /\ acm'[id].exportable = acm[id].exportable
         /\ acm'[id].serial = acm[id].serial \/ acm'[id].serial = serials + 1
  <1>1. Live(id) /\ (acm'[id] = acm[id] \/ Ages(acm[id], acm'[id]))
    BY AcmStep
  <1>2. acm[id] \in AcmCertificate /\ acm'[id] \in AcmCertificate
    BY <1>1, NextIInv DEF IInv, TypeOK, Live
  <1> QED BY <1>1, <1>2 DEF Ages, AcmCertificate

(* What a read found of an export stays true until it is acted upon.        *)
LEMMA FoundInSecretStep ==
  ASSUME IInv, SecretInv, [Next]_vars
  PROVE  FoundInSecret'
  <1>1. TypeOK /\ TypeOK' /\ MemoryOK /\ MemoryOK' /\ serials \in Nat /\ secret.crt \in Nat
    BY NextIInv DEF IInv, TypeOK
  <1>2. CASE pc' \notin {"describe", "listTags", "export"}
            \/ (pc' = "describe" /\ caller' # "create")
    BY <1>2 DEF FoundInSecret
  <1>3. CASE Describe /\ pc' = "listTags"
    <2> DEFINE id == latest.status.arn
    <2>1. /\ pc = "describe" /\ latest' = latest /\ caller' = caller
          /\ UNCHANGED <<acm, secret>> /\ Live(id) /\ observed' = sdkFind(latest, id, acm[id])
          /\ id \in CertIds /\ id # Nil
      BY <1>1, <1>3, DescribeStep, DataAssumption DEF MemoryOK, OnCertificate, Ends
    <2>2. observed'.status.serial = acm[id].serial
      BY <2>1 DEF sdkFind, describedStatus
    <2>3. acm[id].serial = secret.crt /\ secret.crt > 0 => acm[id].exportable
      BY <2>1 DEF SecretInv, SecretFromAcm, InMemory, IsLive
    <2>4. caller = "create" => acm[id].serial = 0 \/ acm[id].serial > secret.crt
      BY <2>1 DEF SecretInv, FoundInSecret, IsLive
    <2> QED BY <1>3, <2>1, <2>2, <2>3, <2>4 DEF FoundInSecret, IsLive, Live
  <1>4. CASE ListTags /\ ReadForSync(FoundNow) /\ pc' = "export"
    <2>1. /\ pc = "listTags" /\ caller = "sync" /\ UNCHANGED <<acm, secret>>
          /\ latest' = FoundNow /\ observed \in Resource
          /\ observed.status.arn = latest.status.arn
      BY <1>1, <1>4, ListTagsStep
         DEF ReadForSync, Update, UpdateBehindTags, LateInitialize, Goto, Finish, MemoryOK
    <2>2. latest'.status = observed.status
      BY <2>1 DEF FoundNow, Resource
    <2> QED BY <1>4, <2>1, <2>2 DEF SecretInv, FoundInSecret, IsLive, Live
  <1>5. CASE (Import \/ Request) /\ pc' = "describe"
    <2>1. PICK id \in CertIds, c \in AcmCertificate :
            /\ acm' = [acm EXCEPT ![id] = c]
            /\ c.serial = 0 \/ c.serial = serials + 1
            /\ latest' = [desired EXCEPT !.status.arn = id]
      BY <1>5, CreateStep
    <2>2. UNCHANGED secret /\ pc = "create" /\ desired \in Resource
      BY <1>5, CreateStep DEF IInv, MemoryOK
    <2>3. latest'.status.arn = id /\ acm'[id] = c
      BY <1>1, <2>1, <2>2 DEF Resource, CertificateStatus, TypeOK
    <2>4. acm'[id].serial = 0 \/ acm'[id].serial > secret'.crt
      BY <1>1, <2>1, <2>2, <2>3 DEF SecretInv, SecretFromAcm
    <2> QED BY <1>5, <2>3, <2>4 DEF FoundInSecret, IsLive, Live
  <1>6. CASE UNCHANGED <<pc, memory>> /\ secret'.crt = secret.crt /\ pc' # "create"
    <2>1. /\ ~Import /\ ~Request
          /\ UNCHANGED <<caller, latest, observed>>
      BY <1>6, CreateStep DEF memory
    <2>2. CASE pc \in {"describe", "listTags", "export"} /\ IsLive(latest.status.arn)'
      <3> DEFINE id == latest.status.arn
      <3>1. id \in CertIds /\ Live(id)' /\ id # Nil
        BY <1>1, <2>1, <2>2 DEF MemoryOK, OnCertificate, IsLive, Live
      <3>2. /\ Live(id) /\ acm[id].serial \in Nat /\ acm'[id].serial \in Nat
            /\ acm'[id].exportable = acm[id].exportable
            /\ acm'[id].serial = acm[id].serial \/ acm'[id].serial = serials + 1
        BY <2>1, <3>1, SerialAges
      <3>3. IsLive(id) /\ secret.crt <= serials
        BY <3>1, <3>2 DEF IsLive, SecretInv, SecretFromAcm
      <3> HIDE DEF id
      <3>4. acm'[id].serial > secret.crt \/ acm'[id].serial = acm[id].serial
        BY <1>1, <3>2, <3>3
      <3> USE DEF id
      <3> QED BY <1>1, <1>6, <2>1, <3>2, <3>3, <3>4 DEF SecretInv, FoundInSecret, IsLive, Live
    <2>3. CASE pc \in {"describe", "listTags", "export"} /\ ~IsLive(latest.status.arn)'
      BY <1>6, <2>1, <2>3 DEF SecretInv, FoundInSecret, IsLive, Live
    <2>4. CASE pc \notin {"describe", "listTags", "export"}
      BY <1>6, <2>4 DEF FoundInSecret
    <2> QED BY <2>2, <2>3, <2>4
  <1>7. CASE Reconcile
    <2>1. Start => pc' # "describe" \/ caller' # "create"
      BY StartStep
    <2>2. Start => pc' \notin {"listTags", "export"}
      BY StartStep
    <2>3. Describe => pc' \notin {"describe", "export"}
      BY DescribeStep DEF Ends
    <2>4. CASE ListTags
      <3>1. \/ ReadForSync(FoundNow) \/ ReadForCreate(FoundNow)
            \/ ReadForLateInitialization(FoundNow) \/ ReadForDelete(FoundNow)
            \/ Ends(latest)
        BY <2>4, ListTagsStep
      <3> QED BY <1>2, <1>4, <2>4, <3>1
              DEF ReadForSync, Update, UpdateBehindTags, ReadForCreate, LateInitialize, Goto,
                  Finish, ReadForLateInitialization, ReadForDelete, Ends
    <2>5. MarkManaged \/ RefuseCreate \/ Delete \/ MarkUnmanaged \/ PatchSpec \/ PatchStatus
            => pc' \notin {"describe", "listTags", "export"}
      BY MarkManagedStep, RefuseCreateStep, DeleteStep, MarkUnmanagedStep, PatchSpecStep,
         PatchStatusStep DEF Ends
    <2>6. Import \/ Request => pc' \notin {"listTags", "export"}
      BY CreateStep
    <2>7. \/ Export \/ WriteCertificate \/ WriteKey
          \/ RemoveTags \/ AddTags \/ UpdateOptions
          => pc' \notin {"listTags", "export"} /\ (pc' = "describe" => caller' # "create")
      BY ExportStep, WriteCertificateStep, WriteKeyStep, TagsStep DEF Ends
    <2> QED BY <1>2, <1>3, <1>5, <1>7, <2>1, <2>2, <2>3, <2>4, <2>5, <2>6, <2>7 DEF Reconcile
  <1>8. CASE Crash
    BY <1>2, <1>8 DEF Crash
  <1>9. CASE (Environment /\ ~Crash) \/ UNCHANGED vars
    BY <1>2, <1>6, <1>9, OutsideStep DEF vars
  <1> QED BY <1>7, <1>8, <1>9 DEF Next, Rest

(* The resource a reconcile works on has the recorded serial number, and    *)
(* an export returns the one that was read.                                 *)
LEMMA SerialsKept ==
  ASSUME NEW a \in Resource, NEW b \in Resource
  PROVE  withExportedStatus(a, b).status.serial = b.status.serial
  BY DEF withExportedStatus, Resource, CertificateStatus

(* What is calm after a step was calm before it.                            *)
LEMMA CalmBefore ==
  ASSUME IInv, [Next]_vars, Calm'
  PROVE  /\ Calm
         /\ budget'["exportFault"] = 0 /\ budget'["edit"] = 0
  <1>1. {"exportFault", "expire", "vanish", "edit"} \subseteq Bounded
    BY DEF Bounded
  <1>2. TypeOK /\ TypeOK'
    BY NextIInv DEF IInv
  <1>3. \A k \in {"exportFault", "expire", "vanish", "edit"} :
          budget[k] \in Nat /\ budget'[k] \in Nat /\ budget[k] <= budget'[k]
    BY <1>1, <1>2, BudgetGrows DEF TypeOK
  <1> QED BY <1>2, <1>3, SpecStep DEF Calm

(* The serial number a read found for a sync is not torn unless an export   *)
(* is due.                                                                  *)
LEMMA NotDueIsNotTorn ==
  ASSUME IInv, SecretInv, Calm, NEW a \in Resource, NEW b \in Resource,
         a.status = cr.status, a.spec.exportTo = cr.spec.exportTo,
         Found(b.status), ~ExportDue(a, b)
  PROVE  ~Torn(b.status)
  <1> SUFFICES ASSUME Torn(b.status) PROVE FALSE
    OBVIOUS
  <1>1. b.status.serial > 0 /\ b.status.serial = secret.crt
    BY DEF Torn
  <1>2. b.status.status = "ISSUED"
    BY <1>1 DEF Found, Calm
  <1>3. a.spec.exportTo
    BY <1>1 DEF SecretInv, SecretFromAcm, Calm
  <1>4. b.status.serial = cr.status.serial
    BY <1>2, <1>3, NotDueIsSettled DEF SecretInv
  <1> QED BY <1>1, <1>4 DEF Torn, SecretInv, NothingTorn

(* Without failures an export that is under way of a serial number the      *)
(* Secret holds half of does not end.                                       *)
LEMMA TornCanBeExported ==
  ASSUME IInv, SecretInv, Calm, pc = "export", Torn(latest.status)
  PROVE  /\ Live(latest.status.arn) /\ acm[latest.status.arn].status = "ISSUED"
         /\ acm[latest.status.arn].exportable
  <1> DEFINE id == latest.status.arn
  <1>1. id \in CertIds /\ id # Nil /\ acm[id] # Unused /\ ~cr.deleting
    BY DataAssumption DEF IInv, MemoryOK, OnCertificate, Provenance, HandedOut, Calm
  <1>2. Live(id)
    BY <1>1 DEF SecretInv, NoneGone, Calm, Live
  <1>3. latest.status.serial > 0 /\ latest.status.serial = secret.crt
    BY DEF Torn
  <1>4. acm[id].serial > 0 /\ acm[id].exportable
    BY <1>1, <1>2, <1>3
       DEF SecretInv, AcknowledgeInv, FoundBySync, Found, FoundInSecret, IsLive
  <1>5. MadeHere(acm[id])
    BY <1>1, <1>2 DEF SecretInv, AcknowledgeInv, KnownAreMadeHere, InMemory, IsLive
  <1>6. acm[id].status = "ISSUED"
    BY <1>4, <1>5 DEF MadeHere, Calm
  <1> QED BY <1>2, <1>4, <1>6

(* No step tears what is or may be recorded.                                 *)
LEMMA NothingTornStep ==
  ASSUME IInv, SecretInv, [Next]_vars
  PROVE  NothingTorn'
  <1> SUFFICES ASSUME Calm'
               PROVE  /\ ~Torn(cr.status)'
                      /\ pc' \notin {"idle", "export", "writeCertificate", "writeKey"}
                           => ~Torn(latest.status)'
    BY DEF NothingTorn
  <1>1. /\ Calm /\ budget'["exportFault"] = 0 /\ budget'["edit"] = 0 /\ ~cr.deleting
        /\ TypeOK /\ MemoryOK /\ AcknowledgeInv
    BY CalmBefore DEF IInv, Calm, SecretInv
  <1>2. /\ ~Torn(cr.status)
        /\ pc \notin {"idle", "export", "writeCertificate", "writeKey"} => ~Torn(latest.status)
    BY <1>1 DEF SecretInv, NothingTorn
  <1>3. pc # "idle" => desired.status = cr.status /\ desired \in Resource /\ latest \in Resource
    BY <1>1 DEF AcknowledgeInv, DesiredIsRecorded, MemoryOK
  <1>4. \A st : secret'.crt = secret.crt /\ secret'.key = secret.key
                  => (~Torn(st) => ~(st.serial > 0 /\ st.serial = secret'.crt
                                                   /\ st.serial # secret'.key))
    BY DEF Torn
  <1>5. ASSUME UNCHANGED secret, cr'.status = cr.status,
               \/ pc' \in {"idle", "export", "writeCertificate", "writeKey"}
               \/ latest'.status.serial = cr.status.serial
               \/ pc \notin {"idle", "export", "writeCertificate", "writeKey"}
                  /\ latest'.status.serial = latest.status.serial
        PROVE  /\ ~Torn(cr.status)'
               /\ pc' \notin {"idle", "export", "writeCertificate", "writeKey"}
                    => ~Torn(latest.status)'
    BY <1>2, <1>5 DEF Torn
  <1>6. CASE Start
    BY <1>5, <1>6, StartStep
  <1>7. CASE Describe
    BY <1>3, <1>5, <1>7, DescribeStep DEF Ends
  <1>8. CASE ListTags
    <2>1. /\ pc = "listTags" /\ UNCHANGED <<cr, secret>> /\ observed \in Resource
          /\ desired.spec.exportTo = cr.spec.exportTo
      BY <1>1, <1>8, ListTagsStep DEF MemoryOK, SecretInv, SecretFromAcm, Calm
    <2>2. CASE Ends(latest)
      BY <1>5, <2>1, <2>2 DEF Ends
    <2>3. CASE ReadForSync(FoundNow) /\ FoundNow \in Resource /\ FoundNow.status = observed.status
      <3> DEFINE a == mirrorAWSTags(desired, FoundNow)
      <3>1. caller = "sync" /\ Update(a, FoundNow)
        BY <2>3 DEF ReadForSync
      <3>2. /\ a \in Resource /\ a.status = cr.status /\ a.spec.exportTo = cr.spec.exportTo
        BY <1>3, <2>1, <2>3, mirrorAWSTagsType
           DEF mirrorAWSTags, Resource, CertificateSpec
      <3> HIDE DEF a
      <3>3. Found(FoundNow.status)
        BY <1>1, <2>1, <2>3, <3>1 DEF AcknowledgeInv, FoundBySync
      <3>4. ~ExportDue(a, FoundNow) => ~Torn(FoundNow.status)
        BY <1>1, <2>3, <3>2, <3>3, NotDueIsNotTorn
      <3>5. pc' = "export" \/ latest' = a \/ (latest' = FoundNow /\ ~ExportDue(a, FoundNow))
        BY <2>3, <3>1, <3>2, UpdateDue DEF Ends
      <3> QED BY <1>2, <2>1, <3>2, <3>4, <3>5 DEF Torn
    <2>4. CASE ReadForCreate(FoundNow) /\ FoundNow.status = observed.status
      <3>1. /\ caller = "create" /\ latest' = [latest EXCEPT !.status = observed.status]
        BY <2>4 DEF ReadForCreate, LateInitialize, Goto
      <3>2. latest'.status = observed.status
        BY <1>3, <2>1, <3>1 DEF Resource
      <3>3. /\ observed.status.serial = 0 \/ observed.status.serial > secret.crt
            /\ observed.status.serial \in Nat /\ secret.crt \in Nat
        BY <1>1, <2>1, <3>1 DEF SecretInv, FoundInSecret, Resource, CertificateStatus, TypeOK
      <3> QED BY <1>2, <2>1, <3>2, <3>3 DEF Torn
    <2>5. CASE ReadForLateInitialization(FoundNow) /\ FoundNow \in Resource
      <3>1. lateInitializeFromReadOneOutput(FoundNow, latest).status = latest.status
        BY <1>3, <2>1, <2>5, lateInitializeType
      <3>2. latest'.status = latest.status
        BY <2>5, <3>1 DEF ReadForLateInitialization, Goto, Finish
      <3> QED BY <1>5, <2>1, <3>2
    <2>6. CASE ReadForDelete(FoundNow)
      BY <1>1, <2>1, <2>6 DEF ReadForDelete, IInv, Managed
    <2> QED BY <1>8, <2>2, <2>3, <2>4, <2>5, <2>6, ListTagsStep
  <1>9. CASE MarkManaged
    BY <1>5, <1>9, MarkManagedStep DEF Ends
  <1>10. CASE RefuseCreate
    BY <1>3, <1>5, <1>10, RefuseCreateStep DEF Ends
  <1>11. CASE Import \/ Request
    <2>1. /\ pc = "create" /\ UNCHANGED <<cr, secret>>
          /\ latest' = desired \/ \E id \in CertIds : latest' = [desired EXCEPT !.status.arn = id]
      BY <1>11, CreateStep
    <2>2. latest'.status.serial = cr.status.serial
      BY <1>3, <2>1 DEF Resource, CertificateStatus
    <2> QED BY <1>5, <2>1, <2>2
  <1>12. CASE Export
    <2>1. CASE pc' = "writeCertificate"
      BY <1>5, <1>12, <2>1, ExportStep
    <2>2. CASE Ends(latest)
      <3>1. pc = "export" /\ UNCHANGED <<cr, acm, secret>> /\ latest' = latest
        BY <1>12, ExportStep
      <3>2. ~Torn(latest.status)
        BY <1>1, <1>12, <2>2, ExportStep, TornCanBeExported DEF Ends
      <3> QED BY <1>2, <3>1, <3>2 DEF Torn
    <2> QED BY <1>12, <2>1, <2>2, ExportStep
  <1>13. CASE WriteCertificate
    <2>1. pc = "writeCertificate" /\ UNCHANGED cr /\ latest' = latest
      BY <1>13, WriteCertificateStep
    <2>2. CASE pc' = "writeKey" /\ secret' = [secret EXCEPT !.crt = exported]
      <3>1. secret'.crt = exported /\ cr.status.serial < exported
            /\ cr.status.serial \in Nat /\ exported \in Nat
        BY <1>1, <2>1, <2>2 DEF TypeOK, AcknowledgeInv, ExportSteps, CertificateStatus
      <3> QED BY <2>1, <2>2, <3>1 DEF Torn
    <2>3. CASE secret' = secret /\ ~secret.exists
      <3>1. ~(secret.crt > 0) /\ secret.crt \in Nat /\ latest.status.serial \in Nat
        BY <1>1, <1>3, <2>1, <2>3
           DEF SecretInv, SecretFromAcm, TypeOK, Resource, CertificateStatus
      <3> QED BY <1>2, <2>1, <2>3, <3>1 DEF Torn
    <2> QED BY <1>1, <1>13, <2>2, <2>3, WriteCertificateStep
  <1>14. CASE WriteKey
    <2>1. /\ UNCHANGED cr /\ secret' = [secret EXCEPT !.key = exported] /\ secret.crt = exported
      BY <1>1, <1>14, WriteKeyStep DEF AcknowledgeInv, ExportSteps
    <2>2. secret'.crt = exported /\ secret'.key = exported
      BY <1>1, <2>1 DEF TypeOK
    <2> QED BY <2>2 DEF Torn
  <1>15. CASE RemoveTags \/ AddTags \/ UpdateOptions
    <2>1. /\ pc \in {"removeTags", "addTags", "updateOptions"} /\ UNCHANGED <<cr, secret>>
          /\ latest' \in {latest, desired, withExportedStatus(desired, latest)}
      BY <1>15, TagsStep DEF Ends
    <2>2. withExportedStatus(desired, latest).status.serial = latest.status.serial
      BY <1>3, <2>1, SerialsKept
    <2> QED BY <1>3, <1>5, <2>1, <2>2
  <1>16. CASE PatchSpec
    BY <1>1, <1>5, <1>16, PatchSpecStep DEF AcknowledgeInv, LateKeepsStatus
  <1>17. CASE PatchStatus
    <2>1. /\ pc = "patchStatus" /\ pc' = "idle" /\ UNCHANGED secret
          /\ cr'.status = cr.status \/ cr'.status = latest.status
      BY <1>17, PatchStatusStep
    <2> QED BY <1>2, <2>1 DEF Torn
  <1>18. CASE Delete \/ MarkUnmanaged
    BY <1>1, <1>18, DeleteStep, MarkUnmanagedStep DEF IInv, Managed
  <1>19. CASE Crash
    BY <1>5, <1>19 DEF Crash
  <1>20. CASE (Environment /\ ~Crash) \/ UNCHANGED vars
    <2>1. /\ UNCHANGED <<pc, memory>> /\ cr'.status = cr.status
          /\ secret'.crt = secret.crt /\ secret'.key = secret.key
      BY <1>20, OutsideStep DEF vars
    <2>2. latest' = latest
      BY <2>1 DEF memory
    <2> QED BY <1>2, <2>1, <2>2 DEF Torn
  <1> QED BY <1>6, <1>7, <1>8, <1>9, <1>10, <1>11, <1>12, <1>13, <1>14, <1>15, <1>16, <1>17, <1>18,
             <1>19, <1>20
          DEF Next, Reconcile, Rest

(* SecretInv is preserved by every step.                                     *)
LEMMA NextSecretInv == IInv /\ SecretInv /\ [Next]_vars => SecretInv'
  <1> SUFFICES ASSUME IInv, SecretInv, [Next]_vars PROVE SecretInv'
    OBVIOUS
  <1>1. AcknowledgeInv' /\ SecretFromAcm' /\ NoneGone'
    BY NextAcknowledgeInv, SecretFromAcmStep, NoneGoneStep DEF SecretInv
  <1> QED BY <1>1, FoundInSecretStep, NothingTornStep DEF SecretInv

(* The Secret holds only what ACM issued of certificates that can be        *)
(* exported, and a reconcile that ends well or badly leaves nothing torn    *)
(* behind as long as it is calm.                                            *)
THEOREM SecretInvCorrect == Spec => []SecretInv
  BY InitSecretInv, NextSecretInv, InvariantCorrect, PTL DEF Spec

(* As long as no export failed, the certificate is valid and the resource   *)
(* is left alone, a crash between the two writes to the Secret never leaves *)
(* a recorded serial number with the key of another one.                    *)
THEOREM NoTornRecord == Spec => []RecordedIsNotTorn
  <1>1. SecretInv => RecordedIsNotTorn
    BY DEF SecretInv, NothingTorn, RecordedIsNotTorn
  <1> QED BY <1>1, SecretInvCorrect, PTL
=============================================================================
