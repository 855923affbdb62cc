------------------------ MODULE CertificateInvariants ------------------------
(***************************************************************************)
(* Inductive invariants of the reconcile loop, beyond IInv: what the       *)
(* certificates the controller knows have in common, how far the statuses  *)
(* it holds may be behind ACM, and what each step of an update, an export  *)
(* or a late initialisation may rely on.  The proofs of the export, tag    *)
(* and late initialisation properties rest on them.                        *)
(***************************************************************************)
EXTENDS CertificateProperties

(* The resource a reconcile works on has the recorded status: only the end  *)
(* of a reconcile writes it.                                                *)
DesiredIsRecorded == pc # "idle" => desired.status = cr.status

-----------------------------------------------------------------------------
(* Certificates *)

(* What ACM holds of a certificate the controller requested or imported.    *)
MadeHere(c) ==
  /\ c.serial <= serials
  /\ c.serial > 0 <=> c.status \in {"ISSUED", "EXPIRED"}
  /\ c.status = "EXPIRED" => budget["expire"] > 0
  /\ c.keyAlgorithm # Nil
  /\ c.exportable => c.type # "IMPORTED"

(* Such are the certificates it knows; InitAcm may hold others.             *)
KnownAreMadeHere ==
  \A id \in {Recorded, InMemory} : IsLive(id) => MadeHere(acm[id])

-----------------------------------------------------------------------------
(* Statuses *)

(* A status never runs ahead of ACM: its serial number was used, is not     *)
(* newer than that of its certificate, and one that is as new as that of an *)
(* exportable certificate has the time of issuance.                         *)
NotAhead(st) ==
  /\ st.serial <= serials
  /\ st.issuedAt => st.serial > 0
  /\ IsLive(st.arn) /\ acm[st.arn].serial > 0
       => /\ st.serial <= acm[st.arn].serial
          /\ st.serial = acm[st.arn].serial /\ acm[st.arn].exportable => st.issuedAt

StatusesNotAhead ==
  /\ NotAhead(cr.status)
  /\ pc # "idle" => NotAhead(latest.status)
  /\ pc \in {"listTags", "patchSpec"} => NotAhead(observed.status)

(* Late initialisation works on the spec and keeps the status. *)
LateKeepsStatus == pc = "patchSpec" => observed.status = latest.status

(* What a read for a sync found, until it is acted upon: ACM has not gone   *)
(* back since, and the resource had not been ahead.                         *)
Found(st) ==
  /\ st.status \in {"ISSUED", "EXPIRED"} <=> st.serial > 0
  /\ st.status = "EXPIRED" => budget["expire"] > 0
  /\ st.serial > 0 => st.serial >= cr.status.serial
  /\ st.serial > 0 /\ IsLive(st.arn) => acm[st.arn].serial > 0

FoundBySync ==
  /\ pc = "listTags" /\ caller = "sync" => Found(observed.status)
  /\ pc \in {"export", "removeTags", "addTags", "updateOptions"} => Found(latest.status)

-----------------------------------------------------------------------------
(* Exports *)

ExportDue(a, b) == compareCertificateIssuedAt(a, b) # {}

(* An export is under way only when one is due, of a serial newer than the  *)
(* recorded one; the other steps of an update happen only when none is due. *)
ExportSteps ==
  /\ pc \in {"export", "writeCertificate", "writeKey"} => ExportDue(desired, latest)
  /\ pc \in {"removeTags", "addTags", "updateOptions"} => ~ExportDue(desired, latest)
  /\ pc \in {"writeCertificate", "writeKey"}
       => /\ latest.status.serial <= exported
          /\ cr.status.serial < exported
          /\ exported <= serials
          /\ IsLive(latest.status.arn) /\ acm[latest.status.arn].serial = exported
               => acm[latest.status.arn].exportable
  /\ pc = "writeKey" => secret.crt = exported

(* The serial a reconcile is about to record of the certificate it already  *)
(* knew is in the Secret, or is recorded.                                   *)
Settled(st) ==
  desired.spec.exportTo /\ st.arn = Recorded /\ st.status = "ISSUED"
    => \/ st.serial = cr.status.serial /\ (st.issuedAt => cr.status.issuedAt)
       \/ st.serial <= secret.crt /\ st.serial <= secret.key

LateReads == pc \in {"describe", "listTags"} /\ caller = "late"

RecordsSettled ==
  LateReads \/ pc = "patchSpec" \/ (pc = "patchStatus" /\ outcome = "ok")
    => Settled(latest.status)

(* What a create made is not the recorded certificate: that one is gone.    *)
CreatedIsNew ==
  pc \in {"describe", "listTags"} /\ caller = "create" => latest.status.arn # Recorded

AcknowledgeInv ==
  /\ DesiredIsRecorded
  /\ KnownAreMadeHere
  /\ StatusesNotAhead
  /\ LateKeepsStatus
  /\ FoundBySync
  /\ ExportSteps
  /\ RecordsSettled
  /\ CreatedIsNew

-----------------------------------------------------------------------------
(* The Secret *)

(* The Secret holds serials ACM used, of certificates that can be exported, *)
(* and nothing for a resource without an exportTo.                          *)
SecretFromAcm ==
  /\ secret.crt <= serials
  /\ secret.crt > 0 => secret.exists
  /\ \A id \in {Recorded, InMemory} :
       IsLive(id) /\ secret.crt > 0 /\ acm[id].serial = secret.crt => acm[id].exportable
  /\ budget["edit"] = 0 /\ secret.crt > 0 => cr.spec.exportTo
  /\ budget["edit"] = 0 /\ pc # "idle" => desired.spec.exportTo = cr.spec.exportTo

(* As long as nobody deletes them certificates stay in ACM. *)
NoneGone ==
  budget["vanish"] = 0 /\ ~cr.deleting => \A id \in CertIds : acm[id] # Gone

(* The serial a read found is in the Secret only if its certificate can be  *)
(* exported; one that was just made is not in the Secret yet.               *)
FoundInSecret ==
  /\ pc = "listTags" /\ caller = "sync"
       => (IsLive(latest.status.arn) /\ observed.status.serial = secret.crt /\ secret.crt > 0
             => acm[latest.status.arn].exportable)
  /\ pc = "export"
       => (IsLive(latest.status.arn) /\ latest.status.serial = secret.crt /\ secret.crt > 0
             => acm[latest.status.arn].exportable)
  /\ pc \in {"describe", "listTags"} /\ caller = "create" /\ IsLive(latest.status.arn)
       => acm[latest.status.arn].serial = 0 \/ acm[latest.status.arn].serial > secret.crt
  /\ pc = "listTags" /\ caller = "create"
       => observed.status.serial = 0 \/ observed.status.serial > secret.crt

(* What a reconcile may record at any time is not torn; the steps of an     *)
(* export put back what they find.                                          *)
NothingTorn ==
  Calm => /\ ~Torn(cr.status)
          /\ pc \notin {"idle", "export", "writeCertificate", "writeKey"} => ~Torn(latest.status)

SecretInv ==
  /\ AcknowledgeInv
  /\ SecretFromAcm
  /\ NoneGone
  /\ FoundInSecret
  /\ NothingTorn

-----------------------------------------------------------------------------
(* Tags and late initialisation *)

(* Nobody writes tags of AWS into a spec: ACM refuses them.                 *)
NoAwsTags(tags) == \A k \in AwsTagKeys : tags[k] = Nil

UsersLeaveAwsTags ==
  /\ \A s \in InitSpecs : NoAwsTags(s.tags)
  /\ "tags" \in DOMAIN Edits => \A t \in Edits["tags"] : NoAwsTags(t)

(* The aws: tags of the desired resource are those of the last read.        *)
AwsTagsInv ==
  /\ NoAwsTags(cr.spec.tags)
  /\ pc \in {"describe", "listTags"} /\ caller = "sync" => NoAwsTags(desired.spec.tags)
  /\ pc \in {"removeTags", "addTags"}
       => \A k \in AwsTagKeys : desired.spec.tags[k] = latest.spec.tags[k]

(* Nobody but the controller changes other tags: those of the certificate   *)
(* are the listed ones, without those that were removed.                    *)
ListedTags ==
  [k \in TagKeys |->
     IF pc = "addTags" /\ k \in toDelete(desired.spec.tags, latest.spec.tags)
     THEN Nil ELSE latest.spec.tags[k]]

ListedTagsInv ==
  pc \in {"removeTags", "addTags"} /\ Live(latest.status.arn)
    => \A k \in TagKeys \ AwsTagKeys : acm[latest.status.arn].tags[k] = ListedTags[k]

(* What the resource had set when it was read is set until a late           *)
(* initialisation, which does not change it.                                *)
LateInitInv ==
  /\ pc \in {"describe", "listTags"} /\ caller = "create" => latest.spec = desired.spec
  /\ pc = "listTags" /\ caller = "sync" => observed.spec.keyAlgorithm # Nil
  /\ LateReads \/ pc = "patchSpec"
       => \A f \in LateInitializedFields : desired.spec[f] # Nil => latest.spec[f] # Nil
  /\ pc = "patchSpec"
       => \A f \in LateInitializedFields : latest.spec[f] # Nil => observed.spec[f] = latest.spec[f]

UpdateInv == KnownAreMadeHere /\ AwsTagsInv /\ ListedTagsInv /\ LateInitInv
=============================================================================
