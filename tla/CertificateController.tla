------------------------ MODULE CertificateController ------------------------
(***************************************************************************)
(* The reconcile loop of one Certificate custom resource against AWS       *)
(* Certificate Manager, one step per call that leaves the process, so that *)
(* users, ACM and crashes act between any two calls.                       *)
(*                                                                         *)
(* The functions of the resource manager (pkg/resource/certificate) are    *)
(* the steps; the order in which the ACK runtime calls them, the           *)
(* Kubernetes API server and ACM itself are not in this repository and are *)
(* modelled from the way the manager uses them.  The work queue runs at    *)
(* most one reconcile of a resource at a time, so there is one program     *)
(* counter.                                                                *)
(***************************************************************************)
EXTENDS CertificateResource, FiniteSets

CONSTANTS
  Unused, Gone,        \* an ARN not handed out yet, an ARN whose certificate was deleted
  InitSpecs,           \* the specs a user may create the resource with
  InitAcm,             \* what ACM holds at the start
  Edits,               \* for each spec field a user may edit, the values it may take
  SecretCreated,       \* whether the Secret of exportTo may be there, or missing, at the start
  AcmSpelling,         \* how ACM spells each key algorithm in its answers
  DefaultKeyAlgorithm, \* what ACM fills in when a request leaves it out
  DefaultOptions,
  ImportedOptions,     \* what ACM reports for the options of an imported certificate
  ImportedName,        \* and for its domain name and alternative names, read from it
  TagLimit,            \* how many tags of users a certificate may carry
  Failures,            \* for each call the ways it may fail: "error", "terminal"
  LostReplies,         \* the calls whose effect may happen although they return an error
  Limits               \* how often each kind of bounded event may happen

Calls ==
  {"DescribeCertificate", "ListTagsForCertificate", "RequestCertificate",
   "ImportCertificate", "ExportCertificate", "RemoveTagsFromCertificate",
   "AddTagsToCertificate", "UpdateCertificateOptions", "DeleteCertificate",
   "WriteCertificate", "WriteKey",
   "MarkManaged", "MarkUnmanaged", "PatchSpec", "PatchStatus"}

ExportCalls == {"ExportCertificate", "WriteCertificate", "WriteKey"}

(* Calls of an export that fail, other calls that fail, replies and status  *)
(* patches that are lost, and what users, ACM and crashes may do.           *)
Bounded == {"exportFault", "fault", "lost", "crash", "edit", "delete",
            "renew", "expire", "vanish", "awsTag"}

(* The fields a user may edit once they are set, and their values. *)
EditableFields ==
  [domainName              |-> Opt(DomainNames),
   options                 |-> Opt(OptionValues),
   subjectAlternativeNames |-> Opt(DomainNames),
   exportTo                |-> BOOLEAN,
   tags                    |-> TagMap]

ASSUME ControllerAssumption ==
  /\ Unused # Gone
  /\ {Unused, Gone} \cap AcmCertificate = {}
  /\ InitSpecs \subseteq CertificateSpec
  /\ InitAcm \in [CertIds -> AcmCertificate \cup {Unused}]
  /\ DOMAIN Edits \subseteq DOMAIN EditableFields
  /\ \A f \in DOMAIN Edits : Edits[f] \subseteq EditableFields[f]
  /\ SecretCreated \subseteq BOOLEAN
  /\ AcmSpelling \in [KeyAlgorithms -> KeyAlgorithms]
  /\ \A a \in KeyAlgorithms : Underscored[AcmSpelling[a]] = Underscored[a]
  /\ DefaultKeyAlgorithm \in KeyAlgorithms
  /\ DefaultOptions \in OptionValues
  /\ ImportedOptions \in Opt(OptionValues)
  /\ ImportedName \in Opt(DomainNames)
  /\ TagLimit \in Nat
  /\ Failures \in [Calls -> SUBSET {"error", "terminal"}]
  /\ LostReplies \subseteq Calls
  /\ Limits \in [Bounded -> Nat]

VARIABLES
  cr,        \* the custom resource in the API server
  acm,       \* the certificates in ACM
  serials,   \* the number of serial numbers ACM has used
  secret,    \* the Secret of exportTo: the serials whose certificate and key it holds
  queued,    \* whether the resource is in the work queue or due for a requeue
  pc,        \* the call the reconcile is about to make
  caller,    \* what the ReadOne in progress is for
  desired,   \* the resource as the reconcile read it, with the tags it ensures
  latest,    \* the resource as last observed or returned by the manager
  observed,  \* the result under construction of a manager function
  exported,  \* the serial of the certificate and key in memory during an export
  outcome,   \* how the reconcile will end
  budget     \* bounded events used so far

memory == <<caller, desired, latest, observed, exported, outcome>>
vars   == <<cr, acm, serials, secret, queued, pc, memory, budget>>

Pcs == {"idle", "describe", "listTags", "manage", "create", "export",
        "writeCertificate", "writeKey", "removeTags", "addTags",
        "updateOptions", "patchSpec", "patchStatus", "delete", "unmanage"}

TypeOK ==
  /\ cr \in [exists : BOOLEAN, deleting : BOOLEAN, finalizer : BOOLEAN,
             spec : CertificateSpec, status : CertificateStatus]
  /\ acm \in [CertIds -> AcmCertificate \cup {Unused, Gone}]
  /\ serials \in Nat
  /\ secret \in [exists : BOOLEAN, crt : Nat, key : Nat]
  /\ queued \in BOOLEAN
  /\ pc \in Pcs
  /\ caller \in {"sync", "create", "late", "delete", Nil}
  /\ desired \in Resource \cup {Nil}
  /\ latest \in Resource \cup {Nil}
  /\ observed \in Resource \cup {Nil}
  /\ exported \in Nat
  /\ outcome \in {"ok", "error", "terminal", Nil}
  /\ budget \in [Bounded -> Nat]

Live(id) == acm[id] \notin {Unused, Gone}

(* The ARN ACM hands out next. *)
NextArn(id) ==
  /\ acm[id] = Unused
  /\ \A j \in CertIds : acm[j] = Unused => id <= j

Init ==
  /\ \E s \in InitSpecs, b \in SecretCreated :
       /\ cr = [exists |-> TRUE, deleting |-> FALSE, finalizer |-> FALSE,
                spec |-> s, status |-> NoStatus]
       /\ secret = [exists |-> s.exportTo => b, crt |-> 0, key |-> 0]
  /\ acm = InitAcm
  /\ serials = 0
  /\ queued = TRUE
  /\ pc = "idle"
  /\ caller = Nil
  /\ desired = Nil
  /\ latest = Nil
  /\ observed = Nil
  /\ exported = 0
  /\ outcome = Nil
  /\ budget = [k \in Bounded |-> 0]

Spend(k) ==
  /\ budget[k] < Limits[k]
  /\ budget' = [budget EXCEPT ![k] = @ + 1]

-----------------------------------------------------------------------------
(* How a step continues *)

(* Go on to the call at p, for caller c, with r the latest resource. *)
Goto(p, c, r) ==
  /\ pc' = p
  /\ caller' = c
  /\ latest' = r
  /\ outcome' = outcome

(* Return r to the runtime, which patches its status whatever the outcome. *)
Finish(r, o) ==
  /\ pc' = "patchStatus"
  /\ caller' = caller
  /\ latest' = r
  /\ outcome' = o

(* ReadOne returned NotFound. *)
NotFound(c, r) ==
  \/ c = "delete" /\ Goto("unmanage", c, r)
  \/ c = "sync" /\ Goto(IF cr.finalizer THEN "create" ELSE "manage", c, r)
  \/ c \in {"create", "late"} /\ Finish(r, "error")

(* Mutants: any error of a read is taken for NotFound; a failed deletion is  *)
(* ignored; an error after a create returns the resource without its ARN.   *)
Fails_AsNotFound(call, r) ==
  /\ Spend("fault")
  /\ IF call = "DescribeCertificate"
     THEN NotFound(caller, r)
     ELSE \E o \in Failures[call] : Finish(r, o)

Fails_DeleteIgnored(call, r) ==
  /\ Spend("fault")
  /\ IF call = "DeleteCertificate"
     THEN Goto("unmanage", "delete", r)
     ELSE \E o \in Failures[call] : Finish(r, o)

Fails_ForgetsCreated(call, r) ==
  /\ Spend("fault")
  /\ \E o \in Failures[call] : Finish(IF caller = "create" THEN desired ELSE r, o)

(* The call fails in one of its ways before it has any effect. *)
Fails(call, r) ==
  /\ Spend(IF call \in ExportCalls THEN "exportFault" ELSE "fault")
  /\ \E o \in Failures[call] : Finish(r, o)

(* The call takes effect and its reply is lost. *)
LosesReply(call, r) ==
  /\ call \in LostReplies
  /\ Spend("lost")
  /\ Finish(r, "error")

(* What the process holds in memory is dropped. *)
Forget ==
  /\ caller' = Nil
  /\ desired' = Nil
  /\ latest' = Nil
  /\ observed' = Nil
  /\ exported' = 0
  /\ outcome' = Nil

(* The end of a reconcile: a terminal outcome is not requeued. *)
EndReconcile(o) ==
  /\ pc' = "idle"
  /\ Forget
  /\ queued' = (queued \/ o # "terminal")

(* LateInitialize reads the resource again. *)
LateInitialize(r) == Goto("describe", "late", r)

(* Mutant: an imported certificate may only be updated in its tags.         *)
UpdateBehindTags_RefusesImported(a, b) ==
  LET delta    == newResourceDelta(a, b)
      imported == b.status.type = "IMPORTED"
  IN  \/ delta \subseteq {"tags"} /\ LateInitialize(a)
      \/ ~(delta \subseteq {"tags"}) /\ imported /\ Finish(b, "terminal")
      \/ ~(delta \subseteq {"tags"}) /\ ~imported /\ Goto("updateOptions", "sync", b)

(* sdkUpdate behind the tags: only tags differ, an imported certificate,    *)
(* or the options.                                                          *)
UpdateBehindTags(a, b) ==
  LET delta    == newResourceDelta(a, b)
      imported == b.status.type = "IMPORTED"
  IN  \/ /\ delta \subseteq {"tags"} \/ (imported /\ "options" \notin delta)
         /\ LateInitialize(a)
      \/ /\ ~(delta \subseteq {"tags"})
         /\ imported
         /\ "options" \in delta
         /\ Finish(b, "terminal")
      \/ /\ ~(delta \subseteq {"tags"})
         /\ ~imported
         /\ Goto("updateOptions", "sync", b)

(* Mutant: tags are added before others are removed. *)
Update_AddsFirst(a, b) ==
  LET delta     == newResourceDelta(a, b)
      exportDue == delta \cap {"issuedAt", "serial"} # {}
  IN  \/ delta = {} /\ LateInitialize(b)
      \/ exportDue /\ Goto("export", "sync", b)
      \/ /\ ~exportDue
         /\ "tags" \in delta
         /\ Goto(IF toAdd(a.spec.tags, b.spec.tags) # {} THEN "addTags" ELSE "removeTags",
                 "sync", b)
      \/ /\ ~exportDue
         /\ "tags" \notin delta
         /\ delta # {}
         /\ UpdateBehindTags(a, b)

(* Mutant: with nothing to do the desired resource is returned.            *)
Update_ReturnsDesired(a, b) ==
  LET delta     == newResourceDelta(a, b)
      exportDue == delta \cap {"issuedAt", "serial"} # {}
  IN  \/ delta = {} /\ LateInitialize(a)
      \/ exportDue /\ Goto("export", "sync", b)
      \/ /\ ~exportDue
         /\ "tags" \in delta
         /\ Goto(IF toDelete(a.spec.tags, b.spec.tags) # {} THEN "removeTags" ELSE "addTags",
                 "sync", b)
      \/ /\ ~exportDue
         /\ "tags" \notin delta
         /\ delta # {}
         /\ UpdateBehindTags(a, b)

(* updateResource of the runtime and the head of sdkUpdate: nothing to do,  *)
(* an export, the tags, the rest.                                           *)
Update(a, b) ==
  LET delta     == newResourceDelta(a, b)
      exportDue == delta \cap {"issuedAt", "serial"} # {}
  IN  \/ delta = {} /\ LateInitialize(b)
      \/ exportDue /\ Goto("export", "sync", b)
      \/ /\ ~exportDue
         /\ "tags" \in delta
         /\ Goto(IF toDelete(a.spec.tags, b.spec.tags) # {} THEN "removeTags" ELSE "addTags",
                 "sync", b)
      \/ /\ ~exportDue
         /\ "tags" \notin delta
         /\ delta # {}
         /\ UpdateBehindTags(a, b)

-----------------------------------------------------------------------------
(* The reconcile loop *)

(* Reconcile takes the resource from the queue and reads it; a resource     *)
(* that is being deleted is not synced.  Without an ARN in its status the   *)
(* read is answered NotFound without a call.                                *)
Start ==
  /\ pc = "idle"
  /\ queued
  /\ cr.exists
  /\ queued' = FALSE
  /\ LET purpose == IF cr.deleting THEN "delete" ELSE "sync"
         r == [spec   |-> IF cr.deleting THEN cr.spec
                          ELSE [cr.spec EXCEPT !.tags = EnsureTags(cr.spec.tags)],
               status |-> cr.status]
     IN  /\ desired' = r
         /\ IF requiredFieldsMissingFromReadOneInput(r)
            THEN NotFound(purpose, r)
            ELSE Goto("describe", purpose, r)
  /\ UNCHANGED <<cr, acm, serials, secret, observed, exported, budget>>

(* Mutant: the ResourceNotFoundException of ACM is an error like any other. *)
Describe_NotFoundFails ==
  /\ pc = "describe"
  /\ LET id == latest.status.arn
     IN  \/ /\ Live(id)
            /\ observed' = sdkFind(latest, id, acm[id])
            /\ Goto("listTags", caller, latest)
         \/ /\ ~Live(id)
            /\ Finish(latest, "error")
            /\ UNCHANGED observed
  /\ UNCHANGED <<cr, acm, serials, secret, queued, desired, exported, budget>>

(* DescribeCertificate, and the merge of its answer. *)
Describe ==
  /\ pc = "describe"
  /\ LET id == latest.status.arn
     IN  \/ /\ Live(id)
            /\ observed' = sdkFind(latest, id, acm[id])
            /\ Goto("listTags", caller, latest)
            /\ UNCHANGED budget
         \/ /\ ~Live(id)
            /\ NotFound(caller, latest)
            /\ UNCHANGED <<observed, budget>>
         \/ /\ Fails("DescribeCertificate", latest)
            /\ UNCHANGED observed
  /\ UNCHANGED <<cr, acm, serials, secret, queued, desired, exported>>

(* The read for a sync is complete: its aws: tags are mirrored in the       *)
(* desired resource, and the update starts.  (The runtime refuses to update *)
(* a resource without the finalizer; without adoption there is none that    *)
(* has an ARN.)                                                             *)
ReadForSync(found) ==
  /\ caller = "sync"
  /\ desired' = mirrorAWSTags(desired, found)
  /\ observed' = Nil
  /\ Update(mirrorAWSTags(desired, found), found)

(* The read after a create: the created resource takes the observed status. *)
ReadForCreate(found) ==
  /\ caller = "create"
  /\ LateInitialize([latest EXCEPT !.status = found.status])
  /\ observed' = Nil
  /\ UNCHANGED desired

(* The end of LateInitialize: fields that were filled in are patched. *)
ReadForLateInitialization(found) ==
  /\ caller = "late"
  /\ LET after == lateInitializeFromReadOneOutput(found, latest)
     IN  \/ /\ after.spec # latest.spec
            /\ observed' = after
            /\ Goto("patchSpec", "late", latest)
         \/ /\ after.spec = latest.spec
            /\ observed' = Nil
            /\ Finish(after, IF incompleteLateInitialization(after) THEN "error" ELSE "ok")
  /\ UNCHANGED desired

ReadForDelete(found) ==
  /\ caller = "delete"
  /\ Goto("delete", "delete", found)
  /\ observed' = Nil
  /\ UNCHANGED desired

(* ListTagsForCertificate completes a read.  A certificate that went away   *)
(* since it was described is an error here, not a NotFound.                 *)
ListTags ==
  /\ pc = "listTags"
  /\ LET id    == latest.status.arn
         found == [observed EXCEPT !.spec.tags = acm[id].tags]
     IN  \/ /\ Live(id)
            /\ \/ ReadForSync(found)
               \/ ReadForCreate(found)
               \/ ReadForLateInitialization(found)
               \/ ReadForDelete(found)
            /\ UNCHANGED budget
         \/ /\ ~Live(id)
            /\ Finish(latest, "error")
            /\ observed' = Nil
            /\ UNCHANGED <<desired, budget>>
         \/ /\ Fails("ListTagsForCertificate", latest)
            /\ observed' = Nil
            /\ UNCHANGED desired
  /\ UNCHANGED <<cr, acm, serials, secret, queued, exported>>

(* Mutant: the resource is not given the finalizer. *)
MarkManaged_Unmarked ==
  /\ pc = "manage"
  /\ cr.exists
  /\ Goto("create", "sync", desired)
  /\ UNCHANGED <<cr, acm, serials, secret, queued, desired, observed, exported, budget>>

(* The finalizer is patched into the resource before anything is created;   *)
(* the reply of the patch replaces the desired resource, and its tags are   *)
(* ensured again.                                                           *)
MarkManaged ==
  /\ pc = "manage"
  /\ \/ /\ cr.exists
        /\ cr' = [cr EXCEPT !.finalizer = TRUE]
        /\ desired' = [spec   |-> [cr.spec EXCEPT !.tags = EnsureTags(cr.spec.tags)],
                       status |-> cr.status]
        /\ Goto("create", "sync", desired')
        /\ UNCHANGED budget
     \/ /\ ~cr.exists
        /\ Finish(latest, "error")
        /\ UNCHANGED <<cr, desired, budget>>
     \/ /\ Fails("MarkManaged", latest)
        /\ UNCHANGED <<cr, desired>>
  /\ UNCHANGED <<acm, serials, secret, queued, observed, exported>>

-----------------------------------------------------------------------------
(* Create *)

RefuseCreate ==
  /\ pc = "create"
  /\ createRefused(desired.spec)
  /\ Finish(desired, "terminal")
  /\ UNCHANGED <<cr, acm, serials, secret, queued, desired, observed, exported, budget>>

(* ACM refuses more tags than its limit, not counting those of AWS: a       *)
(* terminal error.                                                          *)
TooManyTags(tags) == Cardinality({k \in TagKeys \ AwsTagKeys : tags[k] # Nil}) > TagLimit

(* A new import takes the tags of the request, a replacement keeps its own. *)
importedCertificate(tags) ==
  [status |-> "ISSUED", type |-> "IMPORTED", serial |-> serials + 1,
   ca |-> FALSE, domainName |-> ImportedName, keyAlgorithm |-> DefaultKeyAlgorithm,
   options |-> ImportedOptions, names |-> ImportedName, exportable |-> FALSE,
   tags |-> tags]

(* ImportCertificate: a new certificate, or the replacement of the one      *)
(* spec.certificateARN names.                                               *)
Import ==
  /\ pc = "create"
  /\ desired.spec.certificate
  /\ ~createRefused(desired.spec)
  /\ LET target == desired.spec.certificateARN
     IN  \/ \E id \in CertIds :
              /\ IF target = Nil THEN NextArn(id) /\ ~TooManyTags(desired.spec.tags)
                                 ELSE id = target /\ Live(id)
              /\ acm' = [acm EXCEPT ![id] = importedCertificate(
                           IF target = Nil THEN desired.spec.tags ELSE acm[id].tags)]
              /\ serials' = serials + 1
              /\ \/ /\ Goto("describe", "create", [desired EXCEPT !.status.arn = id])
                    /\ UNCHANGED budget
                 \/ LosesReply("ImportCertificate", desired)
         \/ /\ target # Nil
            /\ ~Live(target)
            /\ Finish(desired, "error")
            /\ UNCHANGED <<acm, serials, budget>>
         \/ /\ target = Nil
            /\ TooManyTags(desired.spec.tags)
            /\ Finish(desired, "terminal")
            /\ UNCHANGED <<acm, serials, budget>>
         \/ /\ Fails("ImportCertificate", desired)
            /\ UNCHANGED <<acm, serials>>
  /\ UNCHANGED <<cr, secret, queued, desired, observed, exported>>

orDefault(v, default) == IF v = Nil THEN default ELSE v

(* What ACM makes of the payload of RequestCertificate.  sdkCreate sets the *)
(* Export option only for a public certificate with an exportTo; a private  *)
(* certificate can always be exported.                                      *)
requestedCertificate(spec) ==
  [status       |-> "PENDING_VALIDATION",
   type         |-> IF spec.certificateAuthorityARN THEN "PRIVATE" ELSE "AMAZON_ISSUED",
   serial       |-> 0,
   ca           |-> spec.certificateAuthorityARN,
   domainName   |-> spec.domainName,
   keyAlgorithm |-> AcmSpelling[orDefault(spec.keyAlgorithm, DefaultKeyAlgorithm)],
   options      |-> orDefault(spec.options, DefaultOptions),
   names        |-> orDefault(spec.subjectAlternativeNames, spec.domainName),
   exportable   |-> spec.certificateAuthorityARN \/ spec.exportTo,
   tags         |-> spec.tags]

(* RequestCertificate: each call makes a new certificate, there is no       *)
(* idempotency token.  The payload is not valid without a domain name.      *)
Request ==
  /\ pc = "create"
  /\ ~desired.spec.certificate
  /\ ~createRefused(desired.spec)
  /\ \/ /\ desired.spec.domainName # Nil
        /\ ~TooManyTags(desired.spec.tags)
        /\ \E id \in CertIds :
             /\ NextArn(id)
             /\ acm' = [acm EXCEPT ![id] = requestedCertificate(desired.spec)]
             /\ \/ /\ Goto("describe", "create", [desired EXCEPT !.status.arn = id])
                   /\ UNCHANGED budget
                \/ LosesReply("RequestCertificate", desired)
     \/ /\ desired.spec.domainName = Nil
        /\ Finish(desired, "error")
        /\ UNCHANGED <<acm, budget>>
     \/ /\ desired.spec.domainName # Nil
        /\ TooManyTags(desired.spec.tags)
        /\ Finish(desired, "terminal")
        /\ UNCHANGED <<acm, budget>>
     \/ /\ Fails("RequestCertificate", desired)
        /\ UNCHANGED acm
  /\ UNCHANGED <<cr, serials, secret, queued, desired, observed, exported>>

-----------------------------------------------------------------------------
(* Update *)

(* ExportCertificate: the certificate and key ACM holds at the time of the  *)
(* call, which may be newer than what was described.                        *)
Export ==
  /\ pc = "export"
  /\ LET id         == latest.status.arn
         exportable == Live(id) /\ acm[id].status = "ISSUED" /\ acm[id].exportable
     IN  \/ /\ exportable
            /\ exported' = acm[id].serial
            /\ Goto("writeCertificate", caller, latest)
            /\ UNCHANGED budget
         \/ /\ ~exportable
            /\ Finish(latest, "error")
            /\ UNCHANGED <<exported, budget>>
         \/ /\ Fails("ExportCertificate", latest)
            /\ UNCHANGED exported
  /\ UNCHANGED <<cr, acm, serials, secret, queued, desired, observed>>

(* The certificate and chain go into the Secret under exportTo.key.  A      *)
(* Secret that does not exist is a terminal error.                          *)
WriteCertificate ==
  /\ pc = "writeCertificate"
  /\ \/ /\ secret.exists
        /\ secret' = [secret EXCEPT !.crt = exported]
        /\ Goto("writeKey", caller, latest)
        /\ UNCHANGED budget
     \/ /\ ~secret.exists
        /\ Finish(latest, "terminal")
        /\ UNCHANGED <<secret, budget>>
     \/ /\ Fails("WriteCertificate", latest)
        /\ UNCHANGED secret
  /\ UNCHANGED <<cr, acm, serials, queued, desired, observed, exported>>

(* Mutant: a key that is there already is taken for the one of the renewed  *)
(* certificate.                                                             *)
WriteKey_FirstOnly ==
  /\ pc = "writeKey"
  /\ secret' = IF secret.key = 0 THEN [secret EXCEPT !.key = exported] ELSE secret
  /\ LateInitialize(withExportedStatus(desired, latest))
  /\ UNCHANGED <<cr, acm, serials, queued, desired, observed, exported, budget>>

(* The decrypted key goes into the Secret under tls.key; the update then    *)
(* returns without a look at the rest of the delta.                         *)
WriteKey ==
  /\ pc = "writeKey"
  /\ \/ /\ secret' = [secret EXCEPT !.key = exported]
        /\ LateInitialize(withExportedStatus(desired, latest))
        /\ UNCHANGED budget
     \/ /\ Fails("WriteKey", latest)
        /\ UNCHANGED secret
  /\ UNCHANGED <<cr, acm, serials, queued, desired, observed, exported>>

RemoveTags ==
  /\ pc = "removeTags"
  /\ LET id      == desired.status.arn
         removed == toDelete(desired.spec.tags, latest.spec.tags)
     IN  \/ /\ Live(id)
            /\ acm' = [acm EXCEPT ![id].tags =
                         [k \in TagKeys |-> IF k \in removed THEN Nil ELSE @[k]]]
            /\ IF toAdd(desired.spec.tags, latest.spec.tags) # {}
               THEN Goto("addTags", caller, latest)
               ELSE UpdateBehindTags(desired, latest)
            /\ UNCHANGED budget
         \/ /\ ~Live(id)
            /\ Finish(latest, "error")
            /\ UNCHANGED <<acm, budget>>
         \/ /\ Fails("RemoveTagsFromCertificate", latest)
            /\ UNCHANGED acm
  /\ UNCHANGED <<cr, serials, secret, queued, desired, observed, exported>>

AddTags ==
  /\ pc = "addTags"
  /\ LET id     == desired.status.arn
         added  == toAdd(desired.spec.tags, latest.spec.tags)
         tagged == [k \in TagKeys |-> IF k \in added THEN desired.spec.tags[k] ELSE acm[id].tags[k]]
     IN  \/ /\ Live(id)
            /\ ~TooManyTags(tagged)
            /\ acm' = [acm EXCEPT ![id].tags = tagged]
            /\ UpdateBehindTags(desired, latest)
            /\ UNCHANGED budget
         \/ /\ Live(id)
            /\ TooManyTags(tagged)
            /\ Finish(latest, "terminal")
            /\ UNCHANGED <<acm, budget>>
         \/ /\ ~Live(id)
            /\ Finish(latest, "error")
            /\ UNCHANGED <<acm, budget>>
         \/ /\ Fails("AddTagsToCertificate", latest)
            /\ UNCHANGED acm
  /\ UNCHANGED <<cr, serials, secret, queued, desired, observed, exported>>

(* UpdateCertificateOptions, whatever the remaining difference is.  A       *)
(* payload without options is not valid.                                    *)
UpdateOptions ==
  /\ pc = "updateOptions"
  /\ LET id    == desired.status.arn
         valid == desired.spec.options # Nil /\ Live(id)
     IN  \/ /\ valid
            /\ acm' = [acm EXCEPT ![id].options = desired.spec.options]
            /\ LateInitialize(withExportedStatus(desired, latest))
            /\ UNCHANGED budget
         \/ /\ ~valid
            /\ Finish(latest, "error")
            /\ UNCHANGED <<acm, budget>>
         \/ /\ Fails("UpdateCertificateOptions", latest)
            /\ UNCHANGED acm
  /\ UNCHANGED <<cr, serials, secret, queued, desired, observed, exported>>

-----------------------------------------------------------------------------
(* The patches that end a reconcile *)

(* The spec fields that were initialised late are merged into the resource, *)
(* without a check that it is still the version that was read.              *)
PatchSpec ==
  /\ pc = "patchSpec"
  /\ \/ /\ cr' = [cr EXCEPT !.spec = mergePatch(cr.spec, latest.spec, observed.spec)]
        /\ Finish(observed, IF incompleteLateInitialization(observed) THEN "error" ELSE "ok")
        /\ UNCHANGED budget
     \/ /\ Fails("PatchSpec", observed)
        /\ UNCHANGED cr
  /\ observed' = Nil
  /\ UNCHANGED <<acm, serials, secret, queued, desired, exported>>

(* The status of the resource the reconcile returned is patched, whether it *)
(* succeeded or not.  A patch that fails changes nothing about the end: the *)
(* runtime ignores the error, and does not requeue a terminal one for it.   *)
PatchStatus ==
  /\ pc = "patchStatus"
  /\ \/ /\ cr.exists
        /\ cr' = [cr EXCEPT !.status = latest.status]
        /\ UNCHANGED budget
     \/ /\ ~cr.exists
        /\ UNCHANGED <<cr, budget>>
     \/ /\ Failures["PatchStatus"] # {}
        /\ Spend("lost")
        /\ UNCHANGED cr
  /\ EndReconcile(outcome)
  /\ UNCHANGED <<acm, serials, secret>>

-----------------------------------------------------------------------------
(* Delete *)

(* sdkDelete does not turn a missing certificate into a success. *)
Delete ==
  /\ pc = "delete"
  /\ LET id == latest.status.arn
     IN  \/ /\ Live(id)
            /\ acm' = [acm EXCEPT ![id] = Gone]
            /\ \/ Goto("unmanage", "delete", latest) /\ UNCHANGED budget
               \/ LosesReply("DeleteCertificate", latest)
         \/ /\ ~Live(id)
            /\ Finish(latest, "error")
            /\ UNCHANGED <<acm, budget>>
         \/ /\ Fails("DeleteCertificate", latest)
            /\ UNCHANGED acm
  /\ UNCHANGED <<cr, serials, secret, queued, desired, observed, exported>>

(* The finalizer is removed, and with it the API server removes the         *)
(* resource.                                                                *)
MarkUnmanaged ==
  /\ pc = "unmanage"
  /\ \/ /\ cr' = [cr EXCEPT !.finalizer = FALSE, !.exists = FALSE]
        /\ EndReconcile("ok")
        /\ UNCHANGED budget
     \/ /\ Fails("MarkUnmanaged", latest)
        /\ UNCHANGED <<cr, queued, desired, observed, exported>>
  /\ UNCHANGED <<acm, serials, secret>>

Reconcile ==
  \/ Start \/ Describe \/ ListTags \/ MarkManaged
  \/ RefuseCreate \/ Import \/ Request
  \/ Export \/ WriteCertificate \/ WriteKey
  \/ RemoveTags \/ AddTags \/ UpdateOptions
  \/ PatchSpec \/ PatchStatus
  \/ Delete \/ MarkUnmanaged

-----------------------------------------------------------------------------
(* The environment: crashes of the controller, users, ACM *)

(* The process stops anywhere; the next one lists every resource. *)
Crash ==
  /\ Spend("crash")
  /\ pc' = "idle"
  /\ Forget
  /\ queued' = TRUE
  /\ UNCHANGED <<cr, acm, serials, secret>>

EditSpec ==
  /\ cr.exists
  /\ ~cr.deleting
  /\ Spend("edit")
  /\ \E f \in DOMAIN Edits : \E v \in Edits[f] \ {cr.spec[f]} :
       cr' = [cr EXCEPT !.spec[f] = v]
  /\ queued' = TRUE
  /\ UNCHANGED <<acm, serials, secret, pc, memory>>

(* A resource with a finalizer only gets a deletion timestamp. *)
DeleteResource ==
  /\ cr.exists
  /\ ~cr.deleting
  /\ Spend("delete")
  /\ cr' = IF cr.finalizer THEN [cr EXCEPT !.deleting = TRUE]
                           ELSE [cr EXCEPT !.exists = FALSE]
  /\ queued' = TRUE
  /\ UNCHANGED <<acm, serials, secret, pc, memory>>

CreateSecret ==
  /\ ~secret.exists
  /\ secret' = [secret EXCEPT !.exists = TRUE]
  /\ UNCHANGED <<cr, acm, serials, queued, pc, memory, budget>>

(* ACM issues or fails a pending certificate. *)
Validate(id) ==
  /\ Live(id)
  /\ acm[id].status = "PENDING_VALIDATION"
  /\ \/ /\ acm' = [acm EXCEPT ![id] = [@ EXCEPT !.status = "ISSUED", !.serial = serials + 1]]
        /\ serials' = serials + 1
     \/ /\ acm' = [acm EXCEPT ![id].status = "FAILED"]
        /\ UNCHANGED serials
  /\ UNCHANGED <<cr, secret, queued, pc, memory, budget>>

Renew(id) ==
  /\ Live(id)
  /\ acm[id].status = "ISSUED"
  /\ acm[id].type # "IMPORTED"
  /\ Spend("renew")
  /\ acm' = [acm EXCEPT ![id].serial = serials + 1]
  /\ serials' = serials + 1
  /\ UNCHANGED <<cr, secret, queued, pc, memory>>

Expire(id) ==
  /\ Live(id)
  /\ acm[id].status = "ISSUED"
  /\ Spend("expire")
  /\ acm' = [acm EXCEPT ![id].status = "EXPIRED"]
  /\ UNCHANGED <<cr, serials, secret, queued, pc, memory>>

(* Somebody deletes the certificate in ACM. *)
Vanish(id) ==
  /\ Live(id)
  /\ Spend("vanish")
  /\ acm' = [acm EXCEPT ![id] = Gone]
  /\ UNCHANGED <<cr, serials, secret, queued, pc, memory>>

(* An AWS service sets a tag of its own. *)
SetAwsTag(id) ==
  /\ Live(id)
  /\ Spend("awsTag")
  /\ \E k \in AwsTagKeys, v \in TagValues \cup {Nil} :
       acm' = [acm EXCEPT ![id].tags[k] = v]
  /\ UNCHANGED <<cr, serials, secret, queued, pc, memory>>

Environment ==
  \/ Crash \/ EditSpec \/ DeleteResource \/ CreateSecret
  \/ \E id \in CertIds : Validate(id) \/ Renew(id) \/ Expire(id) \/ Vanish(id) \/ SetAwsTag(id)

(* The system rests when the resource is gone, or parked by a terminal      *)
(* error until somebody edits it.                                           *)
Rest ==
  /\ pc = "idle"
  /\ ~cr.exists \/ ~queued
  /\ UNCHANGED vars

Next == Reconcile \/ Environment \/ Rest

Spec == Init /\ [][Next]_vars

(* The work queue keeps calling the reconciler, each call returns, and the  *)
(* bounded faults end; nothing obliges users, ACM or crashes.               *)
FairSpec == Spec /\ WF_vars(Reconcile)
=============================================================================
