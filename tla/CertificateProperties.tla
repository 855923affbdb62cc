------------------------ MODULE CertificateProperties ------------------------
(***************************************************************************)
(* What the reconcile loop of CertificateController must never do and what *)
(* it must eventually do.                                                  *)
(***************************************************************************)
EXTENDS CertificateController

Recorded == cr.status.arn

(* The certificate the running reconcile holds in memory. *)
InMemory == IF pc = "idle" THEN Nil ELSE latest.status.arn

IsLive(id) == id # Nil /\ Live(id)

(* A managed resource whose certificate is in ACM and that nobody deletes. *)
Steady == cr.exists /\ ~cr.deleting /\ IsLive(Recorded)

-----------------------------------------------------------------------------
(* Safety *)

(* A certificate comes into being only while the resource exists and        *)
(* carries the finalizer, so that its deletion cannot go unnoticed: the     *)
(* finalizer is patched before createResource calls Create                  *)
(* (descriptor.go MarkManaged), users deleting the resource in between.     *)
CreatedOnlyWhenManaged ==
  [][\A id \in CertIds : acm[id] = Unused /\ acm'[id] # Unused
                           => cr.exists /\ cr.finalizer]_vars

(* While the certificate recorded in the status is in ACM the controller    *)
(* never makes another one, whichever calls failed or were cut off by a     *)
(* crash: only a certificate ACM reports as missing is created again        *)
(* (sdkFind maps nothing but ResourceNotFoundException to NotFound).        *)
NoSecondCertificate ==
  [][\A id \in CertIds : acm[id] = Unused /\ acm'[id] # Unused
                           => ~IsLive(Recorded)]_vars

(* Under the deletionPolicy delete, the default, the resource goes away     *)
(* only when neither the recorded certificate nor the one a running         *)
(* reconcile holds is left in ACM (sdkDelete, the finalizer of              *)
(* descriptor.go; helm/values.yaml).                                        *)
GoneOnlyAfterCertificate ==
  [][cr.exists /\ ~cr'.exists => ~IsLive(Recorded) /\ ~IsLive(InMemory)]_vars

(* As long as no reply of a create, no status patch and no process is lost, *)
(* every certificate the controller made is recorded in the status or held  *)
(* by the reconcile that will record it (Create returns the ARN before any  *)
(* other call can fail, and onError hands it back).                         *)
EveryCertificateRecorded ==
  budget["lost"] = 0 /\ budget["crash"] = 0
    => \A id \in CertIds :
         Live(id) /\ InitAcm[id] = Unused => cr.exists /\ id \in {Recorded, InMemory}

(* When a successful reconcile of a resource with an exportTo records a     *)
(* first issuance or another serial number of the issued certificate it     *)
(* already knew, the Secret holds that one or a newer one, and its key      *)
(* (compareCertificateIssuedAt, the export branches of sdkUpdate).          *)
Acknowledges ==
  /\ pc = "patchStatus"
  /\ outcome = "ok"
  /\ desired.spec.exportTo
  /\ Recorded # Nil
  /\ cr'.status.arn = Recorded
  /\ cr'.status.status = "ISSUED"
  /\ cr'.status.serial # cr.status.serial \/ (cr'.status.issuedAt /\ ~cr.status.issuedAt)

AcknowledgedIsExported ==
  [][Acknowledges => /\ secret'.crt >= cr'.status.serial
                     /\ secret'.key >= cr'.status.serial]_vars

(* Nothing happened, except for crashes, that may end an export halfway or  *)
(* call it off.                                                             *)
Calm ==
  /\ \A k \in {"exportFault", "expire", "vanish", "edit"} : budget[k] = 0
  /\ ~cr.deleting

(* A serial whose certificate the Secret holds with another's key.          *)
Torn(st) == st.serial > 0 /\ st.serial = secret.crt /\ st.serial # secret.key

(* A crash between the two writes to the Secret (hooks.go exportCertificate)*)
(* leaves a certificate without its key, but as long as no export failed    *)
(* and the certificate is valid never as a recorded serial number: the      *)
(* export is still due after the restart.                                   *)
RecordedIsNotTorn == Calm => ~Torn(cr.status)

(* No step of the controller changes a tag that starts with aws:, also one  *)
(* that appeared since the tags were listed (syncAWSTags, SyncTags).        *)
AwsTagsLeftAlone ==
  [][pc' # pc => \A id \in CertIds, k \in AwsTagKeys :
                   IsLive(id) /\ acm'[id] \notin {Unused, Gone}
                     => acm'[id].tags[k] = acm[id].tags[k]]_vars

(* An update that gets past the tags has made those of the certificate the  *)
(* desired ones, whether it had to remove, to add or both, and whatever AWS *)
(* has tagged since they were listed (SyncTags).                            *)
SyncedTagsAreDesired ==
  [][(pc \in {"removeTags", "addTags"} /\ pc' \in {"describe", "updateOptions"})
       => \A k \in TagKeys \ AwsTagKeys :
            acm'[desired.status.arn].tags[k] = desired.spec.tags[k]]_vars

(* The patch after a late initialisation leaves alone every field that was  *)
(* set when the reconcile read the resource, in whatever spelling and       *)
(* whatever the user has made of it since (lateInitializeFromReadOneOutput).*)
ProvidedFieldsKept ==
  [][pc = "patchSpec" /\ pc' # pc =>
       \A f \in DOMAIN cr.spec :
         desired.spec[f] # Nil => cr'.spec[f] = cr.spec[f]]_vars

(* maybeImportCertificate "imports a certificate into ACM if                *)
(* Spec.Certificate is set" (hooks.go): the spec of a resource that could   *)
(* be imported once is never refused.                                       *)
ImportNeverRefused ==
  pc = "create" /\ desired.spec.certificate => ~createRefused(desired.spec)

(* sdkFind: without an ARN in the status the "AWS resource is not created   *)
(* yet" (sdk.go), so nothing this resource created is left in ACM when the  *)
(* controller starts on a resource without an ARN.                          *)
NotCreatedYet ==
  pc = "idle" /\ Recorded = Nil
    => \A id \in CertIds : Live(id) => InitAcm[id] # Unused

(* The loop makes, records, deletes and lets go of certificates the way     *)
(* CertificateLifecycle says, and no other way: seen from outside each of   *)
(* its steps, and of those of users, ACM and crashes, is one of those.      *)
Phase ==
  CASE ~cr.exists                   -> "gone"
    [] cr.exists /\ cr.deleting     -> "deleting"
    [] cr.exists /\ ~cr.deleting    -> IF cr.finalizer THEN "managed" ELSE "unmanaged"

Fate ==
  [id \in CertIds |-> CASE acm[id] = Unused -> "unused"
                        [] acm[id] = Gone   -> "gone"
                        [] Live(id)         -> "live"]

Lifecycle ==
  INSTANCE CertificateLifecycle
    WITH Ids <- CertIds, None <- Nil, phase <- Phase, recorded <- Recorded,
         certificate <- Fate, losses <- budget["vanish"]

(* Every behaviour of the loop is one CertificateLifecycle allows.          *)
ImplementsLifecycle == Lifecycle!Spec

-----------------------------------------------------------------------------
(* The inductive invariant behind the theorems of CertificateProofs *)

(* Steps that work on a certificate that has an ARN, or are about to        *)
(* create one or to let the resource go.                                    *)
OnCertificate == {"describe", "listTags", "export", "writeCertificate", "writeKey",
                  "removeTags", "addTags", "updateOptions", "patchSpec", "delete"}
OnManaged == OnCertificate \cup {"create", "unmanage"}

(* What a reconcile holds in memory at each of its steps. *)
MemoryOK ==
  /\ pc = "idle" => latest = Nil
  /\ pc # "idle" => desired \in Resource /\ latest \in Resource
  /\ pc \in {"listTags", "patchSpec"} => observed \in Resource
  /\ pc \in OnCertificate => latest.status.arn \in CertIds
  /\ pc \in {"describe", "listTags"} => caller \in {"sync", "create", "late", "delete"}
  /\ pc \in {"describe", "listTags"} /\ caller \in {"sync", "delete"}
       => latest.status.arn = desired.status.arn
  /\ pc \in {"export", "writeCertificate", "writeKey", "removeTags", "addTags",
             "updateOptions", "delete"}
       => desired.status.arn = latest.status.arn
  /\ pc = "listTags" => observed.status.arn = latest.status.arn
  /\ pc = "patchSpec" => observed.status.arn = latest.status.arn
  /\ pc = "manage" => latest.status.arn = Nil /\ desired.status.arn = Nil
  /\ pc = "create" => desired.status.arn = latest.status.arn

(* A resource with something to clean up carries the finalizer, and only    *)
(* one that is being deleted is cleaned up.                                 *)
Managed ==
  /\ cr.exists /\ (cr.deleting \/ Recorded # Nil) => cr.finalizer
  /\ pc \in OnManaged => cr.exists /\ cr.finalizer
  /\ pc = "patchStatus" /\ InMemory # Nil => cr.exists /\ cr.finalizer
  /\ pc \in {"delete", "unmanage"} => cr.deleting
  /\ pc \in {"describe", "listTags"} /\ caller = "delete" => cr.deleting

(* An ARN the controller knows was handed out; the status of the resource   *)
(* is the one the reconcile read, and is replaced only when its certificate *)
(* is not in ACM; what it is about to create, or to let go, is not either.  *)
HandedOut(id) == id # Nil => acm[id] # Unused

Provenance ==
  /\ HandedOut(Recorded)
  /\ pc # "idle" => HandedOut(desired.status.arn) /\ HandedOut(latest.status.arn)
  /\ pc # "idle" /\ cr.exists
       => /\ desired.status.arn = Recorded
          /\ \/ latest.status.arn = Recorded
             \/ latest.status.arn # Nil /\ ~IsLive(Recorded)
  /\ pc = "create" => ~IsLive(desired.status.arn)
  /\ pc = "unmanage" => ~IsLive(desired.status.arn) /\ ~IsLive(latest.status.arn)

IInv == TypeOK /\ MemoryOK /\ Managed /\ Provenance

-----------------------------------------------------------------------------
(* Liveness *)

(* A resource with a deletion timestamp goes away, through failed calls,    *)
(* crashes, and a certificate that was deleted before.                      *)
DeletionCompletes == cr.deleting ~> ~cr.exists

(* The tags of the spec and the default tags reach ACM (SyncTags), and      *)
(* everything else except aws: tags is removed there.                       *)
TagsSynced ==
  \A k \in TagKeys \ AwsTagKeys : acm[Recorded].tags[k] = EnsureTags(cr.spec.tags)[k]

TagsConverge ==
  []<>(Steady => TagsSynced)

(* The reconcile loop comes to rest: when users, ACM and failures leave the *)
(* resource alone there is an end to the calls that change the certificate  *)
(* or the Secret, no field staying different for ever in the eyes of        *)
(* newResourceDelta, however ACM spells or defaults it.                     *)
UpdatesEnd ==
  <>[](pc \notin {"export", "writeCertificate", "writeKey",
                  "removeTags", "addTags", "updateOptions"})

(* The options the user asked for reach ACM (UpdateCertificateOptions),     *)
(* unless the certificate is imported, for which ACM has no options.        *)
OptionsConverge ==
  []<>(Steady /\ acm[Recorded].type # "IMPORTED" /\ cr.spec.options # Nil
         => acm[Recorded].options = cr.spec.options)

(* "After a certificate is successfully renewed by ACM, the ACK service     *)
(* controller for AWS Certificate Manager will automatically export the     *)
(* renewed certificate again so that the Kubernetes TLS Secret exportTo     *)
(* contains the certificate data and private key data of the renewed        *)
(* certificate" (README.md): when the recorded certificate carries another  *)
(* serial number than the recorded one, the Secret comes to hold it, unless *)
(* the certificate expires, or goes away, or the resource does.             *)
RenewalDue(s) ==
  /\ Steady
  /\ cr.spec.exportTo
  /\ acm[Recorded].serial = s
  /\ acm[Recorded].status = "ISSUED"
  /\ cr.status.serial \notin {0, s}

Holds(s) == secret.crt >= s /\ secret.key >= s

RenewalIsExported ==
  \A s \in 1 .. Cardinality(CertIds) + Limits["renew"] :
    RenewalDue(s) ~> Holds(s) \/ ~Steady \/ acm[Recorded].status # "ISSUED"

(* "As these resources are created, the Secrets' tls.crt will be injected   *)
(* with the base64-encoded certificate and tls.key will be injected with    *)
(* the base64-encoded private key" (README.md).                             *)
IssuedDue(s) ==
  /\ Steady
  /\ cr.spec.exportTo
  /\ acm[Recorded].type # "IMPORTED"
  /\ acm[Recorded].status = "ISSUED"
  /\ acm[Recorded].serial = s

IssuedIsExported ==
  \A s \in 1 .. Cardinality(CertIds) + Limits["renew"] :
    IssuedDue(s) ~> Holds(s) \/ ~Steady \/ acm[Recorded].status # "ISSUED"

(* "CertificateStatus defines the observed state of Certificate"            *)
(* (apis/v1alpha1/certificate.go): what ACM says of the recorded            *)
(* certificate reaches the status, an issuance, a renewal and an expiry     *)
(* alike.                                                                   *)
StatusObserved ==
  cr.status = describedStatus(Recorded, acm[Recorded])

StatusConverges ==
  []<>(Steady => StatusObserved)

(* The same of the certificates the controller requested.                   *)
RequestedStatusConverges ==
  []<>(Steady /\ acm[Recorded].type # "IMPORTED" => StatusObserved)

(* The fields ACM defaulted are initialised in the end, a failed read being *)
(* tried again (LateInitialize).                                            *)
LateInitializationCompletes ==
  []<>(Steady => cr.spec.options # Nil)
=============================================================================
