------------------------- MODULE CertificateResource -------------------------
(***************************************************************************)
(* The data of the ACM controller and the functions of its resource        *)
(* manager that only compute: the Certificate custom resource (spec and    *)
(* status), the merge of what ACM reports into it (sdkFind), the delta     *)
(* that decides whether an update is due, the checks made before a create, *)
(* the late initialisation of fields ACM defaulted, and the arithmetic of  *)
(* tags.  There is no state here: CertificateController calls these        *)
(* operators at the places where the code calls the functions.             *)
(*                                                                         *)
(* Data are abstracted to what the control flow tells apart.  A pointer    *)
(* field of the Go structs is a value or Nil.  A list of tags is a total   *)
(* function from the tag keys to a value or Nil (the key is absent).  The  *)
(* serial number of a certificate is a natural number that grows with each *)
(* issuance, 0 when ACM reports none.                                      *)
(***************************************************************************)
EXTENDS Naturals

CONSTANTS
  Nil,              \* a nil pointer, an absent tag
  CertIds,          \* certificate ARNs, numbered in the order ACM hands them out
  DomainNames,      \* values of spec.domainName and of its alternative names
  KeyAlgorithms,    \* spellings of key algorithms: RSA_2048, RSA-2048, ...
  Underscored,      \* the spelling with underscores of each of them
  OptionValues,     \* certificateTransparencyLoggingPreference
  TagKeys, TagValues,
  AwsTagKeys,       \* the tag keys that start with "aws:"
  DefaultTags       \* the tags of the --resource-tags flag

Opt(S) == S \cup {Nil}

TagMap == [TagKeys -> Opt(TagValues)]

CertStates == {"PENDING_VALIDATION", "ISSUED", "FAILED", "EXPIRED"}
CertTypes  == {"AMAZON_ISSUED", "PRIVATE", "IMPORTED"}

ASSUME DataAssumption ==
  /\ CertIds \subseteq Nat
  /\ Nil \notin CertIds \cup DomainNames \cup KeyAlgorithms \cup OptionValues \cup TagValues
  /\ Nil \notin CertStates \cup CertTypes
  /\ AwsTagKeys \subseteq TagKeys
  /\ DefaultTags \in TagMap
  /\ \A k \in AwsTagKeys : DefaultTags[k] = Nil
  /\ Underscored \in [KeyAlgorithms -> KeyAlgorithms]
  /\ \A a \in KeyAlgorithms : Underscored[Underscored[a]] = Underscored[a]

(* The spec of the custom resource.  The Secret references certificate,     *)
(* privateKey and exportTo, and the CA, are set or not set; the lists of    *)
(* alternative names and of validation options, which ACM fills together,   *)
(* are the one field subjectAlternativeNames.                               *)
CertificateSpec ==
  [certificate             : BOOLEAN,
   privateKey              : BOOLEAN,
   certificateARN          : Opt(CertIds),
   certificateAuthorityARN : BOOLEAN,
   domainName              : Opt(DomainNames),
   keyAlgorithm            : Opt(KeyAlgorithms),
   options                 : Opt(OptionValues),
   subjectAlternativeNames : Opt(DomainNames),
   exportTo                : BOOLEAN,
   tags                    : TagMap]

(* The part of the status the controller itself reads back; issuedAt is     *)
(* whether the time is set.                                                 *)
CertificateStatus ==
  [arn      : Opt(CertIds),
   issuedAt : BOOLEAN,
   serial   : Nat,
   status   : Opt(CertStates),
   type     : Opt(CertTypes)]

NoStatus ==
  [arn |-> Nil, issuedAt |-> FALSE, serial |-> 0, status |-> Nil, type |-> Nil]

Resource == [spec : CertificateSpec, status : CertificateStatus]

(* What ACM keeps of a certificate. *)
AcmCertificate ==
  [status : CertStates, type : CertTypes, serial : Nat, ca : BOOLEAN,
   domainName : Opt(DomainNames), keyAlgorithm : Opt(KeyAlgorithms),
   options : Opt(OptionValues), names : Opt(DomainNames),
   exportable : BOOLEAN, tags : TagMap]

-----------------------------------------------------------------------------
(* Tags *)

(* The merge of the controller's default tags into a list of tags: a tag    *)
(* that is already there keeps its value.                                   *)
EnsureTags(tags) ==
  [k \in TagKeys |-> IF tags[k] = Nil THEN DefaultTags[k] ELSE tags[k]]

(* Mutant: the aws: tags are not mirrored. *)
syncAWSTags_Off(a, b) == a

(* Copies the aws: tags of b over a. *)
syncAWSTags(a, b) ==
  [k \in TagKeys |-> IF k \in AwsTagKeys /\ b[k] # Nil THEN b[k] ELSE a[k]]

(* ReadOne leaves the aws: tags it observed in the resource it was given. *)
mirrorAWSTags(r, observed) ==
  [r EXCEPT !.spec.tags = syncAWSTags(r.spec.tags, observed.spec.tags)]

(* Mutant: a tag that is there already keeps its value.                     *)
toAdd_NewOnly(desired, existing) ==
  {k \in TagKeys : desired[k] # Nil /\ existing[k] = Nil}

(* What SyncTags adds and removes to turn existing tags into desired ones. *)
toAdd(desired, existing) ==
  {k \in TagKeys : desired[k] # Nil /\ existing[k] # desired[k]}

toDelete(desired, existing) ==
  {k \in TagKeys : existing[k] # Nil /\ desired[k] = Nil}

-----------------------------------------------------------------------------
(* sdkFind: what a read merges into a copy of the resource it was given *)

requiredFieldsMissingFromReadOneInput(r) == r.status.arn = Nil

describedStatus(id, c) ==
  [arn      |-> id,
   issuedAt |-> c.status \in {"ISSUED", "EXPIRED"} /\ c.type # "IMPORTED",
   serial   |-> c.serial,
   status   |-> c.status,
   type     |-> c.type]

(* Spec fields the read overwrites; what is not named here (the Secret      *)
(* references, certificateARN, exportTo) keeps the value of the input.      *)
describedSpec(spec, c) ==
  [spec EXCEPT !.certificateAuthorityARN = c.ca,
               !.domainName              = c.domainName,
               !.keyAlgorithm            = c.keyAlgorithm,
               !.options                 = c.options,
               !.subjectAlternativeNames = c.names]

sdkFind(r, id, c) ==
  [spec |-> describedSpec(r.spec, c), status |-> describedStatus(id, c)]

-----------------------------------------------------------------------------
(* The delta between a desired resource a and an observed one b *)

(* Mutants: only renewals, only first issuances make an export due. *)
compareCertificateIssuedAt_RenewalOnly(a, b) ==
  {p \in {"serial"} :
     /\ a.spec.exportTo
     /\ a.status.serial # 0
     /\ b.status.serial # 0
     /\ a.status.serial # b.status.serial}

compareCertificateIssuedAt_FirstOnly(a, b) ==
  {p \in {"issuedAt"} :
     a.spec.exportTo /\ ~a.status.issuedAt /\ b.status.status = "ISSUED"}

(* The two ways in which an export becomes due: the first observed issuance *)
(* and a change of serial number.                                           *)
compareCertificateIssuedAt(a, b) ==
  {p \in {"issuedAt", "serial"} :
     /\ a.spec.exportTo
     /\ \/ /\ p = "issuedAt"
           /\ ~a.status.issuedAt
           /\ b.status.status = "ISSUED"
        \/ /\ p = "serial"
           /\ a.status.serial # 0
           /\ b.status.serial # 0
           /\ a.status.serial # b.status.serial}

(* Mutant: the two spellings are compared as they are. *)
normalizeKeyAlgorithm_Off(algorithm) == algorithm

normalizeKeyAlgorithm(algorithm) == Underscored[algorithm]

compareKeyAlgorithm(a, b) ==
  {p \in {"keyAlgorithm"} :
     /\ a.spec.keyAlgorithm # Nil
     /\ b.spec.keyAlgorithm # Nil
     /\ normalizeKeyAlgorithm(a.spec.keyAlgorithm) # normalizeKeyAlgorithm(b.spec.keyAlgorithm)}

(* Mutant: the options are left out of the comparison. *)
ComparedFields_NoOptions ==
  {"certificateARN", "certificateAuthorityARN", "domainName",
   "subjectAlternativeNames", "tags"}

ComparedFields ==
  {"certificateARN", "certificateAuthorityARN", "domainName", "options",
   "subjectAlternativeNames", "tags"}

newResourceDelta(a, b) ==
  compareCertificateIssuedAt(a, b) \cup compareKeyAlgorithm(a, b)
    \cup {f \in ComparedFields : a.spec[f] # b.spec[f]}

(* The export branches of sdkUpdate return the desired resource with the    *)
(* three status fields of the observed one.                                 *)
withExportedStatus(desired, latest) ==
  [desired EXCEPT !.status.issuedAt = latest.status.issuedAt,
                  !.status.status   = latest.status.status,
                  !.status.serial   = latest.status.serial]

-----------------------------------------------------------------------------
(* Checks before a create *)

RequestFields(spec) ==
  \/ spec.domainName # Nil
  \/ spec.keyAlgorithm # Nil
  \/ spec.subjectAlternativeNames # Nil
  \/ spec.options # Nil

(* A create that maybeImportCertificate refuses with a terminal error: an   *)
(* import that sets fields of a request, an import without a private key,   *)
(* a request that sets fields of an import.                                 *)
createRefused(spec) ==
  IF spec.certificate
  THEN RequestFields(spec) \/ ~spec.privateKey
  ELSE spec.domainName # Nil /\ spec.privateKey

-----------------------------------------------------------------------------
(* Late initialisation *)

LateInitializedFields == {"keyAlgorithm", "options", "subjectAlternativeNames"}

(* Mutants: also fields the user provided are overwritten; the options are  *)
(* forgotten.                                                               *)
lateInitializeFromReadOneOutput_Overwrites(observed, latest) ==
  [latest EXCEPT !.spec =
     [f \in DOMAIN latest.spec |->
        IF f \in LateInitializedFields THEN observed.spec[f] ELSE latest.spec[f]]]

lateInitializeFromReadOneOutput_KeyOnly(observed, latest) ==
  [latest EXCEPT !.spec.keyAlgorithm =
     IF @ = Nil THEN observed.spec.keyAlgorithm ELSE @]

(* Fields the user did not provide take the value ACM reports. *)
lateInitializeFromReadOneOutput(observed, latest) ==
  [latest EXCEPT !.spec =
     [f \in DOMAIN latest.spec |->
        IF f \in LateInitializedFields /\ latest.spec[f] = Nil
        THEN observed.spec[f] ELSE latest.spec[f]]]

incompleteLateInitialization(r) == r.spec.keyAlgorithm = Nil \/ r.spec.options = Nil

(* The merge patch of the spec the runtime sends after a late               *)
(* initialisation: it names the fields that differ between before and       *)
(* after, and overwrites them in whatever spec the API server has by then.  *)
mergePatch(spec, before, after) ==
  [f \in DOMAIN spec |->
     IF f \in LateInitializedFields /\ before[f] # after[f] THEN after[f] ELSE spec[f]]
=============================================================================
