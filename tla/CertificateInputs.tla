-------------------------- MODULE CertificateInputs --------------------------
(***************************************************************************)
(* What a certificate is made from, and when: the reference to a           *)
(* CertificateAuthority resource, resolved anew in every sync              *)
(* (references.go), the values in Secrets an import reads one after the    *)
(* other (newImportCertificateInput), and the check of the validation      *)
(* options (hooks.go).  The objects they come from belong to others, who   *)
(* change them between any two of these reads.                             *)
(*                                                                         *)
(* CertificateController starts where this module ends: there the          *)
(* authority is resolved and an import is one call.  Here creating,        *)
(* updating and deleting the certificate is one step each, the status is   *)
(* recorded with the create, and any call that leaves the process may fail.*)
(***************************************************************************)
EXTENDS Naturals

CONSTANTS
  Nil,
  AuthorityArns,   \* ARNs of private CAs
  Pairs,           \* certificates with the key and the chain that belong to them
  Missing, Empty,  \* a Secret value that cannot be read, an empty one
  InitSpecs, InitAuthority, InitSecrets,   \* what users start from
  NewAuthorities,  \* what becomes of the CertificateAuthority resource
  NewReferences,   \* what users may edit the reference to
  Limits           \* how often others change something and calls fail

Opt(S) == S \cup {Nil}

(* certificateAuthorityRef is not set, set without a from, or names the     *)
(* CertificateAuthority resource.                                           *)
References == {Nil, "empty", "ca"}

CertificateSpec ==
  [certificate             : BOOLEAN,
   certificateChain        : BOOLEAN,
   certificateAuthorityARN : Opt(AuthorityArns),
   certificateAuthorityRef : References,
   tooManyOptions          : BOOLEAN]

CertificateAuthority ==
  [exists : BOOLEAN, terminal : BOOLEAN, synced : BOOLEAN, arn : Opt(AuthorityArns)]

SecretFields == {"privateKey", "certificate", "certificateChain"}
SecretValues == Pairs \cup {Missing, Empty}

Bounded == {"authority", "rotate", "empty", "edit", "fault"}

ASSUME InputsAssumption ==
  /\ Nil \notin AuthorityArns \cup SecretValues
  /\ {Missing, Empty} \cap Pairs = {}
  /\ InitSpecs \subseteq CertificateSpec
  /\ InitAuthority \subseteq CertificateAuthority
  /\ NewAuthorities \subseteq CertificateAuthority
  /\ NewReferences \subseteq References
  /\ InitSecrets \subseteq [SecretFields -> SecretValues]
  /\ Limits \in [Bounded -> Nat]

VARIABLES
  cr,         \* the Certificate resource in the API server
  authority,  \* the CertificateAuthority resource
  secrets,    \* the values in the Secrets of an import
  acm,        \* what the certificate was made from, Nil if there is none
  queued, pc,
  desired,    \* the spec the reconcile holds
  input,      \* the values read for the payload of ImportCertificate so far
  reason,     \* how the last reconcile ended
  budget

vars == <<cr, authority, secrets, acm, queued, pc, desired, input, reason, budget>>

Reasons ==
  {"none", "ok", "error", "notReady", "bothSet", "secret", "terminal"}

(* What a certificate was made from: an authority, or a key pair. *)
Made ==
  [authority : Opt(AuthorityArns)] \cup [pair : Pairs]

NoInput == [f \in SecretFields |-> Nil]

TypeOK ==
  /\ cr \in [exists : BOOLEAN, deleting : BOOLEAN, finalizer : BOOLEAN, spec : CertificateSpec]
  /\ authority \in CertificateAuthority
  /\ secrets \in [SecretFields -> SecretValues]
  /\ acm \in Made \cup {Nil}
  /\ queued \in BOOLEAN
  /\ pc \in {"idle", "resolve", "manage", "resolveAgain", "create", "readKey",
             "readCertificate", "readChain", "import", "update", "delete", "unmanage"}
  /\ desired \in CertificateSpec \cup {Nil}
  /\ input \in [SecretFields -> Opt(SecretValues)]
  /\ reason \in Reasons
  /\ budget \in [Bounded -> Nat]

Init ==
  /\ \E s \in InitSpecs :
       cr = [exists |-> TRUE, deleting |-> FALSE, finalizer |-> FALSE, spec |-> s]
  /\ authority \in InitAuthority
  /\ secrets \in InitSecrets
  /\ acm = Nil
  /\ queued = TRUE
  /\ pc = "idle"
  /\ desired = Nil
  /\ input = NoInput
  /\ reason = "none"
  /\ budget = [k \in Bounded |-> 0]

Spend(k) ==
  /\ budget[k] < Limits[k]
  /\ budget' = [budget EXCEPT ![k] = @ + 1]

(* A terminal error is not tried again. *)
End(why) ==
  /\ pc' = "idle"
  /\ reason' = why
  /\ queued' = (queued \/ why # "terminal")
  /\ desired' = Nil
  /\ input' = NoInput

Goto(p) ==
  /\ pc' = p
  /\ UNCHANGED <<queued, reason>>

(* The call at hand fails. *)
Fails == Spend("fault") /\ End("error")

-----------------------------------------------------------------------------
(* References *)

Usable(a) == a.exists /\ ~a.terminal /\ a.synced /\ a.arn # Nil

(* Reference and ARN are set both: the ARN may be one an earlier            *)
(* resolution left there.                                                   *)
validateReferenceFields(s) ==
  s.certificateAuthorityRef = Nil \/ s.certificateAuthorityARN = Nil

hasReference(s) == s.certificateAuthorityRef = "ca"

(* ResolveReferences: the fields are checked first, and the outcome of the  *)
(* check is returned last, after the reference has been resolved.           *)
resolveReferences(next) ==
  LET usable   == hasReference(desired) => Usable(authority)
      valid    == validateReferenceFields(desired)
      resolved == IF hasReference(desired)
                  THEN [desired EXCEPT !.certificateAuthorityARN = authority.arn]
                  ELSE desired
  IN  \/ /\ usable
         /\ valid
         /\ Goto(next)
         /\ desired' = resolved
         /\ UNCHANGED <<input, budget>>
      \/ /\ usable
         /\ ~valid
         /\ End("bothSet")
         /\ UNCHANGED budget
      \/ /\ ~usable
         /\ End("notReady")
         /\ UNCHANGED budget
      \/ hasReference(desired) /\ Fails

(* The first resolution, at the start of every sync. *)
Resolve ==
  /\ pc = "resolve"
  /\ resolveReferences(CASE acm # Nil -> "update"
                         [] acm = Nil /\ cr.finalizer -> "create"
                         [] acm = Nil /\ ~cr.finalizer -> "manage")
  /\ UNCHANGED <<cr, authority, secrets, acm>>

(* Mutants: the resource that was resolved is kept, and resolved again; the *)
(* reply of the patch is not resolved again.                                *)
Manage_KeepsResolved ==
  /\ pc = "manage"
  /\ IF cr.exists
     THEN cr' = [cr EXCEPT !.finalizer = TRUE] /\ Goto("resolveAgain") /\ UNCHANGED <<desired, input>>
     ELSE End("error") /\ UNCHANGED cr
  /\ UNCHANGED <<authority, secrets, acm, budget>>

Manage_NotResolved ==
  /\ pc = "manage"
  /\ IF cr.exists
     THEN /\ cr' = [cr EXCEPT !.finalizer = TRUE]
          /\ desired' = cr.spec
          /\ Goto("create")
          /\ UNCHANGED input
     ELSE End("error") /\ UNCHANGED cr
  /\ UNCHANGED <<authority, secrets, acm, budget>>

(* The patch that sets the finalizer leaves resolved references out         *)
(* (ClearResolvedReferences), and its reply, the resource as the API server *)
(* has it, replaces the desired one: the references are resolved again.     *)
Manage ==
  /\ pc = "manage"
  /\ \/ /\ cr.exists
        /\ cr' = [cr EXCEPT !.finalizer = TRUE]
        /\ desired' = cr.spec
        /\ Goto("resolveAgain")
        /\ UNCHANGED <<input, budget>>
     \/ /\ ~cr.exists
        /\ End("error")
        /\ UNCHANGED <<cr, budget>>
     \/ Fails /\ UNCHANGED cr
  /\ UNCHANGED <<authority, secrets, acm>>

ResolveAgain ==
  /\ pc = "resolveAgain"
  /\ resolveReferences("create")
  /\ UNCHANGED <<cr, authority, secrets, acm>>

-----------------------------------------------------------------------------
(* Create *)

(* sdkCreate: an import, or a request whose options were checked. *)
Create ==
  /\ pc = "create"
  /\ ~desired.certificate
  /\ LET refused == desired.certificateAuthorityARN # Nil /\ desired.tooManyOptions
     IN  \/ /\ refused
            /\ End("terminal")
            /\ UNCHANGED <<acm, budget>>
         \/ /\ ~refused
            /\ acm' = [authority |-> desired.certificateAuthorityARN]
            /\ End("ok")
            /\ UNCHANGED budget
         \/ ~refused /\ Fails /\ UNCHANGED acm
  /\ UNCHANGED <<cr, authority, secrets>>

BeginImport ==
  /\ pc = "create"
  /\ desired.certificate
  /\ Goto("readKey")
  /\ UNCHANGED <<cr, authority, secrets, acm, desired, input, budget>>

(* Mutant: a Secret that cannot be read is a terminal error.                *)
Read_Terminal(f, next) ==
  /\ IF secrets[f] # Missing
     THEN input' = [input EXCEPT ![f] = secrets[f]] /\ Goto(next) /\ UNCHANGED desired
     ELSE End("terminal")
  /\ UNCHANGED <<cr, authority, secrets, acm, budget>>

(* SecretValueFromReference; a value that cannot be read is tried again.    *)
Read(f, next) ==
  /\ \/ /\ secrets[f] # Missing
        /\ input' = [input EXCEPT ![f] = secrets[f]]
        /\ Goto(next)
        /\ UNCHANGED <<desired, budget>>
     \/ /\ secrets[f] = Missing
        /\ End("secret")
        /\ UNCHANGED budget
     \/ Fails
  /\ UNCHANGED <<cr, authority, secrets, acm>>

ReadKey == pc = "readKey" /\ Read("privateKey", "readCertificate")

ReadCertificate ==
  /\ pc = "readCertificate"
  /\ Read("certificate", IF desired.certificateChain THEN "readChain" ELSE "import")

ReadChain == pc = "readChain" /\ Read("certificateChain", "import")

(* ACM accepts a certificate only with its own key and chain. *)
Matching(values, s) ==
  /\ values["privateKey"] \in Pairs
  /\ values["certificate"] = values["privateKey"]
  /\ s.certificateChain => values["certificateChain"] \in {values["privateKey"], Empty}

(* An empty private key is a terminal error, noticed when everything has    *)
(* been read; what does not match is refused by ACM.                        *)
Import ==
  /\ pc = "import"
  /\ \/ /\ input["privateKey"] = Empty
        /\ End("terminal")
        /\ UNCHANGED <<acm, budget>>
     \/ /\ Matching(input, desired)
        /\ acm' = [pair |-> input["privateKey"]]
        /\ End("ok")
        /\ UNCHANGED budget
     \/ /\ input["privateKey"] # Empty
        /\ ~Matching(input, desired)
        /\ End("error")
        /\ UNCHANGED <<acm, budget>>
     \/ input["privateKey"] # Empty /\ Fails /\ UNCHANGED acm
  /\ UNCHANGED <<cr, authority, secrets>>

-----------------------------------------------------------------------------
(* Update and delete *)

(* Whatever the references have become, ACM keeps the authority. *)
Update ==
  /\ pc = "update"
  /\ \/ End("ok") /\ UNCHANGED budget
     \/ Fails
  /\ UNCHANGED <<cr, authority, secrets, acm>>

(* Mutant: references are resolved before a deletion as well.               *)
Start_ResolvesDeleted ==
  /\ pc = "idle"
  /\ queued
  /\ cr.exists
  /\ queued' = FALSE
  /\ desired' = cr.spec
  /\ pc' = IF cr.deleting /\ (hasReference(cr.spec) => Usable(authority)) THEN "delete" ELSE "resolve"
  /\ UNCHANGED <<cr, authority, secrets, acm, input, reason, budget>>

(* A resource that is being deleted is cleaned up as it was read; for a     *)
(* sync its references come first.                                          *)
Start ==
  /\ pc = "idle"
  /\ queued
  /\ cr.exists
  /\ queued' = FALSE
  /\ desired' = cr.spec
  /\ pc' = IF cr.deleting THEN "delete" ELSE "resolve"
  /\ UNCHANGED <<cr, authority, secrets, acm, input, reason, budget>>

Delete ==
  /\ pc = "delete"
  /\ \/ /\ acm' = Nil
        /\ Goto("unmanage")
        /\ UNCHANGED <<desired, input, budget>>
     \/ Fails /\ UNCHANGED acm
  /\ UNCHANGED <<cr, authority, secrets>>

Unmanage ==
  /\ pc = "unmanage"
  /\ \/ /\ cr' = [cr EXCEPT !.finalizer = FALSE, !.exists = FALSE]
        /\ End("ok")
        /\ UNCHANGED budget
     \/ Fails /\ UNCHANGED cr
  /\ UNCHANGED <<authority, secrets, acm>>

Reconcile ==
  \/ Start \/ Resolve \/ Manage \/ ResolveAgain
  \/ Create \/ BeginImport \/ ReadKey \/ ReadCertificate \/ ReadChain \/ Import
  \/ Update \/ Delete \/ Unmanage

-----------------------------------------------------------------------------
(* Others *)

(* A change of what the resource does not use is left out.  The             *)
(* CertificateAuthority appears, is synced, fails, goes, comes back with    *)
(* another ARN.                                                             *)
ChangeAuthority ==
  /\ hasReference(cr.spec)
  /\ Spend("authority")
  /\ authority' \in NewAuthorities \ {authority}
  /\ UNCHANGED <<cr, secrets, acm, queued, pc, desired, input, reason>>

(* The values of a Secret are replaced one at a time, or emptied, or go.    *)
Rotate ==
  /\ cr.spec.certificate
  /\ \E f \in SecretFields, v \in SecretValues :
       /\ secrets[f] # v
       /\ Spend(IF v = Empty THEN "empty" ELSE "rotate")
       /\ secrets' = [secrets EXCEPT ![f] = v]
  /\ UNCHANGED <<cr, authority, acm, queued, pc, desired, input, reason>>

(* The reference is not immutable. *)
EditReference ==
  /\ cr.exists
  /\ ~cr.deleting
  /\ Spend("edit")
  /\ \E r \in NewReferences \ {cr.spec.certificateAuthorityRef} :
       cr' = [cr EXCEPT !.spec.certificateAuthorityRef = r]
  /\ queued' = TRUE
  /\ UNCHANGED <<authority, secrets, acm, pc, desired, input, reason>>

DeleteResource ==
  /\ cr.exists
  /\ ~cr.deleting
  /\ cr' = IF cr.finalizer THEN [cr EXCEPT !.deleting = TRUE]
                           ELSE [cr EXCEPT !.exists = FALSE]
  /\ queued' = TRUE
  /\ UNCHANGED <<authority, secrets, acm, pc, desired, input, reason, budget>>

Environment == ChangeAuthority \/ Rotate \/ EditReference \/ DeleteResource

(* The resource is gone, or given up. *)
Rest ==
  /\ pc = "idle"
  /\ ~cr.exists \/ ~queued
  /\ UNCHANGED vars

Next == Reconcile \/ Environment \/ Rest

Spec == Init /\ [][Next]_vars

FairSpec == Spec /\ WF_vars(Reconcile)

-----------------------------------------------------------------------------
(* Properties *)

(* "If you do not provide an ARN and you are trying to request a private    *)
(* certificate, ACM will attempt to issue a public certificate"             *)
(* (apis/v1alpha1/certificate.go): a resource whose reference names a       *)
(* CertificateAuthority never becomes a public certificate, although the    *)
(* patch of the finalizer drops the resolved ARN right before the create    *)
(* (ClearResolvedReferences) and the authority may be missing, not ready or *)
(* replaced at any time.                                                    *)
NeverPublicInstead ==
  [][acm = Nil /\ acm' # Nil /\ ~desired.certificate /\ hasReference(desired)
       => acm'.authority # Nil]_vars

(* ResolveReferences sets the ARN in the resource it was given, not in a    *)
(* copy, and is called twice in a reconcile: the ARN it left there is never *)
(* taken for one the user had set beside the reference                      *)
(* (validateReferenceFields).                                               *)
RefusedOnlyIfBothSet ==
  reason = "bothSet" => cr.spec.certificateAuthorityARN # Nil

(* The invariant behind both: what a resolution starts from is what the     *)
(* user wrote, and a create has an authority when a reference names one.    *)
FromUser ==
  pc \in {"resolve", "resolveAgain"}
    => desired.certificateAuthorityARN = cr.spec.certificateAuthorityARN

CreatesResolved ==
  pc = "create" /\ hasReference(desired) => desired.certificateAuthorityARN # Nil

Imports ==
  pc \in {"readKey", "readCertificate", "readChain", "import"} => desired.certificate

IInv ==
  /\ TypeOK
  /\ pc # "idle" => desired \in CertificateSpec
  /\ FromUser
  /\ CreatesResolved
  /\ Imports
  /\ RefusedOnlyIfBothSet

(* A certificate is made in the end when what it is made from is there to   *)
(* stay: the authority its reference names is synced, the Secret values of  *)
(* an import match, however they came and went before.  Only a private key  *)
(* that was ever empty makes the controller give up.                        *)
InputsReady ==
  /\ hasReference(cr.spec) => Usable(authority)
  /\ validateReferenceFields(cr.spec)
  /\ IF cr.spec.certificate THEN Matching(secrets, cr.spec) ELSE ~cr.spec.tooManyOptions

CreationCompletes ==
  []<>(cr.exists /\ ~cr.deleting /\ InputsReady /\ budget["empty"] = 0 => acm # Nil)

(* A resource under deletion goes away whatever has become of the           *)
(* authority it refers to and of its Secrets.                               *)
DeletionNotBlocked == cr.deleting ~> ~cr.exists
=============================================================================
