----------------------------- MODULE InputsProofs -----------------------------
(***************************************************************************)
(* Proofs about CertificateInputs, for any number of authorities, key      *)
(* pairs and changes.  IInv holds initially and is kept by every step, one *)
(* lemma per group of actions; the two safety properties follow from it.   *)
(***************************************************************************)
EXTENDS CertificateInputs, TLAPS

(* The initial states satisfy the invariant. *)
LEMMA InitInv == Init => IInv
<1> SUFFICES ASSUME Init PROVE IInv
  OBVIOUS
<1>1. PICK s \in CertificateSpec :
        cr = [exists |-> TRUE, deleting |-> FALSE, finalizer |-> FALSE, spec |-> s]
  BY InputsAssumption DEF Init
<1>2. /\ authority \in CertificateAuthority
      /\ secrets \in [SecretFields -> SecretValues]
  BY InputsAssumption DEF Init
<1>3. budget \in [Bounded -> Nat]
  BY DEF Init, Bounded
<1> QED
  BY <1>1, <1>2, <1>3
  DEF Init, IInv, TypeOK, FromUser, CreatesResolved, Imports, RefusedOnlyIfBothSet,
      NoInput, Opt, Reasons

(* A budget stays one when something is spent. *)
LEMMA SpendType ==
  ASSUME TypeOK, NEW k \in Bounded, Spend(k)
  PROVE  budget' \in [Bounded -> Nat]
  BY DEF TypeOK, Spend

(* What ends a reconcile keeps the types of what it sets. *)
LEMMA EndType ==
  ASSUME TypeOK, NEW why \in Reasons, End(why)
  PROVE  /\ pc' = "idle" /\ reason' = why
         /\ queued' \in BOOLEAN
         /\ desired' \in CertificateSpec \cup {Nil}
         /\ input' \in [SecretFields -> Opt(SecretValues)]
  BY DEF TypeOK, End, NoInput, Opt

(* A call that fails ends the reconcile. *)
LEMMA FailsType ==
  ASSUME TypeOK, Fails
  PROVE  /\ pc' = "idle" /\ reason' = "error"
         /\ queued' \in BOOLEAN
         /\ desired' \in CertificateSpec \cup {Nil}
         /\ input' \in [SecretFields -> Opt(SecretValues)]
         /\ budget' \in [Bounded -> Nat]
  BY EndType, SpendType DEF Fails, Reasons, Bounded

(* A step that ends the reconcile, makes only what may be made, and leaves  *)
(* the resource alone keeps the invariant, when a complaint about both      *)
(* fields is the user's doing.                                              *)
LEMMA EndKeeps ==
  ASSUME IInv, NEW why \in Reasons, End(why),
         why = "bothSet" => cr.spec.certificateAuthorityARN # Nil,
         budget' \in [Bounded -> Nat], acm' \in Made \cup {Nil},
         UNCHANGED <<cr, authority, secrets>>
  PROVE  IInv'
  BY EndType
  DEF IInv, TypeOK, FromUser, CreatesResolved, Imports, RefusedOnlyIfBothSet

(* So does a call that fails without an effect. *)
LEMMA FailsKeeps ==
  ASSUME IInv, Fails, UNCHANGED <<cr, authority, secrets, acm>>
  PROVE  IInv'
  BY FailsType
  DEF Reasons, IInv, TypeOK, FromUser, CreatesResolved, Imports, RefusedOnlyIfBothSet

(* A resolution that succeeds leaves an ARN where a reference names an      *)
(* authority; one that complains about both fields found the user's ARN.    *)
LEMMA ResolutionKeeps ==
  ASSUME IInv, pc \in {"resolve", "resolveAgain"},
         NEW next \in {"update", "create", "manage"}, resolveReferences(next),
         UNCHANGED <<cr, authority, secrets, acm>>
  PROVE  IInv'
<1> DEFINE resolved == IF hasReference(desired)
                       THEN [desired EXCEPT !.certificateAuthorityARN = authority.arn]
                       ELSE desired
<1>1. desired \in CertificateSpec
  BY DEF IInv
<1>2. CASE /\ hasReference(desired) => Usable(authority)
           /\ Goto(next)
           /\ desired' = resolved
           /\ UNCHANGED <<input, budget>>
  <2>1. /\ resolved \in CertificateSpec
        /\ hasReference(resolved) => resolved.certificateAuthorityARN # Nil
    BY <1>1, <1>2 DEF IInv, TypeOK, CertificateSpec, CertificateAuthority, hasReference, Usable, Opt
  <2> QED
    BY <2>1, <1>2 DEF IInv, TypeOK, FromUser, CreatesResolved, Imports, RefusedOnlyIfBothSet, Goto
<1>3. CASE ~validateReferenceFields(desired) /\ End("bothSet") /\ UNCHANGED budget
  <2>1. cr.spec.certificateAuthorityARN # Nil
    BY <1>3 DEF IInv, FromUser, validateReferenceFields
  <2> QED
    BY <2>1, <1>3, EndKeeps DEF IInv, TypeOK, Reasons
<1>4. CASE End("notReady") /\ UNCHANGED budget
  BY <1>4, EndKeeps DEF IInv, TypeOK, Reasons
<1>5. CASE Fails
  BY <1>5, FailsKeeps
<1> QED
  BY <1>2, <1>3, <1>4, <1>5 DEF resolveReferences

(* The steps that resolve references, and the patch between them. *)
LEMMA ReferencesKeep ==
  ASSUME IInv, Resolve \/ Manage \/ ResolveAgain
  PROVE  IInv'
<1>1. CASE Resolve
  <2>1. PICK next \in {"update", "create", "manage"} : resolveReferences(next)
    BY <1>1 DEF Resolve
  <2> QED
    BY <2>1, <1>1, ResolutionKeeps DEF Resolve
<1>2. CASE Manage
  <2>1. CASE /\ cr' = [cr EXCEPT !.finalizer = TRUE]
             /\ desired' = cr.spec
             /\ Goto("resolveAgain")
             /\ UNCHANGED <<input, budget>>
    BY <2>1, <1>2
    DEF IInv, TypeOK, FromUser, CreatesResolved, Imports, RefusedOnlyIfBothSet, Goto, Manage
  <2>2. CASE End("error") /\ UNCHANGED <<cr, budget>>
    BY <2>2, <1>2, EndKeeps DEF Manage, IInv, TypeOK, Reasons
  <2>3. CASE Fails /\ UNCHANGED cr
    BY <2>3, <1>2, FailsKeeps DEF Manage
  <2> QED
    BY <2>1, <2>2, <2>3, <1>2 DEF Manage
<1>3. CASE ResolveAgain
  BY <1>3, ResolutionKeeps DEF ResolveAgain
<1> QED
  BY <1>1, <1>2, <1>3

(* Reading one value of an import. *)
LEMMA ReadKeeps ==
  ASSUME IInv, NEW f \in SecretFields,
         NEW next \in {"readCertificate", "readChain", "import"},
         pc \in {"readKey", "readCertificate", "readChain"}, Read(f, next)
  PROVE  IInv'
<1>1. CASE /\ input' = [input EXCEPT ![f] = secrets[f]]
           /\ Goto(next)
           /\ UNCHANGED <<desired, budget>>
  <2>1. input' \in [SecretFields -> Opt(SecretValues)]
    BY <1>1 DEF IInv, TypeOK, Opt
  <2> QED
    BY <2>1, <1>1
    DEF IInv, TypeOK, FromUser, CreatesResolved, Imports, RefusedOnlyIfBothSet, Goto, Read
<1>2. CASE End("secret") /\ UNCHANGED budget
  BY <1>2, EndKeeps DEF Read, IInv, TypeOK, Reasons
<1>3. CASE Fails
  BY <1>3, FailsKeeps DEF Read
<1> QED
  BY <1>1, <1>2, <1>3 DEF Read

(* Requests and imports. *)
LEMMA CreateKeeps ==
  ASSUME IInv,
         Create \/ BeginImport \/ ReadKey \/ ReadCertificate \/ ReadChain \/ Import
  PROVE  IInv'
<1>1. CASE Create
  <2>1. CASE End("terminal") /\ UNCHANGED <<acm, budget>>
    BY <2>1, <1>1, EndKeeps DEF Create, IInv, TypeOK, Reasons
  <2>2. CASE /\ acm' = [authority |-> desired.certificateAuthorityARN]
             /\ End("ok")
             /\ UNCHANGED budget
    <3>1. acm' \in Made
      BY <2>2, <1>1 DEF Create, IInv, Made, CertificateSpec
    <3> QED
      BY <3>1, <2>2, <1>1, EndKeeps DEF Create, IInv, TypeOK, Reasons
  <2>3. CASE Fails /\ UNCHANGED acm
    BY <2>3, <1>1, FailsKeeps DEF Create
  <2> QED
    BY <2>1, <2>2, <2>3, <1>1 DEF Create
<1>2. CASE BeginImport
  BY <1>2
  DEF BeginImport, IInv, TypeOK, FromUser, CreatesResolved, Imports, RefusedOnlyIfBothSet, Goto
<1>3. CASE ReadKey
  BY <1>3, ReadKeeps DEF ReadKey, SecretFields
<1>4. CASE ReadCertificate
  BY <1>4, ReadKeeps DEF ReadCertificate, SecretFields
<1>5. CASE ReadChain
  BY <1>5, ReadKeeps DEF ReadChain, SecretFields
<1>6. CASE Import
  <2>1. CASE End("terminal") /\ UNCHANGED <<acm, budget>>
    BY <2>1, <1>6, EndKeeps DEF Import, IInv, TypeOK, Reasons
  <2>2. CASE /\ Matching(input, desired)
             /\ acm' = [pair |-> input["privateKey"]]
             /\ End("ok")
             /\ UNCHANGED budget
    <3>1. acm' \in Made
      BY <2>2 DEF Matching, Made
    <3> QED
      BY <3>1, <2>2, <1>6, EndKeeps DEF Import, IInv, TypeOK, Reasons
  <2>3. CASE End("error") /\ UNCHANGED <<acm, budget>>
    BY <2>3, <1>6, EndKeeps DEF Import, IInv, TypeOK, Reasons
  <2>4. CASE Fails /\ UNCHANGED acm
    BY <2>4, <1>6, FailsKeeps DEF Import
  <2> QED
    BY <2>1, <2>2, <2>3, <2>4, <1>6 DEF Import
<1> QED
  BY <1>1, <1>2, <1>3, <1>4, <1>5, <1>6

(* The other steps of a reconcile. *)
LEMMA OthersKeep ==
  ASSUME IInv, Start \/ Update \/ Delete \/ Unmanage
  PROVE  IInv'
<1>1. CASE Start
  BY <1>1
  DEF Start, IInv, TypeOK, FromUser, CreatesResolved, Imports, RefusedOnlyIfBothSet
<1>2. CASE Update
  <2>1. CASE End("ok") /\ UNCHANGED budget
    BY <2>1, <1>2, EndKeeps DEF Update, IInv, TypeOK, Reasons
  <2>2. CASE Fails
    BY <2>2, <1>2, FailsKeeps DEF Update
  <2> QED
    BY <2>1, <2>2, <1>2 DEF Update
<1>3. CASE Delete
  <2>1. CASE acm' = Nil /\ Goto("unmanage") /\ UNCHANGED <<desired, input, budget>>
    BY <2>1, <1>3
    DEF Delete, IInv, TypeOK, FromUser, CreatesResolved, Imports, RefusedOnlyIfBothSet, Goto
  <2>2. CASE Fails /\ UNCHANGED acm
    BY <2>2, <1>3, FailsKeeps DEF Delete
  <2> QED
    BY <2>1, <2>2, <1>3 DEF Delete
<1>4. CASE Unmanage
  <2>1. CASE /\ cr' = [cr EXCEPT !.finalizer = FALSE, !.exists = FALSE]
             /\ End("ok")
             /\ UNCHANGED budget
    <3>1. /\ pc' = "idle" /\ reason' = "ok"
          /\ queued' \in BOOLEAN
          /\ desired' \in CertificateSpec \cup {Nil}
          /\ input' \in [SecretFields -> Opt(SecretValues)]
      BY <2>1, EndType DEF IInv, Reasons
    <3> QED
      BY <3>1, <2>1, <1>4
      DEF Unmanage, IInv, TypeOK, FromUser, CreatesResolved, Imports, RefusedOnlyIfBothSet, Reasons
  <2>2. CASE Fails /\ UNCHANGED cr
    BY <2>2, <1>4, FailsKeeps DEF Unmanage
  <2> QED
    BY <2>1, <2>2, <1>4 DEF Unmanage
<1> QED
  BY <1>1, <1>2, <1>3, <1>4

(* What others do. *)
LEMMA EnvironmentKeeps ==
  ASSUME IInv, Environment \/ UNCHANGED vars
  PROVE  IInv'
<1>1. CASE ChangeAuthority
  <2>1. budget' \in [Bounded -> Nat]
    BY <1>1, SpendType DEF ChangeAuthority, IInv, Bounded
  <2> QED
    BY <2>1, <1>1, InputsAssumption
    DEF ChangeAuthority, IInv, TypeOK, FromUser, CreatesResolved, Imports, RefusedOnlyIfBothSet
<1>2. CASE Rotate
  <2>1. PICK f \in SecretFields, v \in SecretValues :
          /\ Spend(IF v = Empty THEN "empty" ELSE "rotate")
          /\ secrets' = [secrets EXCEPT ![f] = v]
    BY <1>2 DEF Rotate
  <2>2. budget' \in [Bounded -> Nat]
    BY <2>1, SpendType DEF IInv, Bounded
  <2>3. secrets' \in [SecretFields -> SecretValues]
    BY <2>1 DEF IInv, TypeOK
  <2> QED
    BY <2>2, <2>3, <1>2
    DEF Rotate, IInv, TypeOK, FromUser, CreatesResolved, Imports, RefusedOnlyIfBothSet
<1>3. CASE EditReference
  <2>1. budget' \in [Bounded -> Nat]
    BY <1>3, SpendType DEF EditReference, IInv, Bounded
  <2>2. PICK r \in NewReferences : cr' = [cr EXCEPT !.spec.certificateAuthorityRef = r]
    BY <1>3 DEF EditReference
  <2>3. /\ cr' \in [exists : BOOLEAN, deleting : BOOLEAN, finalizer : BOOLEAN,
                    spec : CertificateSpec]
        /\ cr'.spec.certificateAuthorityARN = cr.spec.certificateAuthorityARN
    BY <2>2, InputsAssumption DEF IInv, TypeOK, CertificateSpec
  <2> QED
    BY <2>1, <2>3, <1>3
    DEF EditReference, IInv, TypeOK, FromUser, CreatesResolved, Imports, RefusedOnlyIfBothSet
<1>4. CASE DeleteResource
  <2>1. /\ cr' \in [exists : BOOLEAN, deleting : BOOLEAN, finalizer : BOOLEAN,
                    spec : CertificateSpec]
        /\ cr'.spec = cr.spec
    BY <1>4 DEF DeleteResource, IInv, TypeOK
  <2> QED
    BY <2>1, <1>4
    DEF DeleteResource, IInv, TypeOK, FromUser, CreatesResolved, Imports, RefusedOnlyIfBothSet
<1>5. CASE UNCHANGED vars
  BY <1>5 DEF vars, IInv, TypeOK, FromUser, CreatesResolved, Imports, RefusedOnlyIfBothSet
<1> QED
  BY <1>1, <1>2, <1>3, <1>4, <1>5 DEF Environment

(* The invariant holds in every reachable state: types, resolutions that    *)
(* start from what the user wrote, and creates that have their authority.   *)
THEOREM InputsInvariant == Spec => []IInv
<1>1. Init => IInv
  BY InitInv
<1>2. IInv /\ [Next]_vars => IInv'
  BY ReferencesKeep, CreateKeeps, OthersKeep, EnvironmentKeeps
  DEF Next, Reconcile, Environment, Rest
<1> QED
  BY <1>1, <1>2, PTL DEF Spec

(* An ARN the controller itself left in the resource is never taken for     *)
(* one the user set (RefusedOnlyIfBothSet), for any constants.              *)
THEOREM ComplaintsAreTheUsers == Spec => []RefusedOnlyIfBothSet
<1>1. IInv => RefusedOnlyIfBothSet
  BY DEF IInv
<1> QED
  BY <1>1, InputsInvariant, PTL

(* Only Create and Import make a certificate, and Create has resolved the   *)
(* reference it starts from.                                                *)
LEMMA MadeResolved ==
  ASSUME IInv, [Next]_vars,
         acm = Nil, acm' # Nil, ~desired.certificate, hasReference(desired)
  PROVE  acm'.authority # Nil
<1>1. CASE Create
  BY <1>1 DEF Create, IInv, CreatesResolved
<1>2. CASE Import
  BY <1>2 DEF Import, IInv, Imports
<1>3. CASE ~Create /\ ~Import
  BY <1>3
  DEF Next, Reconcile, Environment, Rest, vars, Start, Resolve, Manage, ResolveAgain,
      BeginImport, ReadKey, ReadCertificate, ReadChain, Read, Update, Delete, Unmanage,
      ChangeAuthority, Rotate, EditReference, DeleteResource
<1> QED
  BY <1>1, <1>2, <1>3

(* A reference to a CertificateAuthority never ends in a public certificate *)
(* (NeverPublicInstead), for any constants.                                 *)
THEOREM PrivateStaysPrivate == Spec => NeverPublicInstead
<1>1. IInv /\ [Next]_vars
        => [acm = Nil /\ acm' # Nil /\ ~desired.certificate /\ hasReference(desired)
              => acm'.authority # Nil]_vars
  BY MadeResolved
<1> QED
  BY <1>1, InputsInvariant, PTL DEF Spec, NeverPublicInstead
=============================================================================
