-------------------------- MODULE ConditionsProofs --------------------------
(***************************************************************************)
(* Proofs about CertificateConditions: a resource the controller gives up  *)
(* carries a Terminal condition if its status could be patched, and one    *)
(* that was reconciled reports no error, for every set of ARNs, values,    *)
(* edits, failures and limits under which no call that cannot be refused   *)
(* is (TerminalAssumption).                                                *)
(***************************************************************************)
EXTENDS CertificateConditions, RecordProofs

-----------------------------------------------------------------------------
(* What updateConditions does *)

(* The conditions an outcome leaves are conditions.                         *)
LEMMA updateConditionsType ==
  ASSUME NEW c \in Conditions, NEW s \in BOOLEAN, NEW err
  PROVE  updateConditions(c, s, err) \in Conditions
  <1> DEFINE t == IF err = "terminal" THEN "True" ELSE cleared(c.terminal)
             r == CASE err = "terminal" -> c.recoverable
                    [] err = "error"    -> "True"
                    [] OTHER            -> cleared(c.recoverable)
             y == IF c.synced = "absent" /\ s THEN "True" ELSE c.synced
  <1>1. t \in Statuses /\ y \in Statuses
    BY DEF cleared, Conditions, Statuses
  <1>2. r \in Statuses
    BY DEF cleared, Conditions, Statuses
  <1>3. updateConditions(c, s, err) = [c EXCEPT !.terminal = t, !.recoverable = r, !.synced = y]
    BY DEF updateConditions, Conditions
  <1> HIDE DEF t, r, y
  <1> QED BY <1>1, <1>2, <1>3 DEF Conditions

(* A terminal error is reported as one, whatever was reported before.       *)
LEMMA TerminalIsReported ==
  ASSUME NEW c \in Conditions
  PROVE  onError(c, "terminal").terminal = "True"
  BY DEF onError, updateConditions, Conditions

(* onError and onSuccess return conditions.                                 *)
LEMMA onErrorType ==
  ASSUME NEW c \in Conditions, NEW err
  PROVE  onError(c, err) \in Conditions /\ onSuccess(c) \in Conditions
  BY updateConditionsType DEF onError, onSuccess

(* So does a late initialisation. *)
LEMMA lateInitializationType ==
  ASSUME NEW c \in Conditions, NEW r
  PROVE  /\ lateInitializationFailed(c) \in Conditions
         /\ lateInitialization(c, r) \in Conditions
  BY DEF lateInitialization, lateInitializationFailed, Conditions, Statuses

(* The empty list of conditions is one.                                      *)
LEMMA NoConditionsType == NoConditions \in Conditions
  BY DEF NoConditions, Conditions, Statuses

(* The conditions after any step of a reconcile are conditions. *)
LEMMA AfterReconcileStepType ==
  ASSUME held \in Conditions, stored \in Conditions
  PROVE  AfterReconcileStep \in Conditions
  <1> USE NoConditionsType, onErrorType, lateInitializationType
  <1>1. onSuccess(NoConditions) \in Conditions /\ onSuccess(held) \in Conditions
    OBVIOUS
  <1>2. AfterRead \in Conditions
    BY <1>1 DEF AfterRead
  <1>3. AfterCreate \in Conditions /\ AfterUpdate \in Conditions /\ AfterDelete \in Conditions
    BY <1>1 DEF AfterCreate, AfterUpdate, AfterDelete
  <1> QED BY <1>2, <1>3 DEF AfterReconcileStep

-----------------------------------------------------------------------------
(* The steps of a reconcile *)

(* No step of these calls ends a reconcile for good. *)
LEMMA NotTerminal ==
  ASSUME Reconcile, Failed,
         pc \in {"idle", "describe", "manage", "patchSpec", "patchStatus", "unmanage"}
  PROVE  outcome' \in {"ok", "error"}
  <1>1. \A c \in {"DescribeCertificate", "MarkManaged", "MarkUnmanaged", "PatchSpec"} :
          Failures[c] \subseteq {"error"}
    BY TerminalAssumption, ControllerAssumption DEF Calls
  <1>2. CASE Start
    BY <1>2 DEF Start, NotFound, Goto, Finish, Failed
  <1>3. CASE Describe
    BY <1>1, <1>3 DEF Describe, NotFound, Goto, Fails, Finish, Failed
  <1>4. CASE MarkManaged
    BY <1>1, <1>4 DEF MarkManaged, Goto, Fails, Finish, Failed
  <1>5. CASE PatchSpec
    BY <1>1, <1>5 DEF PatchSpec, Fails, Finish
  <1>6. CASE PatchStatus
    BY <1>6 DEF PatchStatus, EndReconcile, Failed
  <1>7. CASE MarkUnmanaged
    BY <1>1, <1>7 DEF MarkUnmanaged, EndReconcile, Fails, Finish, Failed
  <1> QED BY <1>2, <1>3, <1>4, <1>5, <1>6, <1>7
    DEF Reconcile, ListTags, RefuseCreate, Import, Request, Export, WriteCertificate,
        WriteKey, RemoveTags, AddTags, UpdateOptions, Delete

(* A read ends a reconcile for good only when it turns into an update that  *)
(* is refused.                                                              *)
LEMMA RefusedAfterRead ==
  ASSUME ListTags, Failed, outcome' = "terminal"
  PROVE  caller = "sync"
  <1>1. Failures["ListTagsForCertificate"] \subseteq {"error"}
    BY TerminalAssumption, ControllerAssumption DEF Calls
  <1> QED BY <1>1 DEF ListTags, ReadForCreate, ReadForLateInitialization, ReadForDelete,
       ReadForSync, LateInitialize, Goto, Fails, Finish, Failed

(* When a reconcile is about to end for good the resource it holds says so. *)
LEMMA TerminalIsHeld ==
  ASSUME CReconcile, held \in Conditions, stored \in Conditions,
         Failed, outcome' = "terminal"
  PROVE  held'.terminal = "True"
  <1>1. Reconcile /\ held' = AfterReconcileStep
    BY DEF CReconcile
  <1>2. pc \notin {"idle", "describe", "manage", "patchSpec", "patchStatus", "unmanage"}
    BY <1>1, NotTerminal
  <1>3. CASE ListTags
    <2>1. pc = "listTags" /\ caller = "sync"
      BY <1>3, RefusedAfterRead DEF ListTags
    <2>2. held' = onError(onSuccess(held), "terminal")
      BY <1>1, <2>1 DEF AfterReconcileStep, AfterRead
    <2> QED BY <2>2, onErrorType, TerminalIsReported
  <1>4. CASE RefuseCreate \/ Import \/ Request
    <2>1. held' = onError(held, "terminal")
      BY <1>1, <1>4 DEF RefuseCreate, Import, Request, AfterReconcileStep, AfterCreate
    <2> QED BY <2>1, TerminalIsReported
  <1>5. CASE Export \/ WriteCertificate \/ WriteKey \/ RemoveTags \/ AddTags \/ UpdateOptions
    <2>1. pc \in {"export", "writeCertificate", "writeKey", "removeTags", "addTags",
                  "updateOptions"}
      BY <1>5 DEF Export, WriteCertificate, WriteKey, RemoveTags, AddTags, UpdateOptions
    <2>2. held' = onError(held, "terminal")
      BY <1>1, <2>1 DEF AfterReconcileStep, AfterUpdate, Failed
    <2> QED BY <2>2, TerminalIsReported
  <1>6. CASE Delete
    <2>1. held' = onError(held, "terminal")
      BY <1>1, <1>6 DEF Delete, AfterReconcileStep, AfterDelete
    <2> QED BY <2>1, TerminalIsReported
  <1> QED BY <1>1, <1>2, <1>3, <1>4, <1>5, <1>6
    DEF Reconcile, Start, Describe, MarkManaged, PatchSpec, PatchStatus, MarkUnmanaged

(* A reconcile that leaves the resource without another one due has stored  *)
(* the conditions it held, or its status patch failed.                      *)
LEMMA GivenUpByPatch ==
  ASSUME CReconcile, ConditionsInv
  PROVE  GivenUpIsTerminal'
  <1> SUFFICES ASSUME pc' = "idle", cr'.exists, ~queued'
               PROVE  stored'.terminal = "True" \/ untold'
    BY DEF GivenUpIsTerminal
  <1>1. /\ Reconcile
        /\ stored' = IF Stores THEN held ELSE stored
        /\ pc = "patchStatus" /\ outcome = "terminal" /\ ~Stores => untold'
    BY DEF CReconcile
  <1>2. CASE PatchStatus
    <2>1. /\ pc = "patchStatus"
          /\ outcome = "terminal"
      BY <1>2 DEF PatchStatus, EndReconcile
    <2> QED BY <1>1, <2>1 DEF ConditionsInv
  <1>3. CASE MarkUnmanaged
    <2>1. CASE cr' = [cr EXCEPT !.finalizer = FALSE, !.exists = FALSE] /\ EndReconcile("ok")
      BY <2>1 DEF EndReconcile
    <2>2. CASE Fails("MarkUnmanaged", latest)
      BY <2>2 DEF Fails, Finish
    <2> QED BY <1>3, <2>1, <2>2 DEF MarkUnmanaged
  <1>4. ~(PatchStatus \/ MarkUnmanaged) => pc' # "idle"
    BY <1>1 DEF Reconcile, Start, Describe, ListTags, ReadForSync, ReadForCreate,
       ReadForLateInitialization, ReadForDelete, MarkManaged, RefuseCreate, Import, Request,
       Export, WriteCertificate, WriteKey, RemoveTags, AddTags, UpdateOptions, PatchSpec, Delete,
       Update, UpdateBehindTags, LateInitialize, NotFound, Goto, Fails, LosesReply, Finish
  <1> QED BY <1>2, <1>3, <1>4

-----------------------------------------------------------------------------
(* The environment *)

(* Users, ACM and crashes leave conditions alone; what stops a reconcile or *)
(* edits the resource makes another reconcile due.                          *)
LEMMA EnvironmentConditionsInv ==
  ASSUME CEnvironment, ConditionsInv
  PROVE  ConditionsInv'
  <1>1. /\ Environment \/ Rest
        /\ held' = IF pc' = pc THEN held ELSE NoConditions
        /\ stored' = stored /\ untold' = untold
    BY DEF CEnvironment
  <1>2. CASE Crash \/ EditSpec \/ DeleteResource
    <2>1. queued' = TRUE /\ (pc' = "idle" \/ UNCHANGED <<pc, outcome>>)
      BY <1>2 DEF Crash, EditSpec, DeleteResource, memory
    <2> QED BY <1>1, <2>1, NoConditionsType DEF ConditionsInv, GivenUpIsTerminal
  <1>3. CASE ~(Crash \/ EditSpec \/ DeleteResource)
    <2>1. UNCHANGED <<cr, queued, pc, outcome>>
      BY <1>1, <1>3 DEF Environment, CreateSecret, Validate, Renew, Expire, Vanish, SetAwsTag,
         Rest, vars, memory
    <2> QED BY <1>1, <2>1 DEF ConditionsInv, GivenUpIsTerminal
  <1> QED BY <1>2, <1>3

(* Every step preserves the invariant. *)
LEMMA NextConditionsInv == ConditionsInv /\ [CNext]_cvars => ConditionsInv'
  <1> SUFFICES ASSUME ConditionsInv, [CNext]_cvars PROVE ConditionsInv'
    OBVIOUS
  <1>1. CASE CReconcile
    <2>1. held \in Conditions /\ stored \in Conditions
      BY DEF ConditionsInv
    <2>2. held' \in Conditions /\ stored' \in Conditions
      BY <1>1, <2>1, AfterReconcileStepType DEF CReconcile
    <2>3. pc' = "patchStatus" /\ outcome' = "terminal" => held'.terminal = "True"
      BY <1>1, <2>1, TerminalIsHeld DEF Failed
    <2>4. GivenUpIsTerminal'
      BY <1>1, GivenUpByPatch
    <2> QED BY <2>2, <2>3, <2>4 DEF ConditionsInv
  <1>2. CASE CEnvironment
    BY <1>2, EnvironmentConditionsInv
  <1>3. CASE UNCHANGED cvars
    BY <1>3 DEF cvars, vars, memory, ConditionsInv, GivenUpIsTerminal
  <1> QED BY <1>1, <1>2, <1>3 DEF CNext

-----------------------------------------------------------------------------
(* The theorem *)

(* A resource that is neither being reconciled nor due again reports a      *)
(* terminal error, unless the status patch of the reconcile that gave it up *)
(* failed: nothing else that goes wrong, then or before, makes the          *)
(* controller give up silently (updateConditions, onError).                 *)
THEOREM GivenUpReports == CSpec => []GivenUpIsTerminal
  <1>1. CInit => ConditionsInv
    BY NoConditionsType DEF CInit, Init, ConditionsInv, GivenUpIsTerminal
  <1>2. ConditionsInv => GivenUpIsTerminal
    BY DEF ConditionsInv
  <1> QED BY <1>1, <1>2, NextConditionsInv, PTL DEF CSpec

-----------------------------------------------------------------------------
(* Success *)

(* A success cleans conditions that report no error, or none at all.        *)
LEMMA SuccessCleans ==
  ASSUME NEW c \in Conditions, c = NoConditions \/ Clean(c)
  PROVE  Clean(onSuccess(c))
  <1> DEFINE y == IF c.synced = "absent" THEN "True" ELSE c.synced
  <1>1. onSuccess(c) = [c EXCEPT !.terminal = cleared(c.terminal),
                                 !.recoverable = cleared(c.recoverable),
                                 !.synced = y]
    BY DEF onSuccess, updateConditions, Conditions
  <1>2. y = "True"
    BY DEF Clean, NoConditions
  <1>3. cleared(c.terminal) # "True" /\ cleared(c.recoverable) # "True"
    BY DEF cleared
  <1> HIDE DEF y
  <1> QED BY <1>1, <1>2, <1>3 DEF Clean, Conditions

(* A complete late initialisation adds its condition to clean ones.         *)
LEMMA LateSucceeds ==
  ASSUME NEW c \in Conditions, Clean(c), NEW r, ~incompleteLateInitialization(r)
  PROVE  Succeeded(lateInitialization(c, r))
  BY DEF lateInitialization, Succeeded, Clean, Conditions

(* A step that is not to a read, a create or the end of a success.          *)
LEMMA QuietSuccessInv ==
  ASSUME \/ pc' \in {"idle", "export", "writeCertificate", "writeKey", "removeTags", "addTags",
                     "updateOptions", "delete", "unmanage"}
         \/ pc' = "patchStatus" /\ outcome' # "ok"
  PROVE  SuccessInv'
  BY DEF SuccessInv

(* A step to the reads after a create, or of a late initialisation.         *)
LEMMA CleanSuccessInv ==
  ASSUME pc' = "describe", caller' \in {"create", "late"}, Clean(held')
  PROVE  SuccessInv'
  BY DEF SuccessInv, Clean

(* The reads, and what they turn into. *)
LEMMA ReadsSuccessInv ==
  ASSUME IInv, SuccessInv, held \in Conditions, held' = AfterReconcileStep, Describe \/ ListTags
  PROVE  SuccessInv'
  <1>1. CASE Describe
    <2>1. pc = "describe"
      BY <1>1, DescribeStep
    <2>2. CASE pc' # "patchStatus"
      <3>1. held' = held
        BY <2>1, <2>2 DEF AfterReconcileStep, AfterRead, Failed
      <3> QED BY <1>1, <2>1, <2>2, <3>1, DescribeStep, QuietSuccessInv DEF SuccessInv, Ends
    <2> QED BY <1>1, <2>2, DescribeStep, QuietSuccessInv DEF Ends
  <1>2. CASE ListTags
    <2>1. pc = "listTags"
      BY <1>2, ListTagsStep
    <2>2. pc' # "patchStatus" /\ caller # "late" => held' = onSuccess(held)
      BY <2>1 DEF AfterReconcileStep, AfterRead, Failed
    <2>3. CASE Ends(latest)
      BY <2>3, QuietSuccessInv DEF Ends
    <2>4. CASE ReadForSync(FoundNow) /\ FoundNow \in Resource
      <3> DEFINE a == mirrorAWSTags(desired, FoundNow)
      <3>1. /\ caller = "sync" /\ Update(a, FoundNow) /\ a \in Resource
        BY <2>1, <2>4, mirrorAWSTagsType DEF ReadForSync, IInv, MemoryOK
      <3> HIDE DEF a
      <3>2. \/ pc' = "describe" /\ caller' = "late"
            \/ pc' \in {"export", "removeTags", "addTags", "updateOptions"}
            \/ Ends(FoundNow)
        BY <2>4, <3>1, UpdateDue
      <3>3. Clean(onSuccess(held))
        BY <2>1, <3>1, SuccessCleans DEF SuccessInv
      <3> QED BY <2>2, <3>1, <3>2, <3>3, QuietSuccessInv, CleanSuccessInv DEF Ends
    <2>5. CASE ReadForCreate(FoundNow)
      <3>1. caller = "create" /\ pc' = "describe" /\ caller' = "late"
        BY <2>5 DEF ReadForCreate, LateInitialize, Goto
      <3>2. Clean(onSuccess(held))
        BY <2>1, <3>1, SuccessCleans DEF SuccessInv
      <3> QED BY <2>2, <3>1, <3>2, CleanSuccessInv
    <2>6. CASE ReadForLateInitialization(FoundNow) /\ Live(latest.status.arn) /\ UNCHANGED budget
      <3> DEFINE after == lateInitializeFromReadOneOutput(FoundNow, latest)
      <3>1. /\ caller = "late"
            /\ \/ pc' = "patchSpec" /\ observed' = after
               \/ /\ pc' = "patchStatus" /\ latest' = after
                  /\ outcome' = IF incompleteLateInitialization(after) THEN "error" ELSE "ok"
        BY <2>6 DEF ReadForLateInitialization, Goto, Finish
      <3> HIDE DEF after
      <3>2. held' = lateInitialization(held, after)
        BY <2>1, <2>6, <3>1 DEF AfterReconcileStep, AfterRead, Failed
      <3>3. ~incompleteLateInitialization(after) => Succeeded(lateInitialization(held, after))
        BY <2>1, <3>1, LateSucceeds DEF SuccessInv
      <3>4. pc' = "patchSpec"
              => (incompleteLateInitialization(observed)' <=> incompleteLateInitialization(after))
        BY <3>1 DEF incompleteLateInitialization
      <3> QED BY <3>1, <3>2, <3>3, <3>4 DEF SuccessInv, Succeeded, Clean
    <2>7. CASE ReadForDelete(FoundNow)
      BY <2>7, QuietSuccessInv DEF ReadForDelete, Goto
    <2> QED BY <1>2, <2>3, <2>4, <2>5, <2>6, <2>7, ListTagsStep
  <1> QED BY <1>1, <1>2

(* Every step of a reconcile preserves what a success relies on.             *)
LEMMA ReconcileSuccessInv ==
  ASSUME IInv, SuccessInv, held \in Conditions, CReconcile
  PROVE  SuccessInv'
  <1>1. held' = AfterReconcileStep /\ Reconcile
    BY DEF CReconcile
  <1>2. Clean(onSuccess(NoConditions))
    BY NoConditionsType, SuccessCleans
  <1>3. CASE Start
    <2>1. pc = "idle" /\ (cr.deleting => pc' = "unmanage" \/ (pc' = "describe" /\ caller' = "delete"))
      BY <1>3 DEF Start, NotFound, Goto
    <2>2. ~cr.deleting => held' = NoConditions
      BY <1>1, <2>1 DEF AfterReconcileStep
    <2>3. CASE cr.deleting
      BY <2>1, <2>3 DEF SuccessInv
    <2>4. CASE ~cr.deleting
      <3>1. pc' \in {"describe", "create", "manage"} /\ caller' = "sync"
        BY <1>3, <2>4 DEF Start, NotFound, Goto
      <3> QED BY <2>2, <2>4, <3>1 DEF SuccessInv
    <2> QED BY <2>3, <2>4
  <1>4. CASE Describe \/ ListTags
    BY <1>1, <1>4, ReadsSuccessInv
  <1>5. CASE MarkManaged
    <2>1. CASE pc' = "create"
      <3>1. pc = "manage" /\ held' = held
        BY <1>1, <1>5, <2>1, MarkManagedStep DEF AfterReconcileStep, Failed
      <3> QED BY <2>1, <3>1 DEF SuccessInv
    <2> QED BY <1>5, <2>1, MarkManagedStep, QuietSuccessInv DEF Ends
  <1>6. CASE Import \/ Request
    <2>1. CASE pc' = "describe" /\ caller' = "create"
      <3>1. pc = "create" /\ held' = onSuccess(held)
        BY <1>1, <1>6, <2>1, CreateStep DEF AfterReconcileStep, AfterCreate, Failed
      <3>2. held = NoConditions
        BY <3>1 DEF SuccessInv
      <3> QED BY <1>2, <2>1, <3>1, <3>2, CleanSuccessInv
    <2>2. CASE pc' = "patchStatus" /\ outcome' # "ok"
      BY <2>2, QuietSuccessInv
    <2> QED BY <1>6, <2>1, <2>2, CreateStep
  <1>7. CASE Export \/ WriteCertificate \/ WriteKey \/ RemoveTags \/ AddTags \/ UpdateOptions
    <2>1. /\ pc \in {"export", "writeCertificate", "writeKey", "removeTags", "addTags",
                     "updateOptions"}
          /\ \/ pc' = "describe" /\ caller' = "late"
             \/ pc' \in {"writeCertificate", "writeKey", "addTags", "updateOptions"}
             \/ pc' = "patchStatus" /\ outcome' # "ok"
      BY <1>7, ExportStep, WriteCertificateStep, WriteKeyStep, TagsStep DEF Ends
    <2>2. pc' = "describe" => held' = onSuccess(NoConditions)
      BY <1>1, <2>1 DEF AfterReconcileStep, AfterUpdate, Failed
    <2> QED BY <1>2, <2>1, <2>2, QuietSuccessInv, CleanSuccessInv
  <1>8. CASE PatchSpec
    <2>1. /\ pc = "patchSpec" /\ pc' = "patchStatus"
          /\ outcome' = "ok" => ~incompleteLateInitialization(observed)
      <3>1. Fails("PatchSpec", observed) => outcome' # "ok"
        BY FailsEnds DEF Calls, Ends, IInv
      <3> QED BY <1>8, <3>1, PatchSpecStep DEF PatchSpec, Finish
    <2>2. held' = held
      BY <1>1, <2>1 DEF AfterReconcileStep
    <2> QED BY <2>1, <2>2 DEF SuccessInv, Succeeded, Clean
  <1>9. CASE RefuseCreate \/ PatchStatus \/ Delete \/ MarkUnmanaged
    BY <1>9, RefuseCreateStep, PatchStatusStep, DeleteStep, MarkUnmanagedStep, QuietSuccessInv
       DEF Ends
  <1> QED BY <1>1, <1>3, <1>4, <1>5, <1>6, <1>7, <1>8, <1>9 DEF Reconcile

(* So does every step of the system.                                         *)
LEMMA NextSuccessInv ==
  IInv /\ ConditionsInv /\ SuccessInv /\ [CNext]_cvars => SuccessInv'
  <1> SUFFICES ASSUME IInv, ConditionsInv, SuccessInv, [CNext]_cvars PROVE SuccessInv'
    OBVIOUS
  <1>1. CASE CReconcile
    BY <1>1, ReconcileSuccessInv DEF ConditionsInv
  <1>2. CASE CEnvironment /\ Crash
    BY <1>2, QuietSuccessInv DEF Crash
  <1>3. CASE (CEnvironment /\ ~Crash) \/ UNCHANGED cvars
    <2>1. UNCHANGED <<pc, caller, observed, outcome, held>>
      BY <1>3, OutsideStep DEF CEnvironment, Rest, cvars, vars, memory
    <2> QED BY <2>1 DEF SuccessInv, Succeeded, Clean, incompleteLateInitialization
  <1> QED BY <1>1, <1>2, <1>3 DEF CNext

(* The conditions change nothing of the loop. *)
LEMMA LoopOfConditions == [CNext]_cvars => [Next]_vars
  BY DEF CNext, CReconcile, CEnvironment, Next, cvars

(* A reconcile that succeeds leaves no error of an earlier one in the       *)
(* status, and reports that the resource is synced and initialised.         *)
THEOREM SuccessReports == CSpec => SuccessIsReported
  <1>1. CInit => IInv /\ ConditionsInv /\ SuccessInv
    BY InitIInv, NoConditionsType
       DEF CInit, Init, ConditionsInv, GivenUpIsTerminal, SuccessInv
  <1>2. IInv /\ ConditionsInv /\ SuccessInv /\ [CNext]_cvars
          => (IInv /\ ConditionsInv /\ SuccessInv)'
    BY LoopOfConditions, NextIInv, NextConditionsInv, NextSuccessInv
  <1>3. IInv /\ ConditionsInv /\ SuccessInv /\ [CNext]_cvars
          => [Stores /\ outcome = "ok" => Succeeded(stored')]_cvars
    <2> SUFFICES ASSUME IInv, ConditionsInv, SuccessInv, CNext, Stores, outcome = "ok"
                 PROVE  Succeeded(stored')
      OBVIOUS
    <2>1. Succeeded(held)
      BY DEF SuccessInv, Stores
    <2>2. ~CEnvironment
      <3>1. ~Crash
        <4>1. "crash" \in Bounded /\ TypeOK
          BY DEF Bounded, IInv
        <4>2. Spend("crash") => budget' # budget
          BY <4>1, SpendGrows DEF TypeOK
        <4> QED BY <4>2 DEF Crash, Stores
      <3>2. Environment /\ ~Crash => pc' = pc
        BY OutsideStep
      <3> QED BY <3>1, <3>2 DEF CEnvironment, Stores, Rest, vars
    <2>3. stored' = held
      BY <2>2 DEF CNext, CReconcile
    <2> QED BY <2>1, <2>3
  <1> QED BY <1>1, <1>2, <1>3, PTL DEF CSpec, SuccessIsReported
=============================================================================
