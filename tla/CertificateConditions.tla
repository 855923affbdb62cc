----------------------- MODULE CertificateConditions -----------------------
(***************************************************************************)
(* The conditions the resource manager reports to the user, superposed on  *)
(* the reconcile loop of CertificateController: every step of the loop is  *)
(* a step here, and changes the conditions the way the manager function    *)
(* does in which it happens.  The messages of conditions are left out.     *)
(*                                                                         *)
(* What the ACK runtime does with conditions is external: it drops those   *)
(* of the resource at the start of a sync, stores those of the resource a  *)
(* reconcile returned with its status, and gives one that was returned     *)
(* without a Synced condition one of its own, which is left out.           *)
(***************************************************************************)
EXTENDS CertificateProperties

VARIABLES
  held,    \* the conditions of the resource the reconcile holds
  stored,  \* those of the resource in the API server
  untold   \* history: the last status patch failed, of a reconcile given up

cvars == <<vars, held, stored, untold>>

Statuses == {"absent", "True", "False"}

Conditions ==
  [terminal : Statuses, recoverable : Statuses, synced : Statuses, lateInitialized : Statuses]

NoConditions ==
  [terminal |-> "absent", recoverable |-> "absent", synced |-> "absent",
   lateInitialized |-> "absent"]

(* A malformed ARN is the only terminal answer to a read, and the           *)
(* controller reads by ARNs it got from ACM; the API server's errors are    *)
(* never terminal.                                                          *)
ASSUME TerminalAssumption ==
  \A c \in {"DescribeCertificate", "ListTagsForCertificate",
            "MarkManaged", "MarkUnmanaged", "PatchSpec"} : "terminal" \notin Failures[c]

-----------------------------------------------------------------------------
(* The conditions a manager function returns *)

(* Mutant: a terminal error is reported like any other.                     *)
updateConditions_Recoverable(c, onSuccess, err) ==
  [c EXCEPT !.recoverable = IF err # "ok" THEN "True" ELSE @,
            !.synced      = IF @ = "absent" /\ onSuccess THEN "True" ELSE @]

(* A condition that is there is cleared, one that is not is not made up.    *)
cleared(status) == IF status = "absent" THEN "absent" ELSE "False"

updateConditions(c, onSuccess, err) ==
  [c EXCEPT
     !.terminal    = IF err = "terminal" THEN "True" ELSE cleared(@),
     !.recoverable = CASE err = "terminal" -> @
                       [] err = "error"    -> "True"
                       [] OTHER            -> cleared(@),
     !.synced      = IF @ = "absent" /\ onSuccess THEN "True" ELSE @]

onError(c, err) == updateConditions(c, FALSE, err)

(* Mutant: success is reported with the flag of a failure.                  *)
onSuccess_NotSynced(c) == updateConditions(c, FALSE, "ok")

onSuccess(c)    == updateConditions(c, TRUE, "ok")

(* The end of LateInitialize: its read failed or left fields unset, or not. *)
lateInitializationFailed(c) == [c EXCEPT !.lateInitialized = "False", !.synced = "False"]
lateInitialization(c, r) ==
  IF incompleteLateInitialization(r)
  THEN lateInitializationFailed(c)
  ELSE [c EXCEPT !.lateInitialized = "True"]

-----------------------------------------------------------------------------
(* The conditions after a step, by the function the step is taken in.       *)

Failed == pc' = "patchStatus"

(* ReadOne, as far as the runtime uses the resource it returns: the read    *)
(* after a create and the one before a delete hand back what they were      *)
(* given when they fail.  A read for a sync may turn at once into an update *)
(* that is refused or has nothing left to do.                               *)
AfterRead ==
  LET complete == pc = "listTags"
  IN  CASE ~Failed /\ ~complete -> held
        [] ~Failed /\ complete  ->
             IF caller = "late" THEN lateInitialization(held, observed') ELSE onSuccess(held)
        [] Failed /\ caller = "sync" ->
             IF outcome' = "terminal" THEN onError(onSuccess(held), outcome')
                                      ELSE onError(held, outcome')
        [] Failed /\ caller = "late" ->
             IF complete /\ Live(latest.status.arn) /\ budget' = budget
             THEN lateInitialization(held, latest')
             ELSE lateInitializationFailed(held)
        [] OTHER -> held

AfterCreate == IF Failed THEN onError(held, outcome') ELSE onSuccess(held)

(* Update returns the desired resource, which has no conditions.            *)
AfterUpdate ==
  CASE Failed           -> onError(held, outcome')
    [] pc' = "describe" -> onSuccess(NoConditions)
    [] OTHER            -> held

AfterDelete == IF Failed THEN onError(held, outcome') ELSE held

(* When the finalizer cannot be set nothing is returned, and the stored     *)
(* conditions stay.                                                         *)
AfterReconcileStep ==
  CASE pc = "idle"   -> IF cr.deleting THEN stored ELSE NoConditions
    [] pc = "manage" -> IF Failed THEN stored ELSE held
    [] pc \in {"describe", "listTags"} -> AfterRead
    [] pc = "create" -> AfterCreate
    [] pc \in {"export", "writeCertificate", "writeKey", "removeTags", "addTags",
               "updateOptions"} -> AfterUpdate
    [] pc = "delete" -> AfterDelete
    [] OTHER         -> IF pc' = "idle" THEN NoConditions ELSE held

Stores == pc = "patchStatus" /\ pc' # pc /\ cr.exists /\ budget' = budget

CInit == Init /\ held = NoConditions /\ stored = NoConditions /\ untold = FALSE

CReconcile ==
  /\ Reconcile
  /\ held' = AfterReconcileStep
  /\ stored' = IF Stores THEN held ELSE stored
  /\ untold' = IF pc = "patchStatus" THEN outcome = "terminal" /\ ~Stores ELSE untold

(* A crash forgets the resource that was held. *)
CEnvironment ==
  /\ Environment \/ Rest
  /\ held' = IF pc' = pc THEN held ELSE NoConditions
  /\ UNCHANGED <<stored, untold>>

CNext == CReconcile \/ CEnvironment

CSpec == CInit /\ [][CNext]_cvars

CFairSpec == CSpec /\ WF_cvars(CReconcile)

-----------------------------------------------------------------------------
(* Properties *)

(* A resource the controller has given up, one that is neither being        *)
(* reconciled nor due again, says so: its Terminal condition is True,       *)
(* whatever users edited, failed or crashed in between (updateConditions,   *)
(* onError) -- unless the status patch of the very reconcile that gave it   *)
(* up failed, which nobody makes good; an earlier patch that failed is no   *)
(* excuse.                                                                  *)
GivenUpIsTerminal ==
  pc = "idle" /\ cr.exists /\ ~queued => stored.terminal = "True" \/ untold

(* Why: a reconcile about to end for good holds the condition already.      *)
ConditionsInv ==
  /\ held \in Conditions
  /\ stored \in Conditions
  /\ pc = "patchStatus" /\ outcome = "terminal" => held.terminal = "True"
  /\ GivenUpIsTerminal

(* What a success leaves behind: no error, and a resource that is synced.   *)
Clean(c) == c.terminal # "True" /\ c.recoverable # "True" /\ c.synced = "True"

Succeeded(c) == Clean(c) /\ c.lateInitialized = "True"

(* A reconcile that succeeds leaves no error of an earlier one behind, and  *)
(* reports that the resource is synced and initialised.                     *)
SuccessIsReported ==
  [][Stores /\ outcome = "ok" => Succeeded(stored')]_cvars

(* Why: a sync starts without conditions, its create or its update makes    *)
(* clean ones, and the late initialisation completes them.                  *)
SuccessInv ==
  /\ pc \in {"manage", "create"} => held = NoConditions
  /\ pc \in {"describe", "listTags"} /\ caller = "sync" => held = NoConditions
  /\ pc \in {"describe", "listTags"} /\ caller \in {"create", "late"} => Clean(held)
  /\ pc = "patchSpec" /\ ~incompleteLateInitialization(observed) => Succeeded(held)
  /\ pc = "patchStatus" /\ outcome = "ok" => Succeeded(held)

(* An imported certificate whose options were edited reports a terminal     *)
(* error, and no longer does once they were edited back                     *)
(* (test_certificate.py test_import_certificate): a resource that asks for  *)
(* nothing ACM refuses does not stay terminal.                              *)
Refused ==
  acm[Recorded].type = "IMPORTED" /\ cr.spec.options \notin {Nil, acm[Recorded].options}

TerminalClears == []<>(Steady /\ ~Refused => stored.terminal # "True")
=============================================================================
