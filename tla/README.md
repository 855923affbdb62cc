# A TLA+ model of the ACK controller for AWS Certificate Manager

The controller turns `Certificate` custom resources of Kubernetes into
certificates of AWS Certificate Manager (ACM): it requests or imports them,
keeps their options and tags in line with the spec, exports certificate and
private key into a Kubernetes Secret when they are issued and renewed, and
deletes them with the resource.  Paths below are relative to the repository.

- [1 Inventory](#1-inventory): what there is in the repository
- [2 Plan](#2-plan): which modules exist, which follow
- [3 The reconcile loop](#3-the-reconcile-loop): model, correspondence, abstractions
- [4 Around the loop](#4-around-the-loop): lifecycle, conditions, inputs, manager factory
- [5 Runs](#5-runs): what each shows, bounds, fairness
- [6 Disagreements](#6-disagreements-of-code-and-text)
- [7 Proofs](#7-proofs)
- [8 What is not modelled](#8-what-is-not-modelled)

## 1 Inventory

| Component | Where | State | Operations | Model |
|---|---|---|---|---|
| Resource manager | `pkg/resource/certificate/{manager,sdk}.go` | none of its own: all state is in the resource it is handed, in ACM and in the Secret | `ReadOne`, `Create`, `Update`, `Delete`, `LateInitialize`, `EnsureTags`, `onError` | CertificateController |
| Create hooks | `hooks.go`, `sdk.go` | – | refuse a spec, read the Secrets of an import, import, re-import by ARN, `validatePublicValidationOptions` | CertificateController, CertificateInputs |
| Export | `hooks.go` | the Secret of `exportTo` | `exportCertificate`: one ACM call, two Secret writes | CertificateController |
| Delta | `delta.go`, `hooks.go` | – | `newResourceDelta`, `compareCertificateIssuedAt`, `compareKeyAlgorithm` | CertificateResource |
| Tags | `pkg/tags/sync.go`, `tags.go` | tags in ACM | `SyncTags`, `EnsureTags`, `mirrorAWSTags` | CertificateResource, CertificateController |
| Descriptor | `descriptor.go` | finalizer of the resource | `MarkManaged`, `MarkUnmanaged`, `IsManaged` | CertificateController |
| Manager factory | `manager_factory.go` | `rmCache` under a `sync.RWMutex` | `ManagerFor` | ManagerFactory |
| References | `references.go` | – | resolve `certificateAuthorityRef`, `ClearResolvedReferences` | CertificateInputs |
| Conditions | `sdk.go` `updateConditions`, `manager.go` | `status.conditions` | terminal, recoverable, synced, late initialised | CertificateConditions |
| Adoption, identifiers | `resource.go`, `identifiers.go` | – | `SetIdentifiers`, `PopulateResourceFromAnnotation` | not planned |
| API types | `apis/v1alpha1` | – | generated | the fields the control flow reads |
| Start-up, deployment | `cmd`, `helm`, `config`, `olm` | – | wiring | not planned |
| ACK runtime | external module | work queue | `Sync`, patches, requeue | as the environment of the manager |
| ACM, API server, users | external | certificates, resources | see below | as the environment |

How they interact.  The work queue of the runtime holds the key of a resource
and runs at most one reconcile of it at a time.  A reconcile asks the factory
for a manager, reads the resource from the API server, and calls the manager:
`ReadOne`, then `Create` (after the finalizer is patched), `Update` or
`Delete`, then `LateInitialize`.  The manager calls ACM and, for an export, the
API server.  At the end the runtime patches the status of the resource the
manager returned, **also when the manager returned an error**, and requeues.
Nothing is locked in between: users edit and delete the resource, ACM issues and
renews, somebody deletes the certificate in ACM, and the process may stop,
between any two of these calls.

What is hard in this code, and what makes each component correct:

- *Manager and finalizer.*  The certificate's ARN is the only link between
  resource and ACM, and it is written last.  A certificate must come into being
  only under the finalizer; no second one while the recorded one is there; the
  resource must not go before its certificate; a deletion must end although
  `DeleteCertificate` of a missing certificate is an error.
- *Export.*  What was exported is remembered only through `status.issuedAt` and
  `status.serial`, the fields every read overwrites.  The Secret has to follow
  the certificate, two writes are not one, and a serial number must not be
  recorded before its export.
- *Late initialisation.*  It decides on an old copy of the spec and patches a
  newer one.  It must fill in what the user left out and nothing else.
- *Tags and options.*  Removal and addition are two calls that may fail apart;
  tags of AWS must not be touched, default tags not removed.
- *Conditions.*  They live in copies of the resource that reads, updates and late
  initialisation hand on; a terminal error is not retried, so a resource must
  not come to rest without saying so, and must not keep saying so.
- *References and Secrets.*  They belong to others and are read one after the
  other, the reference twice in a reconcile; what was resolved must not be taken
  for what the user wrote, nor be lost before the create.
- *Factory.*  Look-up and creation are under two locks, and the first has to be
  given back before the second is asked for.

`PROJECT.json` lists each of these hazards with its line and the properties
about it, also those that no property covers yet.

## 2 Plan

Built, in this order:

1. **CertificateResource** – data and the functions that only compute.
2. **CertificateController** – the reconcile loop and its environment.
3. **CertificateProperties** – what it must and must never do, and the
   inductive invariant.  **MCController** gives the constants values.
4. **CertificateProofs** – the invariant and three safety theorems.
5. **ManagerFactory**, **MCFactory**, **ManagerFactoryProofs** – the cache.
6. **CertificateLifecycle** – what a user of the resource may rely on; an abstract
   specification the loop implements.  **LifecycleProofs** proves that it does.
7. **CertificateConditions**, **MCConditions**, **ConditionsProofs** – the
   conditions, superposed on the loop.
8. **CertificateInputs**, **MCInputs**, **InputsProofs** – the reference to a
   CertificateAuthority and the Secrets of an import.
9. **CertificateInvariants** – what the serial numbers, the Secret, the tags and
   the late fields have in common at every step; **RecordProofs** (certificates
   are recorded, and what each step changes), **ExportProofs** and
   **UpdateProofs** rest on it.

To come:

1. The composition of CertificateInputs with the loop: while an authority is not
   synced, nothing of an issued certificate is looked after.
2. Adoption of certificates that exist.
3. Several resources that share a Secret.

## 3 The reconcile loop

### State

| Variable | Stands for |
|---|---|
| `cr` | the custom resource in the API server: existence, deletion timestamp, finalizer, spec, status |
| `acm` | certificates in ACM by ARN, with the ARNs not handed out (`Unused`) and deleted (`Gone`) |
| `serials` | the last serial number ACM gave to a certificate |
| `secret` | the Secret of `exportTo`: the serials of the certificate and of the key in it |
| `queued` | the resource is in the work queue or will be requeued |
| `pc`, `caller` | the next call of the running reconcile; what the `ReadOne` in progress is for |
| `desired`, `latest`, `observed` | the Go variables of these names in the runtime and the manager |
| `exported`, `outcome` | certificate and key in memory during an export; how the reconcile will end |
| `budget` | how many bounded events have happened |

Spec and status are records of the Go structs' fields that the control flow
tells apart, pointers being a value or `Nil`.  `CertificateResource` explains
each abstraction.

### Steps and the code they stand for

One action is everything from one call that leaves the process up to the next.

| Action | Code |
|---|---|
| `Start`, `Describe`, `ListTags` | `ReadOne`, `sdkFind`, then by `caller` what follows the read |
| `MarkManaged`, `MarkUnmanaged` | the descriptor, patched by the runtime |
| `RefuseCreate`, `Import`, `Request` | `Create`, `sdkCreate`, `maybeImportCertificate` |
| `Update`, `UpdateBehindTags` (operators of `ListTags`, `RemoveTags`, `AddTags`) | the branches of `sdkUpdate` in their order |
| `Export`, `WriteCertificate`, `WriteKey` | `exportCertificate` |
| `RemoveTags`, `AddTags` | `SyncTags` |
| `UpdateOptions` | the end of `sdkUpdate` |
| `PatchSpec`, `PatchStatus` | `LateInitialize`'s result and the end of a reconcile |
| `Delete` | `sdkDelete` |
| `Fails`, `LosesReply` | an error before a call takes effect, and after it; `onError` |

Environment: `Crash` (memory is lost, the next process lists every resource),
`EditSpec`, `DeleteResource`, `CreateSecret`, `Validate`, `Renew`, `Expire`,
`Vanish`, `SetAwsTag`.  `Rest` lets the system stop when the resource is gone or parked
by a terminal error, so that TLC's deadlock check means something elsewhere.

Assumptions on what is not in the repository, taken from how the code uses it:

- *ACK runtime*: the order of calls above; the status of the returned resource
  is patched whatever the outcome, and the error of that patch is ignored; a
  terminal error (`manager.go:424`) is not requeued, whether or not the status
  could be patched, every other outcome is (after a success:
  `RequeueOnSuccessSeconds`, `manager_factory.go:88`); the `deletionPolicy` is
  `delete`, the default (`helm/values.yaml:134`), under `retain` a resource goes
  and leaves its certificate, and `GoneOnlyAfterCertificate` and the lifecycle do
  not hold; the patches are merge patches without a resource
  version; `NotFound` of `ReadOne` leads to `Create`, in a deletion to the
  removal of the finalizer.
- *ACM*: every request makes a new certificate (no idempotency token,
  `generator.yaml:3`); a re-import keeps ARN and tags; `UpdateCertificateOptions`
  without options is rejected; a private CA issues like the public one, at any
  time; renewals change the serial number; ACM does not report `issuedAt` for an
  import and reads its domain name from it; key algorithms come back in another
  spelling (`AcmSpelling`, the reason for `normalizeKeyAlgorithm`); more tags than
  `TagLimit` are refused with a terminal error.
- *API server*: a resource with a finalizer only gets a deletion timestamp; the
  CRD's rules decide which fields may be edited (`EditableFields`).

Abstractions that lose something: alternative names and domain validation
options are one field; in the loop the three Secret reads of an import are part
of the import call, and the CA is a boolean that is already resolved
(CertificateInputs has both in detail); a failed decryption is a failed
`WriteKey`; lists of tags are functions, so order and duplicates are not told
apart.

## 4 Around the loop

### The lifecycle a user sees

`CertificateLifecycle` has four variables – the phase of the resource, the
recorded certificate, the fate of each ARN, how many certificates others have
deleted – and says in eight kinds of step what may happen to them: a certificate
is made only for a managed resource whose recorded certificate is not there, a
record is given up only for another one and only then, the controller deletes
only the recorded certificate and only for a deletion of the resource, and the
resource goes last.  `Lifecycle` in CertificateProperties maps the loop's state to
it (`phase` from existence, deletion timestamp and finalizer, `recorded` from the
status, the fates from `acm`); everything a reconcile holds in memory is dropped.
`ImplementsLifecycle` is the abstract specification as a property of the loop.

### Conditions

`CertificateConditions` adds two variables to the loop, the conditions of the
resource the reconcile holds (`held`) and of the one in the API server
(`stored`), and lets every step of the loop change them the way the manager
function does in which it happens: `updateConditions` through `onError` and
`onSuccess` (`AfterRead`, `AfterCreate`, `AfterUpdate`, `AfterDelete`), and the
end of `LateInitialize`.  A history variable, `untold`, remembers that the last
status patch failed and was that of a reconcile that is not requeued; only
properties read it.  `Update` returns the desired resource, which has no
conditions, `ReadOne` a copy of what it was given.  External, from the runtime:
conditions are dropped at the start of a sync, stored with the status, and a
failed patch of the finalizer returns nothing.  Messages are left out, and so is
the Synced condition the runtime adds to a resource that comes back without one.

### References and Secrets

`CertificateInputs` is what happens before a certificate is made.  Every sync
resolves `certificateAuthorityRef` (`Resolve`); for a new resource the finalizer
is patched next, without the resolved ARN (`ClearResolvedReferences`), the reply
replaces the desired resource, and the reference is resolved again
(`ResolveAgain`).  An import reads key, certificate and chain one after the
other.  `ChangeAuthority` makes the CertificateAuthority appear, fail, lose its
ARN, go and come back with another; `EditReference` uses that the CRD does not
make the reference immutable; `Rotate` replaces values of Secrets one at a time.
`Create`, `Update` and `Delete` are one step each here, because
CertificateController has them in detail.  ACM is taken to refuse a certificate
with another's key or chain with an error that is retried.

### The manager factory

`ManagerFactory` is `ManagerFor` by any number of workers, one action per
operation on the lock or on the map.  `RLock`, `RUnlock`, `Lock`, `Locked` and
`Unlock` model Go's `sync.RWMutex`: a writer that waits keeps new readers out
(`announced`) and gets in when the readers have left.  `NewResourceManager` may
fail; the deferred `Unlock` releases the lock either way.

The comment of `ManagerFor` says it "helps us to avoid creating multiple
resource managers for the same account/region/roleARN combination": because the
cache is not read again under the write lock, two workers that both miss it
make two.  What holds, and is proved, is a bound: no more managers for an
identifier than there are workers.

## 5 Runs

Each `.cfg` gives constants their values (definitions in `MCController`,
`MCFactory`); `Limits` bounds how often each kind of event happens, `Failures`
which calls may fail and how, `LostReplies` which calls may take effect and
report an error all the same.

| Run | What it asks | Instance |
|---|---|---|
| `lifecycle` | `IInv`, `EveryCertificateRecorded`; `CreatedOnlyWhenManaged`, `NoSecondCertificate`, `GoneOnlyAfterCertificate`, `ImplementsLifecycle` | eight kinds of spec, legal and refused ones, the Secret of `exportTo` there or not, among them re-imports of an ARN that is or is not in ACM; one failure of any call (retried or terminal), one lost reply of a call that changes ACM or a lost status patch, one failed export, one crash, one deletion of the resource, one in ACM; five ARNs, so that requests never run out |
| `export` | `RecordedIsNotTorn`, `AcknowledgedIsExported`, `RenewalIsExported`, `RequestedStatusConverges` | a requested certificate with an `exportTo`, two renewals, an expiry, a crash, a lost status patch, a failure of any call but those of the export |
| `updates` | `AwsTagsLeftAlone`, `SyncedTagsAreDesired`, `ProvidedFieldsKept`, `TagsConverge`, `OptionsConverge` | a requested and an imported certificate with a user tag and a default tag, which is all `TagLimit` allows, and an `aws:` tag that AWS sets or removes at any point; two edits of tags and options; a failure of any call, a lost status patch |
| `settling` | `GivenUpIsTerminal`, `SuccessIsReported`, `TerminalClears`, `LateInitializationCompletes`, `DeletionCompletes`, `UpdatesEnd` | CertificateConditions: a request, an import, an import that is refused; two edits of the options, a failure of any call but the reads and the patch of the spec (creates also refused), a lost status patch, a crash, a deletion |
| `inputs` | `IInv`, `RefusedOnlyIfBothSet`, `NeverPublicInstead`, `CreationCompletes`, `DeletionNotBlocked` | nine specs with every way to name an authority, imports with and without a chain; an authority that is at first not there and changes twice among six states, an edit of the reference, two rotations of a Secret value among two pairs, one emptied value, one failed call, a deletion |
| `factory` | `IInv`, `CacheIsGuarded`, `BoundedCreation`, `CallsReturn` | three workers, two identifiers |

Why these bounds.  The faults matter by where they strike, not by how many there
are: one failure and one crash at every point, alone and together, reach every
step from every state an interrupted reconcile leaves; a lost status patch and
failed exports are counted apart from other failures, so that they come together
with one.  Two renewals are what it takes for a certificate to be renewed again
between `DescribeCertificate` and `ExportCertificate` of an earlier renewal; two
edits, to edit something and edit it back; two changes of the authority, to lose
and regain it; two rotations, to replace a pair.  A spec edited in `updates`
exchanges a tag at the limit, which shows the order of removal and addition.
Each property is paired with a mutated definition that breaks it (`"mutants"` of
`PROJECT.json`), which shows that the bounds reach the case.

The restrictions on failures in `export` and `settling` are not conveniences:
with the calls they leave out, the properties fail, which is what the runs of
section 6 show.  Two restrictions of specs are of the same kind.  `UpdatesEnd` is
about specs ACM can satisfy: after an edit of the domain name, or of the CA
behind a reference, every reconcile sends `UpdateCertificateOptions` and finds
the same difference again, and an import with an `exportTo` is exported, and
fails, in every reconcile.  `CreationCompletes` leaves out behaviours in which a
private key was ever empty: that is a terminal error, and filling the Secret does
not wake the resource up.  No text of the repository promises otherwise.

`RequestedStatusConverges` and `EveryCertificateRecorded` say "requested" and "no
reply lost, no crash" because the runs `status_stale` and `orphan` show what
happens otherwise.  `AcknowledgedIsExported` is about a status patch that
succeeds; `RecordedIsNotTorn` about exports that a crash cuts off.  `Calm` in it
names the cases in which the code does record a torn Secret: a failed export (the
run `export_lost`), an expiry, a deletion, and two that only the attempt to prove
the property for all constants brought to light.  When `exportTo` is
taken away and put back, or when the certificate vanishes and a new one is
made, what a crash left half written is recorded with a status that asks for no
export, or belongs to no certificate that is left.

*Fairness.*  `FairSpec` of the controller is weak fairness of `Reconcile`, all
its steps together: the queue keeps handing out a resource that is queued, each
call returns, and every end of a reconcile but a terminal one requeues
(`manager_factory.go:88` after a success, with backoff after an error).  Nothing
obliges users, ACM, or the end of a crash loop; failures are bounded, which
stands for "fail finitely often".  `CFairSpec` and the `FairSpec` of
CertificateInputs are the same.  Of the factory, each worker's steps in
`ManagerFor` are strongly fair: `sync.RWMutex` lets waiting readers in when a
writer leaves and hands its writers' mutex over, so that no caller waits for
ever; a worker need never call again.

## 6 Disagreements of code and text

These runs state what a doc or a comment says and TLC finds a behaviour of the
code that does otherwise; `"findings"` of `PROJECT.json` has the quotations.

| Run | What happens |
|---|---|
| `export_lost` | A renewal is seen, its export fails.  `Update` returns the observed resource with the error, the runtime patches its status, and with it the new serial number: no difference is left and the renewal is never exported (README.md:24 says renewals are exported automatically). |
| `export_first` | A certificate issued before the read that follows its creation is recorded as issued at once; the first export is due only while the status has no `issuedAt`, so it never is (README.md:22). |
| `orphan` | A crash between `RequestCertificate` and the status patch: the certificate stays in ACM, the next reconcile takes it as "not created yet" (sdk.go:66) and requests another. |
| `reimport` | Late initialisation writes ACM's key algorithm and options into the spec of an imported certificate.  If the certificate is deleted in ACM, the import is refused because of these fields. |
| `late_stuck` | The read of a late initialisation fails once.  From then on the missing options count as a difference, `UpdateCertificateOptions` is sent without options and rejected, and late initialisation is not reached again. |
| `status_stale` | An imported certificate expires.  ACM reports the domain name it reads from the certificate, the spec of an import has none, and because of this difference `sdkUpdate` returns the desired resource with the status it had: the status stays `ISSUED` (certificate.go:134 says the status "defines the observed state"). |

Three more were met while modelling.  When the status patch of a refused resource
fails the resource is parked without its Terminal condition, although
the conditions "describe the various terminal states of the CR" (certificate.go:142):
nothing requeues it until it is edited or the controller restarts.  What decides
this is in the ACK runtime, so no run claims it; `GivenUpIsTerminal` names the case
as its only exception, and TLC reaches it.  `validatePublicValidationOptions` checks its
limit when a CA is set (hooks.go:66), its comment says when none is set
(hooks.go:60): CertificateInputs has it as the code does, and no run is spent on
a comparison one can read off two lines.  `ResolveReferences` returns the
resource it was given, its comment says a copy (references.go:52, 63);
`RefusedOnlyIfBothSet` shows that this does no harm.

## 7 Proofs

All proofs are checked by TLAPS (SMT, Zenon, LS4).  They hold for every value of
the constants that satisfies the named assumptions, which TLC evaluates on every
run: `DataAssumption` (what the sets contain, default tags are not `aws:` tags,
normalising a key algorithm twice changes nothing), `ControllerAssumption`
(the inputs have their types), `TerminalAssumption` (reads of ACM and the API
server's answers are never terminal errors), `InputsAssumption` (types),
`FactoryAssumption` (finitely many workers, `Nobody` is none).

| Theorem | Says |
|---|---|
| `InvariantCorrect` | `Spec => []IInv` |
| `TypeCorrect` | `Spec => []TypeOK` |
| `CreationIsManaged` | a certificate comes into being only while the resource exists with its finalizer |
| `OneCertificate` | no certificate is made while the recorded one is in ACM |
| `CertificatesAreRecorded` | `Spec => []EveryCertificateRecorded`: unless a process, the reply of a create or a status patch is lost, every certificate made is recorded or about to be |
| `AcknowledgeInvCorrect`, `SecretInvCorrect` | the inductive invariants of the export |
| `SerialsAreExported` | `Spec => AcknowledgedIsExported`: what a success records is in the Secret, certificate and key |
| `NoTornRecord` | `Spec => []RecordedIsNotTorn` |
| `AwsTagsAreLeftAlone` | `UsersLeaveAwsTags` implies `Spec => AwsTagsLeftAlone`: no step of the controller sets or removes an `aws:` tag |
| `TagsAreSynced` | `Spec => SyncedTagsAreDesired`: an update that gets past the tags has made them the desired ones |
| `LateInitInvCorrect`, `ProvidedFieldsAreKept` | `Spec => ProvidedFieldsKept`: a late initialisation changes no field that was set |
| `GoneAfterCertificate` | the resource goes only when neither the recorded certificate nor the one in memory is left |
| `LifecycleImplemented` | `Spec => Lifecycle!Spec`: the loop implements CertificateLifecycle |
| `GivenUpReports` | a resource that is neither being reconciled nor due again reports a terminal error, unless the patch that should have said so failed |
| `SuccessReports` | a success leaves no error of an earlier reconcile in the status, and reports the resource as synced and initialised |
| `InputsInvariant` | `Spec => []IInv` of CertificateInputs |
| `ComplaintsAreTheUsers` | reference and ARN are said to be both set only if the user set both |
| `PrivateStaysPrivate` | a resource that refers to an authority never becomes a public certificate |
| `FactoryInvariant` | `Spec => []IInv` of the factory |
| `CacheRaceFree` | the cache is never written while another worker is at it |
| `CreationIsBounded` | at most one manager per worker for an identifier |

*The reconcile loop.*  None of the three properties is inductive: they speak of
a moment of creation or removal and depend on what the reconcile knew before.
`IInv` has, beside the types, three parts.  `MemoryOK` says what a reconcile
holds at each of its steps, in particular that `desired`, `latest` and `observed`
speak of the same ARN.  `Managed` says that from the finalizer patch to the
end of the reconcile, and whenever an ARN is recorded, the resource is there with
its finalizer; it is needed because users delete at any time, and it is
preserved because a deletion of a resource with a finalizer only marks it.
`Provenance` says that the ARN a reconcile read is still the recorded one (only
one reconcile runs, and only it writes the status), that a known ARN was
handed out, and, at `create` and `unmanage`, that the certificate of that ARN is
not in ACM.  The last is what makes `OneCertificate` and `GoneAfterCertificate`
follow: an ARN, once gone, does not come back.  There is one lemma per action;
actions that go the same ways share lemmas about `Finish`, `Fails`, `LosesReply`
and the end of a reconcile.  `OnlyCreateHandsOut` and `OnlyTheseRemove` reduce
the action properties to the two creates and the steps that remove the resource.

*The lifecycle.*  The refinement needs `IInv`: that a create finds the recorded
certificate missing, that a deletion is of the recorded one, and that a status
patch leaves the recorded ARN alone or replaces one whose certificate is gone,
are `Provenance`; that phases follow each other is `Managed`.  One lemma per
action shows the step of the lifecycle it is, or that it is none.

*Records.*  `EveryCertificateRecorded` is inductive once `IInv` is known.  The
proof distinguishes what a step does to the two ARNs a certificate can be
known by: `OnSameCertificate` collects the steps that change neither; of the
others, a create adds the ARN it holds, a status patch makes the held one the
recorded one, and only a failed patch, a lost reply or a crash drops one –
each of which spends the budget the property excludes.  The second half of
RecordProofs says of every action what it changes and where it leads; ExportProofs
and UpdateProofs reason from these lemmas and not from the actions.

*Exports.*  `AcknowledgedIsExported` speaks of the moment of a status patch, long
after the export.  `AcknowledgeInv` carries the fact there: no status held is
ahead of ACM (`StatusesNotAhead`: serial numbers grow, and one that is current
comes with its `issuedAt`), an export under way is of a serial number newer
than the recorded one (`ExportSteps`), and what a reconcile will record is
recorded already or in the Secret (`Settled`).  That a serial number read
before the export may be older than the exported one is why the property, and
`Settled`, say "or a newer one".

*The Secret.*  A torn Secret has to be seen before its serial number is recorded.
`SecretInv` says of every point at which a reconcile holds a status that it is not
torn (`NothingTorn`); the hard case is a read that finds the very serial
number a crash left half written, which must lead to an export.  It does,
because that certificate can be exported (`SecretFromAcm`, `FoundInSecret`), so that
ACM reports its issuance, and because a recorded serial number is older
(`AcknowledgeInv`).

*Tags.*  `AwsTagsLeftAlone` needs that after `mirrorAWSTags` the `aws:` tags of the
desired resource are the listed ones (`AwsTagsInv`), so that neither set of
`SyncTags` has one of them.  Its hypothesis `UsersLeaveAwsTags` says that no spec
has an `aws:` tag: ACM refuses such tags, and a controller asked to write one
would try.  The runs satisfy it.  `SyncedTagsAreDesired` needs that the other tags of the
certificate are still the listed ones, without those already removed
(`ListedTagsInv`), although tags of AWS may come and go and the certificate may
vanish.

*Late initialisation.*  `ProvidedFieldsKept` compares the patch with the spec as
the user has edited it since.  `LateInitInv` follows the fields from the first
read on: what the desired resource has set, the latest has set when the late read
begins, and the late read fills only the others.

*Conditions.*  `GivenUpIsTerminal` says that a resource which is neither being
reconciled nor due again reports a terminal error, unless the status patch of the
very reconcile that gave it up failed (`untold`; an earlier failed patch is no
excuse).  It is not inductive: `ConditionsInv` adds
that a reconcile about to end for good already holds the condition.  It is
preserved because of three facts, each a lemma: calls that are never refused do
not end a reconcile for good, all others pass through `onError`; a status patch
that ends a reconcile without a requeue has stored what was held, or set
`untold`; what edits or
stops a reconcile queues the resource.  `SuccessIsReported` needs `SuccessInv`:
conditions are empty until the create or the update of a sync, clean after it, and
complete after the late initialisation, along every way a success can take.

*References.*  `IInv` of CertificateInputs says that each of the two resolutions
starts from the ARN the user wrote (`FromUser`), which holds only because the
patch's reply, and not the resolved resource, comes in between, and that a
create has an ARN when the reference names an authority (`CreatesResolved`).

*The factory.*  `LockOK` ties the lock to the places of the workers.
`CreationAt` counts: once an identifier is cached, the managers made and the
workers that missed it and may still make one are together at most the number
of workers; before that at most one manager exists, of the worker about to
store it.  The lock is what makes the second part inductive.

*Only model-checked*: everything about liveness (fairness and ENABLED are out of
the prover's reach): `RenewalIsExported`, `RequestedStatusConverges`,
`TagsConverge`, `OptionsConverge`, `LateInitializationCompletes`,
`DeletionCompletes`, `UpdatesEnd`, `TerminalClears`, `CreationCompletes`,
`DeletionNotBlocked`, `CallsReturn`.  Every invariant and every action property of
the passing runs has a theorem.

## 8 What is not modelled

- The ACK runtime, ACM and the API server beyond the assumptions of section 3.
- Several resources: they share nothing but the factory and, possibly, a Secret.
  Leader election and several replicas: one process.
- Adoption and identifiers: setters called for adopted resources only.
- Decryption of the key: cryptography, only its success matters here.
- Start-up, Helm chart, CRDs, OLM bundle, e2e tests, generated copies: no state.
- Metrics, logging, wording of messages; duplicates and order in lists of tags,
  and a listed tag without a value: `ListTags` keeps it as it is, only the desired
  tags are normalised, and `sync.go:64` would stop the process when tags have to be
  synchronised.
- `FilterSystemTags` (`manager.go:345`): nothing in the repository calls it, and which
  reads of the runtime do is not known from here.  Where it is called the listed
  tags have no `aws:` tags to mirror, so neither set of `SyncTags` has one either
  and `AwsTagsLeftAlone` is not touched.
- The `deletionPolicy` `retain`.
