# Verification of cert-manager approver-policy

TLA+ models of approver-policy, the TLC runs that check them on small
instances, and TLAPS proofs for all instances. Paths below are relative to the
repository (`src/`).

## 1. The system

approver-policy decides whether a cert-manager `CertificateRequest` may be
signed. Administrators write cluster-scoped `CertificateRequestPolicy` objects
and bind users to them with RBAC (verb `use`).

| part | code | state | operations |
|---|---|---|---|
| certificaterequestpolicies controller | `pkg/internal/controllers/certificaterequestpolicies.go` | informer cache, work queue, enqueue channels, the call in progress | `Reconcile` (Get, `Ready` of each reconciler, merge results, Patch), the goroutine forwarding enqueue messages |
| certificaterequests controller | `pkg/internal/controllers/certificaterequests.go` | caches of requests and policies, work queue, pending map-function events | event predicate, `enqueueRequestFromMapFunc`, `Reconcile` |
| approver manager | `pkg/internal/approver/manager/review.go`, `predicate/predicate.go` | none of its own; reads caches and sends SubjectAccessReviews | `Review`: List, four predicates, evaluation |
| patches | `pkg/internal/controllers/ssa_client` | none | forced server-side apply of `status`, by name |
| approvers `allowed`, `constraints` | `pkg/internal/approver/*` | none | `Evaluate`, `Validate`, `Ready` (always true, no channel) |
| wildcards | `pkg/internal/util/wildcard.go` | none | `matchRunes` and the subset tests over it |
| validating webhook | `pkg/internal/webhook/{webhook,validator}.go` | decoder behind a lock | `Handle`, `InjectDecoder`, `check` |
| TLS provider | `pkg/internal/webhook/tls/tls.go` | certificate files, CA, renewal channel | `New`, `Start`, renewal goroutine, `regenerateCertificate` |
| registry, command, options | `pkg/registry`, `pkg/cmd`, `pkg/internal/cmd` | list of approvers, stage of start-up | `Store` and getters, `RunE`: manager, webhook, `Prepare`, controllers, start |

How they interact: the first controller turns the answers of all registered
reconcilers into the policy's `Ready` condition; the second consults, for each
undecided request, the policies that are ready, select the request's issuer and
namespace and are bound to its user, and sets `Approved` or `Denied`. They meet
only in the API server, and each reads it through informers that trail it. One
process runs both, the webhook server and the TLS provider; of several replicas
one, the leader, runs the controllers.

What makes this hard to get right:

* reads come from caches that trail the API server independently of each other,
  writes are forced applies with no precondition on what they overwrite;
* a review reads request, policies, namespace and RBAC at different moments;
* undecided requests are left alone until some event makes them worth another
  look, so each missed event is a request that waits for the ten-hour resync;
* plugins answer, change their mind and close channels whenever they like;
* the process may fail or be restarted between any two steps, and a patch that a
  former leader was sending may arrive after its successor has begun to write.

`PROJECT.json` lists these, with lines, under `hazards`.

## 2. Modules

| module | models |
|---|---|
| `PolicyStatus` | abstract: what the policy controller promises the request controller |
| `Approval` | abstract: what is promised of decisions to those who write requests and policies |
| `CertificateRequestPolicies` | the policy controller with API server, informer, queue, plugins and forwarder around it |
| `MCPolicies` | its instances for TLC |
| `CertificateRequestPolicies_steps`, `CertificateRequestPolicies_proofs` | lemmas and theorems about it |
| `CertificateRequests` | the request controller and `Review`, in an environment whose policies change as `PolicyStatus` says |
| `CertificateRequests_types`, `_store`, `_review`, `_proofs` | lemmas and theorems about it |
| `MCRequests` | its instances for TLC |
| `WebhookTLS` | the webhook's TLS provider, with authority, clock and server around it |
| `Command` | registry, start-up and end of the process, composed with `WebhookTLS` |
| `WebhookTLS_proofs` | theorems about both |
| `Wildcard` | the matcher, and what a pattern means |
| `Approvers` | `Evaluate` and `Validate` of `allowed` and `constraints`, and the validating webhook |
| `MCApprovers` | its instances for TLC |
| `Approvers_proofs` | theorems about it |

### CertificateRequestPolicies

A policy's spec is known by its *revision*: the number of spec writes of that
name over all objects that bore it. `uid` is the revision that created the
object, so that `Generation` is what `metadata.generation` shows. A condition
carries the revision of the object that `Reconcile` read. `accepts` is what each
reconciler would answer; plugins may flip it and then send the name on their
channel. `vetted` and the field `asked` of a call record history.

| action | code |
|---|---|
| `Start` | `reconcileStatusPatch`: Get from the cache, not found ends the call |
| `CallReady` | one turn of the loop over reconcilers: `AllReady`, `Merge` |
| `Patch` | `setCertificateRequestPolicyCondition` and `Status().Patch`; not found is an error and is retried |
| `Fail` | any error return: no patch, rate-limited retry |
| `Receive`, `DropCase`, `Send` | the `reflect.Select` loop and its send on `genericChan` |
| `ApplyStatus` | what `GenerateCertificateRequestPolicyStatusPatch` and the forced apply do: the status, by name, nothing else |
| `LatePatch` | a patch that was on its way when its process ended (`Restart`) arrives |
| `PluginChange`, `Close` | plugins, within the contract of `EnqueueChan` |
| `Sync`, `Handle`, `Resync`, `Expire`, `Restart`, `Tick` | informer, handler, queue, process and clock (external) |
| `CreatePolicy`, `UpdatePolicy`, `DeletePolicy` | users (external) |

A patch that would change nothing is no event, as in the API server; with the
clock's granularity of a second this is what ends the controller's echo of its
own writes.

`PolicyStatus` has the revision, the readiness and the revision it was computed
from, of each name. Its `Vet` is a step in which the last reconciler accepts a
revision, its `Report` sets the condition, to True only from a vetted revision.
`StatusOf` and `VettedByAll` are the refinement mapping.

### CertificateRequests

Specs are sets: the issuers a policy selects, its patterns of namespace names,
each the set of names it matches, whether it wants the label, what each evaluator
denies, and what an evaluator ends on with an error each time (`errs`; for example
a key that `decodePublicKey` does not know). A request is its uid and its decision; `by` holds the policies the condition's message names, at the
revision that was evaluated. RBAC is the relation `bound`. A
`SubjectAccessReview` is answered, one policy at a time, from `access`, what the
API server's authorizer has heard of it: at once if `PromptReviews`, otherwise
after `SyncAccess`. `marked`, `granted` and `vetted` record history: which
namespaces have had the label, who may have used what, what was reported ready.

| action | code |
|---|---|
| `SyncRequest`, `HandleRequest` | `For(CertificateRequest)` with its predicate |
| `SyncPolicy`, `Bind`, `Unbind`, `Relabel`, `Sweep` | the six `Watches` and `enqueueRequestFromMapFunc` |
| `Start` | Get from the cache |
| `List` | `Review`: List, then `Ready` and `SelectorIssuerRef` |
| `FilterNamespace` | `SelectorNamespace`, which gets the namespace from a cache |
| `ReviewAccess` | `RBACBound` for one policy |
| `Evaluate`, `NotApplicable` | the evaluation loop and the outcomes |
| `Leave`, `Patch` | the switch over results, `Status().Patch` |
| `Fail` | errors: a call that fails, at any step, or an evaluator that cannot evaluate a policy (`EvaluatorErrs`); either is retried |
| `ApplyStatus`, `LatePatch` | the forced apply of a decision; one that outlived its process |
| `SetReady` | what the other controller writes, from any revision up to the current one (`PolicyStatus!SetCondition`) |

Namespaces reach the controller twice: `Watches(Namespace, OnlyMetadata)` is
served by a metadata informer, whose events sweep; `SelectorNamespace` gets the
whole object and so reads another informer (`labelCache`). cert-manager's
webhook, which refuses to change a decision (`test/env/certmanager.go`), is
`Admits`.

`Approval` knows no caches, queues or calls: policies are written, reported ready
and granted, namespaces labelled, requests created and deleted, and `Decide` sets
any decision that is `Justified` by what has been true so far, once for each
request. `Consultable` is what a policy has to be: it selects the issuer and the
namespace, can be evaluated, is granted and was reported ready.

### WebhookTLS

The goroutine of `New` and `Start` (`main`), the renewal goroutine (`renewer`)
and the authority's goroutine meet in `nextRenewCh` (room for one), `renewalChan`
and `authorityErrChan` (no room). A certificate is a number and the CA that
signed it. All live for an hour, so the numbers order their renewal moments and
the clock is the number of moments that have passed.

| action | code |
|---|---|
| `Poll`, `PollDone` | `wait.PollUntil`, `wait.PollImmediateUntil`: a poll whose context is done may make one more call |
| `NewCall`, `Drain` | the function `New` polls, and its wait for the authority after an error |
| `Start` | the renewal goroutine begins and `WatchRotation` is called |
| `SelectAuthority`, `SelectRotation`, `SelectRenewal`, `SelectDone` | the cases of the select in `Start` |
| `Sign`, `WriteCrt`, `WriteKey`, `SendMoment`, `Fail` | `regenerateCertificate`, `updateCertificate`; a failed write may leave an empty file |
| `FirstMoment`, `TimerFires`, `NewMoment`, `RenewerEnds` | the renewal goroutine; a receive from its closed channel is `SelectRenewal` |
| `AuthorityFails`, `AuthorityStops` | the goroutine that sends the result of `Run` and closes the channel |
| `Rotate`, `Load`, `MomentPasses`, `Stop`, `Restart` | authority, webhook server, clock, process (external) |

A restarted process finds the files of the one before it: the chart mounts the
directory as an `emptyDir`, which outlives the container.

### Command

`Command` extends `WebhookTLS`: the provider's steps are its own, from the call of
`New` in `webhook.Register` until the process ends.

| action | code |
|---|---|
| `StoreNext` | an `init` function calls `Store`, which panics if a name is registered already; the third stores `Plugins` approvers in one call, with any names from `PluginName` |
| `BuildManager` | `Complete`, `NewManager` |
| `Register` | `webhook.Register` after `tls.New`: validator, decoder, readiness check |
| `PrepareApprover`, `StartManager` | the loop over `Prepare`, `AddControllers`, `mgr.Start` |
| `StartUpFails`, `NewFails` | the error returns, which end the process |
| `StartProvider`, `Elected` | the manager starts the provider whoever leads (`NeedLeaderElection`), the controllers once it leads |
| `Exit`, `RestartProcess` | the provider's error ends `mgr.Start`; the process is started again |

A crash, the loss of the lease and the end of the manager's grace period all end
the process at some point and are `RestartProcess`.

### Wildcard and Approvers

Strings are sequences of runes, slices are sets (nothing in the code tells order
or repetition apart), pointers are sets of at most one element. `matchRunes` is a
recursive function in the shape of the Go function; `Expresses` says what a
pattern means without an algorithm: the string can be cut into one piece per
rune of the pattern. `Denies` is the block that `allowed.Evaluate` repeats for
each of 13 attributes, `Dereferences` the nil pointer that seven of those blocks
follow. `Handle` is the webhook's handler: a write it refuses changes nothing,
and so is no step. `CertificateRequestPolicySpec` and `CertificateRequest` are the
types of the specs and requests of an instance; `ConstantsAssumption` requires
them, and TLC evaluates it.

Definitions whose comment starts with "Altered" are used by no specification.
Each is a definition of the model with one plausible mistake, and shows that the
properties notice it (`mutants` in `PROJECT.json`).

## 3. Properties and runs

| run | properties | result |
|---|---|---|
| `policies` | `TypeOK`, `ReadyJustified`, `IInv`, `QuietMeansCurrent`, `WakeUpInv`, `NoStatusRollback`, `ImplementsPolicyStatus` | hold |
| `policies_live` | `QuietMeansCurrent`, `StatusConverges` | hold |
| `policies_requeue` | `RequeuedInTime` | violated |
| `requests` | `QuietMeansDecided`, `WakeUpInv`, `EventuallyDecided` | hold |
| `requests_disrupted` | `TypeOK`, `IInv`, `DecisionJustified`, `NoSteadyPolicyMissed`, `ImplementsApproval` | hold |
| `requests_stale_ready`, `requests_labels` | `OnlyReadySpecsEvaluated`, `QuietMeansDecided` | violated |
| `command` | `TypeOK`, `NeverPanics`, `NewMeansServable`, `RenewalScheduled`, `IInv`, `StartUpEnds`, `RenewsOnlyWhenDue`, `RenewedWhenDue`, `SendCompletes`, `AuthorityEndEndsProcess`, `StopsUnlessSendBlocks` | hold |
| `tls_rotation` | `ServesCurrentCA` | violated |
| `approvers` | `NotDeniedMeansConforms`, `LessIsPermitted`, `CommittedSatisfiable`, `MatchesExpressed` | hold |
| `approvers_nil`, `approvers_refused` | `NilForbids`, `RefusedNotCommitted` | violated |

* `ReadyJustified`: `Ready=True` always rests on a yes of every reconciler to
  exactly that revision. It says nothing about the object's current spec; that
  is `OnlyReadySpecsEvaluated`, which the code does not keep, because the
  `Ready` predicate ignores `observedGeneration`.
* `NoStatusRollback`: although patches are forced, a newer status is never
  replaced by an older one, because one worker reads from a cache that only
  moves forward. A former leader's patch that arrives late is excepted: it can
  put an older status back. That status is still justified
  (`ReadyJustified`), and the event of the patch makes the new leader correct it
  (`QuietMeansCurrent`, `StatusConverges`).
* `ImplementsPolicyStatus`, `ImplementsApproval`: the refinements. The first
  justifies the environment that `CertificateRequests` is given; the second says
  that all its steps amount to decisions that are atomic, justified and final.
* `StatusConverges`: with two plugins, of which either may close its channel, the
  forwarder serves the other one. The clock and with it the echo described below
  are bounded here, so the property is about lost answers and not about the echo.
* `RequeuedInTime`: a duration that a reconciler asks for is not exceeded. It is
  violated by two reconcilers of which one gives a duration and the other only
  `Requeue`: the merged result has no duration and leaves it to the backoff.
* `QuietMeansCurrent`, `QuietMeansDecided`: no lost wake-ups, stated for states
  in which the controller has nothing to do, because a liveness property would
  be rescued by the periodic resync. `requests_labels` shows the one loss that
  the code has: the sweep after a label change may read the namespace from the
  informer that has not heard of it. A lagging authorizer loses a wake-up in the
  same way, so `requests` has `PromptReviews`; the decisions themselves are
  checked in `requests_disrupted` without it.
* `WakeUpInv`, in both controllers: why no wake-up is lost. The last change on
  its way to a cache is what the API server stores, and whatever still has to be
  reconciled is held by someone (watch, event, queue, timer, sweep, plugin
  channel, forwarder) or by a call that has read what matters.
* `DecisionJustified`: each decision names policies that were ready at some
  revision up to the evaluated one, select the issuer and the namespace, were
  bound to the user and can be evaluated on the request; an approving policy denies nothing, denying ones all deny. The patch is
  by name, so the decision may be of an earlier request of the name (`d.of`); that is what
  the code does, and the property does not exclude it.
* `EventuallyDecided`: a request that stays, to which a policy applies and none
  that cannot be evaluated, is decided itself, not an earlier one of its name. The
  condition on evaluation is needed: an evaluator's error ends the review, and the
  retry meets it again, whatever the other policies would say.
* `NoSteadyPolicyMissed`: a policy that fits from List to the end of the review
  is not overlooked, whatever else changes.
* `RenewalScheduled`: rotations and renewals send moments while the renewal
  goroutine may be offering a message for an older one; it still ends up with
  the moment of the key in use. `RenewedWhenDue` adds that the renewal happens,
  also when the key fell due while approvers were being prepared and whether or
  not the replica leads.
* `StartUpEnds`: start-up, with its failures in `init`, `tls.New`, `Prepare` and
  elsewhere, ends in a process that runs and reports ready or in one that has
  exited. `New` waits for the authority when it fails; this ends because it fails
  only once the context is done or the authority has ended.
* `AuthorityEndEndsProcess`: the end of the authority is not lost between `New`,
  which no longer listens, and `Start`, which does not listen yet.
* `NewMeansServable`: also after a process that ended between the two writes.
* `SendCompletes`: the loop waits for room in `nextRenewCh` and the renewal
  goroutine for a receiver of `renewalChan`, but never both for ever, because the
  goroutine's inner select takes moments too.
* `StopsUnlessSendBlocks` names an exception that the code has: after the
  context is done the renewal goroutine closes `renewalChan`, which the loop may
  take for renewals; the second of them waits for room in a channel that nobody
  reads, so `Start` does not return and the manager's grace period has to end it.
* `ServesCurrentCA` is stated for states in which nothing is left to do. It fails
  when the CA is rotated between `New` and `Start`, until the next renewal.
* `NotDeniedMeansConforms`: what both approvers pass conforms to the policy by
  the words of the API types, with `Expresses` in place of the matcher.
* `LessIsPermitted`: asking for less than a request that is not denied is not
  denied.
* `CommittedSatisfiable`: `Validate` refuses constraints that exclude each other.
  It is stated with RSA keys, of which there are all sizes. `Validate` admits a
  `maxSize` of 0, which no key satisfies; the property excepts it.
* `MatchesExpressed`: the matcher accepts exactly what the pattern means.
* `RefusedNotCommitted`: a policy that a webhook refuses is not stored. It is
  violated by a webhook that gives no errors with its refusal.
* `RenewsOnlyWhenDue`: a certificate is renewed early only in two races, which
  the property names.

The violated properties are the findings of `PROJECT.json`, each with the line it
contradicts. Other places where the code does not do what a comment says, seen
while modelling and kept by the models as the code has them, but with no run of
their own:

* a `RequeueAfter` without `Requeue` is not ignored
  (`certificaterequestpolicies.go:196`, `pkg/approver/reconciler.go:44`);
* the condition is set on a new, empty status, so `LastTransitionTime` moves
  although the status stays (`certificaterequestpolicies.go:208`, comment at 254).
  Each patch in a new second is an event that leads to another one; the echo ends
  in the first second that sees both a patch and its echo, which nothing but the
  speed of the controller guarantees;
* a request that was queued while undecided is reviewed after its decision
  (`certificaterequests.go:176`, comment at 114);
* `decodePublicKey` looks for a pointer to an Ed25519 key, while a parsed CSR
  holds it by value, so a constraint on the key of such a request ends in an
  error (`constraints/evaluator.go:128`);
* `Store` compares new approvers with those stored before, not with each other, so
  one call may store a name twice (`registry.go:44`, comment at 32);
* the closed `renewalChan` is taken for a renewal (`tls.go:219`, comment at 218).

### Bounds

`MaxRevision`, `MaxChanges` bound what users write, `MaxDisruptions` failures,
restarts, resyncs, closed channels and plugin changes, `MaxTime` the clock. Two
spec writes with deletions give an update or a recreation under a call in
progress; two disruptions give a plugin change around a failure or a closed
channel. One policy name is enough where calls are sequential and per name, and
one plugin beside a built-in reconciler for the status; `policies_live` has two
plugins, whose channels share the forwarder. Reconcilers ask for a requeue only in
`policies_requeue`: elsewhere it would only add a timer, which may hide a
wake-up that is lost.
For requests two changes from any of
the initial clusters (with or without policies, request, binding, label) cover
each pair of races; one request, since reviews of two share only the worker.

Specs of `requests` deny, permit or cannot be evaluated, and ask for no label. In
`requests_disrupted` there are also namespace patterns that match and that do not,
and labels, with one change and one disruption, from any of the initial
clusters, with the change of RBAC still on its way to the authorizer or a patch
still on its way from the former leader.

In `command` two approvers of a third package are stored in one call, with free
names or taken ones, equal or not. For the TLS provider
one rotation, one moment and two failures let a rotation
overlap a renewal and either fail twice; the safety properties are proved for all
bounds. Patterns and strings have up to four runes over two letters and `*`: two
stars with text around them against strings that backtrack, and a literal star in
the string. Durations and sizes are the limits and their neighbours. One write of
a policy and one evaluation are enough, as `Handle` does not look at what it
replaces and `Evaluate` keeps nothing.

Symmetry is used on policy names, in runs whose temporal properties, if any, are
safety properties (refinements of the form `Init /\ [][Next]_vars`) that treat all
names alike.
Deadlock is not checked: a controller with no work and users who have no writes
left has stopped rightly.

### Fairness

Weak fairness for informers, handlers, the forwarder, timers and the steps of a
call: each is a goroutine or timer that stays ready until it has run. Strong
fairness for taking a name from the queue, which is first in, first out, and for
the random choice of `reflect.Select`. None for users, plugins, failing
calls, the clock and the resync; an evaluator that cannot evaluate a policy does
return its error (weak fairness of `Fail` where it is no disruption).

In `Command` each goroutine has weak fairness, start-up included: `Prepare` is
assumed to return. Go's select takes one of its
ready cases at random, so receiving a renewal and taking a new moment, each of
which competes with other cases, have strong fairness. The authority's `Run` is
assumed to return once its context is done. None for rotations, failures,
restarts, the clock, leadership and the end of the process.

## 4. Proofs

`CertificateRequestPolicies_proofs` proves, for any sets of policies and
plugins, any number of reconcilers and any bounds, from `ConstantsAssumption`:

* `TypeCorrect`, `Spec => []TypeOK`;
* `Invariance`, `Spec => []IInv`;
* `ReadyIsJustified`, `Spec => []ReadyJustified`;
* `StatusNeverRollsBack`, `Spec => NoStatusRollback`;
* `PolicyStatusImplemented`, `Spec => ImplementsPolicyStatus`;
* `WakeUpsAreKept`, `Spec => []WakeUpInv`;
* `NoWakeUpIsLost`, `Spec => []QuietMeansCurrent`.

Neither justification nor order is inductive alone. `IInv` adds `Numbered` (the
stored object is the newest revision of its name), `AnswersRecorded` (conditions
on their way to the cache or, from a former leader, to the API server, and the
call so far, rest on recorded answers) and `InOrder`: for each name, the revision
of the status is not newer than that of the call, nor that than the cache, nor
that than any change of the watch, deletions aside, and a late patch is not newer
than what its successor reads.
`InOrder` is why a forced patch is safe. `StepCases` names the actions that
touch any of this; `TypeStep`, `NumberedStep`, `JustifiedStep` and `OrderStep`
have one step per such action; `StoreOrder` is the common part of creation,
update, deletion and patch. `CertificateRequestPolicies_steps` has the lemmas on
types and single steps, the other module the order, the refinement and the
theorems. The refinement proof shows, action by action, which step of
`PolicyStatus` it is (`WriteImplements` and its kin), or that it is none.

`QuietMeansCurrent` speaks of states in which nobody holds a name, and says
nothing of the way there. `WakeUpInv` does: a policy whose condition is not current
is held by someone (`Awaited`), or the call in progress has read the stored spec
and every answer it was given still stands (`OnCourse`), so its patch will make
the condition current. It needs `CacheCatchesUp`, that the last change of the
watch is what is stored, or a call that starts with an empty watch might read
something else.

`CertificateRequests_proofs`, with three modules of lemmas before it, proves for
any requests, policies, specs, namespaces and evaluators, any lag of the
authorizer and any bounds: `Invariance`, `TypeCorrect`, `DecisionsJustified`,
`SteadyNotMissed` and `ApprovalImplemented`. `IInv` says of each place where a
value rests (store, watches, caches, call, late patches) that it was stored,
reported or granted once: `PoliciesReported`, `RequestsCreated`, `AccessGranted`, and of a label that the
namespace had it once: `LabelsMarked`;
of a call, that each policy it still considers is consultable and each one it has
put among the denying ones denies (`ReviewSound`); and that policies which fitted
throughout are still in the review (`SteadyInReview`). Justification is a
statement about a history that only grows (`Grows`), hence stable:
`JustifiedKept`. So a decision that was justified when the review ended is still
so when a patch, even a late one, arrives.

`WakeUpsAreKept` and `NoWakeUpIsLost` prove `WakeUpInv` and `QuietMeansDecided` of
the request controller, for any number of requests, policies, changes, failures
and restarts. They assume `NothingLags`: access reviews are prompt and no spec has
a label selector. Without either the property is false, as `requests_labels` shows
for labels. `ReviewKept` relates a request and one policy that applies to it:
either something is held that leads to a review of the request once the policy
is in the cache (`Awaited`), or the call in progress is of the stored request and
is about to list the policies, or has listed this policy as it is stored and
still considers it, or has a decision (`OnCourse`). `CachesStep` is the informers'
part, `AwaitedKept` follows a change from the watch to the queue, `TakenOnCourse`
from the queue to the call, `CourseKept` through the review to the patch, whose
event is awaited again. `AppliesBefore` says that a policy that applies after a
step which leaves nothing to sweep applied before it.

`WebhookTLS_proofs` proves, for any number of rotations, renewals, failures and
restarts, `Invariance` (`Spec => []IInv`) and from it `TypeCorrect`,
`PanicUnreachable`, `NewIsServable`, `RenewalIsScheduled` and, for the action
property `RenewsOnlyWhenDue`, `RenewalsAreDue`. Alone,
`RenewalScheduled` is not inductive: what `SendMoment` sends must be the number of
the key that `WriteKey` wrote, and `Start` must find that key's moment in the
channel. `IInv` adds how far the pair has been written at each point and that the
channel is empty until `New` is done. `Room`, `SendOne` and `ReceiveOne` are what
the proof needs to know of a one-place channel; `Step` has one case per action.
`ProviderInProcess` (`CommandSpec => Spec`) carries all this over to the process.

`Approvers_proofs` proves, for any policies, requests and patterns:

* `MatchingIsExpressing` (`Spec => []MatchesExpressed`). What `matchRunes` returns
  is a statement about strings of any length. Induction theorems cannot be
  instantiated here, so the induction is by least counterexample
  (`MatchRunesExpresses`): of the pairs for which the claim fails, `LeastNatural`
  gives one of least total length; there the matcher's value comes from shorter
  pairs, by one turn of its recursion (`MatchStep`), and the meaning unfolds in the
  same way (`EmptyExpresses`, `StarExpresses`, `RuneExpresses`). That `matchRunes`,
  a recursive function and so a `CHOOSE`, satisfies its equation at all needs a
  function that does: the meaning is one (`MatchRunesRecursive`).
* `NotDeniedAlwaysConforms` (`Spec => []NotDeniedMeansConforms`), from it and a
  lemma for each of attributes, usages, duration and key. For the attributes of
  `Unchecked` the nil pointer is no way around: a request that meets it panics and
  is not passed.
* `CommittedAlwaysSatisfiable` (`Spec => []CommittedSatisfiable`), assuming
  `RSARequests`: users may submit requests of every duration, with RSA keys of
  every size up to the largest that `Validate` admits. `Between` finds a number
  between the limits, `DurationSatisfiable` and `SizeSatisfiable` apply it.
* `LessIsAlwaysPermitted` (`Spec => []LessIsPermitted`). `FewerMembers` to
  `FewerDereferences` say that each test of an attribute is monotone in the
  requested values, and `LessNotDenied` puts them together.

The invariant `Evaluated` ties the results in a state to its policy and request,
and says that a stored policy has passed `Validate`.

So every invariant and action property that a passing run checks is proved too.
Only model-checked: the liveness properties `StatusConverges`, `EventuallyDecided`,
`StartUpEnds`, `RenewedWhenDue`, `SendCompletes`, `AuthorityEndEndsProcess`
and `StopsUnlessSendBlocks`, because fairness and `ENABLED` are out of the prover's
reach.

## 5. Plan

What could follow:

1. Both controllers in one state space. At present they meet in `PolicyStatus`,
   which one implements and the other is given.
2. Several policies evaluated by `Approvers` in one review, so that
   `DecisionJustified` speaks of the real evaluators instead of arbitrary ones.
3. Label selectors and a lagging authorizer in the proof of `QuietMeansDecided`, for
   policies that do not depend on them.

## 6. Not modelled

* Text of messages and events, JSON encoding of patches, flags and help texts: no
  state depends on them.
* Deep copies, scheme registration, fakes: generated, declarative or for tests.
* Leader election itself, which is controller-runtime's. Its effects are modelled:
  a process ends anywhere and another starts, and patches arrive late. Two leaders
  that reconcile at the same time are not: the lease excludes them.
* A review result other than the three known ones: the manager of this repository
  never returns one.
* The webhook server's reading of the files, in `Command`; it is in `WebhookTLS`,
  whose run `tls_rotation` is about it.
