------------------------ MODULE CertificateRequests -------------------------
(***************************************************************************)
(* The certificaterequests controller                                      *)
(* (pkg/internal/controllers/certificaterequests.go) and the review it     *)
(* asks of the approver manager (pkg/internal/approver/manager): which     *)
(* CertificateRequests are reviewed and when, which policies are consulted,*)
(* and the Approved or Denied condition that is written in the end.        *)
(*                                                                         *)
(* A review reads five things at five moments: the request, the policies   *)
(* and the namespace from three informer caches that trail the API server  *)
(* independently, access rights from the API server itself, one policy at  *)
(* a time, and the verdicts of the evaluators.  Users change all of them   *)
(* meanwhile, and the other controller sets the policies' Ready condition. *)
(***************************************************************************)
EXTENDS Integers, Sequences, FiniteSets

CONSTANTS
    Request,        \* names of CertificateRequests, with their namespace
    Policy,         \* names of CertificateRequestPolicies
    Namespace,
    NamespaceOf,    \* the namespace of each request
    IssuerRef,      \* issuers that requests name
    Content,        \* the other contents of requests, told apart by evaluators
    Evaluator,      \* the registered evaluators
    PolicySpec,     \* the specs that users write
    PromptReviews,  \* whether access reviews know of RBAC changes at once
    MaxChanges,     \* bound: writes by users and by the other controller
    MaxDisruptions  \* bound: failures, restarts and resyncs

(***************************************************************************)
(* A spec: the issuers its issuerRef selector matches (all when it is nil),*)
(* the patterns of matchNames, each as the namespaces it matches, whether  *)
(* matchLabels asks for the label that namespaces may carry, what each     *)
(* evaluator denies, and what one of them cannot evaluate.                 *)
(***************************************************************************)
Specs == [issuerRef : SUBSET IssuerRef, matchNames : SUBSET SUBSET Namespace,
          matchLabels : BOOLEAN, denies : [Evaluator -> SUBSET Content],
          errs : SUBSET Content]

RequestSpec == [issuerRef : IssuerRef, content : Content]

ASSUME ConstantsAssumption ==
    /\ NamespaceOf \in [Request -> Namespace]
    /\ PolicySpec \subseteq Specs
    /\ PromptReviews \in BOOLEAN
    /\ MaxChanges \in Nat
    /\ MaxDisruptions \in Nat

VARIABLES
    specs,         \* API server: all specs ever written of each policy name
    policy,        \* API server: the policies
    requests,      \* API server: all requests ever created of each name
    request,       \* API server: the requests
    bound,         \* API server: <<r, p>> when r's user may use p (RBAC)
    accessWatch,   \* API server's authorizer: RBAC changes not yet applied
    access,        \* API server's authorizer: what access reviews answer from
    labelled,      \* API server: the namespaces with the label
    marked,        \* history: the namespaces that have had the label
    late,          \* network: patches of former leaders, not yet arrived
    policyWatch,   \* informer: policy changes sent, not yet applied
    policyCache,   \* informer: the policies that List returns
    requestWatch,  \* informer: request changes sent, not yet applied
    requestCache,  \* informer: the requests that Get and List return
    labelWatch,    \* informer of whole Namespaces: changes not yet applied
    labelCache,    \* informer of whole Namespaces: what Get returns
    sweeps,        \* policy, RBAC and namespace events not yet handled
    events,        \* request events that passed the predicate, not yet handled
    queue,         \* work queue: the names to be reconciled
    timers,        \* work queue: the names waiting for a delay to pass
    calls,         \* the Reconcile call in progress (at most one: one worker)
    changes,       \* writes so far
    disruptions,   \* disruptions so far
    vetted,        \* history: <<p, v>> once revision v of p was reported ready
    granted,       \* history: <<r, p>> once r's user might use p
    steady         \* history: policies that have fitted since the call listed

accessVars == <<bound, accessWatch, access>>
labelVars == <<labelled, marked>>
apiVars == <<specs, policy, requests, request, accessVars, labelVars, late>>
informerVars == <<policyWatch, policyCache, requestWatch, requestCache,
                  labelWatch, labelCache>>
queueVars == <<sweeps, events, queue, timers>>
historyVars == <<vetted, granted, steady>>
vars == <<apiVars, informerVars, queueVars, calls, changes, disruptions, historyVars>>

-----------------------------------------------------------------------------
(***************************************************************************)
(* Objects.  A policy is what PolicyStatus makes of it, the environment of *)
(* this controller: its revision, here an index into specs, and the Ready  *)
(* condition.  A request is its uid, an index into requests, with the      *)
(* decision on it.  A zero revision or uid is an object that is not there. *)
(***************************************************************************)
Policies == INSTANCE PolicyStatus WITH revisions <- [p \in Policy |-> Len(specs[p])]

PolicyObject == Policies!PolicyObject
NoPolicy == Policies!NoPolicy

\* `by' are the policies named in the condition's message, at the revision
\* that was evaluated, `of' the uid of the request that was reviewed.
Decision == [result : {"None", "Approved", "Denied"}, of : Nat,
             by : SUBSET (Policy \X Nat)]
NoDecision == [result |-> "None", of |-> 0, by |-> {}]

RequestObject == [uid : Nat, decision : Decision]
NoRequest == [uid |-> 0, decision |-> NoDecision]

\* Neither CertificateRequestIsApproved nor CertificateRequestIsDenied.
Undecided(o) == o.uid > 0 /\ o.decision.result = "None"

\* A Reconcile call: the request it read, the policies it listed, those that
\* passed the predicates so far, those the user was found to be bound to, and
\* those that denied.  At stage "done" the review has its outcome.
Outcome == [result : {"None", "Approved", "Denied", "Unprocessed"}, of : Nat,
            by : SUBSET (Policy \X Nat)]
Call == [name : Request, object : RequestObject,
         stage : {"list", "namespace", "access", "done"},
         listed : [Policy -> PolicyObject], candidates : SUBSET Policy,
         usable : SUBSET Policy, denied : SUBSET Policy, outcome : Outcome]

-----------------------------------------------------------------------------
(***************************************************************************)
(* Users, the other controller and the API server.                         *)
(***************************************************************************)
Change ==
    /\ changes < MaxChanges
    /\ changes' = changes + 1

\* What has become of p is on its way to the informer.
PolicyEvent(p) == policyWatch' = Append(policyWatch, [name |-> p, object |-> policy'[p]])

StoreRequest(r, o) ==
    /\ request' = [request EXCEPT ![r] = o]
    /\ requestWatch' = Append(requestWatch, [name |-> r, object |-> o])

WritePolicy(p, s) ==
    /\ Change
    /\ specs' = [specs EXCEPT ![p] = Append(@, s)]
    /\ Policies!Write(p)
    /\ PolicyEvent(p)
    /\ UNCHANGED <<requests, request, accessVars, labelVars, late, policyCache,
                   requestWatch, requestCache, labelWatch, labelCache, queueVars,
                   calls, disruptions, granted, steady>>

DeletePolicy(p) ==
    /\ Change
    /\ UNCHANGED specs
    /\ Policies!Delete(p)
    /\ PolicyEvent(p)
    /\ UNCHANGED <<requests, request, accessVars, labelVars, late, policyCache,
                   requestWatch, requestCache, labelWatch, labelCache, queueVars,
                   calls, disruptions, granted, steady>>

\* The certificaterequestpolicies controller sets the Ready condition.  The
\* answers it rests on, which nobody sees before, are part of this step.
SetReady(p, ready, v) ==
    /\ Change
    /\ UNCHANGED specs
    /\ Policies!SetCondition(p, ready, v)
    /\ vetted' = IF ready THEN vetted \cup {<<p, v>>} ELSE vetted
    /\ PolicyEvent(p)
    /\ UNCHANGED <<requests, request, accessVars, labelVars, late, policyCache,
                   requestWatch, requestCache, labelWatch, labelCache, queueVars,
                   calls, disruptions, granted, steady>>

CreateRequest(r, q) ==
    /\ Change
    /\ request[r].uid = 0
    /\ requests' = [requests EXCEPT ![r] = Append(@, q)]
    /\ StoreRequest(r, [uid |-> Len(requests[r]) + 1, decision |-> NoDecision])
    /\ UNCHANGED <<specs, policy, accessVars, labelVars, late, policyWatch, policyCache,
                   requestCache, labelWatch, labelCache, queueVars, calls,
                   disruptions, historyVars>>

DeleteRequest(r) ==
    /\ Change
    /\ request[r].uid > 0
    /\ StoreRequest(r, NoRequest)
    /\ UNCHANGED <<specs, policy, requests, accessVars, labelVars, late, policyWatch,
                   policyCache, requestCache, labelWatch, labelCache, queueVars,
                   calls, disruptions, historyVars>>

\* The authorizer answers access reviews from informers of its own.
SetBound(B) ==
    /\ bound' = B
    /\ granted' = granted \cup B
    /\ IF PromptReviews
       THEN access' = B /\ UNCHANGED accessWatch
       ELSE accessWatch' = Append(accessWatch, B) /\ UNCHANGED access

\* The policies that have fitted the review in progress, and do with rights A.
StillBound(A) == {p \in steady : \A c \in calls : <<c.name, p>> \in A}

\* Altered: role bindings are not watched.
BindUnwatched(r, p) ==
    /\ Change
    /\ <<r, p>> \notin bound
    /\ SetBound(bound \cup {<<r, p>>})
    /\ UNCHANGED <<specs, policy, requests, request, labelVars, late, informerVars,
                   queueVars, calls, disruptions, vetted, steady>>

\* A role or binding changes; the metadata informer will have an event of it.
Bind(r, p) ==
    /\ Change
    /\ <<r, p>> \notin bound
    /\ SetBound(bound \cup {<<r, p>>})
    /\ sweeps' = sweeps + 1
    /\ UNCHANGED <<specs, policy, requests, request, labelVars, late, informerVars,
                   events, queue, timers, calls, disruptions, vetted, steady>>

Unbind(r, p) ==
    /\ Change
    /\ <<r, p>> \in bound
    /\ SetBound(bound \ {<<r, p>>})
    /\ steady' = StillBound(access')
    /\ sweeps' = sweeps + 1
    /\ UNCHANGED <<specs, policy, requests, request, labelVars, late, informerVars,
                   events, queue, timers, calls, disruptions, vetted>>

SyncAccess ==
    /\ accessWatch # <<>>
    /\ accessWatch' = Tail(accessWatch)
    /\ access' = Head(accessWatch)
    /\ steady' = StillBound(Head(accessWatch))
    /\ UNCHANGED <<specs, policy, requests, request, bound, labelVars, late,
                   informerVars, queueVars, calls, changes, disruptions, vetted,
                   granted>>

\* A namespace's labels change.  Two informers hear of it: the metadata
\* informer of Watches(Namespace, OnlyMetadata), whose event will sweep, and
\* the informer of whole Namespaces behind the lister's Get.
Relabel(n) ==
    LET new == IF n \in labelled THEN labelled \ {n} ELSE labelled \cup {n} IN
    /\ Change
    /\ labelled' = new
    /\ marked' = marked \cup {n}
    /\ labelWatch' = Append(labelWatch, new)
    /\ sweeps' = sweeps + 1
    /\ UNCHANGED <<specs, policy, requests, request, accessVars, late, policyWatch,
                   policyCache, requestWatch, requestCache, labelCache, events,
                   queue, timers, calls, disruptions, historyVars>>

-----------------------------------------------------------------------------
(***************************************************************************)
(* The predicates of pkg/internal/approver/manager/predicate, on a listed  *)
(* policy o of name p and a request r of uid u; and the evaluators.        *)
(***************************************************************************)
SpecOf(p, o) == specs[p][o.revision]

\* Ready: the condition's status alone counts, not the observed generation.
Ready(o) == o.revision > 0 /\ o.ready

SelectorIssuerRef(s, r, u) == requests[r][u].issuerRef \in s.issuerRef

SelectorNamespace(s, r, labels) ==
    /\ s.matchNames = {} \/ \E pattern \in s.matchNames : NamespaceOf[r] \in pattern
    /\ s.matchLabels => NamespaceOf[r] \in labels

\* Some evaluator answers ResultDenied.
Denies(s, r, u) == \E e \in Evaluator : requests[r][u].content \in s.denies[e]

\* Some evaluator returns an error, and will each time it is asked: the request
\* does not decode, or a plugin cannot make sense of it.
Errs(s, r, u) == requests[r][u].content \in s.errs

-----------------------------------------------------------------------------
(***************************************************************************)
(* controller-runtime: informers, handlers, work queue, process.           *)
(***************************************************************************)
Disrupt ==
    /\ disruptions < MaxDisruptions
    /\ disruptions' = disruptions + 1

\* Watches(CertificateRequestPolicy): every policy event will sweep.
SyncPolicy ==
    /\ policyWatch # <<>>
    /\ policyWatch' = Tail(policyWatch)
    /\ policyCache' = [policyCache EXCEPT ![Head(policyWatch).name] = Head(policyWatch).object]
    /\ sweeps' = sweeps + 1
    /\ UNCHANGED <<apiVars, requestWatch, requestCache, labelWatch, labelCache,
                   events, queue, timers, calls, changes, disruptions, historyVars>>

\* For(CertificateRequest) with its predicate: events of undecided requests
\* pass; the event of a deletion carries the object as it was.
SyncRequest ==
    LET r == Head(requestWatch).name
        new == Head(requestWatch).object
        seen == IF new.uid > 0 THEN new ELSE requestCache[r]
    IN
    /\ requestWatch # <<>>
    /\ requestWatch' = Tail(requestWatch)
    /\ requestCache' = [requestCache EXCEPT ![r] = new]
    /\ events' = IF Undecided(seen) THEN Append(events, r) ELSE events
    /\ UNCHANGED <<apiVars, policyWatch, policyCache, labelWatch, labelCache,
                   sweeps, queue, timers, calls, changes, disruptions, historyVars>>

SyncNamespace ==
    /\ labelWatch # <<>>
    /\ labelWatch' = Tail(labelWatch)
    /\ labelCache' = Head(labelWatch)
    /\ steady' = {p \in steady : \A c \in calls :
                     SelectorNamespace(SpecOf(p, c.listed[p]), c.name, Head(labelWatch))}
    /\ UNCHANGED <<apiVars, policyWatch, policyCache, requestWatch, requestCache,
                   queueVars, calls, changes, disruptions, vetted, granted>>

HandleRequest ==
    /\ events # <<>>
    /\ events' = Tail(events)
    /\ queue' = queue \cup {Head(events)}
    /\ UNCHANGED <<apiVars, informerVars, sweeps, timers, calls, changes,
                   disruptions, historyVars>>

\* enqueueRequestFromMapFunc: every undecided request of the cache.
Pending == {r \in Request : Undecided(requestCache[r])}

Sweep ==
    /\ sweeps > 0
    /\ sweeps' = sweeps - 1
    /\ queue' = queue \cup Pending
    /\ UNCHANGED <<apiVars, informerVars, events, timers, calls, changes,
                   disruptions, historyVars>>

\* The periodic resync hands every cached object to its handler again.
Resync ==
    /\ Disrupt
    /\ sweeps' = sweeps + 1
    /\ UNCHANGED <<apiVars, informerVars, events, queue, timers, calls, changes,
                   historyVars>>

\* The delay of an AddAfter or AddRateLimited has passed.
Expire(r) ==
    /\ r \in timers
    /\ timers' = timers \ {r}
    /\ queue' = queue \cup {r}
    /\ UNCHANGED <<apiVars, informerVars, sweeps, events, calls, changes,
                   disruptions, historyVars>>

-----------------------------------------------------------------------------
(***************************************************************************)
(* Reconcile and Review.                                                   *)
(***************************************************************************)
\* Altered: the queue hands out a name that is still being reconciled.
StartTwice(r) ==
    /\ r \in queue
    /\ queue' = queue \ {r}
    /\ calls' = calls \cup
          {[name |-> r, object |-> o, stage |-> "list",
            listed |-> [p \in Policy |-> NoPolicy], candidates |-> {}, usable |-> {},
            denied |-> {}, outcome |-> NoDecision] : o \in {requestCache[r]} \ {NoRequest}}
    /\ UNCHANGED <<apiVars, informerVars, sweeps, events, timers, changes,
                   disruptions, historyVars>>

\* The worker takes r and reads it from the cache; a request that is gone ends
\* the call, one that is already decided does not.
Start(r) ==
    /\ calls = {}
    /\ r \in queue
    /\ queue' = queue \ {r}
    /\ calls' = IF requestCache[r].uid = 0 THEN {}
                ELSE {[name |-> r, object |-> requestCache[r], stage |-> "list",
                       listed |-> [p \in Policy |-> NoPolicy], candidates |-> {},
                       usable |-> {}, denied |-> {}, outcome |-> NoDecision]}
    /\ UNCHANGED <<apiVars, informerVars, sweeps, events, timers, changes,
                   disruptions, historyVars>>

\* A step of the review in progress changes nothing but the call.
ReviewStep(d) ==
    /\ calls' = {d}
    /\ UNCHANGED <<apiVars, informerVars, queueVars, changes, disruptions, vetted, granted>>

\* Review lists the policies; Ready and SelectorIssuerRef need nothing else.
List ==
    \E c \in calls :
       LET r == c.name
           ready == {p \in Policy : Ready(policyCache[p])}
           kept == {p \in ready :
                       SelectorIssuerRef(SpecOf(p, policyCache[p]), r, c.object.uid)}
       IN
       /\ c.stage = "list"
       /\ ReviewStep([c EXCEPT !.stage = "namespace", !.listed = policyCache,
                                  !.candidates = kept])
       /\ steady' = {p \in kept :
                        /\ SelectorNamespace(SpecOf(p, policyCache[p]), r, labelCache)
                        /\ <<r, p>> \in access}

\* Altered: the namespace selector is not applied.
FilterNothing ==
    \E c \in calls :
       /\ c.stage = "namespace"
       /\ ReviewStep([c EXCEPT !.stage = "access"])
       /\ UNCHANGED steady

\* SelectorNamespace gets the request's namespace from the cache.
FilterNamespace ==
    \E c \in calls :
       /\ c.stage = "namespace"
       /\ ReviewStep([c EXCEPT !.stage = "access",
             !.candidates = {p \in @ : SelectorNamespace(SpecOf(p, c.listed[p]), c.name, labelCache)}])
       /\ UNCHANGED steady

\* Altered: the answer is not looked at.
ReviewAccessIgnored(p) ==
    \E c \in calls :
       /\ c.stage = "access"
       /\ p \in c.candidates
       /\ ReviewStep([c EXCEPT !.candidates = @ \ {p}, !.usable = @ \cup {p}])
       /\ UNCHANGED steady

\* RBACBound: the authorizer's answer to the SubjectAccessReview for p.
ReviewAccess(p) ==
    \E c \in calls :
       /\ c.stage = "access"
       /\ p \in c.candidates
       /\ ReviewStep([c EXCEPT !.candidates = @ \ {p},
             !.usable = IF <<c.name, p>> \in access THEN @ \cup {p} ELSE @])
       /\ UNCHANGED steady

Named(c, S) == {<<p, c.listed[p].revision>> : p \in S}
Ended(c, result, S) ==
    [c EXCEPT !.stage = "done", !.denied = {}, !.usable = {},
              !.outcome = [result |-> result, of |-> c.object.uid, by |-> Named(c, S)]]

\* Altered: the first policy decides.
EvaluateFirst(p) ==
    \E c \in calls :
       /\ c.stage = "access"
       /\ c.candidates = {}
       /\ p \in c.usable
       /\ ReviewStep(Ended(c, IF Denies(SpecOf(p, c.listed[p]), c.name, c.object.uid)
                              THEN "Denied" ELSE "Approved", {p}))
       /\ UNCHANGED steady

\* Altered: a policy that cannot be evaluated is passed over as one that denies.
EvaluateOrDeny(p) ==
    \E c \in calls :
       LET denied == c.denied \cup {p} IN
       /\ c.stage = "access"
       /\ c.candidates = {}
       /\ p \in c.usable
       /\ ReviewStep(
             IF /\ ~Denies(SpecOf(p, c.listed[p]), c.name, c.object.uid)
                /\ ~Errs(SpecOf(p, c.listed[p]), c.name, c.object.uid)
             THEN Ended(c, "Approved", {p})
             ELSE IF c.usable = {p}
             THEN Ended(c, "Denied", denied)
             ELSE [c EXCEPT !.usable = @ \ {p}, !.denied = denied])
       /\ UNCHANGED steady

\* All evaluators are run on p, in the order of an unordered list.  The first
\* policy none of them denies approves; when all have denied, so does Review.
Evaluate(p) ==
    \E c \in calls :
       LET denied == c.denied \cup {p} IN
       /\ c.stage = "access"
       /\ c.candidates = {}
       /\ p \in c.usable
       /\ ~Errs(SpecOf(p, c.listed[p]), c.name, c.object.uid)
       /\ ReviewStep(
             IF ~Denies(SpecOf(p, c.listed[p]), c.name, c.object.uid)
             THEN Ended(c, "Approved", {p})
             ELSE IF c.usable = {p}
             THEN Ended(c, "Denied", denied)
             ELSE [c EXCEPT !.usable = @ \ {p}, !.denied = denied])
       /\ UNCHANGED steady

\* No policy exists, or none passed the predicates.
NotApplicable ==
    \E c \in calls :
       /\ c.stage = "access"
       /\ c.candidates = {} /\ c.usable = {} /\ c.denied = {}
       /\ ReviewStep(Ended(c, "Unprocessed", {}))
       /\ UNCHANGED steady

\* ResultUnprocessed: no patch and no requeue.
Leave ==
    \E c \in calls :
       /\ c.stage = "done"
       /\ c.outcome.result = "Unprocessed"
       /\ calls' = {} /\ steady' = {}
       /\ UNCHANGED <<apiVars, informerVars, queueVars, changes, disruptions, vetted, granted>>

\* cert-manager's webhook on the status of requests: a condition that is set
\* may not be changed.
Admits(old, decision) == old.uid > 0 /\ old.decision.result = "None"

\* An apply of the same condition in the same second changes nothing.
Unchanging(old, decision) ==
    old.decision.result = decision.result /\ old.decision.by = decision.by

\* A forced apply of the decision d, and of nothing else, by name.
ApplyStatus(r, d) ==
    IF Admits(request[r], d)
    THEN StoreRequest(r, [request[r] EXCEPT !.decision = d])
    ELSE UNCHANGED <<request, requestWatch>>

\* Status().Patch; an error adds the name with a backoff.
Patch ==
    \E c \in calls :
       /\ c.stage = "done"
       /\ c.outcome.result # "Unprocessed"
       /\ calls' = {} /\ steady' = {}
       /\ ApplyStatus(c.name, c.outcome)
       /\ \/ /\ Admits(request[c.name], c.outcome) \/ Unchanging(request[c.name], c.outcome)
             /\ UNCHANGED timers
          \/ /\ ~Admits(request[c.name], c.outcome)
             /\ timers' = timers \cup {c.name}
       /\ UNCHANGED <<specs, policy, requests, accessVars, labelVars, late, policyWatch,
                      policyCache, requestCache, labelWatch, labelCache, sweeps,
                      events, queue, changes, disruptions, vetted, granted>>

\* Altered: the error is reported as an event and nil is returned.
FailSilently ==
    /\ Disrupt
    /\ calls # {}
    /\ calls' = {} /\ steady' = {}
    /\ UNCHANGED <<apiVars, informerVars, queueVars, changes, vetted, granted>>

\* The next policy is one that an evaluator cannot evaluate.
EvaluatorErrs ==
    \E c \in calls :
       /\ c.stage = "access"
       /\ c.candidates = {}
       /\ \E p \in c.usable : Errs(SpecOf(p, c.listed[p]), c.name, c.object.uid)

\* Get, List, a predicate, an evaluator or the Patch fails, for once or because
\* of the request: Reconcile returns the error, whatever other policies have
\* said, and the name is added again with a backoff.
Fail ==
    /\ \/ Disrupt
       \/ EvaluatorErrs /\ UNCHANGED disruptions
    /\ calls # {}
    /\ calls' = {} /\ steady' = {}
    /\ timers' = timers \cup {c.name : c \in calls}
    /\ UNCHANGED <<apiVars, informerVars, sweeps, events, queue, changes, vetted, granted>>

-----------------------------------------------------------------------------
(***************************************************************************)
(* The process and its successor.                                          *)
(***************************************************************************)
\* The process stops anywhere (enqueueRequestFromMapFunc exits it when List
\* fails), and it or another replica that has become the leader starts:
\* informers list the API server, all objects are Add events.  A patch that
\* was being sent may still be on its way.
Restart ==
    /\ Disrupt
    /\ \E S \in SUBSET {c \in calls : c.stage = "done" /\ c.outcome.result # "Unprocessed"} :
          late' = late \cup {[name |-> c.name, decision |-> c.outcome] : c \in S}
    /\ policyWatch' = <<>> /\ policyCache' = policy
    /\ requestWatch' = <<>> /\ requestCache' = request
    /\ labelWatch' = <<>> /\ labelCache' = labelled
    /\ sweeps' = 1
    /\ events' = <<>>
    /\ queue' = {r \in Request : Undecided(request[r])}
    /\ timers' = {}
    /\ calls' = {} /\ steady' = {}
    /\ UNCHANGED <<specs, policy, requests, request, accessVars, labelVars, changes,
                   vetted, granted>>

\* A former leader's patch arrives: nobody waits for the answer.
LatePatch ==
    \E d \in late :
       /\ late' = late \ {d}
       /\ ApplyStatus(d.name, d.decision)
       /\ UNCHANGED <<specs, policy, requests, accessVars, labelVars, policyWatch,
                      policyCache, requestCache, labelWatch, labelCache, queueVars,
                      calls, changes, disruptions, historyVars>>

-----------------------------------------------------------------------------
(***************************************************************************)
(* The controller starts in a cluster that is in use: policies, of one     *)
(* revision, and requests may be there already.                            *)
(***************************************************************************)
Init ==
    /\ specs \in [Policy -> {<<>>} \cup {<<s>> : s \in PolicySpec}]
    /\ policy \in [Policy -> {NoPolicy} \cup [revision : {1}, ready : BOOLEAN, observed : {1}]]
    /\ \A p \in Policy : policy[p].revision = Len(specs[p])
    /\ requests \in [Request -> {<<>>} \cup {<<q>> : q \in RequestSpec}]
    /\ request = [r \in Request |-> [uid |-> Len(requests[r]), decision |-> NoDecision]]
    /\ bound \in SUBSET (Request \X Policy)
    /\ accessWatch = <<>> /\ access = bound
    /\ labelled \in SUBSET Namespace /\ marked = labelled
    /\ late = {}
    /\ policyWatch = <<>> /\ policyCache = policy
    /\ requestWatch = <<>> /\ requestCache = request
    /\ labelWatch = <<>> /\ labelCache = labelled
    /\ sweeps = 0
    /\ events = <<>>
    /\ queue = {r \in Request : Undecided(request[r])}
    /\ timers = {}
    /\ calls = {}
    /\ changes = 0
    /\ disruptions = 0
    /\ vetted = {<<p, 1>> : p \in {q \in Policy : policy[q].ready}}
    /\ granted = bound
    /\ steady = {}

Next ==
    \/ \E p \in Policy : \/ \E s \in PolicySpec : WritePolicy(p, s)
                         \/ DeletePolicy(p)
                         \/ \E ready \in BOOLEAN, v \in 1 .. Len(specs[p]) : SetReady(p, ready, v)
                         \/ \E r \in Request : Bind(r, p) \/ Unbind(r, p)
                         \/ ReviewAccess(p)
                         \/ Evaluate(p)
    \/ \E r \in Request : \/ \E q \in RequestSpec : CreateRequest(r, q)
                          \/ DeleteRequest(r)
                          \/ Expire(r)
                          \/ Start(r)
    \/ \E n \in Namespace : Relabel(n)
    \/ SyncAccess \/ SyncPolicy \/ SyncRequest \/ SyncNamespace
    \/ HandleRequest \/ Sweep \/ Resync \/ Restart \/ LatePatch
    \/ List \/ FilterNamespace \/ NotApplicable \/ Leave \/ Patch \/ Fail

Spec == Init /\ [][Next]_vars

(***************************************************************************)
(* Fairness: as for the other controller, the goroutines of informers and  *)
(* handlers run while they have work, timers expire, a call in progress    *)
(* goes on, and the first-in-first-out queue starves no name.              *)
(***************************************************************************)
Fairness ==
    /\ WF_vars(SyncAccess)
    /\ WF_vars(SyncPolicy) /\ WF_vars(SyncRequest) /\ WF_vars(SyncNamespace)
    /\ WF_vars(HandleRequest) /\ WF_vars(Sweep)
    /\ \A r \in Request : WF_vars(Expire(r)) /\ SF_vars(Start(r))
    /\ WF_vars(List) /\ WF_vars(FilterNamespace) /\ WF_vars(NotApplicable)
    /\ WF_vars(\E p \in Policy : ReviewAccess(p) \/ Evaluate(p))
    /\ WF_vars(Leave) /\ WF_vars(Patch) /\ WF_vars(Fail /\ UNCHANGED disruptions)

FairSpec == Spec /\ Fairness

-----------------------------------------------------------------------------
(***************************************************************************)
(* Properties.                                                             *)
(***************************************************************************)
\* Every variable has its type; one worker means one Reconcile call at most.
TypeOK ==
    /\ specs \in [Policy -> Seq(PolicySpec)]
    /\ policy \in [Policy -> PolicyObject]
    /\ requests \in [Request -> Seq(RequestSpec)]
    /\ request \in [Request -> RequestObject]
    /\ bound \subseteq Request \X Policy
    /\ accessWatch \in Seq(SUBSET (Request \X Policy))
    /\ access \subseteq Request \X Policy
    /\ labelled \subseteq Namespace
    /\ marked \subseteq Namespace
    /\ late \subseteq [name : Request, decision : Decision]
    /\ policyWatch \in Seq([name : Policy, object : PolicyObject])
    /\ policyCache \in [Policy -> PolicyObject]
    /\ requestWatch \in Seq([name : Request, object : RequestObject])
    /\ requestCache \in [Request -> RequestObject]
    /\ labelWatch \in Seq(SUBSET Namespace)
    /\ labelCache \subseteq Namespace
    /\ sweeps \in Nat
    /\ events \in Seq(Request)
    /\ queue \subseteq Request
    /\ timers \subseteq Request
    /\ calls \subseteq Call
    /\ \A c, d \in calls : c = d
    /\ changes \in Nat
    /\ disruptions \in Nat
    /\ vetted \subseteq Policy \X Nat
    /\ granted \subseteq Request \X Policy
    /\ steady \subseteq Policy

Promise == INSTANCE Approval

\* Review and Reconcile: every decision names policies that were consultable
\* (ready, the user bound, issuer and namespace selected), and for a request of
\* that name; an approval names one whose spec denies nothing of the request, a
\* denial only policies that deny it, and at least one.  It holds however writes fall between Get, List, access reviews,
\* evaluation and Patch, and whichever replica's patch arrives first.
DecisionJustified ==
    \A r \in Request : \/ request[r].decision.result = "None"
                       \/ Promise!Justified(r, request[r].decision)

\* Reconcile, Review and cert-manager's webhook together: to those who see only
\* objects and not the caches, queue and reviews behind them, each decision is
\* one step that Approval allows, and no decision is changed or withdrawn.
ImplementsApproval == Promise!Spec

\* Review: a policy that was listed and has fitted ever since (its user bound,
\* for all the authorizer knows, the cached namespace selected) is not
\* overlooked.  A request is left unprocessed only without such a policy, and
\* denied only if all of them deny: one that cannot be evaluated keeps it
\* undecided, although others have denied.
NoSteadyPolicyMissed ==
    \A c \in calls :
       c.stage = "done" =>
          /\ c.outcome.result = "Unprocessed" => steady = {}
          /\ c.outcome.result = "Denied" =>
                \A p \in steady :
                   /\ Denies(SpecOf(p, c.listed[p]), c.name, c.object.uid)
                   /\ ~Errs(SpecOf(p, c.listed[p]), c.name, c.object.uid)

(***************************************************************************)
(* Why they hold: the inductive invariant behind them.                     *)
(***************************************************************************)
\* Whatever is stored, cached or on its way refers to what was written: a
\* policy's ready condition to a revision, no newer than the policy's, that
\* was reported ready, a request to one that was created.
Reported(p, o) ==
    /\ o.revision <= Len(specs[p])
    /\ o.ready => o.observed \in 1 .. o.revision /\ <<p, o.observed>> \in vetted

PoliciesReported ==
    /\ \A p \in Policy : /\ policy[p].revision \in {0, Len(specs[p])}
                         /\ Reported(p, policy[p])
                         /\ Reported(p, policyCache[p])
    /\ \A k \in 1 .. Len(policyWatch) : Reported(policyWatch[k].name, policyWatch[k].object)

RequestsCreated ==
    /\ \A r \in Request : /\ \/ request[r] = NoRequest
                             \/ request[r].uid > 0 /\ request[r].uid = Len(requests[r])
                          /\ requestCache[r].uid <= Len(requests[r])
    /\ \A k \in 1 .. Len(requestWatch) :
          requestWatch[k].object.uid <= Len(requests[requestWatch[k].name])

\* The authorizer, however late, answers from rights that were given.
AccessGranted ==
    /\ bound \subseteq granted /\ access \subseteq granted
    /\ \A k \in 1 .. Len(accessWatch) : accessWatch[k] \subseteq granted
    /\ PromptReviews => access = bound /\ accessWatch = <<>>

\* Namespaces that have the label, for all the API server, the informer or its
\* cache know, have had it.
LabelsMarked ==
    /\ labelled \subseteq marked /\ labelCache \subseteq marked
    /\ \A k \in 1 .. Len(labelWatch) : labelWatch[k] \subseteq marked

\* A policy in a review was ready and selects the issuer; once the namespace was
\* looked at, it selects that too; one that is usable was granted; one that
\* denied denies.  The outcome is a justified decision.
CallSound(c) ==
    /\ c.object.uid \in 1 .. Len(requests[c.name])
    /\ c.stage \in {"list", "namespace"} => c.usable = {} /\ c.denied = {}
    /\ \A p \in c.candidates \cup c.usable \cup c.denied :
          /\ Ready(c.listed[p]) /\ Reported(p, c.listed[p])
          /\ SelectorIssuerRef(SpecOf(p, c.listed[p]), c.name, c.object.uid)
    /\ c.stage # "namespace" =>
          \A p \in c.candidates \cup c.usable \cup c.denied :
             SelectorNamespace(SpecOf(p, c.listed[p]), c.name, marked)
    /\ \A p \in c.usable \cup c.denied : <<c.name, p>> \in granted
    /\ \A p \in c.denied : /\ Denies(SpecOf(p, c.listed[p]), c.name, c.object.uid)
                           /\ ~Errs(SpecOf(p, c.listed[p]), c.name, c.object.uid)
    /\ c.stage = "done" /\ c.outcome.result # "Unprocessed" =>
          Promise!Justified(c.name, c.outcome)

ReviewSound ==
    /\ \A c \in calls : CallSound(c)
    /\ \A d \in late : Promise!Justified(d.name, d.decision)

\* Policies that have fitted since they were listed are still in the review.
SteadyIn(c) ==
    /\ c.stage = "list" => steady = {}
    /\ \A p \in steady :
          /\ Ready(c.listed[p]) /\ Reported(p, c.listed[p])
          /\ SelectorNamespace(SpecOf(p, c.listed[p]), c.name, labelCache)
          /\ <<c.name, p>> \in access
    /\ c.stage \in {"namespace", "access"} =>
          steady \subseteq c.candidates \cup c.usable \cup c.denied

SteadyInReview ==
    /\ calls = {} => steady = {}
    /\ \A c \in calls : SteadyIn(c)

IInv ==
    /\ TypeOK /\ PoliciesReported /\ RequestsCreated /\ AccessGranted
    /\ LabelsMarked /\ ReviewSound /\ DecisionJustified
    /\ SteadyInReview /\ NoSteadyPolicyMissed

\* Nothing is left to do: informers, handlers, queue, timers and worker.
Quiet ==
    /\ accessWatch = <<>>
    /\ policyWatch = <<>> /\ requestWatch = <<>> /\ labelWatch = <<>>
    /\ sweeps = 0 /\ events = <<>> /\ queue = {} /\ timers = {} /\ calls = {}

\* As things stand on the API server, p applies to r; some policy does.
Applies(p, r) ==
    /\ Ready(policy[p])
    /\ SelectorIssuerRef(SpecOf(p, policy[p]), r, request[r].uid)
    /\ SelectorNamespace(SpecOf(p, policy[p]), r, labelled)
    /\ <<r, p>> \in bound

Applicable(r) == \E p \in Policy : Applies(p, r)

\* No lost wake-up: when the controller has nothing left to do, no request is
\* undecided to which a policy applies.  Each change that can make a policy
\* apply must have led to a review that saw it.
QuietMeansDecided ==
    Quiet => \A r \in Request : Undecided(request[r]) => ~Applicable(r)

(***************************************************************************)
(* Why no wake-up is lost: the inductive invariant behind it.  It holds    *)
(* where no selector asks for labels and access reviews are prompt.        *)
(***************************************************************************)
\* The last change on its way to a cache is what the API server stores; when
\* none is on its way, the cache is up to date.
CatchesUp(watch, cache, stored, name) ==
    /\ (\A k \in 1 .. Len(watch) : watch[k].name # name) => cache[name] = stored[name]
    /\ \A k \in 1 .. Len(watch) :
          watch[k].name = name /\ (\A j \in k + 1 .. Len(watch) : watch[j].name # name)
             => watch[k].object = stored[name]

CachesCatchUp ==
    /\ \A p \in Policy : CatchesUp(policyWatch, policyCache, policy, p)
    /\ \A r \in Request : CatchesUp(requestWatch, requestCache, request, r)

\* The name r will be reconciled, or all undecided requests will, once p is in
\* the cache.
Awaited(r, p) ==
    \/ \E k \in 1 .. Len(requestWatch) : requestWatch[k].name = r
    \/ \E k \in 1 .. Len(events) : events[k] = r
    \/ r \in queue \cup timers
    \/ \E k \in 1 .. Len(policyWatch) : policyWatch[k].name = p
    \/ sweeps > 0

\* The call read the stored request and will list the policies, or has p, as
\* it is stored, in the review, or has a decision.
OnCourse(c, p) ==
    /\ c.object.uid = request[c.name].uid
    /\ \/ c.stage = "list"
       \/ /\ c.stage \in {"namespace", "access"}
          /\ c.listed[p] = policy[p]
          /\ p \in c.candidates \cup c.usable \cup c.denied
       \/ c.stage = "done" /\ c.outcome.result # "Unprocessed"

\* Reconcile: an undecided request to which a policy applies is being reviewed
\* with that policy, or a change that leads to such a review is still held.
ReviewKept ==
    \A r \in Request, p \in Policy :
       Undecided(request[r]) /\ Applies(p, r) =>
          Awaited(r, p) \/ \E c \in calls : c.name = r /\ OnCourse(c, p)

\* Reconcile and its informers: caches catch up, and no request that a policy
\* could decide is dropped on its way from a watch to a review with that policy.
WakeUpInv == CachesCatchUp /\ ReviewKept

\* No policy that applies to r is one that an evaluator cannot evaluate.
Evaluable(r) ==
    \A p \in Policy : Applies(p, r) => ~Errs(SpecOf(p, policy[p]), r, request[r].uid)

\* Reconcile, its retries and its successor: a request that stays, and to which
\* from some time on some policy applies and none that cannot be evaluated, is
\* decided, itself and not another of its name, although calls fail and a
\* replica takes over.
EventuallyDecided ==
    \A r \in Request :
       <>[](request[r].uid > 0 /\ Applicable(r) /\ Evaluable(r)) =>
          <>[](request[r].decision.result # "None")

\* certificaterequestpolicies.go: "CertificateRequestPolicies that are not in a
\* Ready state will not be used to evaluate", Ready meaning that the policy,
\* "and all configuration including plugin options are accepted".
OnlyReadySpecsEvaluated ==
    \A c \in calls : c.outcome.by \subseteq vetted
=============================================================================
