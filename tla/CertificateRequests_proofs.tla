--------------------- MODULE CertificateRequests_proofs ---------------------
(***************************************************************************)
(* Theorems about the certificaterequests controller and Review, for any   *)
(* requests, policies, specs, namespaces and evaluators and any bounds.    *)
(***************************************************************************)
EXTENDS CertificateRequests_store, CertificateRequests_review

\* An optional element is a sequence.
LEMMA AtMostOne ==
    ASSUME NEW S, NEW s \in {<<>>} \cup {<<e>> : e \in S}
    PROVE  s \in Seq(S) /\ Len(s) \in Nat
<1>1. CASE s = <<>>
  BY <1>1
<1>2. ASSUME NEW e \in S, s = <<e>> PROVE s \in Seq(S)
  BY <1>2
<1>3. s \in Seq(S)
  BY <1>1, <1>2, Zenon
<1>. QED
  BY <1>3

\* A cluster that is in use satisfies the invariant: reports are of revision 1.
LEMMA InitIInv == Init => IInv
<1> SUFFICES ASSUME Init PROVE IInv
  OBVIOUS
<1>1. ASSUME NEW p \in Policy
      PROVE  /\ specs[p] \in Seq(PolicySpec) /\ policy[p] \in PolicyObject
             /\ policy[p].revision = Len(specs[p]) /\ Reported(p, policy[p])
  <2>1. specs[p] \in {<<>>} \cup {<<s>> : s \in PolicySpec}
    BY SMTT(30) DEF Init
  <2>2. policy[p] \in {NoPolicy} \cup [revision : {1}, ready : BOOLEAN, observed : {1}]
    BY DEF Init
  <2>3. specs[p] \in Seq(PolicySpec) /\ Len(specs[p]) \in Nat
    BY <2>1, AtMostOne, ZenonT(30)
  <2>4. policy[p].revision = Len(specs[p])
    BY DEF Init
  <2>5. CASE policy[p] = NoPolicy
    <3>1. ~policy[p].ready
      BY <2>5 DEF NoPolicy, Policies!NoPolicy
    <3>. QED
      BY <2>3, <2>4, <2>5, <3>1, ObjectTypes, SMTT(30) DEF Reported
  <2>6. CASE policy[p] \in [revision : {1}, ready : BOOLEAN, observed : {1}]
    <3>1. /\ policy[p] \in PolicyObject /\ policy[p].revision = 1 /\ policy[p].observed = 1
          /\ policy[p].ready \in BOOLEAN
      BY <2>6 DEF PolicyObject, Policies!PolicyObject
    <3>2. policy[p].ready => <<p, 1>> \in vetted
      BY Zenon DEF Init
    <3>. QED
      BY <2>3, <2>4, <3>1, <3>2 DEF Reported
  <2>. QED
    BY <2>2, <2>5, <2>6, SMTT(30)
<1>2. ASSUME NEW r \in Request
      PROVE  /\ requests[r] \in Seq(RequestSpec) /\ request[r] \in RequestObject
             /\ request[r].uid = Len(requests[r]) /\ request[r].decision = NoDecision
             /\ request[r].uid \in Nat
             /\ request[r] = NoRequest \/ request[r].uid > 0
  <2>1. requests[r] \in {<<>>} \cup {<<q>> : q \in RequestSpec}
    BY Zenon DEF Init
  <2>2. requests[r] \in Seq(RequestSpec) /\ Len(requests[r]) \in Nat
    BY <2>1, AtMostOne, ZenonT(30)
  <2>3. request[r] = [uid |-> Len(requests[r]), decision |-> NoDecision]
    BY DEF Init
  <2>. QED
    BY <2>2, <2>3, ObjectTypes, SMTT(30) DEF RequestObject, NoRequest
<1>3. TypeOK
  <2>1. /\ specs \in [Policy -> Seq(PolicySpec)] /\ policy \in [Policy -> PolicyObject]
    <3>1. DOMAIN specs = Policy /\ specs = [p \in Policy |-> specs[p]]
      BY SMTT(30) DEF Init
    <3>2. policy = [p \in Policy |-> policy[p]]
      BY DEF Init
    <3>. QED
      BY <1>1, <3>1, <3>2, SMTT(30)
  <2>2. /\ requests \in [Request -> Seq(RequestSpec)] /\ request \in [Request -> RequestObject]
    <3>1. requests = [r \in Request |-> requests[r]]
      BY SMTT(30) DEF Init
    <3>2. request = [r \in Request |-> request[r]]
      BY DEF Init
    <3>. QED
      BY <1>2, <3>1, <3>2, SMTT(30)
  <2>3. /\ bound \subseteq Request \X Policy /\ access \subseteq Request \X Policy
        /\ granted \subseteq Request \X Policy /\ labelled \subseteq Namespace
        /\ marked \subseteq Namespace
        /\ labelCache \subseteq Namespace /\ late \subseteq [name : Request, decision : Decision]
        /\ queue \subseteq Request /\ timers \subseteq Request /\ calls \subseteq Call
        /\ steady \subseteq Policy /\ \A c, d \in calls : c = d
    BY ZenonT(30) DEF Init
  <2>4. /\ sweeps \in Nat /\ changes \in Nat /\ disruptions \in Nat /\ vetted \subseteq Policy \X Nat
    BY SMTT(30) DEF Init
  <2>5. /\ accessWatch \in Seq(SUBSET (Request \X Policy))
        /\ policyWatch \in Seq([name : Policy, object : PolicyObject])
        /\ requestWatch \in Seq([name : Request, object : RequestObject])
        /\ labelWatch \in Seq(SUBSET Namespace) /\ events \in Seq(Request)
    BY SMTT(30) DEF Init
  <2>6. policyCache = policy /\ requestCache = request
    BY DEF Init
  <2>. QED
    BY <2>1, <2>2, <2>3, <2>4, <2>5, <2>6, Zenon DEF TypeOK
<1>4. PoliciesReported
  <2>1. policyCache = policy /\ 1 .. Len(policyWatch) = {}
    BY DEF Init
  <2>. QED
    BY <1>1, <2>1, ZenonT(30) DEF PoliciesReported
<1>5. RequestsCreated
  <2>1. requestCache = request /\ 1 .. Len(requestWatch) = {}
    BY SMTT(30) DEF Init
  <2>2. \A r \in Request : request[r].uid <= Len(requests[r])
    BY <1>2
  <2>. QED
    BY <1>2, <2>1, <2>2, ZenonT(30) DEF RequestsCreated
<1>6. AccessGranted
  <2>1. accessWatch = <<>> /\ 1 .. Len(accessWatch) = {} /\ access = bound /\ granted = bound
    BY SMTT(30) DEF Init
  <2>. QED
    BY <2>1, ZenonT(30) DEF AccessGranted
<1>6a. LabelsMarked
  <2>1. marked = labelled /\ labelCache = labelled /\ 1 .. Len(labelWatch) = {}
    BY SMTT(30) DEF Init
  <2>. QED
    BY <2>1, ZenonT(30) DEF LabelsMarked
<1>7. DecisionJustified
  BY <1>2 DEF DecisionJustified, NoDecision
<1>8. ReviewSound /\ SteadyInReview /\ NoSteadyPolicyMissed
  BY Zenon DEF Init, ReviewSound, SteadyInReview, NoSteadyPolicyMissed
<1>. QED
  BY <1>3, <1>4, <1>5, <1>6, <1>6a, <1>7, <1>8 DEF IInv

\* The invariant is preserved: its conjuncts have been treated one by one.
LEMMA StepIInv == IInv /\ [Next]_vars => IInv'
BY TypeStep, PoliciesStep, RequestsStep, AccessStep, LabelsStep, ReviewSoundStep, DecisionStep,
   SteadyStep, Zenon DEF IInv

\* Controller, informers, work queue and API server: the invariant is inductive.
THEOREM Invariance == Spec => []IInv
BY InitIInv, StepIInv, PTL DEF Spec

\* Every variable keeps its type, and there is one Reconcile call at most.
THEOREM TypeCorrect == Spec => []TypeOK
<1>1. IInv => TypeOK
  BY DEF IInv
<1>. QED
  BY Invariance, <1>1, PTL

\* Review and Reconcile: no decision stands on a request but one that policies
\* justify which selected its issuer and its namespace, could be evaluated, were
\* usable and had been reported ready, whatever happened between reading and writing.
THEOREM DecisionsJustified == Spec => []DecisionJustified
<1>1. IInv => DecisionJustified
  BY DEF IInv
<1>. QED
  BY Invariance, <1>1, PTL

\* Review: a policy that fitted throughout is not overlooked, neither when a
\* request is left unprocessed nor when it is denied.
THEOREM SteadyNotMissed == Spec => []NoSteadyPolicyMissed
<1>1. IInv => NoSteadyPolicyMissed
  BY DEF IInv
<1>. QED
  BY Invariance, <1>1, PTL

-----------------------------------------------------------------------------
\* Refinement: every step is a step of Approval, or none.
LEMMA ApprovalInit == Init => Promise!Init
<1> SUFFICES ASSUME Init PROVE Promise!Init
  OBVIOUS
<1>1. TypeOK
  BY InitIInv, SMTT(30) DEF IInv
<1>2. ASSUME NEW r \in Request
      PROVE  request[r].uid \in {0, Len(requests[r])} /\ request[r].decision.result = "None"
  <2>1. request[r] = [uid |-> Len(requests[r]), decision |-> NoDecision]
    BY DEF Init
  <2>. QED
    BY <2>1 DEF NoDecision
<1>. QED
  BY <1>1, <1>2, Zenon DEF TypeOK, Promise!Init

\* A forced apply of a justified decision decides, or changes nothing.
LEMMA ApplyDecides ==
    ASSUME IInv, NEW r \in Request, NEW d \in Decision, ApplyStatus(r, d), Promise!Justified(r, d),
           UNCHANGED <<specs, requests, vetted, granted, marked>>
    PROVE  UNCHANGED request \/ Promise!Decide(r)
<1>0. TypeOK
  BY DEF IInv
<1>1. CASE Admits(request[r], d)
  <2>1. request' = [request EXCEPT ![r] = [request[r] EXCEPT !.decision = d]]
    BY <1>1, Zenon DEF ApplyStatus, StoreRequest
  <2>2. request[r] \in RequestObject /\ request'[r] = [request[r] EXCEPT !.decision = d]
    BY <1>0, <2>1 DEF TypeOK
  <2>3. request'[r].decision = d
    BY <2>2 DEF RequestObject
  <2>4. request' = [request EXCEPT ![r].decision = request'[r].decision]
    BY <2>1, <2>3, Zenon
  <2>5. request[r].uid > 0 /\ request[r].decision.result = "None"
    BY <1>1 DEF Admits
  <2>6. Promise!Justified(r, request'[r].decision)
    BY <2>3
  <2>. QED
    BY <2>4, <2>5, <2>6, Zenon DEF Promise!Decide
<1>. QED
  BY <1>1, Zenon DEF ApplyStatus

\* Each step of the controller is a step of Approval, or none.
LEMMA ApprovalStep == IInv /\ [Next]_vars => Promise!Next \/ UNCHANGED Promise!vars
<1> SUFFICES ASSUME IInv, [Next]_vars PROVE Promise!Next \/ UNCHANGED Promise!vars
  OBVIOUS
<1>0. TypeOK /\ RequestsCreated /\ AccessGranted /\ ReviewSound
  BY DEF IInv
<1>1. CASE UNCHANGED <<specs, requests, request, vetted, granted, marked>>
  BY <1>1 DEF Promise!vars
<1>1a. ASSUME NEW n \in Namespace, Relabel(n) PROVE Promise!Next
  <2>1. Promise!Mark(n)
    BY <1>1a, Zenon DEF Relabel, historyVars, Promise!Mark
  <2>. QED
    BY <2>1, Zenon DEF Promise!Next
<1> SUFFICES ASSUME UNCHANGED marked PROVE Promise!Next \/ UNCHANGED Promise!vars
  BY <1>1a, LabelCases, Zenon DEF labelVars
<1>2. ASSUME NEW p \in Policy, NEW s \in PolicySpec, WritePolicy(p, s) PROVE Promise!Next
  <2>1. Promise!Write(p, s)
    BY <1>2, Zenon DEF WritePolicy, Policies!Write, Promise!Write
  <2>. QED
    BY <2>1, Zenon DEF Promise!Next
<1>3. ASSUME NEW p \in Policy, NEW ready \in BOOLEAN, NEW v \in 1 .. Len(specs[p]),
             SetReady(p, ready, v)
      PROVE  Promise!Next \/ UNCHANGED <<specs, requests, request, vetted, granted, marked>>
  <2>1. UNCHANGED <<specs, requests, request, granted>>
    BY <1>3, Zenon DEF SetReady
  <2>2. CASE ready
    <3>1. Promise!Vet(p, v)
      BY <1>3, <2>1, <2>2, Zenon DEF SetReady, Promise!Vet
    <3>. QED
      BY <3>1, Zenon DEF Promise!Next
  <2>3. CASE ~ready
    BY <1>3, <2>1, <2>3, Zenon DEF SetReady
  <2>. QED
    BY <2>2, <2>3
<1>4. ASSUME NEW r \in Request, NEW p \in Policy, Bind(r, p) PROVE Promise!Next
  <2>1. /\ UNCHANGED <<specs, requests, request, vetted>>
        /\ granted' = granted \cup (bound \cup {<<r, p>>})
    BY <1>4, Zenon DEF Bind, SetBound
  <2>2. granted' = granted \cup {<<r, p>>}
    BY <1>0, <2>1 DEF AccessGranted
  <2>3. Promise!Grant(r, p)
    BY <2>1, <2>2 DEF Promise!Grant
  <2>. QED
    BY <2>3, Zenon DEF Promise!Next
<1>5. ASSUME NEW r \in Request, NEW p \in Policy, Unbind(r, p)
      PROVE  UNCHANGED <<specs, requests, request, vetted, granted, marked>>
  <2>1. /\ UNCHANGED <<specs, requests, request, vetted>>
        /\ granted' = granted \cup (bound \ {<<r, p>>})
    BY <1>5, Zenon DEF Unbind, SetBound
  <2>. QED
    BY <1>0, <2>1 DEF AccessGranted
<1>6. ASSUME NEW r \in Request, NEW q \in RequestSpec, CreateRequest(r, q) PROVE Promise!Next
  <2>1. /\ request[r].uid = 0 /\ UNCHANGED <<specs, vetted, granted>>
        /\ requests' = [requests EXCEPT ![r] = Append(requests[r], q)]
        /\ request' = [request EXCEPT ![r] = [uid |-> Len(requests[r]) + 1, decision |-> NoDecision]]
    BY <1>6, ZenonT(30) DEF CreateRequest, StoreRequest, historyVars
  <2>2. request[r] = NoRequest
    BY <1>0, <2>1 DEF RequestsCreated
  <2>3. [request[r] EXCEPT !.uid = Len(requests[r]) + 1] = [uid |-> Len(requests[r]) + 1, decision |-> NoDecision]
    BY <2>2 DEF NoRequest
  <2>4. request' = [request EXCEPT ![r].uid = Len(requests[r]) + 1]
    BY <2>1, <2>3, Zenon
  <2>5. Promise!Create(r, q)
    BY <2>1, <2>4, Zenon DEF Promise!Create
  <2>. QED
    BY <2>5, Zenon DEF Promise!Next
<1>7. ASSUME NEW r \in Request, DeleteRequest(r) PROVE Promise!Next
  <2>1. Promise!Delete(r)
    BY <1>7, Zenon DEF DeleteRequest, StoreRequest, historyVars, NoRequest, NoDecision, Promise!Delete
  <2>. QED
    BY <2>1, Zenon DEF Promise!Next
<1>8. CASE LatePatch
  <2>1. PICK d \in late : ApplyStatus(d.name, d.decision) /\ UNCHANGED <<specs, requests, vetted, granted>>
    BY <1>8, Zenon DEF LatePatch, historyVars
  <2>2. d.name \in Request /\ d.decision \in Decision
    BY <1>0 DEF TypeOK
  <2>3. Promise!Justified(d.name, d.decision)
    BY <1>0, Zenon DEF ReviewSound
  <2>4. UNCHANGED request \/ Promise!Decide(d.name)
    BY <2>1, <2>2, <2>3, ApplyDecides, Zenon
  <2>. QED
    BY <1>1, <2>1, <2>2, <2>4, Zenon DEF Promise!Next
<1>9. CASE Patch
  <2>1. PICK c \in calls : /\ c.stage = "done" /\ c.outcome.result # "Unprocessed"
                           /\ ApplyStatus(c.name, c.outcome)
                           /\ UNCHANGED <<specs, requests, vetted, granted>>
    BY <1>9, Zenon DEF Patch
  <2>2. c.name \in Request /\ c.outcome \in Decision
    BY <1>0, <2>1, OutcomeType, Zenon
  <2>3. Promise!Justified(c.name, c.outcome)
    BY <1>0, <2>1, Zenon DEF ReviewSound, CallSound
  <2>4. UNCHANGED request \/ Promise!Decide(c.name)
    BY <2>1, <2>2, <2>3, ApplyDecides, Zenon
  <2>. QED
    BY <1>1, <2>1, <2>2, <2>4, Zenon DEF Promise!Next
<1>10. CASE \/ \E p \in Policy : ReviewAccess(p) \/ Evaluate(p)
            \/ List \/ FilterNamespace \/ NotApplicable
  <2>1. UNCHANGED <<specs, requests, request, vetted, granted, marked>>
    BY <1>10, Zenon DEF List, FilterNamespace, NotApplicable, ReviewAccess, Evaluate, ReviewStep, apiVars
  <2>. QED
    BY <1>1, <2>1
<1>11. CASE \/ \E p \in Policy : DeletePolicy(p)
            \/ \E r \in Request : Start(r)
            \/ SyncAccess \/ SyncPolicy \/ SyncRequest \/ SyncNamespace \/ Restart \/ Leave \/ Fail
            \/ UNCHANGED tracked
  <2>1. UNCHANGED <<specs, requests, request, vetted, granted, marked>>
    BY <1>11, Zenon DEF DeletePolicy, Policies!Delete, Start, SyncAccess, SyncPolicy, SyncRequest,
       SyncNamespace, Restart, Leave, Fail, tracked, apiVars, historyVars
  <2>. QED
    BY <1>1, <2>1
<1>. QED
  BY <1>1, <1>2, <1>3, <1>4, <1>5, <1>6, <1>7, <1>8, <1>9, <1>10, <1>11, StepCases, Zenon

\* Reconcile, Review, caches, restarts, late patches and a lagging authorizer
\* together do to decisions what Approval says, and nothing else.
THEOREM ApprovalImplemented == Spec => ImplementsApproval
<1>1. IInv /\ [Next]_vars => [Promise!Next]_(<<specs, requests, request, vetted, granted, marked>>)
  BY ApprovalStep, Zenon DEF Promise!vars
<1>. QED
  BY ApprovalInit, Invariance, <1>1, PTL DEF Spec, ImplementsApproval, Promise!Spec, Promise!vars

-----------------------------------------------------------------------------
\* What is on its way stays so until it is applied or the informer is replaced.
LEMMA ChangesHeld ==
    ASSUME TypeOK, [Next]_vars, ~Restart
    PROVE  /\ \A p \in Policy :
                 (\E k \in 1 .. Len(policyWatch) : policyWatch[k].name = p) =>
                    \/ SyncPolicy
                    \/ \E k \in 1 .. Len(policyWatch') : policyWatch'[k].name = p
           /\ \A r \in Request :
                 (\E k \in 1 .. Len(requestWatch) : requestWatch[k].name = r) =>
                    \/ SyncRequest /\ Head(requestWatch).name = r
                    \/ \E k \in 1 .. Len(requestWatch') : requestWatch'[k].name = r
<1>1. ASSUME NEW q \in Policy, NEW j \in 1 .. Len(policyWatch), policyWatch[j].name = q, ~SyncPolicy
      PROVE  \E k \in 1 .. Len(policyWatch') : policyWatch'[k].name = q
  <2>1. CASE UNCHANGED policyWatch
    BY <1>1, <2>1
  <2>2. ASSUME NEW p \in Policy, NEW o \in PolicyObject, StorePolicy(p, o)
        PROVE  \E k \in 1 .. Len(policyWatch') : policyWatch'[k].name = q
    <3>1. PICK e \in PolicyChange : policyWatch' = Append(policyWatch, e)
      BY <2>2, SentTypes, Zenon DEF StorePolicy
    <3>2. PICK k \in 1 .. Len(policyWatch') : policyWatch'[k] = policyWatch[j]
      BY <3>1, SentTypes, SentIsHeld
    <3>. QED
      BY <1>1, <3>2
  <2>. QED
    BY <1>1, <2>1, <2>2, PolicyCases, Zenon
<1>2. ASSUME NEW q \in Request, NEW j \in 1 .. Len(requestWatch), requestWatch[j].name = q,
             ~(SyncRequest /\ Head(requestWatch).name = q)
      PROVE  \E k \in 1 .. Len(requestWatch') : requestWatch'[k].name = q
  <2>1. CASE UNCHANGED requestWatch
    BY <1>2, <2>1
  <2>2. ASSUME NEW r \in Request, NEW o \in RequestObject, StoreRequest(r, o)
        PROVE  \E k \in 1 .. Len(requestWatch') : requestWatch'[k].name = q
    <3>1. PICK e \in RequestChange : requestWatch' = Append(requestWatch, e)
      BY <2>2, SentTypes, Zenon DEF StoreRequest
    <3>2. PICK k \in 1 .. Len(requestWatch') : requestWatch'[k] = requestWatch[j]
      BY <3>1, SentTypes, SentIsHeld
    <3>. QED
      BY <1>2, <3>2
  <2>3. CASE SyncRequest
    <3>1. requestWatch # <<>> /\ requestWatch' = Tail(requestWatch)
      BY <2>3, Zenon DEF SyncRequest
    <3>. QED
      BY <1>2, <2>3, <3>1, SentTypes, TakenOrHeld, Zenon
  <2>. QED
    BY <2>1, <2>2, <2>3, RequestCases, Zenon
<1>. QED
  BY <1>1, <1>2, Zenon

\* The last change of an undecided request passes the predicate.
LEMMA LastChangePasses ==
    ASSUME TypeOK, CachesCatchUp, SyncRequest, NEW r \in Request, Undecided(request[r]),
           Head(requestWatch).name = r
    PROVE  \/ \E k \in 1 .. Len(requestWatch') : requestWatch'[k].name = r
           \/ \E k \in 1 .. Len(events') : events'[k] = r
<1> SUFFICES ASSUME ~ \E k \in 1 .. Len(requestWatch') : requestWatch'[k].name = r
             PROVE  \E k \in 1 .. Len(events') : events'[k] = r
  OBVIOUS
<1>1. requestWatch \in Seq(RequestChange) /\ requestWatch # <<>> /\ requestWatch' = Tail(requestWatch)
  BY SentTypes, Zenon DEF SyncRequest
<1>2. /\ Len(requestWatch) \in Nat /\ Head(requestWatch) = requestWatch[1] /\ 1 \in 1 .. Len(requestWatch)
      /\ \A j \in 2 .. Len(requestWatch) : /\ j - 1 \in 1 .. Len(requestWatch')
                                           /\ requestWatch[j] = requestWatch'[j - 1]
  BY <1>1, MovedUp
<1>3. \A j \in 1 + 1 .. Len(requestWatch) : requestWatch[j].name # r
  <2>1. \A j \in 2 .. Len(requestWatch) : requestWatch[j].name # r
    BY <1>2, Zenon
  <2>2. 1 + 1 = 2
    OBVIOUS
  <2>. QED
    BY <2>1, <2>2, Zenon
<1>4. Head(requestWatch).object = request[r]
  BY <1>2, <1>3, Zenon DEF CachesCatchUp, CatchesUp
<1>5. Head(requestWatch).object.uid > 0
  BY <1>4, Zenon DEF Undecided
<1>6. events' = Append(events, r)
  BY <1>4, <1>5, Zenon DEF SyncRequest
<1>7. events \in Seq(Request)
  BY DEF TypeOK
<1>. QED
  BY <1>6, <1>7, SentIsHeld

\* Whatever leads to a review of r that sees p is held until the worker takes r:
\* a change goes from the watch to the handlers, the handlers queue r, timers do,
\* and a restart sweeps.
LEMMA AwaitedKept ==
    ASSUME TypeOK, CachesCatchUp, [Next]_vars, NEW r \in Request, NEW p \in Policy,
           Undecided(request[r]), Awaited(r, p), ~Start(r)
    PROVE  Awaited(r, p)'
<1> DEFINE InRequests == \E k \in 1 .. Len(requestWatch) : requestWatch[k].name = r
           InEvents == \E k \in 1 .. Len(events) : events[k] = r
           InSets == r \in queue \cup timers
           InPolicies == \E k \in 1 .. Len(policyWatch) : policyWatch[k].name = p
<1>1. InRequests \/ InEvents \/ InSets \/ InPolicies \/ sweeps > 0
  BY Zenon DEF Awaited
<1>2. (InRequests' \/ InEvents' \/ InSets' \/ InPolicies' \/ sweeps' > 0) => Awaited(r, p)'
  BY Zenon DEF Awaited
<1>3. sweeps \in Nat
  BY DEF TypeOK
<1>4. CASE Restart
  <2>1. sweeps' > 0
    BY <1>4 DEF Restart
  <2>. QED
    BY <1>2, <2>1, Zenon
<1>5. CASE InRequests /\ ~Restart
  BY <1>2, <1>5, ChangesHeld, LastChangePasses, Zenon
<1>6. CASE InEvents /\ ~Restart
  <2>1. PICK k \in 1 .. Len(events) : events[k] = r
    BY <1>6
  <2>2. events \in Seq(Request)
    BY DEF TypeOK
  <2>3. CASE HandleRequest
    <3>1. events # <<>> /\ events' = Tail(events) /\ queue' = queue \cup {Head(events)}
      BY <2>3, Zenon DEF HandleRequest
    <3>2. r = Head(events) \/ InEvents'
      BY <2>1, <2>2, <3>1, TakenOrHeld
    <3>. QED
      BY <1>2, <3>1, <3>2, Zenon
  <2>4. CASE SyncRequest
    <3>1. events' = events \/ events' = Append(events, Head(requestWatch).name)
      BY <2>4, Zenon DEF SyncRequest
    <3>2. Head(requestWatch).name \in Request
      <4>1. Head(requestWatch) \in RequestChange
        BY <2>4, SentTypes, Taken, Zenon DEF SyncRequest
      <4>. QED
        BY <4>1 DEF RequestChange
    <3>3. InEvents'
      <4>1. CASE events' = events
        BY <2>1, <4>1
      <4>2. CASE events' = Append(events, Head(requestWatch).name)
        <5>1. \E j \in 1 .. Len(events') : events'[j] = events[k]
          BY <2>1, <2>2, <3>2, <4>2, SentIsHeld
        <5>. QED
          BY <2>1, <5>1
      <4>. QED
        BY <3>1, <4>1, <4>2
    <3>. QED
      BY <1>2, <3>3, Zenon
  <2>5. CASE UNCHANGED events
    <3>1. InEvents'
      BY <1>6, <2>5
    <3>. QED
      BY <1>2, <3>1, Zenon
  <2>6. HandleRequest \/ SyncRequest \/ UNCHANGED events
    BY <1>6, Zenon DEF Next, vars, queueVars, WritePolicy, DeletePolicy, SetReady, Bind, Unbind,
       ReviewAccess, Evaluate, ReviewStep, CreateRequest, DeleteRequest, Expire, Start, Relabel,
       SyncAccess, SyncPolicy, SyncNamespace, Sweep, Resync, LatePatch, List, FilterNamespace,
       NotApplicable, Leave, Patch, Fail
  <2>. QED
    BY <2>3, <2>4, <2>5, <2>6
<1>7. CASE InSets /\ ~Restart
  <2>1. ASSUME NEW x \in Request, Start(x) PROVE InSets'
    <3>1. x # r
      BY <2>1
    <3>. QED
      BY <1>7, <2>1, <3>1, Zenon DEF Start
  <2>2. ASSUME NEW x \in Request, Expire(x) PROVE InSets'
    BY <1>7, <2>2 DEF Expire
  <2>3. ASSUME queue \subseteq queue', timers \subseteq timers' PROVE InSets'
    BY <1>7, <2>3
  <2>4. Patch \/ Fail => queue' = queue /\ timers \subseteq timers'
    BY Zenon DEF Patch, Fail
  <2>5. HandleRequest \/ Sweep => queue \subseteq queue' /\ timers' = timers
    BY Zenon DEF HandleRequest, Sweep
  <2>6. \/ UNCHANGED <<queue, timers>>
        \/ Patch \/ Fail \/ HandleRequest \/ Sweep
        \/ \E x \in Request : Start(x) \/ Expire(x)
    BY <1>7, Zenon DEF Next, vars, queueVars, WritePolicy, DeletePolicy, SetReady, Bind, Unbind,
       ReviewAccess, Evaluate, ReviewStep, CreateRequest, DeleteRequest, Relabel,
       SyncAccess, SyncPolicy, SyncRequest, SyncNamespace, Resync, LatePatch, List,
       FilterNamespace, NotApplicable, Leave
  <2>7. InSets'
    <3>1. CASE UNCHANGED <<queue, timers>>
      BY <2>3, <3>1
    <3>2. CASE Patch \/ Fail \/ HandleRequest \/ Sweep
      BY <2>3, <2>4, <2>5, <3>2, Zenon
    <3>. QED
      BY <2>1, <2>2, <2>6, <3>1, <3>2, Zenon
  <2>. QED
    BY <1>2, <2>7, Zenon
<1>8. CASE InPolicies /\ ~Restart
  <2>1. CASE SyncPolicy
    <3>1. sweeps' = sweeps + 1
      BY <2>1, Zenon DEF SyncPolicy
    <3>2. sweeps' > 0
      BY <1>3, <3>1
    <3>. QED
      BY <1>2, <3>2, Zenon
  <2>. QED
    BY <1>2, <1>8, <2>1, ChangesHeld, Zenon
<1>9. CASE sweeps > 0 /\ ~Restart
  <2>1. CASE Sweep
    <3>1. UNCHANGED requestWatch /\ queue' = queue \cup Pending
      BY <2>1, Zenon DEF Sweep, informerVars
    <3>2. CASE InRequests
      BY <1>2, <3>1, <3>2, Zenon
    <3>3. CASE ~InRequests
      <4>1. requestCache[r] = request[r]
        BY <3>3, Zenon DEF CachesCatchUp, CatchesUp
      <4>2. r \in Pending
        BY <4>1, Zenon DEF Pending
      <4>. QED
        BY <1>2, <3>1, <4>2, Zenon
    <3>. QED
      BY <3>2, <3>3
  <2>2. CASE sweeps' = sweeps + 1
    <3>1. sweeps' > 0
      BY <1>3, <2>2
    <3>. QED
      BY <1>2, <3>1, Zenon
  <2>3. CASE UNCHANGED sweeps
    BY <1>2, <1>9, <2>3, Zenon
  <2>4. Sweep \/ sweeps' = sweeps + 1 \/ UNCHANGED sweeps
    BY <1>9, Zenon DEF Next, vars, queueVars, WritePolicy, DeletePolicy, SetReady, Bind, Unbind,
       ReviewAccess, Evaluate, ReviewStep, CreateRequest, DeleteRequest, Expire, Start, Relabel,
       SyncAccess, SyncPolicy, SyncRequest, SyncNamespace, HandleRequest, Resync, LatePatch, List,
       FilterNamespace, NotApplicable, Leave, Patch, Fail
  <2>. QED
    BY <2>1, <2>2, <2>3, <2>4, Zenon
<1>. QED
  BY <1>1, <1>4, <1>5, <1>6, <1>7, <1>8, <1>9, Zenon

-----------------------------------------------------------------------------
\* Access reviews know of RBAC changes at once, and no selector asks for labels.
NothingLags == PromptReviews /\ \A s \in PolicySpec : ~s.matchLabels

\* Then the namespace's labels do not matter.
LEMMA LabelsIgnored ==
    ASSUME NothingLags, NEW s \in PolicySpec, NEW r, NEW L, NEW M, SelectorNamespace(s, r, L)
    PROVE  SelectorNamespace(s, r, M)
BY Zenon DEF NothingLags, SelectorNamespace

\* A step that leaves nothing to be swept changes no rights.
LEMMA RightsSwept ==
    ASSUME TypeOK, [Next]_vars, ~(sweeps' > 0)
    PROVE  bound' = bound /\ ~Restart /\ ~SyncPolicy
<1>1. sweeps \in Nat
  BY DEF TypeOK
<1>2. sweeps' # sweeps + 1 /\ sweeps' # 1
  BY <1>1
<1>. QED
  BY <1>2, StepCases, Zenon DEF tracked, apiVars, accessVars, labelVars, WritePolicy, DeletePolicy, SetReady,
     Bind, Unbind, ReviewAccess, Evaluate, CreateRequest, DeleteRequest, Start, SyncAccess,
     SyncPolicy, SyncRequest, SyncNamespace, Restart, LatePatch, List, FilterNamespace,
     NotApplicable, Leave, Patch, Fail, ReviewStep

\* A policy applies to what is stored and was stored before, if it does now.
LEMMA AppliesBefore ==
    ASSUME IInv, Grows, NothingLags, NEW r \in Request, NEW p \in Policy, policy'[p] = policy[p],
           request'[r] = request[r], bound' = bound, Undecided(request[r]), Applies(p, r)'
    PROVE  /\ Applies(p, r)
           /\ SpecOf(p, policy[p]) \in PolicySpec
<1>0. TypeOK /\ PoliciesReported /\ RequestsCreated
  BY DEF IInv
<1>1. policy[p] \in PolicyObject /\ Reported(p, policy[p]) /\ Ready(policy[p])
  <2>1. policy[p] \in PolicyObject
    BY <1>0, SentTypes
  <2>2. Ready(policy[p])
    BY Zenon DEF Applies, Ready
  <2>. QED
    BY <1>0, <2>1, <2>2, Zenon DEF PoliciesReported
<1>2. policy[p].revision > 0
  BY <1>1, Zenon DEF Ready
<1>3. specs'[p][policy[p].revision] = specs[p][policy[p].revision]
  BY <1>1, <1>2, ReportedKept, Zenon DEF SpecOf
<1>4. request[r].uid \in 1 .. Len(requests[r])
  BY <1>0 DEF RequestsCreated, Undecided, NoRequest, TypeOK
<1>5. requests'[r][request[r].uid] = requests[r][request[r].uid]
  BY <1>4, RequestKept, Zenon
<1>6. SpecOf(p, policy[p]) \in PolicySpec
  <2>1. specs[p] \in Seq(PolicySpec) /\ policy[p].revision \in Nat
    BY <1>0, <1>1 DEF TypeOK, PolicyObject, Policies!PolicyObject
  <2>2. policy[p].revision \in 1 .. Len(specs[p])
    BY <1>1, <1>2, <2>1 DEF Reported
  <2>. QED
    BY <2>1, <2>2 DEF SpecOf
<1>7. SelectorIssuerRef(SpecOf(p, policy[p]), r, request[r].uid)
  BY <1>3, <1>5, Zenon DEF Applies, SelectorIssuerRef, SpecOf
<1>8. SelectorNamespace(SpecOf(p, policy[p]), r, labelled)
  <2>1. SelectorNamespace(SpecOf(p, policy[p]), r, labelled')
    BY <1>3, Zenon DEF Applies, SelectorNamespace, SpecOf
  <2>. QED
    BY <1>6, <2>1, LabelsIgnored, Zenon
<1>9. <<r, p>> \in bound
  BY Zenon DEF Applies
<1>. QED
  BY <1>1, <1>6, <1>7, <1>8, <1>9, Zenon DEF Applies

\* The step of a review that sees p leads to one that still does, or to a decision.
LEMMA CourseKept ==
    ASSUME IInv, CachesCatchUp, NothingLags, [Next]_vars, NEW r \in Request, NEW p \in Policy,
           Undecided(request[r]), Applies(p, r), SpecOf(p, policy[p]) \in PolicySpec,
           policy'[p] = policy[p], request'[r] = request[r], ~Awaited(r, p)', ~Restart,
           NEW c \in calls, c.name = r, OnCourse(c, p)
    PROVE  \E d \in calls' : d.name = r /\ OnCourse(d, p)'
<1>0. TypeOK /\ c \in Call /\ calls = {c}
  BY OneCall, Zenon DEF IInv, TypeOK
<1>1. /\ c.object.uid = request[r].uid
      /\ \/ c.stage = "list"
         \/ /\ c.stage \in {"namespace", "access"} /\ c.listed[p] = policy[p]
            /\ p \in c.candidates \cup c.usable \cup c.denied
         \/ c.stage = "done" /\ c.outcome.result # "Unprocessed"
  BY Zenon DEF OnCourse
<1>2. ASSUME NEW d, calls' = {d}, d.name = c.name, d.object = c.object,
             \/ d.stage = "list"
             \/ /\ d.stage \in {"namespace", "access"} /\ d.listed[p] = policy[p]
                /\ p \in d.candidates \cup d.usable \cup d.denied
             \/ d.stage = "done" /\ d.outcome.result # "Unprocessed"
      PROVE  \E b \in calls' : b.name = r /\ OnCourse(b, p)'
  BY <1>1, <1>2, Zenon DEF OnCourse
<1>3. CASE UNCHANGED calls
  BY <1>0, <1>1, <1>2, <1>3, Zenon
<1>4. CASE List
  <2>1. policyCache[p] = policy[p]
    <3>1. policyWatch' = policyWatch
      BY <1>4, Zenon DEF List, ReviewStep, informerVars
    <3>2. \A k \in 1 .. Len(policyWatch) : policyWatch[k].name # p
      BY <3>1, Zenon DEF Awaited
    <3>. QED
      BY <3>2, Zenon DEF CachesCatchUp, CatchesUp
  <2> DEFINE kept == {q \in {x \in Policy : Ready(policyCache[x])} :
                         SelectorIssuerRef(SpecOf(q, policyCache[q]), c.name, c.object.uid)}
             d == [c EXCEPT !.stage = "namespace", !.listed = policyCache, !.candidates = kept]
  <2>2. calls' = {d}
    BY <1>0, <1>4, Zenon DEF List, ReviewStep
  <2>3. p \in kept
    BY <1>1, <2>1, Zenon DEF Applies
  <2> HIDE DEF kept
  <2>4. /\ d.name = c.name /\ d.object = c.object /\ d.stage = "namespace"
        /\ d.listed = policyCache /\ d.candidates = kept
    BY <1>0 DEF Call
  <2> HIDE DEF d
  <2>. QED
    BY <1>2, <2>1, <2>2, <2>3, <2>4, Zenon
<1>5. CASE FilterNamespace
  <2> DEFINE kept == {q \in c.candidates : SelectorNamespace(SpecOf(q, c.listed[q]), c.name, labelCache)}
             d == [c EXCEPT !.stage = "access", !.candidates = kept]
  <2>1. c.stage = "namespace" /\ calls' = {d}
    BY <1>0, <1>5, Zenon DEF FilterNamespace, ReviewStep
  <2>2. c.listed[p] = policy[p] /\ p \in c.candidates \cup c.usable \cup c.denied
    BY <1>1, <2>1
  <2>3. SelectorNamespace(SpecOf(p, c.listed[p]), c.name, labelCache)
    BY <2>2, LabelsIgnored, Zenon DEF Applies
  <2>4. p \in kept \cup c.usable \cup c.denied
    BY <2>2, <2>3, Zenon
  <2> HIDE DEF kept
  <2>5. /\ d.name = c.name /\ d.object = c.object /\ d.stage = "access" /\ d.listed = c.listed
        /\ d.candidates = kept /\ d.usable = c.usable /\ d.denied = c.denied
    BY <1>0 DEF Call
  <2> HIDE DEF d
  <2>. QED
    BY <1>2, <2>1, <2>2, <2>4, <2>5, Zenon
<1>6. ASSUME NEW q \in Policy, ReviewAccess(q) PROVE \E d \in calls' : d.name = r /\ OnCourse(d, p)'
  <2> DEFINE U == IF <<c.name, q>> \in access THEN c.usable \cup {q} ELSE c.usable
             d == [c EXCEPT !.candidates = c.candidates \ {q}, !.usable = U]
  <2>1. c.stage = "access" /\ calls' = {d}
    BY <1>0, <1>6, Zenon DEF ReviewAccess, ReviewStep
  <2>2. c.listed[p] = policy[p] /\ p \in c.candidates \cup c.usable \cup c.denied
    BY <1>1, <2>1
  <2>3. <<r, p>> \in access
    BY Zenon DEF IInv, AccessGranted, NothingLags, Applies
  <2>4. p \in (c.candidates \ {q}) \cup U \cup c.denied
    BY <2>2, <2>3
  <2> HIDE DEF U
  <2>5. /\ d.name = c.name /\ d.object = c.object /\ d.stage = c.stage /\ d.listed = c.listed
        /\ d.candidates = c.candidates \ {q} /\ d.usable = U /\ d.denied = c.denied
    BY <1>0 DEF Call
  <2> HIDE DEF d
  <2>. QED
    BY <1>2, <2>1, <2>2, <2>4, <2>5, Zenon
<1>7. ASSUME NEW q \in Policy, Evaluate(q) PROVE \E d \in calls' : d.name = r /\ OnCourse(d, p)'
  <2>1. ASSUME NEW S, NEW result \in {"Approved", "Denied"}, ReviewStep(Ended(c, result, S))
        PROVE  \E d \in calls' : d.name = r /\ OnCourse(d, p)'
    <3> DEFINE d == Ended(c, result, S)
    <3>1. /\ d.name = c.name /\ d.object = c.object /\ d.stage = "done"
          /\ d.outcome.result = result
      BY <1>0 DEF Call, Ended
    <3>2. calls' = {d} /\ result # "Unprocessed"
      BY <2>1 DEF ReviewStep
    <3> HIDE DEF d
    <3>. QED
      BY <1>2, <3>1, <3>2, Zenon
  <2>2. ASSUME c.stage = "access", q \in c.usable,
               ReviewStep([c EXCEPT !.usable = c.usable \ {q}, !.denied = c.denied \cup {q}])
        PROVE  \E d \in calls' : d.name = r /\ OnCourse(d, p)'
    <3> DEFINE d == [c EXCEPT !.usable = c.usable \ {q}, !.denied = c.denied \cup {q}]
    <3>1. /\ d.name = c.name /\ d.object = c.object /\ d.stage = c.stage /\ d.listed = c.listed
          /\ d.candidates = c.candidates /\ d.usable = c.usable \ {q}
          /\ d.denied = c.denied \cup {q}
      BY <1>0 DEF Call
    <3>2. calls' = {d}
      BY <2>2, Zenon DEF ReviewStep
    <3> HIDE DEF d
    <3>3. c.listed[p] = policy[p] /\ p \in c.candidates \cup c.usable \cup c.denied
      BY <1>1, <2>2
    <3>4. p \in d.candidates \cup d.usable \cup d.denied
      BY <3>1, <3>3
    <3>. QED
      BY <1>2, <2>2, <3>1, <3>2, <3>3, <3>4, Zenon
  <2>. QED
    BY <1>0, <1>7, <2>1, <2>2, EvaluateCases, Zenon
<1>8. ~NotApplicable /\ ~Leave
  <2>1. ~(c.stage = "access" /\ c.candidates = {} /\ c.usable = {} /\ c.denied = {})
    BY <1>1
  <2>2. ~(c.stage = "done" /\ c.outcome.result = "Unprocessed")
    BY <1>1
  <2>. QED
    BY <1>0, <2>1, <2>2, Zenon DEF NotApplicable, Leave
<1>9. ~Patch
  <2>1. SUFFICES ASSUME Patch PROVE FALSE
    OBVIOUS
  <2>2. ApplyStatus(r, c.outcome)
    BY <1>0, <2>1, Zenon DEF Patch
  <2>3. Admits(request[r], c.outcome)
    BY Zenon DEF Admits, Undecided
  <2>4. c.outcome \in Decision
    BY <1>0, <2>1, OutcomeType, Zenon DEF Patch
  <2>5. PICK o \in RequestObject : StoreRequest(r, o)
    <3>1. request[r] \in RequestObject
      BY <1>0, Zenon DEF TypeOK
    <3>2. [request[r] EXCEPT !.decision = c.outcome] \in RequestObject
      BY <2>4, <3>1 DEF RequestObject
    <3>. QED
      BY <2>2, <2>3, <3>2, Zenon DEF ApplyStatus
  <2>6. PICK e \in RequestChange : e = [name |-> r, object |-> o]
    BY SentTypes, <1>0, Zenon
  <2>7. requestWatch' = Append(requestWatch, e) /\ e.name = r
    <3>1. requestWatch' = Append(requestWatch, e)
      BY <2>5, <2>6, Zenon DEF StoreRequest
    <3>. QED
      BY <2>6, <3>1
  <2>8. PICK k \in 1 .. Len(requestWatch') : requestWatch'[k] = e
    <3>1. requestWatch \in Seq(RequestChange)
      BY <1>0, SentTypes, Zenon
    <3>. QED
      BY <2>7, <3>1, SentIsHeld
  <2>. QED
    BY <2>7, <2>8, Zenon DEF Awaited
<1>10. ~Fail
  BY <1>0, Zenon DEF Fail, Awaited
<1>11. ASSUME NEW x \in Request, Start(x) PROVE FALSE
  BY <1>0, <1>11, Zenon DEF Start
<1>. QED
  BY <1>3, <1>4, <1>5, <1>6, <1>7, <1>8, <1>9, <1>10, <1>11, StepCases, Zenon DEF tracked,
     WritePolicy, DeletePolicy, SetReady, Bind, Unbind, CreateRequest, DeleteRequest, SyncAccess,
     SyncPolicy, SyncRequest, SyncNamespace, LatePatch

\* Start reads the request that is stored, when no change of it is on its way.
LEMMA TakenOnCourse ==
    ASSUME TypeOK, CachesCatchUp, NEW r \in Request, NEW p \in Policy,
           Undecided(request[r]), Start(r), ~Awaited(r, p)'
    PROVE  \E c \in calls' : c.name = r /\ OnCourse(c, p)'
<1>1. requestCache[r] = request[r] /\ request' = request
  <2>1. requestWatch' = requestWatch /\ request' = request
    BY Zenon DEF Start, informerVars, apiVars
  <2>2. \A k \in 1 .. Len(requestWatch) : requestWatch[k].name # r
    BY <2>1, Zenon DEF Awaited
  <2>. QED
    BY <2>1, <2>2, Zenon DEF CachesCatchUp, CatchesUp
<1>2. requestCache[r].uid # 0
  BY <1>1 DEF Undecided, TypeOK, RequestObject
<1> DEFINE c == [name |-> r, object |-> requestCache[r], stage |-> "list",
                 listed |-> [q \in Policy |-> NoPolicy], candidates |-> {},
                 usable |-> {}, denied |-> {}, outcome |-> NoDecision]
<1>3. calls' = {c}
  BY <1>2, Zenon DEF Start
<1>4. c.name = r /\ c.object = requestCache[r] /\ c.stage = "list"
  OBVIOUS
<1> HIDE DEF c
<1>. QED
  BY <1>1, <1>3, <1>4, Zenon DEF OnCourse

\* Every step keeps what leads to a review of an undecided request with a policy
\* that applies to it.
LEMMA ReviewKeptStep ==
    ASSUME NothingLags, IInv, WakeUpInv, [Next]_vars PROVE ReviewKept'
<1> SUFFICES ASSUME NEW r \in Request, NEW p \in Policy,
                    Undecided(request'[r]), Applies(p, r)', ~Awaited(r, p)'
             PROVE  \E c \in calls' : c.name = r /\ OnCourse(c, p)'
  BY Zenon DEF ReviewKept
<1>0. TypeOK /\ CachesCatchUp /\ ReviewKept /\ Grows
  BY GrowsStep, Zenon DEF IInv, WakeUpInv
<1>1. policy'[p] = policy[p] /\ request'[r] = request[r]
  BY <1>0, ChangesSent, Zenon DEF Awaited
<1>2. bound' = bound /\ ~Restart
  BY <1>0, RightsSwept, Zenon DEF Awaited
<1>3. Undecided(request[r])
  BY <1>1, Zenon
<1>4. Applies(p, r) /\ SpecOf(p, policy[p]) \in PolicySpec
  BY <1>0, <1>1, <1>2, <1>3, AppliesBefore, Zenon
<1>5. CASE Awaited(r, p)
  BY <1>0, <1>3, <1>5, AwaitedKept, TakenOnCourse, Zenon
<1>6. ASSUME NEW c \in calls, c.name = r, OnCourse(c, p)
      PROVE  \E d \in calls' : d.name = r /\ OnCourse(d, p)'
  BY <1>0, <1>1, <1>2, <1>3, <1>4, <1>6, CourseKept, Zenon
<1>. QED
  BY <1>0, <1>3, <1>4, <1>5, <1>6, Zenon DEF ReviewKept

\* At the start every undecided request is in the queue, and the caches are full.
LEMMA InitWakeUp == Init => WakeUpInv
<1> SUFFICES ASSUME Init PROVE WakeUpInv
  OBVIOUS
<1>1. CachesCatchUp
  <2>1. /\ policyWatch = <<>> /\ policyCache = policy
        /\ requestWatch = <<>> /\ requestCache = request
    BY Zenon DEF Init
  <2>. QED
    BY <2>1 DEF CachesCatchUp, CatchesUp
<1>2. queue = {r \in Request : Undecided(request[r])}
  BY Zenon DEF Init
<1>. QED
  BY <1>1, <1>2, Zenon DEF WakeUpInv, ReviewKept, Awaited

\* Informers, handlers, work queue and reviews: with prompt access reviews and no
\* label selectors, an undecided request to which a policy applies is always being
\* reviewed with it, or something still held leads to such a review.
THEOREM WakeUpsAreKept == ASSUME NothingLags PROVE Spec => []WakeUpInv
<1>1. IInv /\ WakeUpInv /\ [Next]_vars => WakeUpInv'
  <2> SUFFICES ASSUME IInv, WakeUpInv, [Next]_vars PROVE WakeUpInv'
    OBVIOUS
  <2>1. CachesCatchUp'
    BY CachesStep, Zenon DEF IInv, WakeUpInv
  <2>. QED
    BY <2>1, ReviewKeptStep, Zenon DEF WakeUpInv
<1>. QED
  BY InitWakeUp, Invariance, <1>1, PTL DEF Spec

\* Then, when the controller has nothing left to do, no request is undecided to
\* which a policy applies: no change that mattered was missed, whatever restarts,
\* errors and writes fell between the steps of the reviews.
THEOREM NoWakeUpIsLost == ASSUME NothingLags PROVE Spec => []QuietMeansDecided
<1>1. IInv /\ WakeUpInv => QuietMeansDecided
  <2> SUFFICES ASSUME WakeUpInv, Quiet, NEW r \in Request, Undecided(request[r]), Applicable(r)
               PROVE  FALSE
    BY Zenon DEF QuietMeansDecided
  <2>1. PICK p \in Policy : Applies(p, r)
    BY Zenon DEF Applicable
  <2>2. Awaited(r, p) \/ \E c \in calls : c.name = r /\ OnCourse(c, p)
    BY <2>1, Zenon DEF WakeUpInv, ReviewKept
  <2>3. calls = {} /\ ~Awaited(r, p)
    <3>1. /\ policyWatch = <<>> /\ requestWatch = <<>> /\ events = <<>>
          /\ queue = {} /\ timers = {} /\ sweeps = 0 /\ calls = {}
      BY Zenon DEF Quiet
    <3>. QED
      BY <3>1 DEF Awaited
  <2>. QED
    BY <2>2, <2>3, Zenon
<1>. QED
  BY WakeUpsAreKept, Invariance, <1>1, PTL
=============================================================================
