--------------------- MODULE CertificateRequests_store ----------------------
(***************************************************************************)
(* Proofs about the certificaterequests controller, second part: what is   *)
(* stored, cached or on its way, of policies, requests, rights and decisions, *)
(* always refers to the record; caches catch up with what is stored.       *)
(***************************************************************************)
EXTENDS CertificateRequests_types

\* PoliciesReported: every condition is set from a revision that was vetted.
LEMMA PoliciesStep == IInv /\ [Next]_vars => PoliciesReported'
<1> SUFFICES ASSUME IInv, [Next]_vars PROVE PoliciesReported'
  OBVIOUS
<1>0. TypeOK /\ TypeOK' /\ Grows /\ PoliciesReported
  BY TypeStep, GrowsStep DEF IInv
<1>1. /\ \A p \in Policy : policy[p] \in PolicyObject /\ policyCache[p] \in PolicyObject
      /\ policyWatch \in Seq(PolicyChange)
      /\ \A k \in 1 .. Len(policyWatch) :
            policyWatch[k].name \in Policy /\ policyWatch[k].object \in PolicyObject
  <2>1. policyWatch \in Seq(PolicyChange)
    BY <1>0 DEF TypeOK, PolicyChange
  <2>2. \A k \in 1 .. Len(policyWatch) : policyWatch[k] \in PolicyChange
    BY <2>1
  <2>. QED
    BY <1>0, <2>1, <2>2, Zenon DEF TypeOK, PolicyChange
<1>2. /\ \A p \in Policy : Reported(p, policy[p]) /\ Reported(p, policyCache[p])
      /\ \A k \in 1 .. Len(policyWatch) : Reported(policyWatch[k].name, policyWatch[k].object)
  BY <1>0, Zenon DEF PoliciesReported
<1>3. \A p \in Policy, o \in PolicyObject : Reported(p, o) => Reported(p, o)'
  BY <1>0, ReportedKept, Zenon
<1>4. CASE UNCHANGED <<policy, policyCache, policyWatch, specs>>
  BY <1>0, <1>1, <1>2, <1>3, <1>4, Zenon DEF PoliciesReported
<1>5. ASSUME NEW p \in Policy, NEW o \in PolicyObject, policy' = [policy EXCEPT ![p] = o],
             PolicyEvent(p), UNCHANGED policyCache, Reported(p, o)',
             o.revision \in {0, Len(specs'[p])},
             \A q \in Policy : q # p => specs'[q] = specs[q]
      PROVE  PoliciesReported'
  <2>1. policy'[p] = o /\ \A q \in Policy : q # p => policy'[q] = policy[q]
    BY <1>0, <1>5 DEF TypeOK
  <2>2. ASSUME NEW q \in Policy
        PROVE  /\ policy'[q].revision \in {0, Len(specs'[q])}
               /\ Reported(q, policy[q])' /\ Reported(q, policyCache[q])'
    <3>1. Reported(q, policyCache[q])'
      BY <1>1, <1>2, <1>3, <1>5, Zenon
    <3>2. CASE q = p
      BY <1>5, <2>1, <3>1, <3>2, Zenon
    <3>3. CASE q # p
      BY <1>0, <1>1, <1>2, <1>3, <1>5, <2>1, <3>1, <3>3, Zenon DEF PoliciesReported
    <3>. QED
      BY <3>2, <3>3
  <2>3. [name |-> p, object |-> o] \in PolicyChange /\ policyWatch' = Append(policyWatch, [name |-> p, object |-> o])
    BY <1>5, <2>1 DEF PolicyEvent, PolicyChange
  <2>4. /\ Len(policyWatch) \in Nat /\ Len(policyWatch') = Len(policyWatch) + 1
        /\ policyWatch'[Len(policyWatch) + 1] = [name |-> p, object |-> o]
        /\ \A k \in 1 .. Len(policyWatch) : policyWatch'[k] = policyWatch[k]
    BY <1>1, <2>3, Appended
  <2>5. ASSUME NEW k \in 1 .. Len(policyWatch')
        PROVE  Reported(policyWatch[k].name, policyWatch[k].object)'
    <3>1. CASE k \in 1 .. Len(policyWatch)
      BY <1>1, <1>2, <1>3, <2>4, <3>1, Zenon
    <3>2. CASE k = Len(policyWatch) + 1
      BY <1>5, <2>4, <3>2
    <3>. QED
      BY <2>4, <3>1, <3>2
  <2>. QED
    BY <2>2, <2>5, Zenon DEF PoliciesReported
<1>6. ASSUME NEW p \in Policy, NEW s \in PolicySpec, WritePolicy(p, s) PROVE PoliciesReported'
  <2>1. PICK o \in PolicyObject : /\ policy' = [policy EXCEPT ![p] = o]
                                  /\ o.revision = Len(specs[p]) + 1
                                  /\ o.ready = policy[p].ready /\ o.observed = policy[p].observed
    BY <1>0, <1>6, PolicyWritten, Zenon
  <2>2. /\ Len(specs[p]) \in Nat /\ Len(specs'[p]) = Len(specs[p]) + 1
        /\ \A q \in Policy : q # p => specs'[q] = specs[q]
    BY <1>0, <1>6, SpecAppended, Zenon
  <2>3. policy[p].revision \in Nat /\ Reported(p, policy[p]) /\ vetted \subseteq vetted'
    BY <1>0, <1>1, <1>2 DEF PolicyObject, Policies!PolicyObject, Grows
  <2>4. /\ policy[p].revision <= Len(specs[p])
        /\ policy[p].ready => policy[p].observed \in 1 .. policy[p].revision /\ <<p, policy[p].observed>> \in vetted
    BY <2>3, Zenon DEF Reported
  <2>5. o.ready => o.observed \in 1 .. o.revision /\ <<p, o.observed>> \in vetted'
    BY <2>1, <2>2, <2>3, <2>4
  <2>6. Reported(p, o)'
    BY <2>1, <2>2, <2>5 DEF Reported
  <2>. QED
    BY <1>5, <1>6, <2>1, <2>2, <2>6, Zenon DEF WritePolicy
<1>7. ASSUME NEW p \in Policy, DeletePolicy(p) PROVE PoliciesReported'
  <2>1. /\ policy' = [policy EXCEPT ![p] = NoPolicy] /\ PolicyEvent(p)
        /\ UNCHANGED <<specs, policyCache>>
    BY <1>7, Zenon DEF DeletePolicy, Policies!Delete, NoPolicy
  <2>2. NoPolicy.revision = 0 /\ ~NoPolicy.ready
    BY DEF NoPolicy, Policies!NoPolicy
  <2>3. Len(specs'[p]) \in Nat
    BY <1>0 DEF Grows
  <2>4. Reported(p, NoPolicy)'
    BY <2>2, <2>3 DEF Reported, NoPolicy, Policies!NoPolicy
  <2>. QED
    BY <1>5, <2>1, <2>2, <2>4, ObjectTypes, Zenon
<1>8. ASSUME NEW p \in Policy, NEW ready \in BOOLEAN, NEW v \in 1 .. Len(specs[p]),
             SetReady(p, ready, v)
      PROVE  PoliciesReported'
  <2>1. v \in Nat /\ policy[p].revision > 0
    BY <1>0, <1>8, PolicyReported
  <2>2. PICK o \in PolicyObject : /\ policy' = [policy EXCEPT ![p] = o]
                                  /\ o.revision = policy[p].revision
                                  /\ o.ready = ready /\ o.observed = v
    BY <1>0, <1>8, PolicyReported
  <2>3. UNCHANGED <<specs, policyCache>> /\ PolicyEvent(p) /\ (ready => <<p, v>> \in vetted')
    BY <1>8, Zenon DEF SetReady
  <2>4. policy[p].revision = Len(specs[p]) /\ Len(specs[p]) \in Nat
    BY <1>0, <2>1 DEF PoliciesReported, Grows
  <2>5. Reported(p, o)'
    BY <2>2, <2>3, <2>4 DEF Reported
  <2>. QED
    BY <1>5, <2>2, <2>3, <2>4, <2>5, Zenon
<1>9. CASE SyncPolicy
  <2>1. /\ UNCHANGED <<specs, policy>> /\ policyWatch # <<>> /\ policyWatch' = Tail(policyWatch)
        /\ policyCache' = [policyCache EXCEPT ![Head(policyWatch).name] = Head(policyWatch).object]
    BY <1>9, Zenon DEF SyncPolicy, apiVars
  <2>2. /\ Head(policyWatch) = policyWatch[1] /\ 1 \in 1 .. Len(policyWatch)
        /\ \A k \in 1 .. Len(policyWatch') :
              k + 1 \in 1 .. Len(policyWatch) /\ policyWatch'[k] = policyWatch[k + 1]
    BY <1>1, <2>1, Taken
  <2>3. /\ policyCache'[policyWatch[1].name] = policyWatch[1].object
        /\ \A q \in Policy : q # policyWatch[1].name => policyCache'[q] = policyCache[q]
    BY <1>0, <1>1, <2>1, <2>2, Zenon DEF TypeOK
  <2>4. ASSUME NEW q \in Policy PROVE Reported(q, policyCache[q])'
    <3>1. CASE q = policyWatch[1].name
      BY <1>1, <1>2, <1>3, <2>2, <2>3, <3>1, Zenon
    <3>2. CASE q # policyWatch[1].name
      BY <1>1, <1>2, <1>3, <2>3, <3>2, Zenon
    <3>. QED
      BY <3>1, <3>2
  <2>5. ASSUME NEW k \in 1 .. Len(policyWatch')
        PROVE  Reported(policyWatch[k].name, policyWatch[k].object)'
    BY <1>1, <1>2, <1>3, <2>2, Zenon
  <2>. QED
    BY <1>0, <1>1, <1>2, <1>3, <2>1, <2>4, <2>5, Zenon DEF PoliciesReported
<1>10. CASE Restart
  <2>1. UNCHANGED <<specs, policy>> /\ policyWatch' = <<>> /\ policyCache' = policy
    BY <1>10, Zenon DEF Restart
  <2>2. 1 .. Len(policyWatch') = {}
    BY <2>1
  <2>. QED
    BY <1>0, <1>1, <1>2, <1>3, <2>1, <2>2, Zenon DEF PoliciesReported
<1>11. CASE \/ \E p \in Policy : ReviewAccess(p) \/ Evaluate(p) \/ \E r \in Request : Bind(r, p) \/ Unbind(r, p)
            \/ List \/ FilterNamespace \/ NotApplicable
  <2>1. UNCHANGED <<policy, policyCache, policyWatch, specs>>
    BY <1>11, Zenon DEF List, FilterNamespace, NotApplicable, ReviewAccess, Evaluate, Bind, Unbind,
       ReviewStep, apiVars, informerVars
  <2>. QED
    BY <1>4, <2>1
<1>12. CASE \/ \E r \in Request : \/ \E q \in RequestSpec : CreateRequest(r, q)
                                  \/ DeleteRequest(r) \/ Start(r)
            \/ SyncAccess \/ SyncRequest \/ SyncNamespace \/ LatePatch \/ Leave \/ Patch \/ Fail
            \/ UNCHANGED tracked
  <2>1. UNCHANGED <<policy, policyCache, policyWatch, specs>>
    BY <1>12, Zenon DEF CreateRequest, DeleteRequest, Start, SyncAccess, SyncRequest,
       SyncNamespace, LatePatch, Leave, Patch, Fail, tracked, apiVars, informerVars
  <2>. QED
    BY <1>4, <2>1
<1>. QED
  BY <1>6, <1>7, <1>8, <1>9, <1>10, <1>11, <1>12, StepCases, Zenon

-----------------------------------------------------------------------------
\* RequestsCreated: every uid is that of a request that was created.
LEMMA RequestsStep == IInv /\ [Next]_vars => RequestsCreated'
<1> SUFFICES ASSUME IInv, [Next]_vars PROVE RequestsCreated'
  OBVIOUS
<1> DEFINE Known(r, o) == o.uid <= Len(requests[r])
           Current(r, o) == o = NoRequest \/ (o.uid > 0 /\ o.uid = Len(requests[r]))
<1>0. TypeOK /\ TypeOK' /\ Grows /\ RequestsCreated
  BY TypeStep, GrowsStep DEF IInv
<1>1. /\ \A r \in Request : request[r] \in RequestObject /\ requestCache[r] \in RequestObject
      /\ requestWatch \in Seq(RequestChange)
      /\ \A k \in 1 .. Len(requestWatch) :
            requestWatch[k].name \in Request /\ requestWatch[k].object \in RequestObject
  <2>1. requestWatch \in Seq(RequestChange)
    BY <1>0 DEF TypeOK, RequestChange
  <2>2. \A k \in 1 .. Len(requestWatch) : requestWatch[k] \in RequestChange
    BY <2>1
  <2>. QED
    BY <1>0, <2>1, <2>2, Zenon DEF TypeOK, RequestChange
<1>2. /\ \A r \in Request : Current(r, request[r]) /\ Known(r, requestCache[r])
      /\ \A k \in 1 .. Len(requestWatch) : Known(requestWatch[k].name, requestWatch[k].object)
  BY <1>0, Zenon DEF RequestsCreated
<1>3. \A r \in Request, o \in RequestObject : /\ Known(r, o) => Known(r, o)'
                                              /\ Current(r, o) => Known(r, o)
  <2> SUFFICES ASSUME NEW r \in Request, NEW o \in RequestObject
               PROVE  (Known(r, o) => Known(r, o)') /\ (Current(r, o) => Known(r, o))
    OBVIOUS
  <2>1. /\ o.uid \in Nat /\ Len(requests[r]) \in Nat /\ Len(requests'[r]) \in Nat
        /\ Len(requests[r]) <= Len(requests'[r]) /\ NoRequest.uid = 0
    BY <1>0 DEF RequestObject, Grows, NoRequest
  <2>. QED
    BY <2>1
<1>4. ASSUME \A r \in Request : Current(r, request[r])' /\ Known(r, requestCache[r])',
             \A k \in 1 .. Len(requestWatch') :
                Known(requestWatch[k].name, requestWatch[k].object)'
      PROVE  RequestsCreated'
  BY <1>4, Zenon DEF RequestsCreated
<1>5. ASSUME NEW r \in Request, NEW o \in RequestObject, StoreRequest(r, o), Current(r, o)',
             UNCHANGED requestCache,
             \A x \in Request : x # r => requests'[x] = requests[x]
      PROVE  RequestsCreated'
  <2>0. Known(r, o)'
    <3>1. o.uid \in Nat /\ Len(requests'[r]) \in Nat /\ NoRequest.uid = 0
      BY <1>0 DEF RequestObject, Grows, NoRequest
    <3>. QED
      BY <1>5, <3>1
  <2>1. request'[r] = o /\ \A x \in Request : x # r => request'[x] = request[x]
    BY <1>0, <1>5 DEF TypeOK, StoreRequest
  <2>2. ASSUME NEW x \in Request PROVE Current(x, request[x])' /\ Known(x, requestCache[x])'
    <3>1. Known(x, requestCache[x])'
      BY <1>1, <1>2, <1>3, <1>5, Zenon
    <3>2. CASE x = r
      BY <1>5, <2>1, <3>1, <3>2, Zenon
    <3>3. CASE x # r
      BY <1>2, <1>5, <2>1, <3>1, <3>3, Zenon
    <3>. QED
      BY <3>2, <3>3
  <2>3. /\ [name |-> r, object |-> o] \in RequestChange
        /\ requestWatch' = Append(requestWatch, [name |-> r, object |-> o])
    BY <1>5 DEF StoreRequest, RequestChange
  <2>4. /\ Len(requestWatch) \in Nat /\ Len(requestWatch') = Len(requestWatch) + 1
        /\ requestWatch'[Len(requestWatch) + 1] = [name |-> r, object |-> o]
        /\ \A k \in 1 .. Len(requestWatch) : requestWatch'[k] = requestWatch[k]
    BY <1>1, <2>3, Appended
  <2>5. ASSUME NEW k \in 1 .. Len(requestWatch')
        PROVE  Known(requestWatch[k].name, requestWatch[k].object)'
    <3>1. CASE k \in 1 .. Len(requestWatch)
      BY <1>1, <1>2, <1>3, <2>4, <3>1, Zenon
    <3>2. CASE k = Len(requestWatch) + 1
      <4>1. requestWatch'[k].name = r /\ requestWatch'[k].object = o
        BY <2>4, <3>2
      <4>. QED
        BY <2>0, <4>1, Zenon
    <3>. QED
      BY <2>4, <3>1, <3>2
  <2>. QED
    BY <1>4, <2>2, <2>5, Zenon
<1>6. CASE UNCHANGED <<requests, request, requestWatch, requestCache>>
  BY <1>0, <1>6, Zenon DEF RequestsCreated
<1>7. ASSUME NEW r \in Request, NEW d \in Decision, ApplyStatus(r, d),
             UNCHANGED <<requests, requestCache>>
      PROVE  RequestsCreated'
  <2>1. CASE UNCHANGED <<request, requestWatch>>
    BY <1>6, <1>7, <2>1
  <2>2. CASE /\ Admits(request[r], d)
             /\ \E o \in RequestObject : /\ StoreRequest(r, o)
                                         /\ o.uid = request[r].uid /\ o.decision = d
    <3>1. PICK o \in RequestObject : StoreRequest(r, o) /\ o.uid = request[r].uid
      BY <2>2
    <3>2. request[r].uid > 0 /\ NoRequest.uid = 0
      BY <2>2 DEF Admits, NoRequest
    <3>3. request[r].uid = Len(requests[r])
      BY <1>2, <3>2
    <3>4. o.uid > 0 /\ o.uid = Len(requests'[r])
      BY <1>7, <3>1, <3>2, <3>3
    <3>. QED
      BY <1>5, <1>7, <3>1, <3>4, Zenon
  <2>. QED
    BY <1>0, <1>7, <2>1, <2>2, Applied, Zenon
<1>8. ASSUME NEW r \in Request, NEW q \in RequestSpec, CreateRequest(r, q) PROVE RequestsCreated'
  <2> DEFINE o == [uid |-> Len(requests[r]) + 1, decision |-> NoDecision]
  <2>1. /\ Len(requests[r]) \in Nat /\ Len(requests'[r]) = Len(requests[r]) + 1
        /\ \A x \in Request : x # r => requests'[x] = requests[x]
    BY <1>0, <1>8, RequestAppended, Zenon
  <2>2. StoreRequest(r, o) /\ UNCHANGED requestCache
    BY <1>8, Zenon DEF CreateRequest
  <2>3. o \in RequestObject /\ o.uid > 0 /\ o.uid = Len(requests'[r])
    BY <2>1, ObjectTypes DEF RequestObject
  <2> HIDE DEF o
  <2>. QED
    BY <1>5, <2>1, <2>2, <2>3, Zenon
<1>9. ASSUME NEW r \in Request, DeleteRequest(r) PROVE RequestsCreated'
  <2>1. StoreRequest(r, NoRequest) /\ UNCHANGED <<requests, requestCache>>
    BY <1>9, Zenon DEF DeleteRequest
  <2>. QED
    BY <1>5, <2>1, ObjectTypes, Zenon
<1>10. CASE SyncRequest
  <2>1. /\ UNCHANGED <<requests, request>> /\ requestWatch # <<>>
        /\ requestWatch' = Tail(requestWatch)
        /\ requestCache' = [requestCache EXCEPT ![Head(requestWatch).name] = Head(requestWatch).object]
    BY <1>10, Zenon DEF SyncRequest, apiVars
  <2>2. /\ Head(requestWatch) = requestWatch[1] /\ 1 \in 1 .. Len(requestWatch)
        /\ \A k \in 1 .. Len(requestWatch') :
              k + 1 \in 1 .. Len(requestWatch) /\ requestWatch'[k] = requestWatch[k + 1]
    BY <1>1, <2>1, Taken
  <2>3. /\ requestCache'[requestWatch[1].name] = requestWatch[1].object
        /\ \A x \in Request : x # requestWatch[1].name => requestCache'[x] = requestCache[x]
    BY <1>0, <1>1, <2>1, <2>2, SMTT(30) DEF TypeOK
  <2>4. ASSUME NEW x \in Request PROVE Current(x, request[x])' /\ Known(x, requestCache[x])'
    <3>1. Current(x, request[x])'
      BY <1>2, <2>1, Zenon
    <3>2. CASE x = requestWatch[1].name
      BY <1>1, <1>2, <1>3, <2>2, <2>3, <3>1, <3>2, Zenon
    <3>3. CASE x # requestWatch[1].name
      BY <1>1, <1>2, <1>3, <2>3, <3>1, <3>3, Zenon
    <3>. QED
      BY <3>2, <3>3
  <2>5. ASSUME NEW k \in 1 .. Len(requestWatch')
        PROVE  Known(requestWatch[k].name, requestWatch[k].object)'
    BY <1>1, <1>2, <1>3, <2>2, Zenon
  <2>. QED
    BY <1>4, <2>4, <2>5, Zenon
<1>11. CASE Restart
  <2>1. UNCHANGED <<requests, request>> /\ requestWatch' = <<>> /\ requestCache' = request
    BY <1>11, Zenon DEF Restart
  <2>2. 1 .. Len(requestWatch') = {}
    BY <2>1
  <2>. QED
    BY <1>1, <1>2, <1>3, <1>4, <2>1, <2>2, Zenon
<1>12. CASE LatePatch
  <2>1. PICK d \in late : ApplyStatus(d.name, d.decision) /\ UNCHANGED <<requests, requestCache>>
    BY <1>12, Zenon DEF LatePatch
  <2>2. d.name \in Request /\ d.decision \in Decision
    BY <1>0 DEF TypeOK
  <2>. QED
    BY <1>7, <2>1, <2>2, Zenon
<1>13. CASE Patch
  <2>1. PICK c \in calls : /\ ApplyStatus(c.name, c.outcome) /\ c.outcome.result # "Unprocessed"
                           /\ UNCHANGED <<requests, requestCache>>
    BY <1>13, Zenon DEF Patch
  <2>2. c.name \in Request /\ c.outcome \in Decision
    BY <1>0, <2>1, OutcomeType, Zenon
  <2>. QED
    BY <1>7, <2>1, <2>2, Zenon
<1>14. CASE \/ \E p \in Policy : ReviewAccess(p) \/ Evaluate(p) \/ \E r \in Request : Bind(r, p) \/ Unbind(r, p)
            \/ List \/ FilterNamespace \/ NotApplicable
  <2>1. UNCHANGED <<requests, request, requestWatch, requestCache>>
    BY <1>14, Zenon DEF List, FilterNamespace, NotApplicable, ReviewAccess, Evaluate, Bind, Unbind,
       ReviewStep, apiVars, informerVars
  <2>. QED
    BY <1>6, <2>1
<1>15. CASE \/ \E p \in Policy : \/ DeletePolicy(p) \/ \E s \in PolicySpec : WritePolicy(p, s)
                                 \/ \E ready \in BOOLEAN, v \in 1 .. Len(specs[p]) : SetReady(p, ready, v)
            \/ \E r \in Request : Start(r)
            \/ SyncAccess \/ SyncPolicy \/ SyncNamespace \/ Leave \/ Fail \/ UNCHANGED tracked
  <2>1. UNCHANGED <<requests, request, requestWatch, requestCache>>
    BY <1>15, Zenon DEF WritePolicy, DeletePolicy, SetReady, Start, SyncAccess, SyncPolicy,
       SyncNamespace, Leave, Fail, tracked, apiVars, informerVars
  <2>. QED
    BY <1>6, <2>1
<1>. QED
  BY <1>8, <1>9, <1>10, <1>11, <1>12, <1>13, <1>14, <1>15, StepCases, Zenon

-----------------------------------------------------------------------------
\* AccessGranted: the authorizer only learns of rights that were given.
LEMMA AccessStep == IInv /\ [Next]_vars => AccessGranted'
<1> SUFFICES ASSUME IInv, [Next]_vars PROVE AccessGranted'
  OBVIOUS
<1>0. /\ TypeOK /\ Grows /\ AccessGranted
      /\ accessWatch \in Seq(SUBSET (Request \X Policy)) /\ granted \subseteq granted'
  BY GrowsStep, Zenon DEF IInv, TypeOK, Grows
<1>1. CASE UNCHANGED accessVars
  <2>1. UNCHANGED <<bound, accessWatch, access>>
    BY <1>1 DEF accessVars
  <2>. QED
    BY <1>0, <2>1, Zenon DEF AccessGranted
<1>2. ASSUME NEW B \in SUBSET (Request \X Policy), SetBound(B) PROVE AccessGranted'
  <2>1. bound' = B /\ B \subseteq granted' /\ granted \subseteq granted'
    BY <1>2 DEF SetBound
  <2>2. CASE PromptReviews
    BY <1>0, <1>2, <2>1, <2>2, Zenon DEF SetBound, AccessGranted
  <2>3. CASE ~PromptReviews
    <3>1. accessWatch' = Append(accessWatch, B) /\ access' = access
      BY <1>2, <2>3, Zenon DEF SetBound
    <3>2. /\ Len(accessWatch) \in Nat /\ Len(accessWatch') = Len(accessWatch) + 1
          /\ accessWatch'[Len(accessWatch) + 1] = B
          /\ \A k \in 1 .. Len(accessWatch) : accessWatch'[k] = accessWatch[k]
      BY <1>0, <3>1, Appended
    <3>3. \A k \in 1 .. Len(accessWatch) : accessWatch'[k] \subseteq granted'
      BY <1>0, <3>2, Zenon DEF AccessGranted
    <3>4. \A k \in 1 .. Len(accessWatch') : accessWatch'[k] \subseteq granted'
      <4>1. \A k \in 1 .. Len(accessWatch') : k \in 1 .. Len(accessWatch) \/ k = Len(accessWatch) + 1
        BY <3>2
      <4>. QED
        BY <2>1, <3>2, <3>3, <4>1, Zenon
    <3>. QED
      BY <1>0, <2>1, <2>3, <3>1, <3>4, Zenon DEF AccessGranted
  <2>. QED
    BY <2>2, <2>3
<1>3. ASSUME NEW r \in Request, NEW p \in Policy, Bind(r, p) \/ Unbind(r, p) PROVE AccessGranted'
  <2>1. bound \cup {<<r, p>>} \in SUBSET (Request \X Policy) /\ bound \ {<<r, p>>} \in SUBSET (Request \X Policy)
    BY <1>0 DEF TypeOK
  <2>2. SetBound(bound \cup {<<r, p>>}) \/ SetBound(bound \ {<<r, p>>})
    BY <1>3, Zenon DEF Bind, Unbind
  <2>. QED
    BY <1>2, <2>1, <2>2, Zenon
<1>4. CASE SyncAccess
  <2>1. /\ accessWatch # <<>> /\ accessWatch' = Tail(accessWatch) /\ access' = Head(accessWatch)
        /\ UNCHANGED <<bound, granted>>
    BY <1>4, Zenon DEF SyncAccess
  <2>2. /\ Head(accessWatch) = accessWatch[1] /\ 1 \in 1 .. Len(accessWatch)
        /\ \A k \in 1 .. Len(accessWatch') :
              k + 1 \in 1 .. Len(accessWatch) /\ accessWatch'[k] = accessWatch[k + 1]
    BY <1>0, <2>1, Taken
  <2>3. /\ bound' \subseteq granted' /\ access' \subseteq granted'
        /\ \A k \in 1 .. Len(accessWatch') : accessWatch'[k] \subseteq granted'
    BY <1>0, <2>1, <2>2, Zenon DEF AccessGranted
  <2>4. ~PromptReviews
    BY <1>0, <2>1, Zenon DEF AccessGranted
  <2>. QED
    BY <2>3, <2>4, Zenon DEF AccessGranted
<1>5. CASE \/ \E p \in Policy : ReviewAccess(p) \/ Evaluate(p)
           \/ List \/ FilterNamespace \/ NotApplicable
  <2>1. UNCHANGED accessVars
    BY <1>5, Zenon DEF List, FilterNamespace, NotApplicable, ReviewAccess, Evaluate, ReviewStep, apiVars
  <2>. QED
    BY <1>1, <2>1
<1>6. CASE \/ \E p \in Policy : \/ DeletePolicy(p) \/ \E s \in PolicySpec : WritePolicy(p, s)
                                \/ \E ready \in BOOLEAN, v \in 1 .. Len(specs[p]) : SetReady(p, ready, v)
           \/ \E r \in Request : \/ \E q \in RequestSpec : CreateRequest(r, q)
                                 \/ DeleteRequest(r) \/ Start(r)
           \/ UNCHANGED tracked
  <2>1. UNCHANGED accessVars
    BY <1>6, Zenon DEF WritePolicy, DeletePolicy, SetReady, CreateRequest, DeleteRequest, Start,
       tracked, apiVars
  <2>. QED
    BY <1>1, <2>1
<1>7. CASE SyncPolicy \/ SyncRequest \/ SyncNamespace \/ Restart \/ LatePatch \/ Leave \/ Patch \/ Fail
  <2>1. UNCHANGED accessVars
    BY <1>7, Zenon DEF SyncPolicy, SyncRequest, SyncNamespace, Restart, LatePatch, Leave, Patch,
       Fail, apiVars
  <2>. QED
    BY <1>1, <2>1
<1>. QED
  BY <1>3, <1>4, <1>5, <1>6, <1>7, StepCases, ZenonT(30)

-----------------------------------------------------------------------------
\* DecisionJustified: only outcomes of reviews are stored, and they stay so.
LEMMA DecisionStep == IInv /\ [Next]_vars => DecisionJustified'
<1> SUFFICES ASSUME IInv, [Next]_vars PROVE DecisionJustified'
  OBVIOUS
<1>0. TypeOK /\ Grows /\ DecisionJustified /\ ReviewSound
  BY GrowsStep DEF IInv
<1>1. ASSUME NEW r \in Request, NEW d, d.result = "None" \/ Promise!Justified(r, d)
      PROVE  d.result = "None" \/ Promise!Justified(r, d)'
  BY <1>0, <1>1, JustifiedKept, Zenon
<1>2. ASSUME NEW r \in Request, request'[r].decision = request[r].decision
      PROVE  request'[r].decision.result = "None" \/ Promise!Justified(r, request[r].decision)'
  <2>1. PICK d : d = request[r].decision
    OBVIOUS
  <2>2. d.result = "None" \/ Promise!Justified(r, d)
    BY <1>0, <2>1, Zenon DEF DecisionJustified
  <2>3. d.result = "None" \/ Promise!Justified(r, d)'
    BY <1>1, <2>2
  <2>. QED
    BY <1>2, <2>1, <2>3, Zenon
<1>3. CASE UNCHANGED request
  BY <1>2, <1>3, Zenon DEF DecisionJustified
<1>4. ASSUME NEW r \in Request, NEW o \in RequestObject, StoreRequest(r, o),
             o.decision.result = "None" \/ Promise!Justified(r, o.decision)
      PROVE  DecisionJustified'
  <2>1. request'[r] = o /\ \A x \in Request : x # r => request'[x] = request[x]
    BY <1>0, <1>4 DEF TypeOK, StoreRequest
  <2>2. o.decision.result = "None" \/ Promise!Justified(r, o.decision)'
    BY <1>1, <1>4
  <2>3. request'[r].decision.result = "None" \/ Promise!Justified(r, request[r].decision)'
    BY <2>1, <2>2, Zenon
  <2>4. ASSUME NEW x \in Request
        PROVE  request'[x].decision.result = "None" \/ Promise!Justified(x, request[x].decision)'
    <3>1. CASE x = r
      BY <2>3, <3>1, Zenon
    <3>2. CASE x # r
      BY <1>2, <2>1, <3>2, Zenon
    <3>. QED
      BY <3>1, <3>2
  <2>. QED
    BY <2>4, ZenonT(30) DEF DecisionJustified
<1>5. ASSUME NEW r \in Request, NEW d \in Decision, ApplyStatus(r, d), Promise!Justified(r, d)
      PROVE  DecisionJustified'
  <2>1. CASE UNCHANGED <<request, requestWatch>>
    BY <1>3, <2>1
  <2>2. ASSUME NEW o \in RequestObject, StoreRequest(r, o), o.decision = d PROVE DecisionJustified'
    BY <1>4, <1>5, <2>2, Zenon
  <2>. QED
    BY <1>0, <1>5, <2>1, <2>2, Applied, Zenon
<1>6. ASSUME NEW r \in Request, NEW q \in RequestSpec, CreateRequest(r, q) PROVE DecisionJustified'
  <2> DEFINE o == [uid |-> Len(requests[r]) + 1, decision |-> NoDecision]
  <2>1. StoreRequest(r, o)
    BY <1>6, Zenon DEF CreateRequest
  <2>2. Len(requests[r]) + 1 \in Nat
    BY <1>0 DEF TypeOK
  <2>3. o \in RequestObject /\ o.decision.result = "None"
    BY <2>2, ObjectTypes DEF RequestObject, NoDecision
  <2> HIDE DEF o
  <2>. QED
    BY <1>4, <2>1, <2>3, Zenon
<1>7. ASSUME NEW r \in Request, DeleteRequest(r) PROVE DecisionJustified'
  <2>1. StoreRequest(r, NoRequest)
    BY <1>7, Zenon DEF DeleteRequest
  <2>2. NoRequest.decision.result = "None"
    BY DEF NoRequest, NoDecision
  <2>. QED
    BY <1>4, <2>1, <2>2, ObjectTypes, Zenon
<1>8. CASE LatePatch
  <2>1. PICK d \in late : ApplyStatus(d.name, d.decision)
    BY <1>8, Zenon DEF LatePatch
  <2>2. d.name \in Request /\ d.decision \in Decision
    BY <1>0 DEF TypeOK
  <2>3. Promise!Justified(d.name, d.decision)
    BY <1>0, Zenon DEF ReviewSound
  <2>. QED
    BY <1>5, <2>1, <2>2, <2>3, Zenon
<1>9. CASE Patch
  <2>1. PICK c \in calls : /\ c.stage = "done" /\ c.outcome.result # "Unprocessed"
                           /\ ApplyStatus(c.name, c.outcome)
    BY <1>9, Zenon DEF Patch
  <2>2. c.name \in Request /\ c.outcome \in Decision
    BY <1>0, <2>1, OutcomeType, Zenon
  <2>3. Promise!Justified(c.name, c.outcome)
    BY <1>0, <2>1, Zenon DEF ReviewSound, CallSound
  <2>. QED
    BY <1>5, <2>1, <2>2, <2>3, Zenon
<1>10. CASE \/ \E p \in Policy : ReviewAccess(p) \/ Evaluate(p) \/ \E r \in Request : Bind(r, p) \/ Unbind(r, p)
            \/ List \/ FilterNamespace \/ NotApplicable
  <2>1. UNCHANGED request
    BY <1>10, Zenon DEF List, FilterNamespace, NotApplicable, ReviewAccess, Evaluate, Bind, Unbind,
       ReviewStep, apiVars
  <2>. QED
    BY <1>3, <2>1
<1>11. CASE \/ \E p \in Policy : \/ DeletePolicy(p) \/ \E s \in PolicySpec : WritePolicy(p, s)
                                 \/ \E ready \in BOOLEAN, v \in 1 .. Len(specs[p]) : SetReady(p, ready, v)
            \/ \E r \in Request : Start(r)
            \/ SyncAccess \/ SyncPolicy \/ SyncRequest \/ SyncNamespace \/ Restart \/ Leave \/ Fail
            \/ UNCHANGED tracked
  <2>1. UNCHANGED request
    BY <1>11, Zenon DEF WritePolicy, DeletePolicy, SetReady, Start, SyncAccess, SyncPolicy,
       SyncRequest, SyncNamespace, Restart, Leave, Fail, tracked, apiVars
  <2>. QED
    BY <1>3, <2>1
<1>. QED
  BY <1>6, <1>7, <1>8, <1>9, <1>10, <1>11, StepCases, Zenon

-----------------------------------------------------------------------------
\* A policy is stored and sent to the informer.
StorePolicy(p, o) ==
    /\ policy' = [policy EXCEPT ![p] = o]
    /\ policyWatch' = Append(policyWatch, [name |-> p, object |-> o])

\* The API server and the informer of policies: what a step does to them.
LEMMA PolicyCases ==
    ASSUME TypeOK, [Next]_vars
    PROVE  \/ UNCHANGED <<policy, policyWatch, policyCache>>
           \/ \E p \in Policy, o \in PolicyObject : StorePolicy(p, o) /\ UNCHANGED policyCache
           \/ SyncPolicy \/ Restart
<1>0. policy \in [Policy -> PolicyObject]
  BY DEF TypeOK
<1>1. ASSUME NEW p \in Policy, NEW o \in PolicyObject, policy' = [policy EXCEPT ![p] = o],
             PolicyEvent(p)
      PROVE  StorePolicy(p, o)
  <2>1. policy'[p] = o
    BY <1>0, <1>1
  <2>. QED
    BY <1>1, <2>1, Zenon DEF StorePolicy, PolicyEvent
<1>2. ASSUME NEW p \in Policy, NEW s \in PolicySpec, WritePolicy(p, s)
      PROVE  \E o \in PolicyObject : StorePolicy(p, o) /\ UNCHANGED policyCache
  <2>1. PolicyEvent(p) /\ UNCHANGED policyCache
    BY <1>2, Zenon DEF WritePolicy
  <2>. QED
    BY <1>1, <1>2, <2>1, PolicyWritten, Zenon
<1>3. ASSUME NEW p \in Policy, DeletePolicy(p)
      PROVE  \E o \in PolicyObject : StorePolicy(p, o) /\ UNCHANGED policyCache
  <2>1. PolicyEvent(p) /\ UNCHANGED policyCache /\ policy' = [policy EXCEPT ![p] = NoPolicy]
    BY <1>3, Zenon DEF DeletePolicy, Policies!Delete, NoPolicy
  <2>. QED
    BY <1>1, <2>1, ObjectTypes, Zenon
<1>4. ASSUME NEW p \in Policy, NEW ready \in BOOLEAN, NEW v \in 1 .. Len(specs[p]),
             SetReady(p, ready, v)
      PROVE  \E o \in PolicyObject : StorePolicy(p, o) /\ UNCHANGED policyCache
  <2>1. PolicyEvent(p) /\ UNCHANGED policyCache
    BY <1>4, Zenon DEF SetReady
  <2>2. PICK o \in PolicyObject : policy' = [policy EXCEPT ![p] = o]
    BY <1>4, PolicyReported
  <2>. QED
    BY <1>1, <2>1, <2>2, Zenon
<1>5. \/ UNCHANGED <<policy, policyWatch, policyCache>>
      \/ \E p \in Policy : \/ \E s \in PolicySpec : WritePolicy(p, s)
                           \/ DeletePolicy(p)
                           \/ \E ready \in BOOLEAN, v \in 1 .. Len(specs[p]) : SetReady(p, ready, v)
      \/ SyncPolicy \/ Restart
  BY StepCases, Zenon DEF tracked, apiVars, informerVars, Bind, Unbind, ReviewAccess, Evaluate,
     CreateRequest, DeleteRequest, Start, SyncAccess, SyncRequest, SyncNamespace, LatePatch,
     List, FilterNamespace, NotApplicable, Leave, Patch, Fail, ReviewStep
<1>. QED
  BY <1>2, <1>3, <1>4, <1>5, Zenon

\* The same for requests.
LEMMA RequestCases ==
    ASSUME TypeOK, [Next]_vars
    PROVE  \/ UNCHANGED <<request, requestWatch, requestCache>>
           \/ \E r \in Request, o \in RequestObject : StoreRequest(r, o) /\ UNCHANGED requestCache
           \/ SyncRequest \/ Restart
<1>1. ASSUME NEW r \in Request, NEW q \in RequestSpec, CreateRequest(r, q)
      PROVE  \E o \in RequestObject : StoreRequest(r, o) /\ UNCHANGED requestCache
  <2>1. Len(requests[r]) + 1 \in Nat
    BY DEF TypeOK
  <2>2. [uid |-> Len(requests[r]) + 1, decision |-> NoDecision] \in RequestObject
    BY <2>1, ObjectTypes, Zenon DEF RequestObject
  <2>. QED
    BY <1>1, <2>2, Zenon DEF CreateRequest
<1>2. ASSUME NEW r \in Request, DeleteRequest(r)
      PROVE  \E o \in RequestObject : StoreRequest(r, o) /\ UNCHANGED requestCache
  BY <1>2, ObjectTypes, Zenon DEF DeleteRequest
<1>3. ASSUME NEW r \in Request, NEW d \in Decision, ApplyStatus(r, d), UNCHANGED requestCache
      PROVE  \/ UNCHANGED <<request, requestWatch, requestCache>>
             \/ \E o \in RequestObject : StoreRequest(r, o) /\ UNCHANGED requestCache
  BY <1>3, Applied, Zenon
<1>4. CASE Patch
  <2>1. PICK c \in calls : Patch!(c)
    BY <1>4, Zenon DEF Patch
  <2>2. ApplyStatus(c.name, c.outcome) /\ UNCHANGED requestCache /\ c.outcome.result # "Unprocessed"
    BY <2>1, Zenon
  <2>. QED
    BY <1>3, <2>2, OutcomeType, Zenon
<1>5. CASE LatePatch
  <2>1. PICK d \in late : ApplyStatus(d.name, d.decision) /\ UNCHANGED requestCache
    BY <1>5, Zenon DEF LatePatch
  <2>2. d.name \in Request /\ d.decision \in Decision
    BY DEF TypeOK
  <2>. QED
    BY <1>3, <2>1, <2>2, Zenon
<1>6. \/ UNCHANGED <<request, requestWatch, requestCache>>
      \/ \E r \in Request : \/ \E q \in RequestSpec : CreateRequest(r, q)
                            \/ DeleteRequest(r)
      \/ SyncRequest \/ Restart \/ Patch \/ LatePatch
  BY StepCases, Zenon DEF tracked, apiVars, informerVars, Bind, Unbind, ReviewAccess, Evaluate,
     WritePolicy, DeletePolicy, SetReady, Start, SyncAccess, SyncPolicy, SyncNamespace,
     List, FilterNamespace, NotApplicable, Leave, Fail, ReviewStep
<1>. QED
  BY <1>1, <1>2, <1>4, <1>5, <1>6, Zenon

\* What is stored of either kind is a change of its type.
LEMMA SentTypes ==
    ASSUME TypeOK
    PROVE  /\ policyWatch \in Seq(PolicyChange) /\ requestWatch \in Seq(RequestChange)
           /\ policy \in [Policy -> PolicyObject] /\ policyCache \in [Policy -> PolicyObject]
           /\ request \in [Request -> RequestObject]
           /\ requestCache \in [Request -> RequestObject]
           /\ \A p \in Policy, o \in PolicyObject : [name |-> p, object |-> o] \in PolicyChange
           /\ \A r \in Request, o \in RequestObject : [name |-> r, object |-> o] \in RequestChange
  BY DEF TypeOK, PolicyChange, RequestChange

\* CachesCatchUp, inductively: what is stored is sent, in the order in which it
\* is stored, and new informers list what is stored.
LEMMA CachesStep == TypeOK /\ CachesCatchUp /\ [Next]_vars => CachesCatchUp'
<1> SUFFICES ASSUME TypeOK, CachesCatchUp, [Next]_vars PROVE CachesCatchUp'
  OBVIOUS
<1>0. /\ \A p \in Policy : CatchesUp(policyWatch, policyCache, policy, p)
      /\ \A r \in Request : CatchesUp(requestWatch, requestCache, request, r)
  BY Zenon DEF CachesCatchUp
<1>1. ASSUME NEW q \in Policy PROVE CatchesUp(policyWatch', policyCache', policy', q)
  <2>1. CASE UNCHANGED <<policy, policyWatch, policyCache>>
    BY <1>0, <2>1, Zenon
  <2>2. ASSUME NEW p \in Policy, NEW o \in PolicyObject, StorePolicy(p, o), UNCHANGED policyCache
        PROVE  CatchesUp(policyWatch', policyCache', policy', q)
    <3>1. PICK e \in PolicyChange : e = [name |-> p, object |-> o]
      BY SentTypes, Zenon
    <3>2. e.name = p /\ e.object = o
      BY <3>1
    <3>3. policyWatch' = Append(policyWatch, e) /\ policy' = [policy EXCEPT ![p] = o]
      BY <2>2, <3>1, Zenon DEF StorePolicy
    <3>4. policy'[q] = IF q = e.name THEN e.object ELSE policy[q]
      BY <3>2, <3>3, SentTypes
    <3>. QED
      BY <1>0, <2>2, <3>3, <3>4, SentTypes, SentCatchesUp, Zenon
  <2>3. CASE SyncPolicy
    <3>1. /\ policyWatch # <<>> /\ policyWatch' = Tail(policyWatch) /\ UNCHANGED policy
          /\ policyCache' = [policyCache EXCEPT ![Head(policyWatch).name] = Head(policyWatch).object]
      BY <2>3, Zenon DEF SyncPolicy, apiVars
    <3>2. Head(policyWatch) \in PolicyChange
      BY <3>1, SentTypes, Taken, Zenon
    <3>3. Head(policyWatch).name \in Policy
      BY <3>2 DEF PolicyChange
    <3>4. policyCache'[q] = IF q = Head(policyWatch).name THEN Head(policyWatch).object
                                                          ELSE policyCache[q]
      BY <3>1, <3>3, SentTypes
    <3>. QED
      BY <1>0, <3>1, <3>4, SentTypes, AppliedCatchesUp, Zenon
  <2>4. CASE Restart
    <3>1. policyWatch' = <<>> /\ policyCache' = policy /\ policy' = policy
      BY <2>4, Zenon DEF Restart
    <3>. QED
      BY <3>1 DEF CatchesUp
  <2>. QED
    BY <2>1, <2>2, <2>3, <2>4, PolicyCases, Zenon
<1>2. ASSUME NEW q \in Request PROVE CatchesUp(requestWatch', requestCache', request', q)
  <2>1. CASE UNCHANGED <<request, requestWatch, requestCache>>
    BY <1>0, <2>1, Zenon
  <2>2. ASSUME NEW r \in Request, NEW o \in RequestObject, StoreRequest(r, o), UNCHANGED requestCache
        PROVE  CatchesUp(requestWatch', requestCache', request', q)
    <3>1. PICK e \in RequestChange : e = [name |-> r, object |-> o]
      BY SentTypes, Zenon
    <3>2. e.name = r /\ e.object = o
      BY <3>1
    <3>3. requestWatch' = Append(requestWatch, e) /\ request' = [request EXCEPT ![r] = o]
      BY <2>2, <3>1, Zenon DEF StoreRequest
    <3>4. request'[q] = IF q = e.name THEN e.object ELSE request[q]
      BY <3>2, <3>3, SentTypes
    <3>. QED
      BY <1>0, <2>2, <3>3, <3>4, SentTypes, SentCatchesUp, Zenon
  <2>3. CASE SyncRequest
    <3>1. /\ requestWatch # <<>> /\ requestWatch' = Tail(requestWatch) /\ UNCHANGED request
          /\ requestCache' = [requestCache EXCEPT ![Head(requestWatch).name] = Head(requestWatch).object]
      BY <2>3, Zenon DEF SyncRequest, apiVars
    <3>2. Head(requestWatch) \in RequestChange
      BY <3>1, SentTypes, Taken, Zenon
    <3>3. Head(requestWatch).name \in Request
      BY <3>2 DEF RequestChange
    <3>4. requestCache'[q] = IF q = Head(requestWatch).name THEN Head(requestWatch).object
                                                            ELSE requestCache[q]
      BY <3>1, <3>3, SentTypes
    <3>. QED
      BY <1>0, <3>1, <3>4, SentTypes, AppliedCatchesUp, Zenon
  <2>4. CASE Restart
    <3>1. requestWatch' = <<>> /\ requestCache' = request /\ request' = request
      BY <2>4, Zenon DEF Restart
    <3>. QED
      BY <3>1 DEF CatchesUp
  <2>. QED
    BY <2>1, <2>2, <2>3, <2>4, RequestCases, Zenon
<1>. QED
  BY <1>1, <1>2, Zenon DEF CachesCatchUp

\* What a step changes on the API server is on its way to the informer.
LEMMA ChangesSent ==
    ASSUME TypeOK, [Next]_vars
    PROVE  /\ \A p \in Policy : policy'[p] # policy[p] =>
                 \E k \in 1 .. Len(policyWatch') : policyWatch'[k].name = p
           /\ \A r \in Request : request'[r] # request[r] =>
                 \E k \in 1 .. Len(requestWatch') : requestWatch'[k].name = r
<1>1. ASSUME NEW q \in Policy, policy'[q] # policy[q]
      PROVE  \E k \in 1 .. Len(policyWatch') : policyWatch'[k].name = q
  <2>1. PICK p \in Policy, o \in PolicyObject : StorePolicy(p, o)
    BY <1>1, PolicyCases, Zenon DEF SyncPolicy, Restart, apiVars
  <2>2. PICK e \in PolicyChange : e = [name |-> p, object |-> o]
    BY SentTypes, Zenon
  <2>3. policyWatch' = Append(policyWatch, e) /\ policy' = [policy EXCEPT ![p] = o]
    BY <2>1, <2>2, Zenon DEF StorePolicy
  <2>4. q = p /\ e.name = p
    BY <1>1, <2>2, <2>3, SentTypes
  <2>5. PICK k \in 1 .. Len(policyWatch') : policyWatch'[k] = e
    BY <2>3, SentTypes, SentIsHeld
  <2>. QED
    BY <2>4, <2>5
<1>2. ASSUME NEW q \in Request, request'[q] # request[q]
      PROVE  \E k \in 1 .. Len(requestWatch') : requestWatch'[k].name = q
  <2>1. PICK r \in Request, o \in RequestObject : StoreRequest(r, o)
    BY <1>2, RequestCases, Zenon DEF SyncRequest, Restart, apiVars
  <2>2. PICK e \in RequestChange : e = [name |-> r, object |-> o]
    BY SentTypes, Zenon
  <2>3. requestWatch' = Append(requestWatch, e) /\ request' = [request EXCEPT ![r] = o]
    BY <2>1, <2>2, Zenon DEF StoreRequest
  <2>4. q = r /\ e.name = r
    BY <1>2, <2>2, <2>3, SentTypes
  <2>5. PICK k \in 1 .. Len(requestWatch') : requestWatch'[k] = e
    BY <2>3, SentTypes, SentIsHeld
  <2>. QED
    BY <2>4, <2>5
<1>. QED
  BY <1>1, <1>2, Zenon
=============================================================================
