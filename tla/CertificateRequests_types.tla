--------------------- MODULE CertificateRequests_types ----------------------
(***************************************************************************)
(* Proofs about the certificaterequests controller, first part: every step *)
(* keeps the types, and what was ever written, created, reported or granted *)
(* stays on record; what informers do to the changes on their way.         *)
(***************************************************************************)
EXTENDS CertificateRequests, TLAPS

\* What API server and informers do to a sequence of changes.
LEMMA Appended ==
    ASSUME NEW S, NEW s \in Seq(S), NEW e \in S
    PROVE  /\ Append(s, e) \in Seq(S)
           /\ Len(s) \in Nat /\ Len(Append(s, e)) = Len(s) + 1
           /\ Append(s, e)[Len(s) + 1] = e
           /\ \A k \in 1 .. Len(s) : Append(s, e)[k] = s[k]
OBVIOUS

\* What is left when an informer has taken the first change.
LEMMA Taken ==
    ASSUME NEW S, NEW s \in Seq(S), s # <<>>
    PROVE  /\ Head(s) \in S
           /\ Head(s) = s[1]
           /\ Tail(s) \in Seq(S)
           /\ Len(s) \in Nat /\ 1 \in 1 .. Len(s)
           /\ \A k \in 1 .. Len(Tail(s)) : k + 1 \in 1 .. Len(s) /\ Tail(s)[k] = s[k + 1]
OBVIOUS

PolicyChange == [name : Policy, object : PolicyObject]
RequestChange == [name : Request, object : RequestObject]

\* The values that actions store.
LEMMA ObjectTypes ==
    /\ NoPolicy \in PolicyObject
    /\ NoDecision \in Decision /\ NoDecision \in Outcome
    /\ NoRequest \in RequestObject
BY DEF NoPolicy, PolicyObject, Policies!NoPolicy, Policies!PolicyObject, NoDecision, Decision,
       Outcome, NoRequest, RequestObject

\* There is one worker.
LEMMA OneCall == ASSUME TypeOK, NEW c \in calls PROVE calls = {c}
BY DEF TypeOK

\* Storing an object keeps the types of store and watch.
LEMMA PolicyStoreType ==
    ASSUME TypeOK, NEW p \in Policy, NEW o \in PolicyObject,
           policy' = [policy EXCEPT ![p] = o], PolicyEvent(p)
    PROVE  policy' \in [Policy -> PolicyObject] /\ policyWatch' \in Seq(PolicyChange)
<1>1. policyWatch \in Seq(PolicyChange) /\ policy \in [Policy -> PolicyObject]
  BY DEF TypeOK, PolicyChange
<1>2. policy' \in [Policy -> PolicyObject] /\ policy'[p] = o
  BY <1>1
<1>3. [name |-> p, object |-> policy'[p]] \in PolicyChange
  BY <1>2 DEF PolicyChange
<1>. QED
  BY <1>1, <1>2, <1>3, Appended DEF PolicyEvent

\* A stored request keeps the types of requests and changes.
LEMMA RequestStoreType ==
    ASSUME TypeOK, NEW r \in Request, NEW o \in RequestObject, StoreRequest(r, o)
    PROVE  request' \in [Request -> RequestObject] /\ requestWatch' \in Seq(RequestChange)
<1>1. requestWatch \in Seq(RequestChange) /\ request \in [Request -> RequestObject]
  BY DEF TypeOK, RequestChange
<1>2. [name |-> r, object |-> o] \in RequestChange
  BY DEF RequestChange
<1>. QED
  BY <1>1, <1>2, Appended DEF StoreRequest

\* What users and the other controller make of a policy is a policy.
LEMMA PolicyWritten ==
    ASSUME TypeOK, NEW p \in Policy, NEW s \in PolicySpec, WritePolicy(p, s)
    PROVE  \E o \in PolicyObject :
              /\ policy' = [policy EXCEPT ![p] = o]
              /\ o.revision = Len(specs[p]) + 1
              /\ o.ready = policy[p].ready /\ o.observed = policy[p].observed
<1> DEFINE o == [policy[p] EXCEPT !.revision = Len(specs[p]) + 1]
<1>1. Len(specs[p]) + 1 \in Nat /\ policy[p] \in PolicyObject
  BY DEF TypeOK
<1>2. /\ o \in PolicyObject /\ o.revision = Len(specs[p]) + 1
      /\ o.ready = policy[p].ready /\ o.observed = policy[p].observed
  BY <1>1 DEF PolicyObject, Policies!PolicyObject
<1>3. policy' = [policy EXCEPT ![p].revision = [q \in Policy |-> Len(specs[q])][p] + 1]
  BY Zenon DEF WritePolicy, Policies!Write
<1>4. policy' = [policy EXCEPT ![p] = o]
  BY <1>3 DEF TypeOK
<1>. QED
  BY <1>2, <1>4, Zenon

\* SetReady sets the condition and keeps the revision.
LEMMA PolicyReported ==
    ASSUME TypeOK, NEW p \in Policy, NEW ready \in BOOLEAN, NEW v \in 1 .. Len(specs[p]),
           SetReady(p, ready, v)
    PROVE  /\ v \in Nat /\ policy[p].revision > 0
           /\ \E o \in PolicyObject :
                 /\ policy' = [policy EXCEPT ![p] = o]
                 /\ o.revision = policy[p].revision
                 /\ o.ready = ready /\ o.observed = v
<1> DEFINE o == [policy[p] EXCEPT !.ready = ready, !.observed = v]
<1>1. v \in Nat /\ policy[p] \in PolicyObject
  BY DEF TypeOK
<1>2. /\ o \in PolicyObject /\ o.revision = policy[p].revision
      /\ o.ready = ready /\ o.observed = v
  BY <1>1, Zenon DEF PolicyObject, Policies!PolicyObject
<1>3. policy[p].revision > 0 /\ policy' = [policy EXCEPT ![p].ready = ready, ![p].observed = v]
  BY Zenon DEF SetReady, Policies!SetCondition
<1>4. policy' = [policy EXCEPT ![p] = o]
  BY <1>3, Zenon DEF TypeOK
<1>. QED
  BY <1>1, <1>2, <1>3, <1>4, Zenon

\* A review that is done has an outcome; one that is to be written, a decision.
LEMMA OutcomeType ==
    ASSUME TypeOK, NEW c \in calls
    PROVE  /\ c \in Call /\ c.name \in Request /\ c.outcome \in Outcome
           /\ c.outcome.result # "Unprocessed" => c.outcome \in Decision
<1>1. c \in Call /\ c.name \in Request /\ c.outcome \in Outcome
  BY DEF TypeOK, Call
<1>. QED
  BY <1>1 DEF Outcome, Decision

\* An apply of a decision.
LEMMA Applied ==
    ASSUME TypeOK, NEW r \in Request, NEW d \in Decision, ApplyStatus(r, d)
    PROVE  \/ UNCHANGED <<request, requestWatch>>
           \/ /\ Admits(request[r], d)
              /\ \E o \in RequestObject : /\ StoreRequest(r, o)
                                          /\ o.uid = request[r].uid /\ o.decision = d
<1> DEFINE o == [request[r] EXCEPT !.decision = d]
<1>1. o \in RequestObject /\ o.uid = request[r].uid /\ o.decision = d
  BY Zenon DEF TypeOK, RequestObject
<1>2. \/ UNCHANGED <<request, requestWatch>>
      \/ Admits(request[r], d) /\ StoreRequest(r, o)
  BY Zenon DEF ApplyStatus
<1> HIDE DEF o
<1>. QED
  BY <1>1, <1>2

\* A forced apply keeps the types of requests and changes.
LEMMA AppliedType ==
    ASSUME TypeOK, NEW r \in Request, NEW d \in Decision, ApplyStatus(r, d)
    PROVE  request' \in [Request -> RequestObject] /\ requestWatch' \in Seq(RequestChange)
<1>1. CASE UNCHANGED <<request, requestWatch>>
  BY <1>1 DEF TypeOK, RequestChange
<1>2. CASE \E o \in RequestObject : StoreRequest(r, o)
  BY <1>2, RequestStoreType, Zenon
<1>. QED
  BY <1>1, <1>2, Applied, Zenon

-----------------------------------------------------------------------------
\* A step of the review keeps the types when it makes a call of a call.
LEMMA ReviewType ==
    ASSUME TypeOK, NEW d \in Call, ReviewStep(d), steady' \subseteq Policy
    PROVE  TypeOK'
<1>1. calls' \subseteq Call /\ \A b, c \in calls' : b = c
  BY Zenon DEF ReviewStep
<1>. QED
  BY <1>1, Zenon DEF ReviewStep, TypeOK, apiVars, accessVars, labelVars, informerVars, queueVars

\* A review that ends has named policies at the revisions it listed.
LEMMA EndedType ==
    ASSUME NEW c \in Call, NEW S \in SUBSET Policy,
           NEW result \in {"Approved", "Denied", "Unprocessed"}
    PROVE  Ended(c, result, S) \in Call
<1>1. /\ c.object \in RequestObject /\ c.object.uid \in Nat
      /\ c.listed \in [Policy -> PolicyObject]
  BY DEF Call, RequestObject
<1>2. \A p \in Policy : c.listed[p].revision \in Nat
  BY <1>1 DEF PolicyObject, Policies!PolicyObject
<1>3. Named(c, S) \in SUBSET (Policy \X Nat)
  BY <1>2 DEF Named
<1>4. [result |-> result, of |-> c.object.uid, by |-> Named(c, S)] \in Outcome
  BY <1>1, <1>3 DEF Outcome
<1>5. "done" \in {"list", "namespace", "access", "done"} /\ {} \in SUBSET Policy
  OBVIOUS
<1>. QED
  BY <1>4, <1>5, Zenon DEF Ended, Call

\* TypeOK, inductively: every operation keeps every variable in its type.
LEMMA TypeStep == TypeOK /\ [Next]_vars => TypeOK'
<1> SUFFICES ASSUME TypeOK, [Next]_vars PROVE TypeOK'
  OBVIOUS
<1> USE ConstantsAssumption
<1>1. ASSUME NEW p \in Policy, NEW s \in PolicySpec, WritePolicy(p, s) PROVE TypeOK'
  <2>1. policy' \in [Policy -> PolicyObject] /\ policyWatch' \in Seq(PolicyChange)
    BY <1>1, PolicyWritten, PolicyStoreType, Zenon DEF WritePolicy
  <2>2. specs' \in [Policy -> Seq(PolicySpec)] /\ changes' \in Nat
    BY <1>1 DEF WritePolicy, Change, TypeOK
  <2>. QED
    BY <1>1, <2>1, <2>2, Zenon DEF WritePolicy, Policies!Write, TypeOK, PolicyChange,
       accessVars, labelVars, queueVars
<1>2. ASSUME NEW p \in Policy, DeletePolicy(p) PROVE TypeOK'
  <2>1. policy' \in [Policy -> PolicyObject] /\ policyWatch' \in Seq(PolicyChange)
    BY <1>2, ObjectTypes, PolicyStoreType, Zenon DEF DeletePolicy, Policies!Delete, NoPolicy
  <2>2. changes' \in Nat
    BY <1>2 DEF DeletePolicy, Change, TypeOK
  <2>. QED
    BY <1>2, <2>1, <2>2, Zenon DEF DeletePolicy, Policies!Delete, TypeOK, PolicyChange,
       accessVars, labelVars, queueVars
<1>3. ASSUME NEW p \in Policy, NEW ready \in BOOLEAN, NEW v \in 1 .. Len(specs[p]),
             SetReady(p, ready, v)
      PROVE  TypeOK'
  <2>1. policy' \in [Policy -> PolicyObject] /\ policyWatch' \in Seq(PolicyChange)
    <3>1. PICK o \in PolicyObject : policy' = [policy EXCEPT ![p] = o]
      BY <1>3, PolicyReported
    <3>. QED
      BY <1>3, <3>1, PolicyStoreType, Zenon DEF SetReady
  <2>2. vetted' \subseteq Policy \X Nat
    <3>1. v \in Nat
      BY <1>3, PolicyReported, Zenon
    <3>2. vetted' = vetted \cup {<<p, v>>} \/ vetted' = vetted
      BY <1>3, Zenon DEF SetReady
    <3>3. <<p, v>> \in Policy \X Nat
      BY <3>1
    <3>. QED
      BY <3>2, <3>3, Zenon DEF TypeOK
  <2>3. changes' \in Nat
    BY <1>3 DEF SetReady, Change, TypeOK
  <2>. QED
    BY <1>3, <2>1, <2>2, <2>3, Zenon DEF SetReady, Policies!SetCondition, TypeOK, PolicyChange,
       accessVars, labelVars, queueVars
<1>4. ASSUME NEW r \in Request, NEW q \in RequestSpec, CreateRequest(r, q) PROVE TypeOK'
  <2>1. [uid |-> Len(requests[r]) + 1, decision |-> NoDecision] \in RequestObject
    BY ObjectTypes DEF TypeOK, RequestObject
  <2>2. request' \in [Request -> RequestObject] /\ requestWatch' \in Seq(RequestChange)
    BY <1>4, <2>1, RequestStoreType, Zenon DEF CreateRequest
  <2>3. requests' \in [Request -> Seq(RequestSpec)] /\ changes' \in Nat
    BY <1>4 DEF CreateRequest, Change, TypeOK
  <2>. QED
    BY <1>4, <2>2, <2>3, Zenon DEF CreateRequest, TypeOK, RequestChange, accessVars, labelVars, queueVars,
       historyVars
<1>5. ASSUME NEW r \in Request, DeleteRequest(r) PROVE TypeOK'
  <2>1. request' \in [Request -> RequestObject] /\ requestWatch' \in Seq(RequestChange)
    BY <1>5, ObjectTypes, RequestStoreType, Zenon DEF DeleteRequest
  <2>2. changes' \in Nat
    BY <1>5 DEF DeleteRequest, Change, TypeOK
  <2>. QED
    BY <1>5, <2>1, <2>2, Zenon DEF DeleteRequest, TypeOK, RequestChange, accessVars, labelVars, queueVars,
       historyVars
<1>6. ASSUME NEW B \in SUBSET (Request \X Policy), SetBound(B)
      PROVE  /\ bound' \subseteq Request \X Policy /\ granted' \subseteq Request \X Policy
             /\ access' \subseteq Request \X Policy
             /\ accessWatch' \in Seq(SUBSET (Request \X Policy))
  <2>1. Append(accessWatch, B) \in Seq(SUBSET (Request \X Policy))
    BY Appended, Zenon DEF TypeOK
  <2>. QED
    BY <1>6, <2>1, Zenon DEF SetBound, TypeOK
<1>7. ASSUME NEW r \in Request, NEW p \in Policy, Bind(r, p) \/ Unbind(r, p) PROVE TypeOK'
  <2>1. \E B \in SUBSET (Request \X Policy) : SetBound(B)
    <3>1. bound \cup {<<r, p>>} \in SUBSET (Request \X Policy)
      BY DEF TypeOK
    <3>2. bound \ {<<r, p>>} \in SUBSET (Request \X Policy)
      BY DEF TypeOK
    <3>. QED
      BY <1>7, <3>1, <3>2, Zenon DEF Bind, Unbind
  <2>2. steady' \subseteq Policy
    BY <1>7, Zenon DEF Bind, Unbind, StillBound, TypeOK
  <2>3. changes' \in Nat /\ sweeps' \in Nat
    BY <1>7 DEF Bind, Unbind, Change, TypeOK
  <2>4. /\ bound' \subseteq Request \X Policy /\ granted' \subseteq Request \X Policy
        /\ access' \subseteq Request \X Policy
        /\ accessWatch' \in Seq(SUBSET (Request \X Policy))
    BY <1>6, <2>1, Zenon
  <2>. QED
    BY <1>7, <2>2, <2>3, <2>4, Zenon DEF Bind, Unbind, TypeOK, informerVars, labelVars
<1>8. ASSUME NEW n \in Namespace, Relabel(n) PROVE TypeOK'
  <2>1. /\ labelled' \in SUBSET Namespace /\ labelWatch' = Append(labelWatch, labelled')
        /\ marked' \in SUBSET Namespace
    BY <1>8 DEF Relabel, TypeOK
  <2>2. labelWatch' \in Seq(SUBSET Namespace)
    BY <2>1, Appended, Zenon DEF TypeOK
  <2>3. changes' \in Nat /\ sweeps' \in Nat
    BY <1>8 DEF Relabel, Change, TypeOK
  <2>. QED
    BY <1>8, <2>1, <2>2, <2>3, Zenon DEF Relabel, TypeOK, accessVars, labelVars, historyVars
<1>9. CASE SyncAccess
  <2>1. Head(accessWatch) \in SUBSET (Request \X Policy)
    BY <1>9, Taken, Zenon DEF SyncAccess, TypeOK
  <2>2. accessWatch' \in Seq(SUBSET (Request \X Policy))
    BY <1>9, Taken, Zenon DEF SyncAccess, TypeOK
  <2>3. steady' \subseteq Policy
    BY <1>9, Zenon DEF SyncAccess, StillBound, TypeOK
  <2>. QED
    BY <1>9, <2>1, <2>2, <2>3, Zenon DEF SyncAccess, TypeOK, labelVars, informerVars, queueVars
<1>10. CASE SyncPolicy
  <2>1. Head(policyWatch) \in PolicyChange /\ policyWatch' \in Seq(PolicyChange)
    BY <1>10, Taken, Zenon DEF SyncPolicy, TypeOK, PolicyChange
  <2>2. policyCache' \in [Policy -> PolicyObject] /\ sweeps' \in Nat
    BY <1>10, <2>1 DEF SyncPolicy, TypeOK, PolicyChange
  <2>. QED
    BY <1>10, <2>1, <2>2, Zenon DEF SyncPolicy, TypeOK, PolicyChange, apiVars, accessVars, labelVars,
       historyVars
<1>11. CASE SyncRequest
  <2>1. Head(requestWatch) \in RequestChange /\ requestWatch' \in Seq(RequestChange)
    BY <1>11, Taken, Zenon DEF SyncRequest, TypeOK, RequestChange
  <2>2. requestCache' \in [Request -> RequestObject] /\ events' \in Seq(Request)
    BY <1>11, <2>1 DEF SyncRequest, TypeOK, RequestChange
  <2>. QED
    BY <1>11, <2>1, <2>2, Zenon DEF SyncRequest, TypeOK, RequestChange, apiVars, accessVars, labelVars,
       historyVars
<1>12. CASE SyncNamespace
  <2>1. Head(labelWatch) \in SUBSET Namespace
    BY <1>12, Taken, Zenon DEF SyncNamespace, TypeOK
  <2>2. labelWatch' \in Seq(SUBSET Namespace)
    BY <1>12, Taken, Zenon DEF SyncNamespace, TypeOK
  <2>3. steady' \subseteq Policy
    BY <1>12, Zenon DEF SyncNamespace, TypeOK
  <2>. QED
    BY <1>12, <2>1, <2>2, <2>3, Zenon DEF SyncNamespace, TypeOK, apiVars, accessVars, labelVars, queueVars
<1>13. CASE HandleRequest
  <2>1. events' \in Seq(Request) /\ queue' \subseteq Request
    BY <1>13, Taken DEF HandleRequest, TypeOK
  <2>. QED
    BY <1>13, <2>1, Zenon DEF HandleRequest, TypeOK, apiVars, accessVars, labelVars, informerVars, historyVars
<1>14. CASE Sweep
  <2>1. sweeps' \in Nat /\ queue' \subseteq Request
    BY <1>14 DEF Sweep, Pending, TypeOK
  <2>. QED
    BY <1>14, <2>1, Zenon DEF Sweep, TypeOK, apiVars, accessVars, labelVars, informerVars, historyVars
<1>15. CASE Resync
  <2>1. sweeps' \in Nat /\ disruptions' \in Nat
    BY <1>15 DEF Resync, Disrupt, TypeOK
  <2>. QED
    BY <1>15, <2>1, Zenon DEF Resync, TypeOK, apiVars, accessVars, labelVars, informerVars, historyVars
<1>16. ASSUME NEW r \in Request, Expire(r) PROVE TypeOK'
  BY <1>16, Zenon DEF Expire, TypeOK, apiVars, accessVars, labelVars, informerVars, historyVars
<1>17. ASSUME NEW r \in Request, Start(r) PROVE TypeOK'
  <2>1. [name |-> r, object |-> requestCache[r], stage |-> "list",
         listed |-> [p \in Policy |-> NoPolicy], candidates |-> {},
         usable |-> {}, denied |-> {}, outcome |-> NoDecision] \in Call
    BY ObjectTypes, SMTT(30) DEF TypeOK, Call
  <2>2. calls' \subseteq Call /\ \A c, d \in calls' : c = d
    BY <1>17, <2>1, Zenon DEF Start
  <2>. QED
    BY <1>17, <2>2, Zenon DEF Start, TypeOK, apiVars, accessVars, labelVars, informerVars, historyVars
<1>18. CASE List
  <2>1. PICK c \in calls : List!(c)
    BY <1>18, Zenon DEF List
  <2> DEFINE kept == {p \in {p \in Policy : Ready(policyCache[p])} :
                         SelectorIssuerRef(SpecOf(p, policyCache[p]), c.name, c.object.uid)}
             d == [c EXCEPT !.stage = "namespace", !.listed = policyCache, !.candidates = kept]
  <2>2. c \in Call /\ kept \in SUBSET Policy /\ policyCache \in [Policy -> PolicyObject]
    BY Zenon DEF TypeOK
  <2>3. ReviewStep(d) /\ steady' \subseteq kept
    BY <2>1, Zenon
  <2> HIDE DEF kept
  <2>4. "namespace" \in {"list", "namespace", "access", "done"}
    OBVIOUS
  <2>5. d \in Call
    BY <2>2, <2>4, Zenon DEF Call
  <2>. QED
    BY <2>2, <2>3, <2>5, ReviewType, Zenon
<1>19. CASE FilterNamespace
  <2>1. PICK c \in calls : FilterNamespace!(c)
    BY <1>19, Zenon DEF FilterNamespace
  <2> DEFINE kept == {p \in c.candidates :
                         SelectorNamespace(SpecOf(p, c.listed[p]), c.name, labelCache)}
             d == [c EXCEPT !.stage = "access", !.candidates = kept]
  <2>2. c \in Call
    BY DEF TypeOK
  <2>3. kept \in SUBSET Policy
    BY <2>2 DEF Call
  <2>4. ReviewStep(d) /\ UNCHANGED steady
    BY <2>1
  <2> HIDE DEF kept
  <2>5. "access" \in {"list", "namespace", "access", "done"}
    OBVIOUS
  <2>6. d \in Call
    BY <2>2, <2>3, <2>5, Zenon DEF Call
  <2>. QED
    BY <2>4, <2>6, ReviewType, Zenon DEF TypeOK
<1>20. ASSUME NEW p \in Policy, ReviewAccess(p) PROVE TypeOK'
  <2>1. PICK c \in calls : ReviewAccess(p)!(c)
    BY <1>20, Zenon DEF ReviewAccess
  <2> DEFINE d == [c EXCEPT !.candidates = c.candidates \ {p},
                     !.usable = IF <<c.name, p>> \in access THEN c.usable \cup {p} ELSE c.usable]
  <2>2. c \in Call
    BY DEF TypeOK
  <2>3. ReviewStep(d) /\ UNCHANGED steady
    BY <2>1
  <2>4. d \in Call
    <3>1. /\ c.candidates \ {p} \in SUBSET Policy
          /\ (IF <<c.name, p>> \in access THEN c.usable \cup {p} ELSE c.usable) \in SUBSET Policy
      BY <2>2 DEF Call
    <3>. QED
      BY <2>2, <3>1, Zenon DEF Call
  <2> HIDE DEF d
  <2>. QED
    BY <2>3, <2>4, ReviewType, Zenon DEF TypeOK
<1>21. ASSUME NEW p \in Policy, Evaluate(p) PROVE TypeOK'
  <2>1. PICK c \in calls : Evaluate(p)!(c)
    BY <1>21, Zenon DEF Evaluate
  <2>2. c \in Call /\ c.denied \cup {p} \in SUBSET Policy /\ {p} \in SUBSET Policy
    BY DEF TypeOK, Call
  <2> DEFINE d == [c EXCEPT !.usable = c.usable \ {p}, !.denied = c.denied \cup {p}]
  <2>3. d \in Call
    <3>1. c.usable \ {p} \in SUBSET Policy
      BY <2>2 DEF Call
    <3>. QED
      BY <2>2, <3>1, Zenon DEF Call
  <2>4. /\ Ended(c, "Approved", {p}) \in Call
        /\ Ended(c, "Denied", c.denied \cup {p}) \in Call
    BY <2>2, EndedType, Zenon
  <2>5. \E e \in Call : ReviewStep(e)
    BY <2>1, <2>3, <2>4, Zenon
  <2>. QED
    BY <2>1, <2>5, ReviewType, Zenon DEF TypeOK
<1>22. CASE NotApplicable
  <2>1. PICK c \in calls : NotApplicable!(c)
    BY <1>22, Zenon DEF NotApplicable
  <2>2. c \in Call /\ {} \in SUBSET Policy
    BY DEF TypeOK
  <2>3. Ended(c, "Unprocessed", {}) \in Call
    BY <2>2, EndedType, Zenon
  <2>. QED
    BY <2>1, <2>3, ReviewType, Zenon DEF TypeOK
<1>23. CASE Leave
  BY <1>23, Zenon DEF Leave, TypeOK, apiVars, accessVars, labelVars, informerVars, queueVars
<1>24. CASE Patch
  <2>1. PICK c \in calls : Patch!(c)
    BY <1>24, Zenon DEF Patch
  <2>2. c.name \in Request /\ c.outcome \in Decision
    BY <2>1, OutcomeType, Zenon
  <2>3. request' \in [Request -> RequestObject] /\ requestWatch' \in Seq(RequestChange)
    BY <2>1, <2>2, AppliedType, Zenon
  <2>4. timers' \subseteq Request
    BY <2>1, <2>2, Zenon DEF TypeOK
  <2>. QED
    BY <2>1, <2>3, <2>4, Zenon DEF TypeOK, RequestChange, accessVars, labelVars
<1>25. CASE LatePatch
  <2>1. PICK d \in late : LatePatch!(d)
    BY <1>25, Zenon DEF LatePatch
  <2>2. d.name \in Request /\ d.decision \in Decision
    BY DEF TypeOK
  <2>3. request' \in [Request -> RequestObject] /\ requestWatch' \in Seq(RequestChange)
    BY <2>1, <2>2, AppliedType, Zenon
  <2>4. late' \subseteq [name : Request, decision : Decision]
    BY <2>1, Zenon DEF TypeOK
  <2>. QED
    BY <2>1, <2>3, <2>4, Zenon DEF TypeOK, RequestChange, accessVars, labelVars, queueVars, historyVars
<1>26. CASE Fail
  <2>1. timers' \subseteq Request
    <3>1. \A c \in calls : c.name \in Request
      BY OutcomeType, Zenon
    <3>. QED
      BY <1>26, <3>1 DEF Fail, TypeOK
  <2>2. disruptions' \in Nat
    BY <1>26 DEF Fail, Disrupt, TypeOK
  <2>. QED
    BY <1>26, <2>1, <2>2, Zenon DEF Fail, TypeOK, apiVars, accessVars, labelVars, informerVars
<1>27. CASE Restart
  <2>1. PICK S \in SUBSET {c \in calls : c.stage = "done" /\ c.outcome.result # "Unprocessed"} :
           late' = late \cup {[name |-> c.name, decision |-> c.outcome] : c \in S}
    BY <1>27, Zenon DEF Restart
  <2>2. ASSUME NEW c \in S
        PROVE  [name |-> c.name, decision |-> c.outcome] \in [name : Request, decision : Decision]
    BY OutcomeType, SMT
  <2>3. late' \subseteq [name : Request, decision : Decision]
    BY <2>1, <2>2, Zenon DEF TypeOK
  <2>4. disruptions' \in Nat /\ sweeps' \in Nat
    BY <1>27 DEF Restart, Disrupt, TypeOK
  <2>5. /\ policyWatch' \in Seq(PolicyChange) /\ requestWatch' \in Seq(RequestChange)
        /\ labelWatch' \in Seq(SUBSET Namespace) /\ events' \in Seq(Request)
    BY <1>27 DEF Restart
  <2>6. queue' \subseteq Request
    BY <1>27, Zenon DEF Restart
  <2>. QED
    BY <1>27, <2>3, <2>4, <2>5, <2>6, Zenon DEF Restart, TypeOK, PolicyChange, RequestChange,
       accessVars, labelVars
<1>28. CASE UNCHANGED vars
  BY <1>28, Zenon DEF TypeOK, vars, apiVars, accessVars, labelVars, informerVars, queueVars, historyVars
<1>. QED
  BY <1>1, <1>2, <1>3, <1>4, <1>5, <1>7, <1>8, <1>9, <1>10, <1>11, <1>12, <1>13, <1>14,
     <1>15, <1>16, <1>17, <1>18, <1>19, <1>20, <1>21, <1>22, <1>23, <1>24, <1>25, <1>26,
     <1>27, <1>28, Zenon DEF Next

-----------------------------------------------------------------------------
\* What the parts of IInv other than TypeOK speak of.
tracked == <<specs, policy, requests, request, accessVars, late, policyWatch, policyCache,
             requestWatch, requestCache, labelCache, calls, historyVars>>

\* The steps that change any of it.
LEMMA StepCases ==
    [Next]_vars =>
       \/ UNCHANGED tracked
       \/ \E p \in Policy : \/ \E s \in PolicySpec : WritePolicy(p, s)
                            \/ DeletePolicy(p)
                            \/ \E ready \in BOOLEAN, v \in 1 .. Len(specs[p]) : SetReady(p, ready, v)
                            \/ \E r \in Request : Bind(r, p) \/ Unbind(r, p)
                            \/ ReviewAccess(p)
                            \/ Evaluate(p)
       \/ \E r \in Request : \/ \E q \in RequestSpec : CreateRequest(r, q)
                             \/ DeleteRequest(r)
                             \/ Start(r)
       \/ SyncAccess \/ SyncPolicy \/ SyncRequest \/ SyncNamespace \/ Restart \/ LatePatch
       \/ List \/ FilterNamespace \/ NotApplicable \/ Leave \/ Patch \/ Fail
BY Zenon DEF Next, vars, tracked, Expire, Relabel, HandleRequest, Sweep, Resync, apiVars,
             informerVars, accessVars, labelVars

\* What was written, created, reported ready or granted stays on record.
Grows ==
    /\ \A p \in Policy : /\ Len(specs[p]) \in Nat /\ Len(specs'[p]) \in Nat
                         /\ Len(specs[p]) <= Len(specs'[p])
                         /\ \A v \in 1 .. Len(specs[p]) : specs'[p][v] = specs[p][v]
    /\ \A r \in Request : /\ Len(requests[r]) \in Nat /\ Len(requests'[r]) \in Nat
                          /\ Len(requests[r]) <= Len(requests'[r])
                          /\ \A u \in 1 .. Len(requests[r]) : requests'[r][u] = requests[r][u]
    /\ vetted \subseteq vetted'
    /\ granted \subseteq granted'
    /\ marked \subseteq marked'

\* Only Relabel changes which namespaces have, and have had, the label, and few
\* steps what the informer knows of it.
LEMMA LabelCases ==
    [Next]_vars => \/ UNCHANGED <<labelVars, labelWatch, labelCache>>
                   \/ \E n \in Namespace : Relabel(n)
                   \/ (SyncNamespace \/ Restart) /\ UNCHANGED labelVars
<1>1. CASE \E p \in Policy : \/ DeletePolicy(p) \/ \E s \in PolicySpec : WritePolicy(p, s)
                             \/ \E ready \in BOOLEAN, v \in 1 .. Len(specs[p]) : SetReady(p, ready, v)
                             \/ \E r \in Request : Bind(r, p) \/ Unbind(r, p)
                             \/ ReviewAccess(p) \/ Evaluate(p)
  BY <1>1, Zenon DEF DeletePolicy, WritePolicy, SetReady, Bind, Unbind, ReviewAccess, Evaluate,
     ReviewStep, apiVars, informerVars
<1>2. CASE \E r \in Request : \/ \E q \in RequestSpec : CreateRequest(r, q)
                              \/ DeleteRequest(r) \/ Expire(r) \/ Start(r)
  BY <1>2, Zenon DEF CreateRequest, DeleteRequest, Expire, Start, apiVars, informerVars
<1>3. CASE SyncAccess \/ SyncPolicy \/ SyncRequest \/ SyncNamespace \/ HandleRequest \/ Sweep \/ Resync
  BY <1>3, Zenon DEF SyncAccess, SyncPolicy, SyncRequest, SyncNamespace, HandleRequest, Sweep, Resync,
     apiVars, informerVars
<1>4. CASE Restart \/ LatePatch \/ List \/ FilterNamespace \/ NotApplicable
  BY <1>4, Zenon DEF Restart, LatePatch, List, FilterNamespace, NotApplicable, ReviewStep, apiVars,
     informerVars
<1>5. CASE Leave \/ Patch \/ Fail \/ UNCHANGED vars
  BY <1>5, Zenon DEF Leave, Patch, Fail, vars, apiVars, informerVars
<1>. QED
  BY <1>1, <1>2, <1>3, <1>4, <1>5, Zenon DEF Next

\* Relabel and the Namespace informer: only labels that were set are known of.
LEMMA LabelsStep == IInv /\ [Next]_vars => LabelsMarked'
<1> SUFFICES ASSUME IInv, [Next]_vars PROVE LabelsMarked'
  OBVIOUS
<1>0. TypeOK /\ LabelsMarked /\ labelWatch \in Seq(SUBSET Namespace)
  BY Zenon DEF IInv, TypeOK
<1>1. CASE UNCHANGED <<labelVars, labelWatch, labelCache>>
  BY <1>0, <1>1, Zenon DEF LabelsMarked, labelVars
<1>2. ASSUME NEW n \in Namespace, Relabel(n) PROVE LabelsMarked'
  <2>1. /\ marked' = marked \cup {n} /\ labelCache' = labelCache
        /\ labelled' \in {labelled \ {n}, labelled \cup {n}}
        /\ labelWatch' = Append(labelWatch, labelled')
    BY <1>2 DEF Relabel
  <2>2. labelled' \subseteq marked' /\ labelCache' \subseteq marked' /\ labelled' \in SUBSET Namespace
    BY <1>0, <2>1 DEF LabelsMarked, TypeOK
  <2>3. /\ Len(labelWatch) \in Nat /\ Len(labelWatch') = Len(labelWatch) + 1
        /\ labelWatch'[Len(labelWatch) + 1] = labelled'
        /\ \A k \in 1 .. Len(labelWatch) : labelWatch'[k] = labelWatch[k]
    BY <1>0, <2>1, <2>2, Appended
  <2>4. \A k \in 1 .. Len(labelWatch') : k \in 1 .. Len(labelWatch) \/ k = Len(labelWatch) + 1
    BY <2>3
  <2>5. \A k \in 1 .. Len(labelWatch') : labelWatch'[k] \subseteq marked'
    BY <1>0, <2>1, <2>2, <2>3, <2>4, Zenon DEF LabelsMarked
  <2>. QED
    BY <2>2, <2>5, Zenon DEF LabelsMarked
<1>3. CASE SyncNamespace /\ UNCHANGED labelVars
  <2>1. /\ labelWatch # <<>> /\ labelWatch' = Tail(labelWatch) /\ labelCache' = Head(labelWatch)
        /\ UNCHANGED <<labelled, marked>>
    BY <1>3, Zenon DEF SyncNamespace, labelVars
  <2>2. /\ Head(labelWatch) = labelWatch[1] /\ 1 \in 1 .. Len(labelWatch)
        /\ \A k \in 1 .. Len(labelWatch') :
              k + 1 \in 1 .. Len(labelWatch) /\ labelWatch'[k] = labelWatch[k + 1]
    BY <1>0, <2>1, Taken
  <2>. QED
    BY <1>0, <2>1, <2>2, Zenon DEF LabelsMarked
<1>4. CASE Restart /\ UNCHANGED labelVars
  <2>1. labelWatch' = <<>> /\ labelCache' = labelled /\ UNCHANGED <<labelled, marked>>
    BY <1>4, Zenon DEF Restart, labelVars
  <2>2. 1 .. Len(labelWatch') = {}
    BY <2>1
  <2>. QED
    BY <1>0, <2>1, <2>2, Zenon DEF LabelsMarked
<1>. QED
  BY <1>1, <1>2, <1>3, <1>4, LabelCases, Zenon

\* The three ways it grows, apart from SetReady.
LEMMA SpecAppended ==
    ASSUME TypeOK, NEW p \in Policy, NEW s \in PolicySpec, WritePolicy(p, s)
    PROVE  /\ specs' = [specs EXCEPT ![p] = Append(specs[p], s)]
           /\ Len(specs[p]) \in Nat /\ Len(specs'[p]) = Len(specs[p]) + 1
           /\ \A v \in 1 .. Len(specs[p]) : specs'[p][v] = specs[p][v]
           /\ \A q \in Policy : q # p => specs'[q] = specs[q]
<1>1. specs[p] \in Seq(PolicySpec) /\ specs' = [specs EXCEPT ![p] = Append(specs[p], s)]
  BY DEF TypeOK, WritePolicy
<1>2. specs'[p] = Append(specs[p], s) /\ \A q \in Policy : q # p => specs'[q] = specs[q]
  BY <1>1 DEF TypeOK
<1>3. /\ Len(specs[p]) \in Nat /\ Len(Append(specs[p], s)) = Len(specs[p]) + 1
      /\ \A v \in 1 .. Len(specs[p]) : Append(specs[p], s)[v] = specs[p][v]
  BY <1>1, Appended
<1>. QED
  BY <1>1, <1>2, <1>3

\* CreateRequest adds to the history of one name and keeps the rest.
LEMMA RequestAppended ==
    ASSUME TypeOK, NEW r \in Request, NEW q \in RequestSpec, CreateRequest(r, q)
    PROVE  /\ requests' = [requests EXCEPT ![r] = Append(requests[r], q)]
           /\ Len(requests[r]) \in Nat /\ Len(requests'[r]) = Len(requests[r]) + 1
           /\ \A u \in 1 .. Len(requests[r]) : requests'[r][u] = requests[r][u]
           /\ \A x \in Request : x # r => requests'[x] = requests[x]
<1>1. requests[r] \in Seq(RequestSpec) /\ requests' = [requests EXCEPT ![r] = Append(requests[r], q)]
  BY DEF TypeOK, CreateRequest
<1>2. requests'[r] = Append(requests[r], q) /\ \A x \in Request : x # r => requests'[x] = requests[x]
  BY <1>1 DEF TypeOK
<1>3. /\ Len(requests[r]) \in Nat /\ Len(Append(requests[r], q)) = Len(requests[r]) + 1
      /\ \A u \in 1 .. Len(requests[r]) : Append(requests[r], q)[u] = requests[r][u]
  BY <1>1, Appended
<1>. QED
  BY <1>1, <1>2, <1>3

\* Only a few steps touch what is remembered, and they only add to it.
LEMMA HistoryFrame ==
    [Next]_vars =>
       /\ specs' = specs \/ \E p \in Policy, s \in PolicySpec : WritePolicy(p, s)
       /\ requests' = requests \/ \E r \in Request, q \in RequestSpec : CreateRequest(r, q)
       /\ vetted \subseteq vetted'
       /\ granted \subseteq granted'
       /\ marked \subseteq marked'
<1> SUFFICES ASSUME [Next]_vars, marked \subseteq marked'
             PROVE  /\ specs' = specs \/ \E p \in Policy, s \in PolicySpec : WritePolicy(p, s)
                    /\ requests' = requests \/ \E r \in Request, q \in RequestSpec : CreateRequest(r, q)
                    /\ vetted \subseteq vetted' /\ granted \subseteq granted'
  BY LabelCases, Zenon DEF Relabel, labelVars
<1>1. ASSUME NEW p \in Policy, NEW ready \in BOOLEAN, NEW v \in 1 .. Len(specs[p]),
             SetReady(p, ready, v)
      PROVE  UNCHANGED <<specs, requests, granted>> /\ vetted \subseteq vetted'
  BY <1>1, Zenon DEF SetReady
<1>2. ASSUME NEW r \in Request, NEW p \in Policy, Bind(r, p) \/ Unbind(r, p)
      PROVE  UNCHANGED <<specs, requests, vetted>> /\ granted \subseteq granted'
  BY <1>2, Zenon DEF Bind, Unbind, SetBound
<1>3. CASE \/ \E p \in Policy : ReviewAccess(p) \/ Evaluate(p)
           \/ List \/ FilterNamespace \/ NotApplicable
  BY <1>3, Zenon DEF List, FilterNamespace, NotApplicable, ReviewAccess, Evaluate, ReviewStep, apiVars
<1>4. CASE \E p \in Policy : DeletePolicy(p) \/ \E s \in PolicySpec : WritePolicy(p, s)
  BY <1>4, Zenon DEF DeletePolicy, WritePolicy, Policies!Delete, Policies!Write
<1>5. CASE \E r \in Request : \/ DeleteRequest(r) \/ Start(r)
                              \/ \E q \in RequestSpec : CreateRequest(r, q)
  BY <1>5, Zenon DEF DeleteRequest, Start, CreateRequest, apiVars, historyVars
<1>6. CASE SyncAccess \/ SyncPolicy \/ SyncRequest \/ SyncNamespace \/ Restart
  BY <1>6, Zenon DEF SyncAccess, SyncPolicy, SyncRequest, SyncNamespace, Restart, apiVars, historyVars
<1>7. CASE LatePatch \/ Leave \/ Patch \/ Fail \/ UNCHANGED tracked
  BY <1>7, Zenon DEF LatePatch, Leave, Patch, Fail, tracked, apiVars, historyVars
<1>. QED
  BY <1>1, <1>2, <1>3, <1>4, <1>5, <1>6, <1>7, StepCases, Zenon

\* What has been written, created, reported or granted stays so.
LEMMA GrowsStep == ASSUME TypeOK, [Next]_vars PROVE Grows
<1>1. /\ \A p \in Policy : Len(specs[p]) \in Nat
      /\ \A r \in Request : Len(requests[r]) \in Nat
  BY DEF TypeOK
<1>2. ASSUME NEW p \in Policy
      PROVE  /\ Len(specs'[p]) \in Nat /\ Len(specs[p]) <= Len(specs'[p])
             /\ \A v \in 1 .. Len(specs[p]) : specs'[p][v] = specs[p][v]
  <2>1. CASE specs' = specs
    BY <1>1, <2>1
  <2>2. ASSUME NEW q \in Policy, NEW s \in PolicySpec, WritePolicy(q, s)
        PROVE  /\ Len(specs'[p]) \in Nat /\ Len(specs[p]) <= Len(specs'[p])
               /\ \A v \in 1 .. Len(specs[p]) : specs'[p][v] = specs[p][v]
    <3>1. CASE p = q
      BY <1>1, <2>2, <3>1, SpecAppended
    <3>2. CASE p # q
      BY <1>1, <2>2, <3>2, SpecAppended
    <3>. QED
      BY <3>1, <3>2
  <2>. QED
    BY <2>1, <2>2, HistoryFrame, Zenon
<1>3. ASSUME NEW r \in Request
      PROVE  /\ Len(requests'[r]) \in Nat /\ Len(requests[r]) <= Len(requests'[r])
             /\ \A u \in 1 .. Len(requests[r]) : requests'[r][u] = requests[r][u]
  <2>1. CASE requests' = requests
    BY <1>1, <2>1
  <2>2. ASSUME NEW x \in Request, NEW q \in RequestSpec, CreateRequest(x, q)
        PROVE  /\ Len(requests'[r]) \in Nat /\ Len(requests[r]) <= Len(requests'[r])
               /\ \A u \in 1 .. Len(requests[r]) : requests'[r][u] = requests[r][u]
    <3>1. CASE r = x
      BY <1>1, <2>2, <3>1, RequestAppended
    <3>2. CASE r # x
      BY <1>1, <2>2, <3>2, RequestAppended
    <3>. QED
      BY <3>1, <3>2
  <2>. QED
    BY <2>1, <2>2, HistoryFrame, Zenon
<1>. QED
  BY <1>1, <1>2, <1>3, HistoryFrame, Zenon DEF Grows

\* What refers to the record keeps its meaning.
LEMMA ReportedKept ==
    ASSUME Grows, NEW p \in Policy, NEW o \in PolicyObject, Reported(p, o)
    PROVE  /\ Reported(p, o)'
           /\ o.revision > 0 => SpecOf(p, o)' = SpecOf(p, o)
<1>1. o.revision \in Nat /\ o.revision <= Len(specs[p])
  BY DEF PolicyObject, Policies!PolicyObject, Reported
<1>2. Len(specs[p]) \in Nat /\ Len(specs'[p]) \in Nat /\ Len(specs[p]) <= Len(specs'[p])
  BY DEF Grows
<1>3. o.revision <= Len(specs'[p])
  BY <1>1, <1>2
<1>4. o.revision > 0 => o.revision \in 1 .. Len(specs[p])
  BY <1>1, <1>2
<1>. QED
  BY <1>3, <1>4, Zenon DEF Grows, Reported, SpecOf

\* What the predicates say of a request once created does not change.
LEMMA RequestKept ==
    ASSUME Grows, NEW r \in Request, NEW u \in 1 .. Len(requests[r])
    PROVE  /\ u \in 1 .. Len(requests'[r]) /\ requests'[r][u] = requests[r][u]
           /\ \A s : SelectorIssuerRef(s, r, u)' <=> SelectorIssuerRef(s, r, u)
           /\ \A s : Denies(s, r, u)' <=> Denies(s, r, u)
           /\ \A s : Errs(s, r, u)' <=> Errs(s, r, u)
<1>1. u \in 1 .. Len(requests'[r]) /\ requests'[r][u] = requests[r][u]
  BY DEF Grows
<1>. QED
  BY <1>1, Zenon DEF SelectorIssuerRef, Denies, Errs

\* A justified decision stays justified.
LEMMA JustifiedKept ==
    ASSUME Grows, NEW r \in Request, NEW d, Promise!Justified(r, d)
    PROVE  Promise!Justified(r, d)'
<1>1. /\ d.result \in {"Approved", "Denied"} /\ d.by # {}
      /\ d.of \in 1 .. Len(requests[r])
  BY DEF Promise!Justified
<1>2. d.of \in 1 .. Len(requests'[r]) /\ requests'[r][d.of] = requests[r][d.of]
  BY <1>1, RequestKept, Zenon
<1>3. ASSUME NEW b \in d.by
      PROVE  /\ b[1] \in Policy
             /\ b[2] \in 1 .. Len(specs[b[1]]) /\ b[2] \in 1 .. Len(specs'[b[1]])
             /\ specs'[b[1]][b[2]] = specs[b[1]][b[2]]
             /\ Promise!Consultable(r, d.of, b[1], b[2])
             /\ Promise!Refuses(specs[b[1]][b[2]], requests[r][d.of]) <=> d.result = "Denied"
  <2>1. /\ b[1] \in Policy /\ Promise!Consultable(r, d.of, b[1], b[2])
        /\ Promise!Refuses(specs[b[1]][b[2]], requests[r][d.of]) <=> d.result = "Denied"
    BY Zenon DEF Promise!Justified
  <2>2. b[2] \in 1 .. Len(specs[b[1]])
    BY <2>1 DEF Promise!Consultable
  <2>3. b[2] \in 1 .. Len(specs'[b[1]]) /\ specs'[b[1]][b[2]] = specs[b[1]][b[2]]
    BY <2>1, <2>2 DEF Grows
  <2>. QED
    BY <2>1, <2>2, <2>3
<1>4. ASSUME NEW b \in d.by PROVE Promise!Consultable(r, d.of, b[1], b[2])'
  <2>1. Promise!SelectsNamespace(specs[b[1]][b[2]], r)'
    BY <1>3, Zenon DEF Promise!Consultable, Promise!SelectsNamespace, Grows
  <2>. QED
    BY <1>2, <1>3, <2>1, Zenon DEF Promise!Consultable, Grows
<1>5. ASSUME NEW b \in d.by
      PROVE  (Promise!Refuses(specs[b[1]][b[2]], requests[r][d.of]) <=> d.result = "Denied")'
  BY <1>2, <1>3, Zenon DEF Promise!Refuses
<1>. QED
  BY <1>1, <1>2, <1>3, <1>4, <1>5, Zenon DEF Promise!Justified

-----------------------------------------------------------------------------
\* Sending what is stored keeps an informer on its way.
LEMMA SentCatchesUp ==
    ASSUME NEW S, NEW w \in Seq(S), NEW e \in S, NEW cache, NEW before, NEW after, NEW n,
           after[n] = IF n = e.name THEN e.object ELSE before[n],
           CatchesUp(w, cache, before, n)
    PROVE  CatchesUp(Append(w, e), cache, after, n)
<1> DEFINE x == Append(w, e)
<1>1. /\ Len(w) \in Nat /\ Len(x) = Len(w) + 1
      /\ x[Len(w) + 1] = e
      /\ \A k \in 1 .. Len(w) : x[k] = w[k]
  BY Appended
<1> HIDE DEF x
<1>2. ASSUME \A k \in 1 .. Len(x) : x[k].name # n
      PROVE  cache[n] = after[n]
  <2>1. n # e.name /\ \A k \in 1 .. Len(w) : w[k].name # n
    BY <1>1, <1>2
  <2>. QED
    BY <2>1, Zenon DEF CatchesUp
<1>3. ASSUME NEW k \in 1 .. Len(x), x[k].name = n, \A j \in k + 1 .. Len(x) : x[j].name # n
      PROVE  x[k].object = after[n]
  <2>1. CASE k = Len(w) + 1
    BY <1>1, <1>3, <2>1
  <2>2. CASE k \in 1 .. Len(w)
    <3>1. n # e.name /\ w[k].name = n /\ \A j \in k + 1 .. Len(w) : w[j].name # n
      BY <1>1, <1>3, <2>2
    <3>2. w[k].object = before[n]
      BY <2>2, <3>1, Zenon DEF CatchesUp
    <3>. QED
      BY <1>1, <2>2, <3>1, <3>2
  <2>. QED
    BY <1>1, <2>1, <2>2
<1>4. CatchesUp(x, cache, after, n)
  BY <1>2, <1>3, Zenon DEF CatchesUp
<1>. QED
  BY <1>4 DEF x

\* So does applying the first change.
LEMMA AppliedCatchesUp ==
    ASSUME NEW S, NEW w \in Seq(S), w # <<>>, NEW before, NEW after, NEW stored, NEW n,
           after[n] = IF n = Head(w).name THEN Head(w).object ELSE before[n],
           CatchesUp(w, before, stored, n)
    PROVE  CatchesUp(Tail(w), after, stored, n)
<1> DEFINE x == Tail(w)
<1>1. /\ Len(w) \in Nat /\ Len(w) >= 1 /\ Len(x) = Len(w) - 1
      /\ Head(w) = w[1]
      /\ \A k \in 1 .. Len(w) - 1 : x[k] = w[k + 1]
  OBVIOUS
<1> HIDE DEF x
<1>2. \A j \in 2 .. Len(w) : j - 1 \in 1 .. Len(x) /\ w[j] = x[j - 1]
  BY <1>1
<1>3. ASSUME \A k \in 1 .. Len(x) : x[k].name # n
      PROVE  after[n] = stored[n]
  <2>1. \A j \in 2 .. Len(w) : w[j].name # n
    BY <1>2, <1>3, Zenon
  <2>2. CASE w[1].name = n
    <3>1. w[1].object = stored[n]
      BY <1>1, <2>1, <2>2 DEF CatchesUp
    <3>. QED
      BY <1>1, <2>2, <3>1
  <2>3. CASE w[1].name # n
    <3>1. \A j \in 1 .. Len(w) : w[j].name # n
      BY <1>1, <2>1, <2>3
    <3>. QED
      BY <1>1, <2>3, <3>1, Zenon DEF CatchesUp
  <2>. QED
    BY <2>2, <2>3
<1>4. ASSUME NEW k \in 1 .. Len(x), x[k].name = n, \A j \in k + 1 .. Len(x) : x[j].name # n
      PROVE  x[k].object = stored[n]
  <2>1. k + 1 \in 1 .. Len(w) /\ x[k] = w[k + 1]
    BY <1>1
  <2>2. ASSUME NEW j \in (k + 1) + 1 .. Len(w) PROVE w[j].name # n
    <3>1. j \in 2 .. Len(w) /\ j - 1 \in k + 1 .. Len(x)
      BY <1>1
    <3>. QED
      BY <1>2, <1>4, <3>1, Zenon
  <2>. QED
    BY <1>4, <2>1, <2>2, Zenon DEF CatchesUp
<1>5. CatchesUp(x, after, stored, n)
  BY <1>3, <1>4, Zenon DEF CatchesUp
<1>. QED
  BY <1>5 DEF x

\* What is sent is on its way, and what was on its way before still is.
LEMMA SentIsHeld ==
    ASSUME NEW S, NEW w \in Seq(S), NEW e \in S
    PROVE  /\ \E k \in 1 .. Len(Append(w, e)) : Append(w, e)[k] = e
           /\ \A j \in 1 .. Len(w) : \E k \in 1 .. Len(Append(w, e)) : Append(w, e)[k] = w[j]
<1>1. /\ Len(w) \in Nat /\ Len(Append(w, e)) = Len(w) + 1
      /\ Append(w, e)[Len(w) + 1] = e
      /\ \A k \in 1 .. Len(w) : Append(w, e)[k] = w[k]
  BY Appended
<1>2. Len(w) + 1 \in 1 .. Len(Append(w, e))
  BY <1>1
<1>3. \A j \in 1 .. Len(w) : j \in 1 .. Len(Append(w, e))
  BY <1>1
<1>. QED
  BY <1>1, <1>2, <1>3, Zenon

\* What is left when the first change is taken moves up.
LEMMA MovedUp ==
    ASSUME NEW S, NEW w \in Seq(S), w # <<>>
    PROVE  /\ Len(w) \in Nat /\ Head(w) = w[1] /\ 1 \in 1 .. Len(w)
           /\ \A j \in 2 .. Len(w) : j - 1 \in 1 .. Len(Tail(w)) /\ w[j] = Tail(w)[j - 1]
OBVIOUS

\* What is on its way stays so until it is the first and is applied.
LEMMA TakenOrHeld ==
    ASSUME NEW S, NEW w \in Seq(S), w # <<>>, NEW j \in 1 .. Len(w)
    PROVE  w[j] = Head(w) \/ \E k \in 1 .. Len(Tail(w)) : Tail(w)[k] = w[j]
<1>1. /\ Len(w) \in Nat /\ Head(w) = w[1] /\ Len(Tail(w)) = Len(w) - 1
      /\ \A k \in 1 .. Len(w) - 1 : Tail(w)[k] = w[k + 1]
  OBVIOUS
<1>2. CASE j = 1
  BY <1>1, <1>2
<1>3. CASE j # 1
  <2>1. j - 1 \in 1 .. Len(Tail(w)) /\ j - 1 \in 1 .. Len(w) - 1 /\ (j - 1) + 1 = j
    BY <1>1, <1>3
  <2>. QED
    BY <1>1, <2>1
<1>. QED
  BY <1>2, <1>3
=============================================================================
