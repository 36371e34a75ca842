------------------ MODULE CertificateRequestPolicies_steps ------------------
(***************************************************************************)
(* First part of the proofs about the certificaterequestpolicies           *)
(* controller: every step keeps the types, the numbering of uids and       *)
(* revisions, the justification of a Ready=True, and every wake-up.        *)
(***************************************************************************)
EXTENDS CertificateRequestPolicies, TLAPS

Change == [name : Policy, object : Object]

\* The values an action stores are objects.
LEMMA ObjectTypes ==
    /\ NoCondition \in Condition
    /\ NoObject \in Object
    /\ NoResult \in [requeue : BOOLEAN, after : Nat]
BY DEF NoCondition, NoObject, NoResult, Condition, Object

\* What an informer does to a sequence of changes.
LEMMA AppendChange ==
    ASSUME NEW S, NEW s \in Seq(S), NEW e \in S
    PROVE  /\ Append(s, e) \in Seq(S)
           /\ Len(Append(s, e)) = Len(s) + 1
           /\ Append(s, e)[Len(s) + 1] = e
           /\ \A k \in 1 .. Len(s) : Append(s, e)[k] = s[k]
OBVIOUS

\* What is left when the informer has taken the first change.
LEMMA TailChange ==
    ASSUME NEW S, NEW s \in Seq(S), s # <<>>
    PROVE  /\ Head(s) \in S
           /\ Head(s) = s[1]
           /\ Tail(s) \in Seq(S)
           /\ Len(s) \in Nat /\ Len(s) >= 1
           /\ Len(Tail(s)) = Len(s) - 1
           /\ \A k \in 1 .. Len(s) - 1 : Tail(s)[k] = s[k + 1]
OBVIOUS

\* There is one worker.
LEMMA OneCall == ASSUME TypeOK, NEW c \in calls PROVE calls \ {c} = {}
BY DEF TypeOK

\* The condition that a call will write, and what an apply of one does.
LEMMA ConditionType ==
    ASSUME TypeOK, NEW c \in calls
    PROVE  /\ c \in Call /\ c.name \in Policy /\ c.object \in Object /\ c.ready \in BOOLEAN
           /\ ReadyCondition(c) \in Condition
           /\ ReadyCondition(c).revision = c.object.revision
           /\ ReadyCondition(c).status = c.ready
<1>1. c \in Call /\ c.name \in Policy /\ c.object \in Object /\ c.ready \in BOOLEAN
  BY DEF TypeOK, Call
<1>2. Generation(c.object) \in Nat /\ c.object.revision \in Nat /\ now \in Nat
  BY <1>1 DEF Generation, Object, TypeOK
<1>. QED
  BY <1>1, <1>2, Zenon DEF ReadyCondition, Condition

\* A forced apply stores the object with another condition, or nothing.
LEMMA Applied ==
    ASSUME TypeOK, NEW p \in Policy, NEW condition \in Condition, ApplyStatus(p, condition)
    PROVE  \/ UNCHANGED <<policy, watch>>
           \/ \E o \in Object : /\ Exists(policy[p]) /\ Store(p, o)
                               /\ o.uid = policy[p].uid
                               /\ o.revision = policy[p].revision
                               /\ o.ready = condition
<1> DEFINE o == [policy[p] EXCEPT !.ready = condition]
<1>1. /\ o \in Object
      /\ o.uid = policy[p].uid /\ o.revision = policy[p].revision /\ o.ready = condition
  BY Zenon DEF TypeOK, Object
<1>2. UNCHANGED <<policy, watch>> \/ (Exists(policy[p]) /\ Store(p, o))
  BY Zenon DEF ApplyStatus
<1> HIDE DEF o
<1>. QED
  BY <1>1, <1>2

\* A store keeps the types of the API server and the watch.
LEMMA StoreType ==
    ASSUME TypeOK, NEW p \in Policy, NEW o \in Object, Store(p, o)
    PROVE  policy' \in [Policy -> Object] /\ watch' \in Seq([name : Policy, object : Object])
<1>1. watch \in Seq(Change) /\ policy \in [Policy -> Object] /\ [name |-> p, object |-> o] \in Change
  BY DEF TypeOK, Change
<1>. QED
  BY <1>1, AppendChange DEF Store, Change

\* A forced apply keeps the types of objects and changes.
LEMMA AppliedType ==
    ASSUME TypeOK, NEW p \in Policy, NEW condition \in Condition, ApplyStatus(p, condition)
    PROVE  policy' \in [Policy -> Object] /\ watch' \in Seq([name : Policy, object : Object])
<1>1. CASE UNCHANGED <<policy, watch>>
  BY <1>1 DEF TypeOK
<1>2. CASE \E o \in Object : Store(p, o)
  BY <1>2, StoreType, Zenon
<1>. QED
  BY <1>1, <1>2, Applied, Zenon

\* Writing a spec keeps the types when what is written is an object.
LEMMA SpecType ==
    ASSUME TypeOK, NEW p \in Policy, NEW uid, NEW ready,
           [uid |-> uid, revision |-> revisions[p] + 1, ready |-> ready] \in Object,
           WriteSpec(p, uid, ready)
    PROVE  TypeOK'
<1> USE ConstantsAssumption
<1>1. /\ policy' \in [Policy -> Object]
      /\ watch' \in Seq([name : Policy, object : Object])
  BY DEF WriteSpec, Store, TypeOK
<1>2. accepts' \subseteq Reconciler \X Policy \X Nat
  <2>1. revisions[p] + 1 \in Nat
    BY DEF TypeOK
  <2>2. PICK S \in SUBSET Plugin :
           accepts' = accepts \cup ((S \cup (Reconciler \ Plugin)) \X {p} \X {revisions[p] + 1})
    BY DEF WriteSpec
  <2>. QED
    BY <2>1, <2>2 DEF TypeOK
<1>. QED
  <2>1. revisions' \in [Policy -> Nat]
    BY DEF WriteSpec, TypeOK
  <2>. QED
    BY <1>1, <1>2, <2>1, SMTT(30) DEF WriteSpec, TypeOK, forwarderVars

\* TypeOK, inductively: every operation of the controller, of its environment
\* and of the forwarder keeps every variable in its type.
LEMMA TypeStep == TypeOK /\ Numbered /\ [Next]_vars => TypeOK'
<1> SUFFICES ASSUME TypeOK, Numbered, [Next]_vars PROVE TypeOK'
  OBVIOUS
<1> USE ConstantsAssumption
<1>1. ASSUME NEW p \in Policy, CreatePolicy(p) PROVE TypeOK'
  <2>1. [uid |-> revisions[p] + 1, revision |-> revisions[p] + 1, ready |-> NoCondition] \in Object
    BY <1>1, ObjectTypes DEF TypeOK, Object
  <2>. QED
    BY <1>1, <2>1, SpecType DEF CreatePolicy
<1>2. ASSUME NEW p \in Policy, UpdatePolicy(p) PROVE TypeOK'
  <2>1. [uid |-> policy[p].uid, revision |-> revisions[p] + 1, ready |-> policy[p].ready] \in Object
    BY <1>2 DEF TypeOK, Object, UpdatePolicy, Numbered
  <2>. QED
    BY <1>2, <2>1, SpecType DEF UpdatePolicy
<1>3. ASSUME NEW p \in Policy, DeletePolicy(p) PROVE TypeOK'
  BY <1>3, ObjectTypes DEF DeletePolicy, Store, TypeOK, forwarderVars
<1>4. ASSUME NEW p \in Policy, Expire(p) PROVE TypeOK'
  BY <1>4 DEF Expire, TypeOK, apiVars, informerVars, forwarderVars
<1>5. ASSUME NEW p \in Policy, Start(p) PROVE TypeOK'
  <2>1. calls' \subseteq Call /\ \A c, d \in calls' : c = d
    <3>1. [name |-> p, object |-> cache[p], next |-> 1, ready |-> TRUE,
           result |-> NoResult, asked |-> {}] \in Call
      BY ObjectTypes DEF TypeOK, Call
    <3>. QED
      BY <1>5, <3>1, Zenon DEF Start
  <2>. QED
    BY <1>5, <2>1, Zenon DEF Start, TypeOK, apiVars, informerVars, forwarderVars
<1>6. CASE Sync
  <2>1. /\ Head(watch) \in Change
        /\ watch' \in Seq(Change)
    BY <1>6, TailChange, Zenon DEF Sync, TypeOK, Change
  <2>2. cache' \in [Policy -> Object] /\ events' \in Seq(Policy)
    BY <1>6, <2>1 DEF Sync, TypeOK, Change
  <2>. QED
    BY <1>6, <2>1, <2>2, SMTT(30) DEF Sync, TypeOK, Change, apiVars, forwarderVars
<1>7. CASE Handle
  BY <1>7 DEF Handle, TypeOK, apiVars, forwarderVars
<1>8. CASE Resync
  BY <1>8 DEF Resync, Disrupt, TypeOK, apiVars, informerVars, forwarderVars
<1>9. CASE Restart
  <2>1. late' \subseteq [name : Policy, ready : Condition]
    <3>1. PICK S \in SUBSET {c \in calls : c.next = N + 1} :
             late' = late \cup {[name |-> c.name, ready |-> ReadyCondition(c)] : c \in S}
      BY <1>9, Zenon DEF Restart
    <3>2. ASSUME NEW c \in S
          PROVE  [name |-> c.name, ready |-> ReadyCondition(c)] \in [name : Policy, ready : Condition]
      BY ConditionType, SMT
    <3>. QED
      BY <3>1, <3>2, Zenon DEF TypeOK
  <2>. QED
    BY <1>9, <2>1 DEF Restart, Disrupt, TypeOK
<1>10. CASE Tick
  BY <1>10 DEF Tick, TypeOK, apiVars, informerVars, forwarderVars
<1>11. CASE CallReady
  <2>1. PICK c \in calls, response \in Response : CallReady!(c, response)
    BY <1>11, Zenon DEF CallReady
  <2>2. c \in Call /\ c.next \in Reconciler
    <3>1. c \in Call
      BY DEF TypeOK
    <3>2. c.next \in 1 .. N + 1 /\ c.next <= N
      BY <2>1, <3>1 DEF Call
    <3>. QED
      BY <3>1, <3>2 DEF Reconciler
  <2>3. Merge(c.result, response) \in [requeue : BOOLEAN, after : Nat]
    BY <2>2 DEF Merge, Call
  <2>4. calls' \subseteq Call /\ \A d, e \in calls' : d = e
    <3> DEFINE ready == <<c.next, c.name, c.object.revision>> \in accepts
    <3>1. calls' = {[c EXCEPT !.next = c.next + 1,
                                 !.ready = AllReady(c.ready, ready),
                                 !.result = Merge(c.result, response),
                                 !.asked = c.asked \cup {response}]}
      BY <2>1, OneCall
    <3>2. c.next + 1 \in 1 .. N + 1
      BY <2>2 DEF Reconciler
    <3>3. c.asked \cup {response} \in SUBSET [requeue : BOOLEAN, after : Nat]
      BY <2>2 DEF Call
    <3>4. AllReady(c.ready, ready) \in BOOLEAN
      BY <2>2 DEF Call, AllReady
    <3>5. [c EXCEPT !.next = c.next + 1, !.ready = AllReady(c.ready, ready),
                    !.result = Merge(c.result, response),
                    !.asked = c.asked \cup {response}] \in Call
      BY <2>2, <2>3, <3>2, <3>3, <3>4, Zenon DEF Call
    <3>. QED
      BY <3>1, <3>5
  <2>5. vetted' \subseteq Reconciler \X Policy \X Nat
    BY <2>1, <2>2, Zenon DEF TypeOK, Call, Object
  <2>. QED
    BY <2>1, <2>4, <2>5, Zenon DEF TypeOK, apiVars, informerVars, forwarderVars
<1>12. CASE Patch
  <2>1. PICK c \in calls : Patch!(c)
    BY <1>12, Zenon DEF Patch
  <2>2. c.name \in Policy /\ ReadyCondition(c) \in Condition
    BY ConditionType
  <2>5. policy' \in [Policy -> Object] /\ watch' \in Seq([name : Policy, object : Object])
    BY <2>1, <2>2, AppliedType, Zenon
  <2>6. calls' = {} /\ timers' \subseteq Policy
    BY <2>1, <2>2, OneCall, SMTT(30) DEF TypeOK
  <2>. QED
    BY <2>1, <2>5, <2>6, Zenon DEF TypeOK, forwarderVars
<1>13. CASE Fail
  <2>1. timers' \subseteq Policy /\ calls' = {}
    BY <1>13 DEF Fail, TypeOK, Call
  <2>. QED
    BY <1>13, <2>1 DEF Fail, Disrupt, TypeOK, apiVars, informerVars, forwarderVars
<1>14. ASSUME NEW i \in Plugin, NEW p \in Policy, PluginChange(i, p) PROVE TypeOK'
  <2>1. accepts' \subseteq Reconciler \X Policy \X Nat
    BY <1>14 DEF PluginChange, TypeOK, Object
  <2>2. channel' \in [Plugin -> Seq(Policy)]
    BY <1>14 DEF PluginChange, TypeOK
  <2>. QED
    <3>1. /\ UNCHANGED <<policy, revisions, watch, cache, events, queue, timers>>
          /\ UNCHANGED <<late, calls, closed, cases, forward, now, vetted>>
          /\ disruptions' = disruptions + 1
      BY <1>14 DEF PluginChange, Disrupt, informerVars
    <3>. QED
      BY <2>1, <2>2, <3>1, SMTT(30) DEF TypeOK
<1>15. ASSUME NEW i \in Plugin, Close(i) PROVE TypeOK'
  BY <1>15 DEF Close, Disrupt, TypeOK, apiVars, informerVars
<1>16. ASSUME NEW i \in Plugin, Receive(i) PROVE TypeOK'
  BY <1>16, SMTT(30) DEF Receive, TypeOK, apiVars, informerVars
<1>17. ASSUME NEW i \in Plugin, DropCase(i) PROVE TypeOK'
  BY <1>17 DEF DropCase, TypeOK, apiVars, informerVars
<1>18. CASE Send
  BY <1>18 DEF Send, TypeOK, apiVars, informerVars
<1>19. CASE LatePatch
  <2>1. PICK d \in late : LatePatch!(d)
    BY <1>19, Zenon DEF LatePatch
  <2>2. d.name \in Policy /\ d.ready \in Condition
    BY DEF TypeOK
  <2>3. policy' \in [Policy -> Object] /\ watch' \in Seq([name : Policy, object : Object])
    BY <2>1, <2>2, AppliedType, Zenon
  <2>. QED
    <3>1. late' \subseteq [name : Policy, ready : Condition]
      BY <2>1, Zenon DEF TypeOK
    <3>. QED
      BY <2>1, <2>3, <3>1, Zenon DEF TypeOK, forwarderVars
<1>20. CASE UNCHANGED vars
  BY <1>20 DEF TypeOK, vars, apiVars, informerVars, forwarderVars
<1>. QED
  BY <1>1, <1>2, <1>3, <1>4, <1>5, <1>6, <1>7, <1>8, <1>9, <1>10, <1>11, <1>12,
     <1>13, <1>14, <1>15, <1>16, <1>17, <1>18, <1>19, <1>20 DEF Next

-----------------------------------------------------------------------------
\* What the parts of IInv other than TypeOK speak of.
tracked == <<policy, revisions, late, watch, cache, calls, vetted>>

\* The steps that change any of it: writes of a spec, deletions, the informer,
\* restarts, the steps of Reconcile and late patches.
LEMMA StepCases ==
    [Next]_vars =>
       \/ UNCHANGED tracked
       \/ \E p \in Policy : CreatePolicy(p) \/ UpdatePolicy(p) \/ DeletePolicy(p) \/ Start(p)
       \/ Sync \/ Restart \/ CallReady \/ Patch \/ LatePatch \/ Fail
BY Zenon DEF Next, vars, tracked, Expire, Handle, Resync, Tick, PluginChange, Close,
       Receive, DropCase, Send, apiVars, informerVars

\* The two ways a spec is written, as one: the status is kept or empty.
LEMMA SpecWritten ==
    ASSUME TypeOK, NEW p \in Policy, CreatePolicy(p) \/ UpdatePolicy(p)
    PROVE  \E uid, ready :
              /\ WriteSpec(p, uid, ready)
              /\ Store(p, [uid |-> uid, revision |-> revisions[p] + 1, ready |-> ready])
              /\ revisions' = [revisions EXCEPT ![p] = revisions[p] + 1]
              /\ UNCHANGED <<late, cache, calls, vetted>>
              /\ ready = NoCondition \/ ready = policy[p].ready
BY Zenon DEF CreatePolicy, UpdatePolicy, WriteSpec

\* Numbered: revisions and stored objects are written together, status alone.
LEMMA NumberedStep == IInv /\ [Next]_vars => Numbered'
<1> SUFFICES ASSUME IInv, [Next]_vars PROVE Numbered'
  OBVIOUS
<1> USE ConstantsAssumption DEF IInv
<1>1. CASE UNCHANGED tracked
  BY <1>1 DEF tracked, Numbered
<1>2. ASSUME NEW p \in Policy, CreatePolicy(p) PROVE Numbered'
  BY <1>2 DEF CreatePolicy, WriteSpec, Store, Numbered, TypeOK, Exists
<1>3. ASSUME NEW p \in Policy, UpdatePolicy(p) PROVE Numbered'
  BY <1>3 DEF UpdatePolicy, WriteSpec, Store, Numbered, TypeOK, Exists
<1>4. ASSUME NEW p \in Policy, DeletePolicy(p) PROVE Numbered'
  BY <1>4 DEF DeletePolicy, Store, Numbered, TypeOK, Exists, NoObject
<1>5. ASSUME NEW p \in Policy, Start(p) PROVE Numbered'
  BY <1>5 DEF Start, apiVars, Numbered
<1>6. CASE Sync \/ Restart \/ CallReady \/ Fail
  BY <1>6, Zenon DEF Sync, Restart, CallReady, Fail, apiVars, Numbered
<1>7. ASSUME NEW p \in Policy, NEW condition \in Condition, ApplyStatus(p, condition),
             UNCHANGED revisions
      PROVE  Numbered'
  <2>1. CASE UNCHANGED <<policy, watch>>
    BY <1>7, <2>1 DEF Numbered
  <2>2. ASSUME NEW o \in Object, Exists(policy[p]), Store(p, o),
               o.uid = policy[p].uid, o.revision = policy[p].revision
        PROVE  Numbered'
    BY <1>7, <2>2, SMTT(30) DEF Store, Numbered, TypeOK, Exists
  <2>. QED
    BY <1>7, <2>1, <2>2, Applied, Zenon
<1>8. CASE Patch
  <2>1. PICK c \in calls : Patch!(c)
    BY <1>8, Zenon DEF Patch
  <2>. QED
    BY <2>1, <1>7, ConditionType, Zenon
<1>9. CASE LatePatch
  <2>1. PICK d \in late : LatePatch!(d)
    BY <1>9, Zenon DEF LatePatch
  <2>2. d.name \in Policy /\ d.ready \in Condition
    BY DEF TypeOK
  <2>. QED
    BY <2>1, <2>2, <1>7, Zenon
<1>. QED
  BY <1>1, <1>2, <1>3, <1>4, <1>5, <1>6, <1>8, <1>9, StepCases

\* An answer once given stays given.
LEMMA VettedGrows == [Next]_vars => vetted \subseteq vetted'
BY StepCases, Zenon DEF tracked, CreatePolicy, UpdatePolicy, DeletePolicy, WriteSpec,
   Start, Sync, Restart, CallReady, Patch, LatePatch, Fail

\* ReadyJustified and AnswersRecorded: only Patch makes a new condition, from
\* the answers its call has recorded for the object it read.
LEMMA JustifiedStep == IInv /\ [Next]_vars => ReadyJustified' /\ AnswersRecorded'
<1> SUFFICES ASSUME IInv, [Next]_vars PROVE ReadyJustified' /\ AnswersRecorded'
  OBVIOUS
<1> USE ConstantsAssumption DEF IInv
<1> DEFINE Kept(c) == c.ready => \A i \in 1 .. c.next - 1 : <<i, c.name, c.object.revision>> \in vetted
<1>0. \A p, q : Justified(p, q) => Justified(p, q)'
  BY VettedGrows DEF Justified
<1>1. CASE UNCHANGED tracked
  BY <1>1 DEF tracked, ReadyJustified, AnswersRecorded, Justified
<1>2. ASSUME NEW p \in Policy, NEW o \in Object, Store(p, o), Justified(p, o.ready),
             UNCHANGED <<cache, vetted>>, calls' \subseteq calls, late' \subseteq late
      PROVE  ReadyJustified' /\ AnswersRecorded'
  <2>1. ReadyJustified'
    BY <1>2 DEF Store, ReadyJustified, Justified, TypeOK
  <2>2. ASSUME NEW k \in 1 .. Len(watch')
        PROVE  Justified(watch[k].name, watch[k].object.ready)'
    <3>1. CASE k = Len(watch) + 1
      BY <1>2, <3>1 DEF Store, Justified, TypeOK
    <3>2. CASE k \in 1 .. Len(watch)
      BY <1>2, <3>2 DEF Store, Justified, TypeOK, AnswersRecorded
    <3>3. watch \in Seq(Change) /\ [name |-> p, object |-> o] \in Change
      BY DEF TypeOK, Change
    <3>4. Len(watch) \in Nat /\ Len(watch') = Len(watch) + 1
      BY <1>2, <3>3, AppendChange DEF Store
    <3>. QED
      BY <3>1, <3>2, <3>4
  <2>3. ASSUME NEW d \in late' PROVE Justified(d.name, d.ready)'
    BY <1>0, <1>2 DEF AnswersRecorded
  <2>4. ASSUME NEW c \in calls' PROVE Kept(c)'
    BY <1>2 DEF AnswersRecorded
  <2>. QED
    BY <2>1, <2>2, <2>3, <2>4, Zenon DEF AnswersRecorded
<1>a. ASSUME NEW p \in Policy, NEW condition \in Condition, ApplyStatus(p, condition),
             Justified(p, condition),
             UNCHANGED <<cache, vetted>>, calls' \subseteq calls, late' \subseteq late
      PROVE  ReadyJustified' /\ AnswersRecorded'
  <2>1. CASE UNCHANGED <<policy, watch>>
    BY <1>a, <2>1, Zenon DEF ReadyJustified, AnswersRecorded, Justified
  <2>2. ASSUME NEW o \in Object, Store(p, o), o.ready = condition
        PROVE  ReadyJustified' /\ AnswersRecorded'
    BY <1>2, <1>a, <2>2, Zenon
  <2>. QED
    BY <1>a, <2>1, <2>2, Applied, Zenon
<1>3. ASSUME NEW p \in Policy, CreatePolicy(p) \/ UpdatePolicy(p)
      PROVE  ReadyJustified' /\ AnswersRecorded'
  <2>1. PICK uid, ready :
           /\ Store(p, [uid |-> uid, revision |-> revisions[p] + 1, ready |-> ready])
           /\ UNCHANGED <<late, cache, calls, vetted>>
           /\ ready = NoCondition \/ ready = policy[p].ready
    BY <1>3, SpecWritten, Zenon
  <2>2. Justified(p, ready)
    BY <2>1 DEF Justified, NoCondition, ReadyJustified
  <2>3. [uid |-> uid, revision |-> revisions[p] + 1, ready |-> ready] \in Object
    <3>1. TypeOK'
      BY TypeStep, SMTT(30)
    <3>. QED
      BY <2>1, <3>1 DEF Store, TypeOK
  <2>. QED
    BY <1>2, <2>1, <2>2, <2>3
<1>4. ASSUME NEW p \in Policy, DeletePolicy(p) PROVE ReadyJustified' /\ AnswersRecorded'
  BY <1>2, <1>4, ObjectTypes DEF DeletePolicy, Justified, NoObject, NoCondition
<1>5. ASSUME NEW p \in Policy, Start(p) PROVE ReadyJustified' /\ AnswersRecorded'
  <2>1. ASSUME NEW c \in calls' PROVE c.next = 1
    BY <1>5, SMTT(30) DEF Start
  <2>2. ASSUME NEW c \in calls' PROVE Kept(c)'
    BY <2>1, SMT
  <2>3. UNCHANGED <<policy, late, watch, cache, vetted>>
    BY <1>5, Zenon DEF Start, apiVars, informerVars
  <2>. QED
    BY <2>2, <2>3, Zenon DEF ReadyJustified, AnswersRecorded, Justified
<1>6. CASE Sync
  <2>1. Justified(Head(watch).name, Head(watch).object.ready)
    BY <1>6, TailChange DEF Sync, AnswersRecorded, TypeOK
  <2>2. ReadyJustified'
    BY <1>6, <2>1 DEF Sync, ReadyJustified, Justified, TypeOK, apiVars
  <2>3. UNCHANGED <<late, calls, vetted>>
    BY <1>6 DEF Sync, apiVars
  <2>4. ASSUME NEW k \in 1 .. Len(watch') PROVE Justified(watch[k].name, watch[k].object.ready)'
    BY <1>6, TailChange DEF Sync, AnswersRecorded, Justified, TypeOK
  <2>. QED
    BY <2>2, <2>3, <2>4, Zenon DEF AnswersRecorded, Justified
<1>7. CASE Restart
  <2>1. PICK S \in SUBSET {c \in calls : c.next = N + 1} :
           late' = late \cup {[name |-> c.name, ready |-> ReadyCondition(c)] : c \in S}
    BY <1>7, Zenon DEF Restart
  <2>2. ASSUME NEW c \in S PROVE Justified(c.name, ReadyCondition(c))
    <3>1. c \in calls /\ c.next = N + 1 /\ Kept(c)
      BY DEF AnswersRecorded
    <3>. QED
      BY <3>1, ConditionType DEF Justified, Reconciler
  <2>3. ASSUME NEW d \in late' PROVE Justified(d.name, d.ready)'
    <3>1. CASE d \in late
      BY <1>0, <3>1 DEF AnswersRecorded
    <3>2. CASE \E c \in S : d = [name |-> c.name, ready |-> ReadyCondition(c)]
      <4>1. PICK c \in S : d = [name |-> c.name, ready |-> ReadyCondition(c)]
        BY <3>2
      <4>2. d.name = c.name /\ d.ready = ReadyCondition(c)
        BY <4>1
      <4>3. Justified(d.name, d.ready)
        BY <2>2, <4>2
      <4>. QED
        BY <1>0, <4>3
    <3>. QED
      BY <2>1, <3>1, <3>2, Zenon
  <2>4. ReadyJustified'
    BY <1>7 DEF Restart, ReadyJustified, Justified
  <2>. QED
    BY <1>7, <2>3, <2>4 DEF Restart, AnswersRecorded
<1>8. CASE CallReady
  <2>1. PICK c \in calls, response \in Response : CallReady!(c, response)
    BY <1>8, Zenon DEF CallReady
  <2>2. c \in Call /\ Kept(c) /\ c.next \in 1 .. N
    BY <2>1, SMTT(30) DEF AnswersRecorded, TypeOK, Call
  <2>3. ASSUME NEW d \in calls', d.ready, NEW i \in 1 .. d.next - 1
        PROVE  <<i, d.name, d.object.revision>> \in vetted'
    <3> DEFINE ready == <<c.next, c.name, c.object.revision>> \in accepts
    <3>0. d = [c EXCEPT !.next = c.next + 1,
                        !.ready = AllReady(c.ready, ready),
                        !.result = Merge(c.result, response),
                        !.asked = c.asked \cup {response}]
      BY <2>1, OneCall
    <3>1. /\ d.name = c.name /\ d.object = c.object /\ d.next = c.next + 1
          /\ c.ready /\ ready
      BY <2>2, <2>3, <3>0, Zenon DEF Call, AllReady
    <3>. QED
      BY <2>1, <2>2, <3>1
  <2>4. UNCHANGED <<policy, late, watch, cache>>
    BY <2>1 DEF apiVars, informerVars
  <2>5. \A p, q : Justified(p, q) => Justified(p, q)'
    BY <1>0
  <2>6. ReadyJustified'
    BY <2>4, <2>5 DEF ReadyJustified
  <2>7. (\A k \in 1 .. Len(watch) : Justified(watch[k].name, watch[k].object.ready))'
    BY <2>4, <2>5 DEF AnswersRecorded
  <2>8. (\A d \in late : Justified(d.name, d.ready))'
    BY <2>4, <2>5 DEF AnswersRecorded
  <2>. QED
    BY <2>3, <2>6, <2>7, <2>8, Zenon DEF AnswersRecorded
<1>9. CASE Patch
  <2>1. PICK c \in calls : Patch!(c)
    BY <1>9, Zenon DEF Patch
  <2>2. c \in Call /\ Kept(c)
    BY DEF AnswersRecorded, TypeOK
  <2>3. Justified(c.name, ReadyCondition(c))
    BY <2>1, <2>2, ConditionType DEF Justified, Reconciler
  <2>. QED
    <3>1. calls' \subseteq calls
      BY <2>1
    <3>. QED
      BY <1>a, <2>1, <2>3, <3>1, ConditionType, Zenon
<1>10. CASE Fail
  BY <1>10 DEF Fail, apiVars, informerVars, ReadyJustified, AnswersRecorded, Justified
<1>11. CASE LatePatch
  <2>1. PICK d \in late : LatePatch!(d)
    BY <1>11, Zenon DEF LatePatch
  <2>2. d.name \in Policy /\ d.ready \in Condition /\ Justified(d.name, d.ready)
    BY DEF TypeOK, AnswersRecorded
  <2>3. late' \subseteq late /\ calls' \subseteq calls
    BY <2>1
  <2>. QED
    BY <1>a, <2>1, <2>2, <2>3, Zenon
<1>. QED
  BY <1>1, <1>3, <1>4, <1>5, <1>6, <1>7, <1>8, <1>9, <1>10, <1>11, StepCases

-----------------------------------------------------------------------------
\* A change that is appended is there, and those before it still are.
LEMMA WatchAppended ==
    ASSUME TypeOK, NEW p \in Policy, NEW o \in Object, Store(p, o)
    PROVE  /\ Len(watch) \in Nat
           /\ Len(watch') = Len(watch) + 1
           /\ watch'[Len(watch) + 1].name = p
           /\ watch'[Len(watch) + 1].object = o
           /\ \A k \in 1 .. Len(watch) : watch'[k] = watch[k]
           /\ policy' = [policy EXCEPT ![p] = o]
<1> DEFINE e == [name |-> p, object |-> o]
<1>1. watch \in Seq(Change) /\ e \in Change /\ e.name = p /\ e.object = o
  BY DEF TypeOK, Change
<1>2. watch' = Append(watch, e) /\ policy' = [policy EXCEPT ![p] = o]
  BY DEF Store
<1> HIDE DEF e
<1>. QED
  BY <1>1, <1>2, AppendChange

\* A change that is applied is gone from the watch, the others move up.
LEMMA WatchTaken ==
    ASSUME TypeOK, Sync
    PROVE  /\ Len(watch) \in Nat /\ Len(watch) >= 1
           /\ Len(watch') = Len(watch) - 1
           /\ Head(watch) = watch[1] /\ watch[1].name \in Policy
           /\ \A k \in 1 .. Len(watch) - 1 : watch'[k] = watch[k + 1]
           /\ cache' = [cache EXCEPT ![watch[1].name] = watch[1].object]
<1>1. watch \in Seq(Change) /\ watch # <<>> /\ watch' = Tail(watch)
  BY DEF TypeOK, Change, Sync
<1>2. /\ Head(watch) \in Change /\ Head(watch) = watch[1]
      /\ cache' = [cache EXCEPT ![Head(watch).name] = Head(watch).object]
  BY <1>1, TailChange, Zenon DEF Sync
<1>3. watch[1].name \in Policy
  BY <1>2 DEF Change
<1>. QED
  BY <1>1, <1>2, <1>3, TailChange, Zenon

\* The API server and the informer: what a step does to the three together.
LEMMA StoreCases ==
    ASSUME TypeOK, Numbered, [Next]_vars
    PROVE  \/ Sync \/ Restart
           \/ UNCHANGED <<policy, watch, cache>>
           \/ \E p \in Policy, o \in Object : Store(p, o) /\ UNCHANGED cache
<1> DEFINE Stores == \E p \in Policy, o \in Object : Store(p, o) /\ UNCHANGED cache
<1>1. ASSUME NEW p \in Policy, CreatePolicy(p) \/ UpdatePolicy(p) PROVE Stores
  <2>1. PICK uid, ready :
           /\ Store(p, [uid |-> uid, revision |-> revisions[p] + 1, ready |-> ready])
           /\ UNCHANGED cache
    BY <1>1, SpecWritten, Zenon
  <2>2. [uid |-> uid, revision |-> revisions[p] + 1, ready |-> ready] \in Object
    <3>1. TypeOK'
      BY TypeStep, SMTT(30)
    <3>. QED
      BY <2>1, <3>1 DEF Store, TypeOK
  <2>. QED
    BY <2>1, <2>2
<1>2. ASSUME NEW p \in Policy, DeletePolicy(p) PROVE Stores
  BY <1>2, ObjectTypes, Zenon DEF DeletePolicy
<1>3. ASSUME NEW p \in Policy, NEW condition \in Condition, ApplyStatus(p, condition),
             UNCHANGED cache
      PROVE  Stores \/ UNCHANGED <<policy, watch, cache>>
  BY <1>3, Applied, Zenon
<1>4. CASE Patch
  <2>1. PICK c \in calls : Patch!(c)
    BY <1>4, Zenon DEF Patch
  <2>. QED
    BY <2>1, <1>3, ConditionType, Zenon
<1>5. CASE LatePatch
  <2>1. PICK d \in late : LatePatch!(d)
    BY <1>5, Zenon DEF LatePatch
  <2>2. d.name \in Policy /\ d.ready \in Condition
    BY DEF TypeOK
  <2>. QED
    BY <2>1, <2>2, <1>3, Zenon
<1>6. CASE CallReady \/ Fail \/ (UNCHANGED tracked) \/ \E p \in Policy : Start(p)
  BY <1>6, Zenon DEF CallReady, Fail, Start, tracked, apiVars, informerVars
<1>. QED
  BY <1>1, <1>2, <1>4, <1>5, <1>6, StepCases, Zenon

\* CacheCatchesUp, inductively: what is stored is sent, in the order in which
\* it is stored, and a new informer lists what is stored.
LEMMA CatchesUpStep == TypeOK /\ Numbered /\ CacheCatchesUp /\ [Next]_vars => CacheCatchesUp'
<1> SUFFICES ASSUME TypeOK, Numbered, CacheCatchesUp, [Next]_vars PROVE CacheCatchesUp'
  OBVIOUS
<1>1. CASE UNCHANGED <<policy, watch, cache>>
  BY <1>1, SMTT(30) DEF CacheCatchesUp
<1>2. ASSUME NEW p \in Policy, NEW o \in Object, Store(p, o), UNCHANGED cache
      PROVE  CacheCatchesUp'
  <2>1. /\ Len(watch) \in Nat
        /\ Len(watch') = Len(watch) + 1
        /\ watch'[Len(watch) + 1].name = p
        /\ watch'[Len(watch) + 1].object = o
        /\ \A k \in 1 .. Len(watch) : watch'[k] = watch[k]
        /\ policy' = [policy EXCEPT ![p] = o]
    BY <1>2, WatchAppended
  <2>2. ASSUME NEW q \in Policy, \A k \in 1 .. Len(watch') : watch'[k].name # q
        PROVE  cache'[q] = policy'[q]
    <3>1. q # p
      BY <2>1, <2>2
    <3>2. \A k \in 1 .. Len(watch) : watch[k].name # q
      BY <2>1, <2>2
    <3>. QED
      BY <1>2, <2>1, <3>1, <3>2 DEF CacheCatchesUp, TypeOK
  <2>3. ASSUME NEW q \in Policy, NEW k \in 1 .. Len(watch'), watch'[k].name = q,
               \A j \in k + 1 .. Len(watch') : watch'[j].name # q
        PROVE  watch'[k].object = policy'[q]
    <3>1. CASE k = Len(watch) + 1
      BY <2>1, <2>3, <3>1 DEF TypeOK
    <3>2. CASE k \in 1 .. Len(watch)
      <4>1. q # p
        BY <2>1, <2>3, <3>2
      <4>2. watch[k].name = q /\ \A j \in k + 1 .. Len(watch) : watch[j].name # q
        BY <2>1, <2>3, <3>2
      <4>3. watch[k].object = policy[q]
        BY <3>2, <4>2 DEF CacheCatchesUp
      <4>. QED
        BY <2>1, <3>2, <4>1, <4>3 DEF TypeOK
    <3>. QED
      BY <2>1, <3>1, <3>2
  <2>. QED
    BY <2>2, <2>3, Zenon DEF CacheCatchesUp
<1>3. CASE Sync
  <2>1. /\ Len(watch) \in Nat /\ Len(watch) >= 1
        /\ Len(watch') = Len(watch) - 1
        /\ watch[1].name \in Policy
        /\ \A k \in 1 .. Len(watch) - 1 : watch'[k] = watch[k + 1]
        /\ cache' = [cache EXCEPT ![watch[1].name] = watch[1].object]
    BY <1>3, WatchTaken
  <2>0. UNCHANGED policy
    BY <1>3 DEF Sync, apiVars
  <2>2. ASSUME NEW q \in Policy, \A k \in 1 .. Len(watch') : watch'[k].name # q
        PROVE  cache'[q] = policy'[q]
    <3>1. \A j \in 2 .. Len(watch) : watch[j].name # q
      <4>1. ASSUME NEW j \in 2 .. Len(watch) PROVE watch[j].name # q
        <5>1. j - 1 \in 1 .. Len(watch') /\ j - 1 \in 1 .. Len(watch) - 1 /\ (j - 1) + 1 = j
          BY <2>1
        <5>. QED
          BY <2>1, <2>2, <5>1, Zenon
      <4>. QED
        BY <4>1
    <3>2. CASE watch[1].name = q
      <4>1. watch[1].object = policy[q]
        BY <2>1, <3>1, <3>2 DEF CacheCatchesUp
      <4>. QED
        BY <2>0, <2>1, <3>2, <4>1 DEF TypeOK
    <3>3. CASE watch[1].name # q
      <4>1. \A k \in 1 .. Len(watch) : watch[k].name # q
        BY <2>1, <3>1, <3>3
      <4>. QED
        BY <2>0, <2>1, <3>3, <4>1 DEF CacheCatchesUp, TypeOK
    <3>. QED
      BY <3>2, <3>3
  <2>3. ASSUME NEW q \in Policy, NEW k \in 1 .. Len(watch'), watch'[k].name = q,
               \A j \in k + 1 .. Len(watch') : watch'[j].name # q
        PROVE  watch'[k].object = policy'[q]
    <3>1. k + 1 \in 1 .. Len(watch) /\ watch'[k] = watch[k + 1]
      BY <2>1
    <3>2. ASSUME NEW j \in (k + 1) + 1 .. Len(watch) PROVE watch[j].name # q
      <4>1. j - 1 \in k + 1 .. Len(watch') /\ j - 1 \in 1 .. Len(watch) - 1 /\ (j - 1) + 1 = j
        BY <2>1
      <4>. QED
        BY <2>1, <2>3, <4>1, Zenon
    <3>. QED
      BY <2>0, <2>3, <3>1, <3>2, ZenonT(30) DEF CacheCatchesUp
  <2>. QED
    BY <2>2, <2>3, Zenon DEF CacheCatchesUp
<1>4. CASE Restart
  BY <1>4 DEF Restart, CacheCatchesUp
<1>. QED
  BY <1>1, <1>2, <1>3, <1>4, StoreCases, Zenon

\* A step that changes what the API server stores under q sends it to the
\* informer.
LEMMA ChangeSent ==
    ASSUME TypeOK, Numbered, [Next]_vars, NEW q \in Policy, policy'[q] # policy[q]
    PROVE  \E k \in 1 .. Len(watch') : watch'[k].name = q
<1>1. ASSUME NEW p \in Policy, NEW o \in Object, Store(p, o)
      PROVE  \E k \in 1 .. Len(watch') : watch'[k].name = q
  <2>1. /\ Len(watch) \in Nat
        /\ Len(watch') = Len(watch) + 1
        /\ watch'[Len(watch) + 1].name = p
        /\ policy' = [policy EXCEPT ![p] = o]
    BY <1>1, WatchAppended
  <2>2. q = p
    BY <2>1 DEF TypeOK
  <2>3. Len(watch) + 1 \in 1 .. Len(watch')
    BY <2>1
  <2>. QED
    BY <2>1, <2>2, <2>3
<1>2. CASE Sync \/ Restart
  BY <1>2, Zenon DEF Sync, Restart, apiVars
<1>. QED
  BY <1>1, <1>2, StoreCases, Zenon

\* A change on its way stays so, until the informer applies it or is replaced.
LEMMA WatchKept ==
    ASSUME TypeOK, Numbered, [Next]_vars, NEW q \in Policy,
           \E k \in 1 .. Len(watch) : watch[k].name = q
    PROVE  \/ Restart
           \/ Sync /\ Head(watch).name = q
           \/ \E k \in 1 .. Len(watch') : watch'[k].name = q
<1>1. PICK k \in 1 .. Len(watch) : watch[k].name = q
  OBVIOUS
<1>2. ASSUME NEW p \in Policy, NEW o \in Object, Store(p, o)
      PROVE  \E j \in 1 .. Len(watch') : watch'[j].name = q
  <2>1. /\ Len(watch) \in Nat
        /\ Len(watch') = Len(watch) + 1
        /\ watch'[k] = watch[k]
    BY <1>2, WatchAppended
  <2>2. k \in 1 .. Len(watch')
    BY <2>1
  <2>. QED
    BY <1>1, <2>1, <2>2
<1>3. ASSUME Sync, Head(watch).name # q
      PROVE  \E j \in 1 .. Len(watch') : watch'[j].name = q
  <2>1. /\ Len(watch) \in Nat /\ Len(watch') = Len(watch) - 1
        /\ Head(watch) = watch[1]
        /\ \A j \in 1 .. Len(watch) - 1 : watch'[j] = watch[j + 1]
    BY <1>3, WatchTaken
  <2>2. k # 1
    BY <1>1, <1>3, <2>1
  <2>3. k - 1 \in 1 .. Len(watch') /\ k - 1 \in 1 .. Len(watch) - 1 /\ (k - 1) + 1 = k
    BY <2>1, <2>2
  <2>. QED
    BY <1>1, <2>1, <2>3, Zenon
<1>. QED
  BY <1>1, <1>2, <1>3, StoreCases, Zenon

\* What is taken from the front of a sequence of names, and what stays.
LEMMA NameTaken ==
    ASSUME NEW S, NEW s \in Seq(S), s # <<>>, NEW k \in 1 .. Len(s)
    PROVE  \/ s[k] = Head(s)
           \/ \E j \in 1 .. Len(Tail(s)) : Tail(s)[j] = s[k]
<1>1. /\ Len(s) \in Nat /\ Head(s) = s[1] /\ Len(Tail(s)) = Len(s) - 1
      /\ \A j \in 1 .. Len(s) - 1 : Tail(s)[j] = s[j + 1]
  BY TailChange
<1>2. CASE k = 1
  BY <1>1, <1>2
<1>3. CASE k # 1
  <2>1. k - 1 \in 1 .. Len(Tail(s)) /\ k - 1 \in 1 .. Len(s) - 1 /\ (k - 1) + 1 = k
    BY <1>1, <1>3
  <2>. QED
    BY <1>1, <2>1
<1>. QED
  BY <1>2, <1>3

\* A name that someone holds is held until the worker takes it: it moves from
\* the watch to the handler, from the handler, a timer or the forwarder to the
\* queue, and a restart queues every object there is.
LEMMA AwaitedKept ==
    ASSUME TypeOK, Numbered, [Next]_vars, NEW q \in Policy, Exists(policy[q]), Awaited(q),
           ~Start(q)
    PROVE  Awaited(q)'
<1> DEFINE InWatch == \E k \in 1 .. Len(watch) : watch[k].name = q
           InEvents == \E k \in 1 .. Len(events) : events[k] = q
           InSets == q \in queue \cup timers \cup forward
           InChannels == \E i \in Plugin : \E k \in 1 .. Len(channel[i]) : channel[i][k] = q
<1>1. InWatch \/ InEvents \/ InSets \/ InChannels
  BY Zenon DEF Awaited
<1>2. (InWatch' \/ InEvents' \/ InSets' \/ InChannels') => Awaited(q)'
  BY Zenon DEF Awaited
<1>3. CASE Restart
  <2>1. q \in queue'
    BY <1>3 DEF Restart
  <2>. QED
    BY <1>2, <2>1, Zenon
<1>4. CASE InWatch
  <2>1. CASE Sync /\ Head(watch).name = q
    <3>1. events \in Seq(Policy) /\ events' = Append(events, q)
      BY <2>1 DEF Sync, TypeOK
    <3>2. Len(events) + 1 \in 1 .. Len(events') /\ events'[Len(events) + 1] = q
      BY <3>1, AppendChange
    <3>. QED
      BY <1>2, <3>2, Zenon
  <2>. QED
    BY <1>2, <1>3, <1>4, <2>1, WatchKept, Zenon
<1>5. CASE InEvents /\ ~Restart
  <2>1. PICK k \in 1 .. Len(events) : events[k] = q
    BY <1>5
  <2>2. CASE Handle
    <3>1. events \in Seq(Policy) /\ events # <<>> /\ events' = Tail(events)
          /\ queue' = queue \cup {Head(events)}
      BY <2>2 DEF Handle, TypeOK
    <3>2. q \in queue' \/ InEvents'
      BY <2>1, <3>1, NameTaken, ZenonT(30)
    <3>. QED
      BY <1>2, <3>2, Zenon
  <2>3. CASE Sync
    <3>1. events \in Seq(Policy) /\ Head(watch).name \in Policy
          /\ events' = Append(events, Head(watch).name)
      BY <2>3, WatchTaken, Zenon DEF Sync, TypeOK
    <3>2. Len(events) \in Nat /\ Len(events') = Len(events) + 1 /\ events'[k] = events[k]
      BY <3>1, AppendChange
    <3>3. k \in 1 .. Len(events')
      BY <3>2
    <3>. QED
      BY <1>2, <2>1, <3>2, <3>3, Zenon
  <2>4. CASE UNCHANGED events
    <3>1. InEvents'
      BY <1>5, <2>4
    <3>. QED
      BY <1>2, <3>1, Zenon
  <2>5. Handle \/ Sync \/ UNCHANGED events
    BY <1>5, Zenon DEF Next, vars, informerVars, CreatePolicy, UpdatePolicy, DeletePolicy,
       WriteSpec, Expire, Start, Resync, LatePatch, Tick, CallReady, Patch, Fail,
       PluginChange, Close, Receive, DropCase, Send
  <2>. QED
    BY <2>2, <2>3, <2>4, <2>5
<1>6. CASE InSets /\ ~Restart
  <2>1. InSets'
    <3>1. ASSUME NEW p \in Policy, Start(p) PROVE InSets'
      <4>1. p # q
        BY <3>1
      <4>. QED
        BY <1>6, <3>1, <4>1, Zenon DEF Start, forwarderVars
    <3>2. ASSUME NEW p \in Policy, Expire(p) PROVE InSets'
      BY <1>6, <3>2 DEF Expire, forwarderVars
    <3>3. ASSUME NEW i \in Plugin, Receive(i) PROVE InSets'
      BY <1>6, <3>3 DEF Receive
    <3>4. CASE Send
      BY <1>6, <3>4 DEF Send
    <3>5. CASE Patch
      BY <1>6, <3>5, Zenon DEF Patch, forwarderVars
    <3>6. CASE queue \subseteq queue' /\ timers \subseteq timers' /\ UNCHANGED forward
      BY <1>6, <3>6, SMTT(30)
    <3>7. CASE Resync \/ Fail \/ Handle
      BY <3>6, <3>7 DEF Resync, Fail, Handle, forwarderVars
    <3>8. CASE UNCHANGED <<queue, timers, forward>>
      BY <3>6, <3>8
    <3>9. \/ UNCHANGED <<queue, timers, forward>>
          \/ Resync \/ Fail \/ Handle \/ Patch \/ Send
          \/ \E p \in Policy : Start(p) \/ Expire(p)
          \/ \E i \in Plugin : Receive(i)
      BY <1>6, ZenonT(30) DEF Next, vars, forwarderVars, CreatePolicy, UpdatePolicy, DeletePolicy,
         WriteSpec, Sync, LatePatch, Tick, CallReady, PluginChange, Close, DropCase
    <3>. QED
      BY <3>1, <3>2, <3>3, <3>4, <3>5, <3>7, <3>8, <3>9
  <2>. QED
    BY <1>2, <2>1, Zenon
<1>7. CASE InChannels /\ ~Restart
  <2>0. PICK i \in Plugin : \E k \in 1 .. Len(channel[i]) : channel[i][k] = q
    BY <1>7, SMTT(30)
  <2>1. PICK k \in 1 .. Len(channel[i]) : channel[i][k] = q
    BY <2>0
  <2>2. CASE UNCHANGED channel
    <3>1. InChannels'
      BY <1>7, <2>2
    <3>. QED
      BY <1>2, <3>1, Zenon
  <2>3. ASSUME NEW j \in Plugin, NEW p \in Policy, PluginChange(j, p) PROVE Awaited(q)'
    <3>1. channel[i] \in Seq(Policy) /\ Len(channel[i]) \in Nat
      BY DEF TypeOK
    <3>2. channel'[i] = channel[i] \/ channel'[i] = Append(channel[i], p)
      BY <2>3, Zenon DEF PluginChange, TypeOK
    <3>3. k \in 1 .. Len(channel'[i]) /\ channel'[i][k] = q
      BY <2>1, <3>1, <3>2, AppendChange, SMTT(30)
    <3>. QED
      BY <1>2, <3>3, Zenon
  <2>4. ASSUME NEW j \in Plugin, Receive(j) PROVE Awaited(q)'
    <3>1. CASE j = i
      <4>1. channel[i] \in Seq(Policy) /\ channel[i] # <<>>
            /\ channel'[i] = Tail(channel[i]) /\ forward' = {Head(channel[i])}
        BY <2>4, <3>1 DEF Receive, TypeOK
      <4>2. q \in forward' \/ \E m \in 1 .. Len(channel'[i]) : channel'[i][m] = q
        <5>1. k \in 1 .. Len(channel[i]) /\ q = channel[i][k]
          BY <2>1
        <5>2. q = Head(channel[i]) \/ \E m \in 1 .. Len(Tail(channel[i])) : Tail(channel[i])[m] = q
          BY <4>1, <5>1, NameTaken
        <5>. QED
          BY <4>1, <5>2
      <4>. QED
        BY <1>2, <4>2, Zenon
    <3>2. CASE j # i
      <4>1. channel'[i] = channel[i]
        BY <2>4, <3>2 DEF Receive, TypeOK
      <4>2. InChannels'
        BY <2>1, <4>1
      <4>. QED
        BY <1>2, <4>2, Zenon
    <3>. QED
      BY <3>1, <3>2
  <2>5. \/ UNCHANGED channel
        \/ \E j \in Plugin : Receive(j) \/ \E p \in Policy : PluginChange(j, p)
    BY <1>7, Zenon DEF Next, vars, forwarderVars, CreatePolicy, UpdatePolicy, DeletePolicy,
       WriteSpec, Expire, Start, Sync, Handle, Resync, LatePatch, Tick, CallReady, Patch,
       Fail, Close, DropCase, Send
  <2>. QED
    BY <2>2, <2>3, <2>4, <2>5
<1>. QED
  BY <1>1, <1>3, <1>4, <1>5, <1>6, <1>7

\* An answer for the stored spec of q changes only when a plugin says so.
LEMMA AnswersKept ==
    ASSUME TypeOK, Numbered, [Next]_vars, NEW q \in Policy, ~Awaited(q)',
           NEW i \in Reconciler
    PROVE  <<i, q, policy[q].revision>> \in accepts <=> <<i, q, policy[q].revision>> \in accepts'
<1> DEFINE a == <<i, q, policy[q].revision>>
<1> USE ConstantsAssumption
<1>1. CASE UNCHANGED accepts
  BY <1>1
<1>2. ASSUME NEW p \in Policy, CreatePolicy(p) \/ UpdatePolicy(p)
      PROVE  a \in accepts <=> a \in accepts'
  <2>1. PICK S \in SUBSET Plugin :
           accepts' = accepts \cup ((S \cup (Reconciler \ Plugin)) \X {p} \X {revisions[p] + 1})
    BY <1>2, ZenonT(30) DEF CreatePolicy, UpdatePolicy, WriteSpec
  <2>2. policy[q].revision # revisions[q] + 1
    BY SMTT(30) DEF Numbered, TypeOK, NoObject, Object, Exists
  <2>. QED
    BY <2>1, <2>2
<1>3. ASSUME NEW j \in Plugin, NEW p \in Policy, PluginChange(j, p)
      PROVE  a \in accepts <=> a \in accepts'
  <2>1. CASE p = q
    <3>1. channel[j] \in Seq(Policy) /\ channel'[j] = Append(channel[j], q)
      BY <1>3, <2>1 DEF PluginChange, TypeOK
    <3>2. Len(channel[j]) + 1 \in 1 .. Len(channel'[j])
          /\ channel'[j][Len(channel[j]) + 1] = q
      BY <3>1, AppendChange
    <3>3. Awaited(q)'
      BY <3>2, Zenon DEF Awaited
    <3>. QED
      BY <3>3
  <2>2. CASE p # q
    BY <1>3, <2>2 DEF PluginChange
  <2>. QED
    BY <2>1, <2>2
<1>4. \/ UNCHANGED accepts
      \/ \E p \in Policy : CreatePolicy(p) \/ UpdatePolicy(p)
      \/ \E j \in Plugin, p \in Policy : PluginChange(j, p)
  BY Zenon DEF Next, vars, apiVars, DeletePolicy, Expire, Start, Sync, Handle, Resync,
     Restart, LatePatch, Tick, CallReady, Patch, Fail, Close, Receive, DropCase, Send
<1>. QED
  BY <1>1, <1>2, <1>3, <1>4

\* WakeUpKept, inductively: a policy that nobody holds after a step was not
\* changed by it, and what the worker does with its name ends in a condition
\* that is current.
LEMMA WakeUpStep == IInv /\ WakeUpInv /\ [Next]_vars => WakeUpKept'
<1> SUFFICES ASSUME IInv, WakeUpInv, [Next]_vars, NEW q \in Policy, Exists(policy'[q]),
                    ~Awaited(q)'
             PROVE  StatusCurrent(q)' \/ \E c \in calls' : c.name = q /\ OnCourse(c)'
  BY Zenon DEF WakeUpKept
<1> USE ConstantsAssumption
<1>0. TypeOK /\ Numbered
  BY DEF IInv
<1>1. ~ \E k \in 1 .. Len(watch') : watch'[k].name = q
  BY Zenon DEF Awaited
<1>2. policy'[q] = policy[q] /\ Exists(policy[q])
  BY <1>0, <1>1, ChangeSent, ZenonT(30) DEF Exists
<1> DEFINE r == policy[q].revision
<1>3. \A i \in Reconciler : <<i, q, r>> \in accepts <=> <<i, q, r>> \in accepts'
  BY <1>0, AnswersKept
<1>4. CASE StatusCurrent(q)
  BY <1>2, <1>3, <1>4, SMT DEF StatusCurrent, Generation
<1>5. CASE Start(q)
  <2>1. \A k \in 1 .. Len(watch) : watch[k].name # q
    <3>1. watch' = watch
      BY <1>5, Zenon DEF Start, informerVars
    <3>. QED
      BY <1>1, <3>1, Zenon
  <2>2. cache[q] = policy[q]
    BY <2>1 DEF WakeUpInv, CacheCatchesUp
  <2>3. PICK c \in calls' : c = [name |-> q, object |-> cache[q], next |-> 1,
                                 ready |-> TRUE, result |-> NoResult, asked |-> {}]
    BY <1>2, <1>5, <2>2, ZenonT(30) DEF Start
  <2>4. c.name = q /\ c.object = policy[q] /\ c.ready = TRUE /\ c.next = 1
    BY <2>2, <2>3
  <2>5. OnCourse(c)'
    BY <1>2, <2>4, SMTT(30) DEF OnCourse
  <2>. QED
    BY <2>3, <2>4, <2>5, Zenon
<1>6. ASSUME NEW c \in calls, c.name = q, OnCourse(c)
      PROVE  StatusCurrent(q)' \/ \E d \in calls' : d.name = q /\ OnCourse(d)'
  <2>0. /\ c \in Call /\ c.next \in 1 .. N + 1 /\ c.ready \in BOOLEAN
        /\ c.object.uid = policy[q].uid /\ c.object.revision = r
    BY <1>0, <1>6 DEF TypeOK, Call, OnCourse
  <2>1. c.ready <=> \A i \in 1 .. c.next - 1 : <<i, q, r>> \in accepts
    BY <1>6 DEF OnCourse
  <2>2. CASE UNCHANGED calls
    <3>1. \A i \in 1 .. c.next - 1 : i \in Reconciler
      BY <2>0, SMTT(30) DEF Reconciler
    <3>2. OnCourse(c)'
      BY <1>2, <1>3, <1>6, <2>0, <2>1, <3>1, SMTT(30) DEF OnCourse
    <3>. QED
      BY <1>6, <2>2, <3>2
  <2>3. CASE CallReady
    <3>1. PICK response \in Response : CallReady!(c, response)
      <4>1. PICK d \in calls, response \in Response : CallReady!(d, response)
        BY <2>3, Zenon DEF CallReady
      <4>2. d = c
        BY <1>0 DEF TypeOK
      <4>. QED
        BY <4>1, <4>2, Zenon
    <3> DEFINE answer == <<c.next, c.name, c.object.revision>> \in accepts
    <3>2. c.next <= N /\ UNCHANGED accepts
      BY <3>1 DEF apiVars
    <3>a. PICK d \in calls' : d = [c EXCEPT !.next = c.next + 1,
                                            !.ready = AllReady(c.ready, answer),
                                            !.result = Merge(c.result, response),
                                            !.asked = c.asked \cup {response}]
      BY <3>1
    <3>3. /\ d.name = q /\ d.object = c.object /\ d.next = c.next + 1
          /\ d.ready = (c.ready /\ answer)
      BY <1>6, <2>0, <3>a, ZenonT(30) DEF Call, AllReady
    <3>4. answer <=> <<c.next, q, r>> \in accepts
      BY <1>6, <2>0
    <3> HIDE DEF answer
    <3>5. d.ready <=> \A i \in 1 .. d.next - 1 : <<i, q, r>> \in accepts'
      <4>1. \A i \in Int : i \in 1 .. d.next - 1 <=> i \in 1 .. c.next - 1 \/ i = c.next
        BY <2>0, <3>3
      <4>2. (\A i \in 1 .. d.next - 1 : <<i, q, r>> \in accepts)
            <=> (\A i \in 1 .. c.next - 1 : <<i, q, r>> \in accepts) /\ <<c.next, q, r>> \in accepts
        BY <2>0, <3>3, <4>1
      <4>. QED
        BY <2>1, <3>2, <3>3, <3>4, <4>2, Zenon
    <3>6. OnCourse(d)'
      BY <1>2, <2>0, <3>3, <3>5, Zenon DEF OnCourse
    <3>. QED
      BY <3>3, <3>6, Zenon
  <2>4. CASE Patch
    <3>1. Patch!(c)
      <4>1. PICK d \in calls : Patch!(d)
        BY <2>4, Zenon DEF Patch
      <4>2. d = c
        BY <1>0 DEF TypeOK
      <4>. QED
        BY <4>1, <4>2
    <3>2. policy'[q].ready = ReadyCondition(c)
      <4>1. ApplyStatus(q, ReadyCondition(c))
        BY <1>6, <3>1, Zenon
      <4>2. \/ policy[q] = [policy[q] EXCEPT !.ready = ReadyCondition(c)]
            \/ policy' = [policy EXCEPT ![q] = [policy[q] EXCEPT !.ready = ReadyCondition(c)]]
        BY <1>2, <4>1, Zenon DEF ApplyStatus, Store
      <4>. QED
        BY <1>0, <1>2, <4>2, SMTT(30) DEF TypeOK, Object
    <3>3. c.ready <=> \A i \in Reconciler : <<i, q, r>> \in accepts'
      <4>1. c.next = N + 1
        BY <3>1, Zenon
      <4>2. c.next - 1 = N
        BY <4>1
      <4>. QED
        BY <1>3, <2>1, <4>2, Zenon DEF Reconciler
    <3>4. /\ ReadyCondition(c).revision = r
          /\ ReadyCondition(c).observedGeneration = Generation(policy[q])
          /\ ReadyCondition(c).status = c.ready
      BY <2>0, Zenon DEF ReadyCondition, Generation
    <3>5. StatusCurrent(q)'
      BY <1>2, <3>2, <3>3, <3>4, Zenon DEF StatusCurrent, Generation
    <3>. QED
      BY <3>5, Zenon
  <2>5. CASE Fail \/ Restart
    <3>1. q \in timers' \/ q \in queue'
      BY <1>2, <1>6, <2>5, Zenon DEF Fail, Restart
    <3>2. Awaited(q)'
      BY <3>1, Zenon DEF Awaited
    <3>. QED
      BY <3>2
  <2>6. ASSUME NEW p \in Policy, Start(p) PROVE FALSE
    BY <1>6, <2>6 DEF Start
  <2>7. \/ UNCHANGED calls
        \/ CallReady \/ Patch \/ Fail \/ Restart
        \/ \E p \in Policy : Start(p)
    BY ZenonT(30) DEF Next, vars, CreatePolicy, UpdatePolicy, DeletePolicy, WriteSpec, Expire,
       Sync, Handle, Resync, LatePatch, Tick, PluginChange, Close, Receive, DropCase, Send
  <2>. QED
    BY <2>2, <2>3, <2>4, <2>5, <2>6, <2>7
<1>7. CASE Awaited(q)
  BY <1>0, <1>2, <1>5, <1>7, AwaitedKept
<1>. QED
  BY <1>2, <1>4, <1>6, <1>7, Zenon DEF WakeUpInv, WakeUpKept
=============================================================================
