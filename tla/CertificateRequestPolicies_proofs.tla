----------------- MODULE CertificateRequestPolicies_proofs ------------------
(***************************************************************************)
(* Second part: every step keeps the order of reads and writes; the        *)
(* theorems, and the refinement of PolicyStatus.  All for any number of    *)
(* policies, reconcilers and plugins and any bounds.                       *)
(***************************************************************************)
EXTENDS CertificateRequestPolicies_steps

\* The numbers that InOrder compares.
LEMMA Numbers ==
    ASSUME TypeOK
    PROVE  /\ \A p \in Policy : /\ revisions[p] \in Nat
                                /\ policy[p].revision \in Nat
                                /\ policy[p].ready.revision \in Nat
                                /\ cache[p].revision \in Nat
           /\ Len(watch) \in Nat
           /\ \A k \in 1 .. Len(watch) : /\ watch[k].name \in Policy
                                         /\ watch[k].object.revision \in Nat
           /\ \A c \in calls : c.name \in Policy /\ c.object.revision \in Nat
           /\ \A d \in late : d.name \in Policy /\ d.ready.revision \in Nat
<1>1. \A o \in Object : o.revision \in Nat /\ o.ready.revision \in Nat
  BY DEF Object, Condition
<1>2. \A k \in 1 .. Len(watch) : watch[k].name \in Policy /\ watch[k].object \in Object
  <2>1. watch \in Seq(Change)
    BY DEF TypeOK, Change
  <2>2. \A k \in 1 .. Len(watch) : watch[k] \in Change
    BY <2>1
  <2>. QED
    BY <2>2 DEF Change
<1>3. \A c \in calls : c.name \in Policy /\ c.object \in Object
  BY DEF TypeOK, Call
<1>4. \A d \in late : d.name \in Policy /\ d.ready.revision \in Nat
  BY DEF TypeOK, Condition
<1>. QED
  BY <1>1, <1>2, <1>3, <1>4 DEF TypeOK

\* How a Store changes the watch.
LEMMA Stored ==
    ASSUME TypeOK, NEW p \in Policy, NEW o \in Object, Store(p, o)
    PROVE  /\ policy' = [policy EXCEPT ![p] = o]
           /\ policy'[p] = o
           /\ \A q \in Policy : q # p => policy'[q] = policy[q]
           /\ Len(watch') = Len(watch) + 1
           /\ watch'[Len(watch) + 1].name = p
           /\ watch'[Len(watch) + 1].object = o
           /\ \A k \in 1 .. Len(watch) : watch'[k] = watch[k]
<1>1. watch \in Seq(Change) /\ [name |-> p, object |-> o] \in Change
  BY DEF TypeOK, Change
<1>. QED
  BY <1>1, AppendChange DEF Store, TypeOK

\* InOrder is kept when the object of p becomes o, of the newest revision or
\* none, whose status is not newer than what the cache, the watch and the call
\* in progress hold.
LEMMA StoreOrder ==
    ASSUME IInv, NEW p \in Policy, NEW o \in Object, Store(p, o), UNCHANGED cache,
           \A q \in Policy : revisions'[q] \in Nat /\ revisions[q] <= revisions'[q],
           o.revision = revisions'[p] \/ ~Exists(o),
           o.revision \in Nat, o.ready.revision \in Nat,
           o.ready.revision <= revisions'[p],
           NotAfter(o.ready.revision, cache[p]),
           \A k \in 1 .. Len(watch) :
              watch[k].name = p => NotAfter(o.ready.revision, watch[k].object),
           late' \subseteq late, calls' \subseteq calls,
           \A c \in calls' : c.name = p => o.ready.revision <= c.object.revision
    PROVE  InOrder'
<1> USE Numbers, Stored DEF IInv
<1>1. o.revision <= revisions'[p]
  BY SMTT(30) DEF Exists
<1>2. CacheInOrder'
  BY SMTT(30) DEF InOrder, CacheInOrder, NotAfter
<1>3. WatchInOrder'
  <2>1. ASSUME NEW k \in 1 .. Len(watch)
        PROVE  /\ watch'[k].object.revision <= revisions'[watch'[k].name]
               /\ NotAfter(policy'[watch'[k].name].ready.revision, watch'[k].object)
               /\ NotAfter(cache'[watch'[k].name].revision, watch'[k].object)
               /\ \A j \in 1 .. k : watch'[j].name = watch'[k].name =>
                     NotAfter(watch'[j].object.revision, watch'[k].object)
    <3>1. watch'[k] = watch[k] /\ \A j \in 1 .. k : watch'[j] = watch[j]
      OBVIOUS
    <3>2. watch[k].name \in Policy /\ watch[k].object.revision \in Nat
      BY SMTT(30)
    <3>3. watch[k].object.revision <= revisions'[watch[k].name]
      BY <3>2, SMTT(30) DEF InOrder, WatchInOrder
    <3>4. NotAfter(policy'[watch[k].name].ready.revision, watch[k].object)
      <4>1. CASE watch[k].name = p
        BY <4>1, SMTT(30)
      <4>2. CASE watch[k].name # p
        BY <3>2, <4>2, SMTT(30) DEF InOrder, WatchInOrder
      <4>. QED
        BY <4>1, <4>2
    <3>5. /\ NotAfter(cache[watch[k].name].revision, watch[k].object)
          /\ \A j \in 1 .. k : watch[j].name = watch[k].name =>
                NotAfter(watch[j].object.revision, watch[k].object)
      BY SMTT(30) DEF InOrder, WatchInOrder
    <3>. QED
      BY <3>1, <3>3, <3>4, <3>5, Zenon
  <2>2. /\ o.revision <= revisions'[p]
        /\ NotAfter(o.ready.revision, o)
        /\ NotAfter(cache[p].revision, o)
        /\ \A j \in 1 .. Len(watch) + 1 : watch'[j].name = p => NotAfter(watch'[j].object.revision, o)
    <3>1. NotAfter(o.ready.revision, o) /\ NotAfter(cache[p].revision, o)
      BY DEF InOrder, CacheInOrder, NotAfter
    <3>2. ASSUME NEW j \in 1 .. Len(watch) + 1, watch'[j].name = p
          PROVE  NotAfter(watch'[j].object.revision, o)
      <4>1. CASE j \in 1 .. Len(watch)
        BY <3>2, <4>1, SMTT(30) DEF InOrder, WatchInOrder, NotAfter
      <4>2. CASE j = Len(watch) + 1
        BY <4>2, SMTT(30) DEF NotAfter
      <4>. QED
        BY <4>1, <4>2, SMTT(30)
    <3>. QED
      BY <1>1, <3>1, <3>2
  <2>. QED
    BY <2>1, <2>2, SMTT(30) DEF WatchInOrder
<1>4. CallInOrder'
  <2>1. ASSUME NEW c \in calls'
        PROVE  /\ c.object.revision \in 1 .. revisions'[c.name]
               /\ policy'[c.name].ready.revision <= c.object.revision
               /\ NotAfter(c.object.revision, cache'[c.name])
               /\ \A k \in 1 .. Len(watch') :
                     watch'[k].name = c.name => NotAfter(c.object.revision, watch'[k].object)
    <3>1. c \in calls /\ c.object.revision \in 1 .. revisions'[c.name]
      <4>1. c \in calls
        BY Zenon
      <4>2. c.name \in Policy /\ c.object.revision \in 1 .. revisions[c.name]
        BY <4>1, SMTT(30) DEF InOrder, CallInOrder
      <4>. QED
        BY <4>1, <4>2, SMTT(30)
    <3>2. policy'[c.name].ready.revision <= c.object.revision
      <4>1. /\ c.name \in Policy /\ c.object.revision \in Nat
            /\ policy[c.name].ready.revision <= c.object.revision
        BY <3>1, SMTT(30) DEF InOrder, CallInOrder
      <4>2. CASE c.name = p
        BY <4>1, <4>2, SMTT(30)
      <4>3. CASE c.name # p
        BY <4>1, <4>3, SMTT(30)
      <4>. QED
        BY <4>2, <4>3
    <3>3. ASSUME NEW k \in 1 .. Len(watch'), watch'[k].name = c.name
          PROVE  NotAfter(c.object.revision, watch'[k].object)
      <4>1. CASE k \in 1 .. Len(watch)
        BY <3>1, <3>3, <4>1, SMTT(30) DEF InOrder, CallInOrder
      <4>2. CASE k = Len(watch) + 1
        BY <3>1, <3>3, <4>2, SMTT(30) DEF NotAfter, Exists
      <4>. QED
        BY <4>1, <4>2, SMTT(30)
    <3>. QED
      BY <3>1, <3>2, <3>3, SMTT(30) DEF InOrder, CallInOrder
  <2>. QED
    BY <2>1, SMTT(30) DEF CallInOrder
<1>5. LateInOrder'
  <2>1. ASSUME NEW d \in late'
        PROVE  /\ d.ready.revision \in 1 .. revisions'[d.name]
               /\ NotAfter(d.ready.revision, cache'[d.name])
               /\ \A k \in 1 .. Len(watch') :
                     watch'[k].name = d.name => NotAfter(d.ready.revision, watch'[k].object)
               /\ \A c \in calls' : c.name = d.name => d.ready.revision <= c.object.revision
    <3>1. d \in late /\ d.ready.revision \in 1 .. revisions'[d.name]
      BY SMTT(30) DEF InOrder, LateInOrder
    <3>2. ASSUME NEW k \in 1 .. Len(watch'), watch'[k].name = d.name
          PROVE  NotAfter(d.ready.revision, watch'[k].object)
      <4>1. CASE k \in 1 .. Len(watch)
        <5>1. watch'[k] = watch[k]
          BY <4>1
        <5>2. \A j \in 1 .. Len(watch) :
                 watch[j].name = d.name => NotAfter(d.ready.revision, watch[j].object)
          BY <3>1, Zenon DEF InOrder, LateInOrder
        <5>. QED
          BY <3>2, <4>1, <5>1, <5>2, Zenon
      <4>2. CASE k = Len(watch) + 1
        BY <3>1, <3>2, <4>2, SMTT(30) DEF NotAfter, Exists
      <4>. QED
        BY <4>1, <4>2, SMTT(30)
    <3>. QED
      BY <3>1, <3>2, SMTT(30) DEF InOrder, LateInOrder
  <2>. QED
    BY <2>1, SMTT(30) DEF LateInOrder
<1>. QED
  BY <1>2, <1>3, <1>4, <1>5, SMTT(30) DEF InOrder

\* InOrder: reads and writes follow the revisions.  Each store is one of the
\* three that StoreOrder covers; the informer moves the cache along the watch,
\* and the worker reads from the cache only once its last write is done.
LEMMA OrderStep == IInv /\ [Next]_vars => InOrder'
<1> SUFFICES ASSUME IInv, [Next]_vars PROVE InOrder'
  OBVIOUS
<1> USE Numbers DEF IInv
<1>1. CASE UNCHANGED tracked
  BY <1>1, SMTT(30) DEF tracked, InOrder, CacheInOrder, WatchInOrder, CallInOrder, LateInOrder
<1>2. ASSUME NEW p \in Policy, CreatePolicy(p) \/ UpdatePolicy(p) PROVE InOrder'
  <2>1. PICK uid, ready :
           /\ Store(p, [uid |-> uid, revision |-> revisions[p] + 1, ready |-> ready])
           /\ revisions' = [revisions EXCEPT ![p] = revisions[p] + 1]
           /\ UNCHANGED <<late, cache, calls, vetted>>
           /\ ready = NoCondition \/ ready = policy[p].ready
    BY <1>2, SpecWritten, Zenon
  <2> DEFINE o == [uid |-> uid, revision |-> revisions[p] + 1, ready |-> ready]
  <2>2. o \in Object
    <3>1. TypeOK'
      BY TypeStep
    <3>. QED
      BY <2>1, <3>1 DEF Store, TypeOK
  <2>3. o.revision = revisions[p] + 1 /\ o.ready = ready
    OBVIOUS
  <2>4. /\ \A q \in Policy : revisions'[q] \in Nat /\ revisions[q] <= revisions'[q]
        /\ revisions'[p] = revisions[p] + 1
    <3>1. revisions \in [Policy -> Nat]
      BY SMTT(30) DEF TypeOK
    <3>2. \A q \in Policy : revisions'[q] = IF q = p THEN revisions[p] + 1 ELSE revisions[q]
      BY <2>1, <3>1, SMTT(30)
    <3>. QED
      BY <3>1, <3>2
  <2>5. ready.revision \in Nat /\ ready.revision <= policy[p].ready.revision
    BY <2>1, SMTT(30) DEF NoCondition
  <2> HIDE DEF o
  <2>6. /\ policy[p].ready.revision <= revisions[p]
        /\ NotAfter(ready.revision, cache[p])
    BY <2>5, SMTT(30) DEF InOrder, CacheInOrder, NotAfter
  <2>7. \A k \in 1 .. Len(watch) :
           watch[k].name = p => NotAfter(ready.revision, watch[k].object)
    BY <2>5 DEF InOrder, WatchInOrder, NotAfter
  <2>8. Store(p, o) /\ UNCHANGED <<late, cache, calls>>
    BY <2>1 DEF o
  <2>9. \A c \in calls : c.name = p => ready.revision <= c.object.revision
    BY <2>5, SMTT(30) DEF InOrder, CallInOrder
  <2>. QED
    BY <2>2, <2>3, <2>4, <2>5, <2>6, <2>7, <2>8, <2>9, StoreOrder, SMTT(30)
<1>3. ASSUME NEW p \in Policy, DeletePolicy(p) PROVE InOrder'
  <2>1. NoObject.revision = 0 /\ NoObject.ready.revision = 0 /\ ~Exists(NoObject)
    BY DEF NoObject, NoCondition, Exists
  <2>2. Store(p, NoObject) /\ UNCHANGED <<revisions, late, cache, calls>>
    BY <1>3 DEF DeletePolicy
  <2>3. \A x : x.revision \in Nat => NotAfter(0, x)
    BY SMTT(30) DEF NotAfter
  <2> DEFINE o == NoObject
  <2>4. /\ o \in Object /\ Store(p, o) /\ ~Exists(o)
        /\ o.revision \in Nat /\ o.ready.revision \in Nat /\ o.ready.revision = 0
    BY <2>1, <2>2, ObjectTypes
  <2> HIDE DEF o
  <2>5. /\ \A q \in Policy : revisions'[q] \in Nat /\ revisions[q] <= revisions'[q]
        /\ o.ready.revision <= revisions'[p]
    BY <2>2, <2>4, SMTT(30)
  <2>6. /\ NotAfter(o.ready.revision, cache[p])
        /\ \A k \in 1 .. Len(watch) :
              watch[k].name = p => NotAfter(o.ready.revision, watch[k].object)
    BY <2>3, <2>4, SMTT(30)
  <2>7. /\ late' \subseteq late /\ calls' \subseteq calls /\ UNCHANGED cache
        /\ \A c \in calls' : c.name = p => o.ready.revision <= c.object.revision
    BY <2>2, <2>4, SMTT(30)
  <2>. QED
    BY <2>4, <2>5, <2>6, <2>7, StoreOrder, Zenon
<1>4. ASSUME NEW p \in Policy, Start(p) PROVE InOrder'
  <2>1. UNCHANGED <<policy, revisions, late, watch, cache>>
    BY <1>4, SMTT(30) DEF Start, apiVars, informerVars
  <2>2. ASSUME NEW c \in calls' PROVE c.name = p /\ c.object = cache[p] /\ Exists(cache[p])
    BY <1>4, SMTT(30) DEF Start
  <2>3. CallInOrder'
    <3>1. ASSUME NEW c \in calls'
          PROVE  /\ c.object.revision \in 1 .. revisions[c.name]
                 /\ policy[c.name].ready.revision <= c.object.revision
                 /\ NotAfter(c.object.revision, cache[c.name])
                 /\ \A k \in 1 .. Len(watch) :
                       watch[k].name = c.name => NotAfter(c.object.revision, watch[k].object)
      <4>1. cache[p].revision \in 1 .. revisions[p] /\ policy[p].ready.revision <= cache[p].revision
        BY <2>2, SMTT(30) DEF InOrder, CacheInOrder, NotAfter, Exists
      <4>2. NotAfter(cache[p].revision, cache[p])
        BY <4>1 DEF NotAfter
      <4>3. \A k \in 1 .. Len(watch) : watch[k].name = p => NotAfter(cache[p].revision, watch[k].object)
        BY SMTT(30) DEF InOrder, WatchInOrder
      <4>. QED
        BY <2>2, <4>1, <4>2, <4>3, Zenon
    <3>. QED
      BY <2>1, <3>1, Zenon DEF CallInOrder
  <2>4. LateInOrder'
    BY <2>1, <2>2, SMTT(30) DEF InOrder, LateInOrder, NotAfter
  <2>. QED
    BY <2>1, <2>3, <2>4 DEF InOrder, CacheInOrder, WatchInOrder
<1>5. CASE Sync
  <2> DEFINE q == watch[1].name
  <2>1. watch \in Seq(Change) /\ watch # <<>>
    BY <1>5 DEF Sync, TypeOK, Change
  <2>2. /\ Len(watch') = Len(watch) - 1 /\ Len(watch) >= 1
        /\ \A k \in 1 .. Len(watch') : k + 1 \in 1 .. Len(watch) /\ watch'[k] = watch[k + 1]
    BY <1>5, <2>1, TailChange, SMTT(30) DEF Sync
  <2>3. /\ q \in Policy /\ cache'[q] = watch[1].object
        /\ \A p \in Policy : p # q => cache'[p] = cache[p]
    BY <1>5, <2>1, <2>2, TailChange, SMTT(30) DEF Sync, TypeOK
  <2>4. UNCHANGED <<policy, revisions, late, calls>>
    BY <1>5 DEF Sync, apiVars
  <2> HIDE DEF q
  <2>5. CacheInOrder'
    BY <2>2, <2>3, <2>4, SMTT(30) DEF InOrder, CacheInOrder, WatchInOrder, q
  <2>6. WatchInOrder'
    <3>1. ASSUME NEW k \in 1 .. Len(watch')
          PROVE  /\ watch'[k].object.revision <= revisions'[watch'[k].name]
                 /\ NotAfter(policy'[watch'[k].name].ready.revision, watch'[k].object)
                 /\ NotAfter(cache'[watch'[k].name].revision, watch'[k].object)
                 /\ \A j \in 1 .. k : watch'[j].name = watch'[k].name =>
                       NotAfter(watch'[j].object.revision, watch'[k].object)
      <4>1. k + 1 \in 1 .. Len(watch) /\ watch'[k] = watch[k + 1] /\ watch[k + 1].name \in Policy
        BY <2>2
      <4>2. \A j \in 1 .. k : j + 1 \in 1 .. k + 1 /\ watch'[j] = watch[j + 1]
        BY <2>2, SMTT(30)
      <4>3. /\ watch[k + 1].object.revision <= revisions[watch[k + 1].name]
            /\ NotAfter(policy[watch[k + 1].name].ready.revision, watch[k + 1].object)
            /\ NotAfter(cache[watch[k + 1].name].revision, watch[k + 1].object)
            /\ \A j \in 1 .. k + 1 : watch[j].name = watch[k + 1].name =>
                  NotAfter(watch[j].object.revision, watch[k + 1].object)
        BY <4>1, SMTT(30) DEF InOrder, WatchInOrder
      <4>4. NotAfter(cache'[watch[k + 1].name].revision, watch[k + 1].object)
        <5>1. CASE watch[k + 1].name = q
          BY <2>3, <4>3, <5>1, SMTT(30) DEF q
        <5>2. CASE watch[k + 1].name # q
          BY <2>3, <4>1, <4>3, <5>2, SMTT(30)
        <5>. QED
          BY <5>1, <5>2, SMTT(30)
      <4>. QED
        BY <2>4, <4>1, <4>2, <4>3, <4>4, Zenon
    <3>. QED
      BY <3>1 DEF WatchInOrder
  <2>7. CallInOrder'
    <3>1. ASSUME NEW c \in calls
          PROVE  /\ NotAfter(c.object.revision, cache'[c.name])
                 /\ \A k \in 1 .. Len(watch') :
                       watch'[k].name = c.name => NotAfter(c.object.revision, watch'[k].object)
      <4>1. /\ c.name \in Policy /\ NotAfter(c.object.revision, cache[c.name])
            /\ \A k \in 1 .. Len(watch) :
                  watch[k].name = c.name => NotAfter(c.object.revision, watch[k].object)
        BY DEF InOrder, CallInOrder
      <4>2. NotAfter(c.object.revision, cache'[c.name])
        BY <2>2, <2>3, <4>1, SMTT(30) DEF q
      <4>. QED
        BY <2>2, <4>1, <4>2, Zenon
    <3>. QED
      BY <2>4, <3>1 DEF InOrder, CallInOrder
  <2>8. LateInOrder'
    <3>1. ASSUME NEW d \in late
          PROVE  /\ NotAfter(d.ready.revision, cache'[d.name])
                 /\ \A k \in 1 .. Len(watch') :
                       watch'[k].name = d.name => NotAfter(d.ready.revision, watch'[k].object)
      <4>1. /\ d.name \in Policy /\ NotAfter(d.ready.revision, cache[d.name])
            /\ \A k \in 1 .. Len(watch) :
                  watch[k].name = d.name => NotAfter(d.ready.revision, watch[k].object)
        BY DEF InOrder, LateInOrder
      <4>2. NotAfter(d.ready.revision, cache'[d.name])
        BY <2>2, <2>3, <4>1, SMTT(30) DEF q
      <4>. QED
        BY <2>2, <4>1, <4>2, Zenon
    <3>. QED
      BY <2>4, <3>1 DEF InOrder, LateInOrder
  <2>. QED
    BY <2>5, <2>6, <2>7, <2>8, SMTT(30) DEF InOrder
<1>6. CASE Restart
  <2>1. /\ UNCHANGED <<policy, revisions>> /\ cache' = policy
        /\ watch' = <<>> /\ calls' = {}
    BY <1>6 DEF Restart
  <2>2. CacheInOrder'
    BY <2>1, SMTT(30) DEF InOrder, CacheInOrder, NotAfter, Numbered, Exists
  <2>3. PICK S \in SUBSET {c \in calls : c.next = N + 1} :
           late' = late \cup {[name |-> c.name, ready |-> ReadyCondition(c)] : c \in S}
    BY <1>6, Zenon DEF Restart
  <2>4. ASSUME NEW d \in late'
        PROVE  /\ d.ready.revision \in 1 .. revisions[d.name]
               /\ NotAfter(d.ready.revision, policy[d.name])
    <3>1. d.name \in Policy /\ d.ready.revision \in 1 .. revisions[d.name]
      <4>1. CASE d \in late
        BY <4>1 DEF InOrder, LateInOrder
      <4>2. ASSUME NEW c \in S, d = [name |-> c.name, ready |-> ReadyCondition(c)]
            PROVE  d.name \in Policy /\ d.ready.revision \in 1 .. revisions[d.name]
        <5>1. d.name = c.name /\ d.ready = ReadyCondition(c) /\ c \in calls
          BY <4>2
        <5>2. d.name \in Policy /\ d.ready.revision = c.object.revision
          BY <5>1, ConditionType
        <5>. QED
          BY <5>1, <5>2 DEF InOrder, CallInOrder
      <4>. QED
        BY <2>3, <4>1, <4>2, Zenon
    <3>. QED
      BY <3>1, SMTT(30) DEF NotAfter, Numbered, Exists
  <2>5. LateInOrder'
    BY <2>1, <2>4, SMTT(30) DEF LateInOrder
  <2>. QED
    BY <2>1, <2>2, <2>5, SMTT(30) DEF InOrder, WatchInOrder, CallInOrder
<1>7. CASE CallReady
  <2>1. PICK c \in calls, response \in Response : CallReady!(c, response)
    BY <1>7, Zenon DEF CallReady
  <2>2. ASSUME NEW d \in calls' PROVE d.name = c.name /\ d.object = c.object
    BY <2>1, Zenon DEF TypeOK, Call
  <2>3. UNCHANGED <<policy, revisions, late, watch, cache>>
    BY <2>1, SMTT(30) DEF apiVars, informerVars
  <2>4. CallInOrder'
    BY <2>2, <2>3, Zenon DEF InOrder, CallInOrder
  <2>5. LateInOrder'
    BY <2>2, <2>3 DEF InOrder, LateInOrder
  <2>. QED
    BY <2>3, <2>4, <2>5 DEF InOrder, CacheInOrder, WatchInOrder
<1>8. ASSUME NEW p \in Policy, NEW condition \in Condition, ApplyStatus(p, condition),
             UNCHANGED <<revisions, cache>>, late' \subseteq late, calls' \subseteq calls,
             condition.revision <= revisions[p],
             NotAfter(condition.revision, cache[p]),
             \A k \in 1 .. Len(watch) :
                watch[k].name = p => NotAfter(condition.revision, watch[k].object),
             \A c \in calls' : c.name = p => condition.revision <= c.object.revision
      PROVE  InOrder'
  <2>1. CASE UNCHANGED <<policy, watch>>
    <3>1. CallInOrder'
      BY <1>8, <2>1, Zenon DEF InOrder, CallInOrder
    <3>2. LateInOrder'
      BY <1>8, <2>1, ZenonT(30) DEF InOrder, LateInOrder
    <3>. QED
      BY <1>8, <2>1, <3>1, <3>2 DEF InOrder, CacheInOrder, WatchInOrder
  <2>2. ASSUME NEW o \in Object, Exists(policy[p]), Store(p, o),
               o.revision = policy[p].revision, o.ready = condition
        PROVE  InOrder'
    <3>1. o.revision = revisions[p] /\ o.revision \in Nat
      BY <2>2, SMTT(30) DEF Numbered
    <3>2. condition.revision \in Nat
      BY DEF Condition
    <3>. QED
      BY <1>8, <2>2, <3>1, <3>2, StoreOrder, SMTT(30)
  <2>. QED
    BY <1>8, <2>1, <2>2, Applied, Zenon
<1>9. CASE Patch
  <2>1. PICK c \in calls : Patch!(c)
    BY <1>9, Zenon DEF Patch
  <2>2. /\ c.name \in Policy /\ ReadyCondition(c) \in Condition
        /\ ReadyCondition(c).revision = c.object.revision
    BY ConditionType
  <2>3. /\ c.object.revision <= revisions[c.name]
        /\ NotAfter(c.object.revision, cache[c.name])
        /\ \A k \in 1 .. Len(watch) :
              watch[k].name = c.name => NotAfter(c.object.revision, watch[k].object)
    BY SMTT(30) DEF InOrder, CallInOrder
  <2>4. calls' = {} /\ UNCHANGED <<revisions, late, cache>>
    BY <2>1, OneCall
  <2>5. ApplyStatus(c.name, ReadyCondition(c))
    BY <2>1, ZenonT(30)
  <2>. QED
    BY <1>8, <2>2, <2>3, <2>4, <2>5
<1>10. CASE LatePatch
  <2>1. PICK d \in late : LatePatch!(d)
    BY <1>10, Zenon DEF LatePatch
  <2>2. d.name \in Policy /\ d.ready \in Condition
    BY DEF TypeOK
  <2>3. /\ d.ready.revision <= revisions[d.name]
        /\ NotAfter(d.ready.revision, cache[d.name])
        /\ \A k \in 1 .. Len(watch) :
              watch[k].name = d.name => NotAfter(d.ready.revision, watch[k].object)
        /\ \A c \in calls : c.name = d.name => d.ready.revision <= c.object.revision
    BY SMTT(30) DEF InOrder, LateInOrder
  <2>4. late' \subseteq late /\ UNCHANGED <<revisions, cache, calls>>
    BY <2>1
  <2>5. ApplyStatus(d.name, d.ready)
    BY <2>1, Zenon
  <2>. QED
    BY <1>8, <2>2, <2>3, <2>4, <2>5
<1>11. CASE Fail
  BY <1>11, Zenon DEF Fail, apiVars, informerVars, InOrder, CacheInOrder, WatchInOrder,
     CallInOrder, LateInOrder
<1>. QED
  BY <1>1, <1>2, <1>3, <1>4, <1>5, <1>6, <1>7, <1>9, <1>10, <1>11, StepCases, SMTT(30)

-----------------------------------------------------------------------------
\* The first state: nothing is stored, read or answered.
LEMMA InitIInv == Init => IInv
<1> SUFFICES ASSUME Init PROVE IInv
  OBVIOUS
<1>1. TypeOK
  BY ObjectTypes, ConstantsAssumption DEF Init, TypeOK
<1>2. Numbered /\ ReadyJustified
  BY ConstantsAssumption, SMTT(30) DEF Init, Numbered, ReadyJustified, Justified, Exists, NoObject, NoCondition
<1>3. AnswersRecorded /\ InOrder
  BY SMTT(30) DEF Init, AnswersRecorded, InOrder, CacheInOrder, WatchInOrder, CallInOrder,
         LateInOrder, NotAfter, Exists, NoObject, NoCondition
<1>. QED
  BY <1>1, <1>2, <1>3 DEF IInv

\* The inductive invariant of the controller holds in every reachable state:
\* objects, the watch, the cache and the call in progress agree on an order.
THEOREM Invariance == Spec => []IInv
<1>1. IInv /\ [Next]_vars => IInv'
  BY TypeStep, NumberedStep, JustifiedStep, OrderStep DEF IInv
<1>. QED
  BY InitIInv, <1>1, PTL DEF Spec

\* Every variable of the controller keeps its type, and there is never more
\* than one Reconcile call.
THEOREM TypeCorrect == Spec => []TypeOK
<1>1. IInv => TypeOK
  BY DEF IInv
<1>. QED
  BY Invariance, <1>1, PTL

\* The Ready condition that Reconcile writes is True only for a spec that every
\* reconciler vetted, for any policies, reconcilers and plugins.
THEOREM ReadyIsJustified == Spec => []ReadyJustified
<1>1. IInv => ReadyJustified
  BY DEF IInv
<1>. QED
  BY Invariance, <1>1, PTL

\* No forced apply of Reconcile takes an object's status back to an older spec,
\* but for a former leader's that arrives late.
THEOREM StatusNeverRollsBack == Spec => NoStatusRollback
<1> DEFINE Forward == \A p \in Policy : policy'[p].uid = policy[p].uid /\ late \subseteq late' =>
                         policy'[p].ready.revision >= policy[p].ready.revision
<1>1. IInv /\ [Next]_vars => [Forward]_vars
  <2> SUFFICES ASSUME IInv, [Next]_vars PROVE Forward
    OBVIOUS
  <2> USE Numbers DEF IInv
  <2>1. CASE UNCHANGED policy
    BY <2>1
  <2>a. ASSUME NEW p \in Policy, NEW o, Store(p, o),
               o.uid = policy[p].uid => o.ready.revision >= policy[p].ready.revision
        PROVE  Forward
    <3>1. policy'[p] = o /\ \A q \in Policy : q # p => policy'[q] = policy[q]
      BY <2>a, Zenon DEF Store, TypeOK
    <3>2. ASSUME NEW q \in Policy PROVE policy[q].ready.revision \in Nat
      BY Numbers DEF IInv
    <3>. QED
      BY <2>a, <3>1, <3>2, SMTT(30)
  <2>2. ASSUME NEW p \in Policy, CreatePolicy(p) PROVE Forward
    <3>1. policy[p].ready.revision = 0
      BY <2>2, SMTT(30) DEF CreatePolicy, Numbered, NoObject, NoCondition, Exists
    <3>2. NoCondition.revision >= policy[p].ready.revision
      BY <3>1 DEF NoCondition
    <3> DEFINE o == [uid |-> revisions[p] + 1, revision |-> revisions[p] + 1,
                     ready |-> NoCondition]
    <3>3. Store(p, o) /\ o.ready = NoCondition
      BY <2>2, Zenon DEF CreatePolicy, WriteSpec
    <3> HIDE DEF o
    <3>. QED
      BY <2>a, <3>2, <3>3, SMTT(30)
  <2>3. ASSUME NEW p \in Policy, UpdatePolicy(p) PROVE Forward
    <3> DEFINE o == [uid |-> policy[p].uid, revision |-> revisions[p] + 1,
                     ready |-> policy[p].ready]
    <3>1. Store(p, o) /\ o.ready = policy[p].ready
      BY <2>3, Zenon DEF UpdatePolicy, WriteSpec
    <3> HIDE DEF o
    <3>2. o.ready.revision >= policy[p].ready.revision
      BY <3>1, SMTT(30)
    <3>. QED
      BY <2>a, <3>1, <3>2, Zenon
  <2>4. ASSUME NEW p \in Policy, DeletePolicy(p) PROVE Forward
    <3>1. policy[p].uid > 0
      BY <2>4, SMTT(30) DEF DeletePolicy, Numbered
    <3>2. Store(p, NoObject) /\ NoObject.uid = 0
      BY <2>4 DEF DeletePolicy, NoObject
    <3>. QED
      BY <2>a, <3>1, <3>2
  <2>5. CASE Patch
    <3>1. PICK c \in calls : Patch!(c)
      BY <2>5, Zenon DEF Patch
    <3>2. /\ c.name \in Policy /\ ReadyCondition(c) \in Condition
          /\ ReadyCondition(c).revision = c.object.revision
      BY ConditionType
    <3>3. policy[c.name].ready.revision <= ReadyCondition(c).revision
      BY <3>2 DEF InOrder, CallInOrder
    <3>4. ASSUME NEW o \in Object, Store(c.name, o), o.ready = ReadyCondition(c) PROVE Forward
      BY <2>a, <3>2, <3>3, <3>4, SMTT(30)
    <3>5. ApplyStatus(c.name, ReadyCondition(c))
      BY <3>1, Zenon
    <3>. QED
      BY <2>1, <3>2, <3>4, <3>5, Applied, ZenonT(30)
  <2>6. CASE LatePatch
    <3>1. ~(late \subseteq late')
      BY <2>6, Zenon DEF LatePatch
    <3>. QED
      BY <3>1
  <2>. QED
    BY <2>1, <2>2, <2>3, <2>4, <2>5, <2>6, StepCases, Zenon DEF tracked, Start, Sync, Restart,
       CallReady, Fail, apiVars
<1>. QED
  BY Invariance, <1>1, PTL DEF Spec, NoStatusRollback

-----------------------------------------------------------------------------
\* Before the first policy is created nobody has to be woken.
LEMMA InitWakeUp == Init => WakeUpInv
BY DEF Init, WakeUpInv, CacheCatchesUp, WakeUpKept, Exists, NoObject

\* WakeUpInv: however the informer trails, whatever fails, restarts or arrives
\* late, a policy whose condition is not current is being brought up to date by
\* the Reconcile call in progress, or informer, queue or forwarder hold its name.
THEOREM WakeUpsAreKept == Spec => []WakeUpInv
<1>1. IInv /\ WakeUpInv /\ [Next]_vars => WakeUpInv'
  BY CatchesUpStep, WakeUpStep DEF IInv, WakeUpInv
<1>. QED
  BY <1>1, InitWakeUp, Invariance, PTL DEF Spec

\* QuietMeansCurrent: when nothing is left to do anywhere in the controller,
\* the condition of each policy is the one the reconcilers would give it now.
THEOREM NoWakeUpIsLost == Spec => []QuietMeansCurrent
<1>1. WakeUpInv => QuietMeansCurrent
  <2> SUFFICES ASSUME WakeUpInv, Quiet, NEW p \in Policy, Exists(policy[p])
               PROVE  StatusCurrent(p)
    BY DEF QuietMeansCurrent
  <2>1. ~Awaited(p)
    BY DEF Quiet, Awaited
  <2>2. ~ \E c \in calls : c.name = p /\ OnCourse(c)
    BY DEF Quiet
  <2>. QED
    BY <2>1, <2>2, Zenon DEF WakeUpInv, WakeUpKept
<1>. QED
  BY <1>1, WakeUpsAreKept, PTL

-----------------------------------------------------------------------------
\* The promise: each step is a step of PolicyStatus, or none.
StatusVars == <<[p \in Policy |-> StatusOf(p)], revisions, VettedByAll>>

\* What the other controller sees when p alone changes to o.
LEMMA StatusStored ==
    ASSUME TypeOK, NEW p \in Policy, NEW o, Store(p, o)
    PROVE  [q \in Policy |-> StatusOf(q)]' =
              [[q \in Policy |-> StatusOf(q)] EXCEPT
                  ![p] = [revision |-> o.revision, ready |-> o.ready.status,
                          observed |-> o.ready.revision]]
<1>1. policy'[p] = o /\ \A q \in Policy : q # p => policy'[q] = policy[q]
  BY Zenon DEF Store, TypeOK
<1>. QED
  BY <1>1, Zenon DEF StatusOf

\* Writing a spec is a Write.
LEMMA WriteImplements ==
    ASSUME IInv, NEW p \in Policy, CreatePolicy(p) \/ UpdatePolicy(p)
    PROVE  Status!Write(p)
<1> USE DEF IInv
<1>1. PICK uid, ready :
         /\ Store(p, [uid |-> uid, revision |-> revisions[p] + 1, ready |-> ready])
         /\ revisions' = [revisions EXCEPT ![p] = revisions[p] + 1]
         /\ UNCHANGED vetted
         /\ ready = policy[p].ready
  <2>1. CASE CreatePolicy(p)
    <3>1. policy[p].ready = NoCondition
      BY <2>1 DEF CreatePolicy, Numbered, NoObject
    <3>. QED
      BY <2>1, <3>1, Zenon DEF CreatePolicy, WriteSpec
  <2>2. CASE UpdatePolicy(p)
    BY <2>2, Zenon DEF UpdatePolicy, WriteSpec
  <2>. QED
    BY <2>1, <2>2, Zenon
<1>2. [q \in Policy |-> StatusOf(q)]' =
         [[q \in Policy |-> StatusOf(q)] EXCEPT
             ![p] = [revision |-> revisions[p] + 1, ready |-> policy[p].ready.status,
                     observed |-> policy[p].ready.revision]]
  <2> DEFINE o == [uid |-> uid, revision |-> revisions[p] + 1, ready |-> ready]
  <2>1. Store(p, o) /\ o.revision = revisions[p] + 1 /\ o.ready = policy[p].ready
    BY <1>1
  <2> HIDE DEF o
  <2>. QED
    BY <2>1, StatusStored
<1>3. [q \in Policy |-> StatusOf(q)]' =
         [[q \in Policy |-> StatusOf(q)] EXCEPT ![p].revision = revisions[p] + 1]
  BY <1>2, Zenon DEF StatusOf
<1>4. UNCHANGED VettedByAll
  BY <1>1 DEF VettedByAll
<1>. QED
  BY <1>1, <1>3, <1>4 DEF Status!Write

\* A deletion is a deletion of PolicyStatus.
LEMMA DeleteImplements ==
    ASSUME IInv, NEW p \in Policy, DeletePolicy(p)
    PROVE  Status!Delete(p)
<1> USE DEF IInv
<1>1. Exists(policy[p]) /\ Store(p, NoObject) /\ UNCHANGED <<revisions, vetted>>
  BY Zenon DEF DeletePolicy
<1>2. [q \in Policy |-> StatusOf(q)]' =
         [[q \in Policy |-> StatusOf(q)] EXCEPT ![p] = Status!NoPolicy]
  BY <1>1, StatusStored, Zenon DEF Status!NoPolicy, NoObject, NoCondition
<1>3. UNCHANGED VettedByAll
  BY <1>1 DEF VettedByAll
<1>4. [q \in Policy |-> StatusOf(q)][p].revision > 0
  BY <1>1 DEF StatusOf, Exists
<1>. QED
  BY <1>1, <1>2, <1>3, <1>4 DEF Status!Delete

\* The answer of a reconciler is a Vet if it is the last that was missing.
LEMMA AnswerImplements ==
    ASSUME IInv, CallReady
    PROVE  \/ \E p \in Policy : \E v \in 1 .. revisions[p] : Status!Vet(p, v)
           \/ UNCHANGED StatusVars
<1> USE DEF IInv
<1>1. PICK c \in calls, response \in Response : CallReady!(c, response)
  BY Zenon DEF CallReady
<1> DEFINE a == <<c.name, c.object.revision>>
<1>2. UNCHANGED <<policy, revisions>>
  BY <1>1 DEF apiVars
<1>3. c.name \in Policy /\ c.object.revision \in 1 .. revisions[c.name]
  BY Numbers DEF InOrder, CallInOrder
<1>4. /\ vetted \subseteq vetted'
      /\ \A t \in vetted' : t \in vetted \/ t = <<c.next, c.name, c.object.revision>>
  BY <1>1, Zenon
<1>5. VettedByAll \subseteq VettedByAll'
  BY <1>4, Zenon DEF VettedByAll
<1>6. ASSUME NEW b \in VettedByAll', b \notin VettedByAll PROVE b = a
  <2>1. PICK i \in Reconciler : <<i, b[1], b[2]>> \notin vetted
    BY <1>6 DEF VettedByAll
  <2>2. <<i, b[1], b[2]>> = <<c.next, c.name, c.object.revision>>
    BY <1>4, <1>6, <2>1 DEF VettedByAll
  <2>3. b \in Policy \X (1 .. MaxRevision)
    BY <1>6 DEF VettedByAll
  <2>. QED
    BY <2>2, <2>3
<1>7. VettedByAll' = VettedByAll \/ VettedByAll' = VettedByAll \cup {a}
  BY <1>5, <1>6
<1>8. UNCHANGED [q \in Policy |-> StatusOf(q)]
  BY <1>2 DEF StatusOf
<1>9. CASE VettedByAll' = VettedByAll
  BY <1>2, <1>8, <1>9 DEF StatusVars
<1>10. CASE VettedByAll' = VettedByAll \cup {a}
  <2>1. Status!Vet(c.name, c.object.revision)
    BY <1>2, <1>8, <1>10 DEF Status!Vet
  <2>. QED
    BY <1>3, <2>1
<1>. QED
  BY <1>7, <1>9, <1>10

\* An apply of a condition that is justified and of a written revision is a
\* Report.
LEMMA ApplyImplements ==
    ASSUME IInv, NEW p \in Policy, NEW condition \in Condition, ApplyStatus(p, condition),
           Justified(p, condition), condition.revision \in 1 .. revisions[p],
           UNCHANGED <<revisions, vetted>>
    PROVE  \/ \E v \in 1 .. revisions[p], ready \in BOOLEAN : Status!Report(p, ready, v)
           \/ UNCHANGED StatusVars
<1> USE DEF IInv
<1>1. UNCHANGED VettedByAll
  BY DEF VettedByAll
<1>2. CASE UNCHANGED <<policy, watch>>
  <2>1. UNCHANGED [q \in Policy |-> StatusOf(q)]
    BY <1>2 DEF StatusOf
  <2>. QED
    BY <1>1, <2>1 DEF StatusVars
<1>3. ASSUME NEW o \in Object, Exists(policy[p]), Store(p, o),
             o.revision = policy[p].revision, o.ready = condition
      PROVE  Status!Report(p, condition.status, condition.revision)
  <2>1. [q \in Policy |-> StatusOf(q)]' =
           [[q \in Policy |-> StatusOf(q)] EXCEPT
               ![p] = [revision |-> policy[p].revision, ready |-> condition.status,
                       observed |-> condition.revision]]
    BY <1>3, StatusStored
  <2>2. [q \in Policy |-> StatusOf(q)]' =
           [[q \in Policy |-> StatusOf(q)] EXCEPT ![p].ready = condition.status,
                                                  ![p].observed = condition.revision]
    BY <2>1, Zenon DEF StatusOf
  <2>3. [q \in Policy |-> StatusOf(q)][p].revision > 0
    BY <1>3 DEF StatusOf, Exists
  <2>4. condition.status => <<p, condition.revision>> \in VettedByAll
    <3>1. condition.revision \in 1 .. MaxRevision
      BY Numbers, ConstantsAssumption, SMT DEF Numbered
    <3>. QED
      BY <3>1 DEF Justified, VettedByAll
  <2>. QED
    BY <1>1, <2>2, <2>3, <2>4, ZenonT(30) DEF Status!Report, Status!SetCondition
<1>4. condition.status \in BOOLEAN
  BY DEF Condition
<1>. QED
  BY <1>2, <1>3, <1>4, Applied, Zenon

\* The cluster in which the controller starts is one of PolicyStatus.
LEMMA StatusInit == Init => Status!Init
<1> SUFFICES ASSUME Init PROVE Status!Init
  OBVIOUS
<1>1. [p \in Policy |-> StatusOf(p)] = [p \in Policy |-> Status!NoPolicy]
  BY DEF Init, StatusOf, NoObject, NoCondition, Status!NoPolicy
<1>2. Status!NoPolicy \in Status!PolicyObject
  BY DEF Status!NoPolicy, Status!PolicyObject
<1>3. revisions \in [Policy -> Nat]
  BY DEF Init
<1>4. ASSUME NEW p \in Policy
      PROVE  /\ [q \in Policy |-> StatusOf(q)][p].revision = 0
             /\ ~[q \in Policy |-> StatusOf(q)][p].ready
  BY <1>1 DEF Status!NoPolicy
<1>5. [p \in Policy |-> StatusOf(p)] \in [Policy -> Status!PolicyObject]
  BY <1>1, <1>2
<1>. QED
  BY <1>3, <1>4, <1>5, Zenon DEF Status!Init

\* Each step of the controller is a step of PolicyStatus, or none.
LEMMA StatusStep == IInv /\ [Next]_vars => [Status!Next]_StatusVars
<1> SUFFICES ASSUME IInv, [Next]_vars PROVE Status!Next \/ UNCHANGED StatusVars
  OBVIOUS
<1>0. ASSUME UNCHANGED <<policy, revisions, vetted>> PROVE UNCHANGED StatusVars
  BY <1>0 DEF StatusVars, StatusOf, VettedByAll
<1>1. CASE UNCHANGED tracked \/ (\E p \in Policy : Start(p)) \/ Sync \/ Restart \/ Fail
  <2>1. UNCHANGED <<policy, revisions, vetted>>
    BY <1>1, Zenon DEF tracked, Start, Sync, Restart, Fail, apiVars
  <2>. QED
    BY <1>0, <2>1, Zenon
<1>2. ASSUME NEW p \in Policy, CreatePolicy(p) \/ UpdatePolicy(p) PROVE Status!Next
  BY <1>2, WriteImplements, Zenon DEF Status!Next
<1>3. ASSUME NEW p \in Policy, DeletePolicy(p) PROVE Status!Next
  BY <1>3, DeleteImplements, Zenon DEF Status!Next
<1>4. CASE CallReady
  BY <1>4, AnswerImplements, Zenon DEF Status!Next
<1>5. CASE Patch
  <2>1. PICK c \in calls : Patch!(c)
    BY <1>5, Zenon DEF Patch
  <2>2. /\ c.name \in Policy /\ ReadyCondition(c) \in Condition
        /\ ReadyCondition(c).revision = c.object.revision
        /\ ReadyCondition(c).status = c.ready
    BY ConditionType, SMTT(30) DEF IInv
  <2>3. ReadyCondition(c).revision \in 1 .. revisions[c.name]
    BY <2>2 DEF IInv, InOrder, CallInOrder
  <2>4. Justified(c.name, ReadyCondition(c))
    <3>1. c.ready => \A i \in 1 .. c.next - 1 : <<i, c.name, c.object.revision>> \in vetted
      BY DEF IInv, AnswersRecorded
    <3>2. 1 .. c.next - 1 = Reconciler
      BY <2>1, ConstantsAssumption DEF Reconciler
    <3>. QED
      BY <2>2, <3>1, <3>2, Zenon DEF Justified
  <2>5. ApplyStatus(c.name, ReadyCondition(c)) /\ UNCHANGED <<revisions, vetted>>
    BY <2>1, Zenon
  <2>. QED
    BY <2>2, <2>3, <2>4, <2>5, ApplyImplements, Zenon DEF Status!Next
<1>6. CASE LatePatch
  <2>1. PICK d \in late : LatePatch!(d)
    BY <1>6, Zenon DEF LatePatch
  <2>2. d.name \in Policy /\ d.ready \in Condition
    BY DEF IInv, TypeOK
  <2>3. d.ready.revision \in 1 .. revisions[d.name] /\ Justified(d.name, d.ready)
    BY DEF IInv, InOrder, LateInOrder, AnswersRecorded
  <2>4. ApplyStatus(d.name, d.ready) /\ UNCHANGED <<revisions, vetted>>
    BY <2>1, Zenon
  <2>. QED
    BY <2>2, <2>3, <2>4, ApplyImplements, Zenon DEF Status!Next
<1>. QED
  BY <1>1, <1>2, <1>3, <1>4, <1>5, <1>6, StepCases, Zenon

\* The certificaterequestpolicies controller keeps the promise of PolicyStatus,
\* on which the certificaterequests controller rests, for any policies,
\* reconcilers and plugins: whatever the order of writes, reads, answers,
\* patches and restarts, Ready is reported only as all reconcilers answered.
THEOREM PolicyStatusImplemented == Spec => ImplementsPolicyStatus
<1>1. IInv /\ [Next]_vars => [Status!Next]_(Status!vars)
  BY StatusStep DEF StatusVars, Status!vars
<1>. QED
  BY Invariance, StatusInit, <1>1, PTL DEF Spec, ImplementsPolicyStatus, Status!Spec
=============================================================================
