--------------------- MODULE CertificateRequests_review ---------------------
(***************************************************************************)
(* Proofs about the certificaterequests controller, third part: the review in *)
(* progress finds only what is so, and overlooks no policy that fits.      *)
(***************************************************************************)
EXTENDS CertificateRequests_types

\* ReviewSound: what a review has found stays true, and it finds nothing else.
LEMMA CallParts ==
    ASSUME NEW c \in Call
    PROVE  /\ c.name \in Request /\ c.object \in RequestObject /\ c.object.uid \in Nat
           /\ c.listed \in [Policy -> PolicyObject]
           /\ \A p \in Policy : c.listed[p] \in PolicyObject /\ c.listed[p].revision \in Nat
           /\ c.candidates \in SUBSET Policy
           /\ c.usable \in SUBSET Policy /\ c.denied \in SUBSET Policy
<1>1. /\ c.name \in Request /\ c.object \in RequestObject
      /\ c.listed \in [Policy -> PolicyObject] /\ c.candidates \in SUBSET Policy
      /\ c.usable \in SUBSET Policy /\ c.denied \in SUBSET Policy
  BY DEF Call
<1>2. c.object.uid \in Nat
  BY <1>1 DEF RequestObject
<1>3. \A p \in Policy : c.listed[p] \in PolicyObject /\ c.listed[p].revision \in Nat
  BY <1>1 DEF PolicyObject, Policies!PolicyObject
<1>. QED
  BY <1>1, <1>2, <1>3

\* What a call has found out so far stays true while others act.
LEMMA CallSoundKept ==
    ASSUME Grows, NEW c \in Call, CallSound(c)
    PROVE  CallSound(c)'
<1>1. /\ c.name \in Request /\ c.object.uid \in 1 .. Len(requests[c.name])
      /\ \A p \in c.candidates \cup c.usable \cup c.denied :
            p \in Policy /\ c.listed[p] \in PolicyObject
  BY CallParts, Zenon DEF CallSound
<1>2. c.object.uid \in 1 .. Len(requests'[c.name])
  BY <1>1, RequestKept, Zenon
<1>3. ASSUME NEW p \in c.candidates \cup c.usable \cup c.denied
      PROVE  /\ Ready(c.listed[p])' /\ Reported(p, c.listed[p])'
             /\ SelectorIssuerRef(SpecOf(p, c.listed[p]), c.name, c.object.uid)'
             /\ SpecOf(p, c.listed[p])' = SpecOf(p, c.listed[p])
  <2>1. /\ Ready(c.listed[p]) /\ Reported(p, c.listed[p])
        /\ SelectorIssuerRef(SpecOf(p, c.listed[p]), c.name, c.object.uid)
    BY Zenon DEF CallSound
  <2>2. Reported(p, c.listed[p])' /\ SpecOf(p, c.listed[p])' = SpecOf(p, c.listed[p])
    BY <1>1, <2>1, ReportedKept, Zenon DEF Ready
  <2>3. requests'[c.name][c.object.uid] = requests[c.name][c.object.uid]
    BY <1>1, RequestKept, Zenon
  <2>. QED
    BY <2>1, <2>2, <2>3, Zenon DEF Ready, SelectorIssuerRef
<1>4. ASSUME NEW p \in c.denied
      PROVE  /\ Denies(SpecOf(p, c.listed[p]), c.name, c.object.uid)'
             /\ ~Errs(SpecOf(p, c.listed[p]), c.name, c.object.uid)'
  <2>1. /\ Denies(SpecOf(p, c.listed[p]), c.name, c.object.uid)
        /\ ~Errs(SpecOf(p, c.listed[p]), c.name, c.object.uid)
    BY Zenon DEF CallSound
  <2>2. SpecOf(p, c.listed[p])' = SpecOf(p, c.listed[p])
    BY <1>3, Zenon
  <2>3. requests'[c.name][c.object.uid] = requests[c.name][c.object.uid]
    BY <1>1, RequestKept, Zenon
  <2>. QED
    BY <2>1, <2>2, <2>3, Zenon DEF Denies, Errs
<1>4a. ASSUME c.stage # "namespace", NEW p \in c.candidates \cup c.usable \cup c.denied
       PROVE  SelectorNamespace(SpecOf(p, c.listed[p]), c.name, marked)'
  <2>1. SelectorNamespace(SpecOf(p, c.listed[p]), c.name, marked)
    BY <1>4a, Zenon DEF CallSound
  <2>2. SpecOf(p, c.listed[p])' = SpecOf(p, c.listed[p]) /\ marked \subseteq marked'
    BY <1>3, Zenon DEF Grows
  <2>. QED
    BY <2>1, <2>2, Zenon DEF SelectorNamespace
<1>5. \A p \in c.usable \cup c.denied : <<c.name, p>> \in granted'
  BY Zenon DEF CallSound, Grows
<1>6. c.stage = "done" /\ c.outcome.result # "Unprocessed" => Promise!Justified(c.name, c.outcome)'
  BY <1>1, JustifiedKept, Zenon DEF CallSound
<1>7. c.stage \in {"list", "namespace"} => c.usable = {} /\ c.denied = {}
  BY Zenon DEF CallSound
<1>. QED
  BY <1>2, <1>3, <1>4, <1>4a, <1>5, <1>6, <1>7, Zenon DEF CallSound

\* Evaluate: policies of the review that agree are a decision's reason.
LEMMA OutcomeJustified ==
    ASSUME TypeOK, NEW c \in Call, CallSound(c), c.stage = "access",
           NEW S \in SUBSET (c.usable \cup c.denied), S # {},
           NEW result \in {"Approved", "Denied"},
           \A p \in S : Denies(SpecOf(p, c.listed[p]), c.name, c.object.uid) <=> result = "Denied",
           \A p \in S : ~Errs(SpecOf(p, c.listed[p]), c.name, c.object.uid)
    PROVE  Promise!Justified(c.name, [result |-> result, of |-> c.object.uid, by |-> Named(c, S)])
<1> DEFINE d == [result |-> result, of |-> c.object.uid, by |-> Named(c, S)]
<1>1. d.result = result /\ d.of = c.object.uid /\ d.by = Named(c, S)
  OBVIOUS
<1>2. d.by # {}
  BY <1>1, Zenon DEF Named
<1>3. d.of \in 1 .. Len(requests[c.name])
  BY <1>1, Zenon DEF CallSound
<1>4. ASSUME NEW b \in d.by
      PROVE  /\ b[1] \in Policy
             /\ Promise!Consultable(c.name, d.of, b[1], b[2])
             /\ Promise!Refuses(specs[b[1]][b[2]], requests[c.name][d.of]) <=> d.result = "Denied"
  <2>1. PICK p \in S : b = <<p, c.listed[p].revision>>
    BY <1>1, Zenon DEF Named
  <2>2. b[1] = p /\ b[2] = c.listed[p].revision
    BY <2>1, SMTT(30)
  <2>3. p \in Policy /\ c.listed[p] \in PolicyObject /\ c.listed[p].revision \in Nat
    BY CallParts
  <2>4. /\ Ready(c.listed[p]) /\ Reported(p, c.listed[p]) /\ <<c.name, p>> \in granted
        /\ SelectorIssuerRef(SpecOf(p, c.listed[p]), c.name, c.object.uid)
    BY ZenonT(30) DEF CallSound
  <2>4a. SelectorNamespace(SpecOf(p, c.listed[p]), c.name, marked)
    <3>1. c.stage # "namespace"
      OBVIOUS
    <3>. QED
      BY <3>1, Zenon DEF CallSound
  <2>4b. /\ Promise!SelectsNamespace(specs[p][c.listed[p].revision], c.name)
         /\ requests[c.name][d.of].content \notin specs[p][c.listed[p].revision].errs
    BY <1>1, <2>4a, Zenon DEF Promise!SelectsNamespace, SelectorNamespace, Errs, SpecOf
  <2>5. Len(specs[p]) \in Nat
    BY <2>3, SMTT(30) DEF TypeOK
  <2>6. /\ c.listed[p].revision > 0 /\ c.listed[p].revision <= Len(specs[p])
        /\ c.listed[p].observed \in 1 .. c.listed[p].revision
        /\ <<p, c.listed[p].observed>> \in vetted
    BY <2>4, Zenon DEF Ready, Reported
  <2>7. c.listed[p].revision \in 1 .. Len(specs[p])
    BY <2>3, <2>5, <2>6, SMTT(30)
  <2>8. Promise!Consultable(c.name, d.of, p, c.listed[p].revision)
    BY <1>1, <2>4, <2>4b, <2>6, <2>7, Zenon DEF Promise!Consultable, Promise!Selects, SelectorIssuerRef, SpecOf
  <2>9. Promise!Refuses(specs[p][c.listed[p].revision], requests[c.name][d.of]) <=> d.result = "Denied"
    BY <1>1, Zenon DEF Promise!Refuses, Denies, SpecOf
  <2>. QED
    BY <2>2, <2>3, <2>8, <2>9, Zenon
<1>5. d.result \in {"Approved", "Denied"}
  BY <1>1, Zenon
<1> HIDE DEF d
<1>6. Promise!Justified(c.name, d)
  BY <1>2, <1>3, <1>4, <1>5, Zenon DEF Promise!Justified
<1>. QED
  BY <1>6 DEF d

\* Evaluate makes one of three calls of the one in progress.
LEMMA EvaluateCases ==
    ASSUME TypeOK, NEW p \in Policy, NEW c \in calls,
           Evaluate(p)
    PROVE  /\ c.stage = "access" /\ c.candidates = {} /\ p \in c.usable /\ UNCHANGED steady
           /\ ~Errs(SpecOf(p, c.listed[p]), c.name, c.object.uid)
           /\ \/ /\ ~Denies(SpecOf(p, c.listed[p]), c.name, c.object.uid)
                 /\ ReviewStep(Ended(c, "Approved", {p}))
              \/ /\ Denies(SpecOf(p, c.listed[p]), c.name, c.object.uid) /\ c.usable = {p}
                 /\ ReviewStep(Ended(c, "Denied", c.denied \cup {p}))
              \/ /\ Denies(SpecOf(p, c.listed[p]), c.name, c.object.uid) /\ c.usable # {p}
                 /\ ReviewStep([c EXCEPT !.usable = c.usable \ {p}, !.denied = c.denied \cup {p}])
<1>1. PICK b \in calls : Evaluate(p)!(b)
  BY Zenon DEF Evaluate
<1>2. b = c
  BY OneCall, Zenon
<1>. QED
  BY <1>1, <1>2, Zenon

\* Each step of Review keeps to what it has found out.
LEMMA ReviewSoundStep == IInv /\ [Next]_vars => ReviewSound'
<1> SUFFICES ASSUME IInv, [Next]_vars PROVE ReviewSound'
  OBVIOUS
<1>0. /\ TypeOK /\ Grows /\ PoliciesReported /\ RequestsCreated /\ AccessGranted
      /\ LabelsMarked /\ ReviewSound
  BY GrowsStep DEF IInv
<1>1. /\ calls \subseteq Call /\ \A c \in calls : CallSound(c)
      /\ \A d \in late : d.name \in Request /\ Promise!Justified(d.name, d.decision)
  BY <1>0 DEF TypeOK, ReviewSound
<1>2. /\ \A c \in Call : CallSound(c) => CallSound(c)'
      /\ \A d \in late : Promise!Justified(d.name, d.decision)'
  BY <1>0, <1>1, CallSoundKept, JustifiedKept, Zenon
<1>3. CASE calls' \subseteq calls /\ late' \subseteq late
  BY <1>1, <1>2, <1>3, Zenon DEF ReviewSound
<1>4. ASSUME NEW d \in Call, CallSound(d), calls' = {d}, late' = late PROVE ReviewSound'
  BY <1>2, <1>4, Zenon DEF ReviewSound
<1>5. ASSUME NEW d \in Call, CallSound(d), ReviewStep(d) PROVE ReviewSound'
  BY <1>4, <1>5, ZenonT(30) DEF ReviewStep, apiVars
<1>6. ASSUME NEW r \in Request, Start(r) PROVE ReviewSound'
  <2> DEFINE d == [name |-> r, object |-> requestCache[r], stage |-> "list",
                   listed |-> [p \in Policy |-> NoPolicy], candidates |-> {},
                   usable |-> {}, denied |-> {}, outcome |-> NoDecision]
  <2>1. late' = late /\ (calls' = {} \/ (requestCache[r].uid # 0 /\ calls' = {d}))
    BY <1>6, ZenonT(30) DEF Start, apiVars
  <2>2. CASE calls' = {}
    BY <1>3, <2>1, <2>2, Zenon
  <2>3. CASE requestCache[r].uid # 0 /\ calls' = {d}
    <3>1. requestCache[r] \in RequestObject /\ requestCache[r].uid \in Nat /\ Len(requests[r]) \in Nat
      BY <1>0, SMTT(30) DEF TypeOK, RequestObject
    <3>2. requestCache[r].uid <= Len(requests[r])
      BY <1>0, SMTT(30) DEF RequestsCreated
    <3>3. requestCache[r].uid \in 1 .. Len(requests[r])
      BY <2>3, <3>1, <3>2
    <3>4. /\ d.name = r /\ d.object = requestCache[r] /\ d.stage = "list"
          /\ d.candidates = {} /\ d.usable = {} /\ d.denied = {}
      OBVIOUS
    <3>5. d \in Call
      <4>1. [p \in Policy |-> NoPolicy] \in [Policy -> PolicyObject] /\ {} \in SUBSET Policy
            /\ "list" \in {"list", "namespace", "access", "done"}
        BY ObjectTypes
      <4>. QED
        BY <3>1, <4>1, ObjectTypes, Zenon DEF Call
    <3> HIDE DEF d
    <3>6. CallSound(d)
      <4>1. d.stage # "done" /\ d.candidates \cup d.usable \cup d.denied = {} /\ d.usable \cup d.denied = {}
        BY <3>4
      <4>2. d.object.uid \in 1 .. Len(requests[d.name])
        BY <3>3, <3>4
      <4>. QED
        BY <3>4, <4>1, <4>2, Zenon DEF CallSound
    <3>. QED
      BY <1>4, <2>1, <2>3, <3>5, <3>6, Zenon
  <2>. QED
    BY <2>1, <2>2, <2>3, Zenon
<1>7. CASE List
  <2>1. PICK c \in calls : List!(c)
    BY <1>7, Zenon DEF List
  <2> DEFINE kept == {p \in Policy : /\ Ready(policyCache[p])
                                     /\ SelectorIssuerRef(SpecOf(p, policyCache[p]), c.name, c.object.uid)}
             d == [c EXCEPT !.stage = "namespace", !.listed = policyCache, !.candidates = kept]
  <2>2. c \in Call /\ CallSound(c) /\ c.stage = "list" /\ policyCache \in [Policy -> PolicyObject]
    BY <1>0, <1>1, <2>1, Zenon DEF TypeOK
  <2>3. d = [c EXCEPT !.stage = "namespace", !.listed = policyCache,
                      !.candidates = {p \in {q \in Policy : Ready(policyCache[q])} :
                          SelectorIssuerRef(SpecOf(p, policyCache[p]), c.name, c.object.uid)}]
    BY Zenon
  <2>4. ReviewStep(d)
    BY <2>1, <2>3, Zenon
  <2>5. /\ d.name = c.name /\ d.object = c.object /\ d.stage = "namespace" /\ d.listed = policyCache
        /\ d.candidates = kept /\ d.usable = c.usable /\ d.denied = c.denied
    BY <2>2, Zenon DEF Call
  <2>6. d \in Call
    <3>1. kept \in SUBSET Policy /\ "namespace" \in {"list", "namespace", "access", "done"}
      OBVIOUS
    <3>. QED
      BY <2>2, <3>1, Zenon DEF Call
  <2>7. \A p \in kept : /\ Ready(policyCache[p]) /\ Reported(p, policyCache[p])
                        /\ SelectorIssuerRef(SpecOf(p, policyCache[p]), c.name, c.object.uid)
    BY <1>0, Zenon DEF PoliciesReported
  <2> HIDE DEF d, kept
  <2>8. CallSound(d)
    <3>1. d.usable = {} /\ d.denied = {} /\ d.object.uid \in 1 .. Len(requests[d.name])
      BY <2>2, <2>5, Zenon DEF CallSound
    <3>2. d.candidates \cup d.usable \cup d.denied = kept /\ d.usable \cup d.denied = {} /\ d.stage # "done"
      BY <2>5, <3>1
    <3>. QED
      BY <2>5, <2>7, <3>1, <3>2, Zenon DEF CallSound
  <2>. QED
    BY <1>5, <2>4, <2>6, <2>8
<1>8. CASE FilterNamespace
  <2>1. PICK c \in calls : FilterNamespace!(c)
    BY <1>8, Zenon DEF FilterNamespace
  <2> DEFINE kept == {p \in c.candidates : SelectorNamespace(SpecOf(p, c.listed[p]), c.name, labelCache)}
             d == [c EXCEPT !.stage = "access", !.candidates = kept]
  <2>2. c \in Call /\ CallSound(c)
    BY <1>1
  <2>3. /\ d.name = c.name /\ d.object = c.object /\ d.stage = "access" /\ d.listed = c.listed
        /\ d.candidates = kept /\ d.usable = c.usable /\ d.denied = c.denied
    BY <2>2, Zenon DEF Call
  <2>4. d \in Call
    <3>1. kept \in SUBSET Policy /\ "access" \in {"list", "namespace", "access", "done"}
      BY <2>2, CallParts
    <3>. QED
      BY <2>2, <3>1, Zenon DEF Call
  <2>5. ReviewStep(d) /\ kept \subseteq c.candidates
    BY <2>1, <2>2, Zenon DEF Call
  <2>5a. \A p \in kept : SelectorNamespace(SpecOf(p, c.listed[p]), c.name, marked)
    <3>1. labelCache \subseteq marked
      BY <1>0, Zenon DEF LabelsMarked
    <3>. QED
      BY <3>1, Zenon DEF SelectorNamespace
  <2> HIDE DEF d, kept
  <2>6. CallSound(d)
    <3>1. "access" # "done" /\ "access" \notin {"list", "namespace"}
      OBVIOUS
    <3>2. c.usable = {} /\ c.denied = {}
      BY <2>1, <2>2, Zenon DEF CallSound
    <3>3. \A p \in d.candidates \cup d.usable \cup d.denied :
             SelectorNamespace(SpecOf(p, d.listed[p]), d.name, marked)
      BY <2>3, <2>5a, <3>2, Zenon
    <3>. QED
      BY <2>2, <2>3, <2>5, <3>1, <3>3, Zenon DEF CallSound
  <2>. QED
    BY <1>5, <2>4, <2>5, <2>6
<1>9. ASSUME NEW p \in Policy, ReviewAccess(p) PROVE ReviewSound'
  <2>1. PICK c \in calls : ReviewAccess(p)!(c)
    BY <1>9, Zenon DEF ReviewAccess
  <2> DEFINE usable == IF <<c.name, p>> \in access THEN c.usable \cup {p} ELSE c.usable
             d == [c EXCEPT !.candidates = c.candidates \ {p}, !.usable = usable]
  <2>2. c \in Call /\ CallSound(c) /\ c.stage = "access" /\ p \in c.candidates
    BY <1>1, <2>1
  <2>3. /\ d.name = c.name /\ d.object = c.object /\ d.stage = c.stage /\ d.listed = c.listed
        /\ d.candidates = c.candidates \ {p} /\ d.usable = usable /\ d.denied = c.denied
    BY <2>2, Zenon DEF Call
  <2>4. d \in Call
    <3>1. usable \in SUBSET Policy /\ c.candidates \ {p} \in SUBSET Policy
      BY <2>2, CallParts
    <3>. QED
      BY <2>2, <3>1, Zenon DEF Call
  <2>5. ReviewStep(d)
    BY <2>1, <2>2, Zenon DEF Call
  <2>6. \A q \in usable : q \in c.usable \/ (q = p /\ <<c.name, p>> \in granted)
    BY <1>0 DEF AccessGranted
  <2> HIDE DEF d, usable
  <2>7. CallSound(d)
    <3>1. "access" # "done" /\ "access" \notin {"list", "namespace"}
      OBVIOUS
    <3>. QED
      BY <2>2, <2>3, <2>6, <3>1, Zenon DEF CallSound
  <2>. QED
    BY <1>5, <2>4, <2>5, <2>7
<1>10. ASSUME NEW c \in calls, NEW S \in SUBSET (c.usable \cup c.denied), S # {},
              NEW result \in {"Approved", "Denied"}, c.stage = "access", c.candidates = {},
              \A p \in S : Denies(SpecOf(p, c.listed[p]), c.name, c.object.uid) <=> result = "Denied",
              \A p \in S : ~Errs(SpecOf(p, c.listed[p]), c.name, c.object.uid),
              ReviewStep(Ended(c, result, S))
       PROVE  ReviewSound'
  <2> DEFINE d == Ended(c, result, S)
  <2>1. c \in Call /\ CallSound(c)
    BY <1>1
  <2>2. S \in SUBSET Policy /\ result \in {"Approved", "Denied", "Unprocessed"}
    BY <2>1, CallParts
  <2>3. /\ d.name = c.name /\ d.object = c.object /\ d.listed = c.listed
        /\ d.candidates = c.candidates /\ d.usable = {} /\ d.denied = {} /\ d.stage = "done"
        /\ d.outcome = [result |-> result, of |-> c.object.uid, by |-> Named(c, S)]
    BY <2>1, Zenon DEF Ended, Call
  <2>3a. d \in Call
    BY <2>1, <2>2, EndedType, Zenon
  <2>4. Promise!Justified(c.name, [result |-> result, of |-> c.object.uid, by |-> Named(c, S)])
    BY <1>0, <1>10, <2>1, OutcomeJustified, Zenon
  <2> HIDE DEF d
  <2>5. CallSound(d)
    <3>1. d.candidates \cup d.usable \cup d.denied = {} /\ d.usable \cup d.denied = {}
      BY <1>10, <2>3
    <3>2. Promise!Justified(d.name, d.outcome) /\ d.object.uid \in 1 .. Len(requests[d.name])
      BY <2>1, <2>3, <2>4, Zenon DEF CallSound
    <3>. QED
      BY <2>3, <3>1, <3>2, ZenonT(30) DEF CallSound
  <2>6. ReviewStep(d)
    BY <1>10 DEF d
  <2>. QED
    BY <1>5, <2>3a, <2>5, <2>6
<1>11. ASSUME NEW p \in Policy, Evaluate(p) PROVE ReviewSound'
  <2>1. PICK c \in calls : p \in c.usable
    BY <1>11, Zenon DEF Evaluate
  <2>2. c \in Call /\ CallSound(c)
    BY <1>1
  <2>3. /\ c.stage = "access" /\ c.candidates = {}
        /\ ~Errs(SpecOf(p, c.listed[p]), c.name, c.object.uid)
        /\ \/ /\ ~Denies(SpecOf(p, c.listed[p]), c.name, c.object.uid)
              /\ ReviewStep(Ended(c, "Approved", {p}))
           \/ /\ Denies(SpecOf(p, c.listed[p]), c.name, c.object.uid)
              /\ ReviewStep(Ended(c, "Denied", c.denied \cup {p}))
           \/ /\ Denies(SpecOf(p, c.listed[p]), c.name, c.object.uid)
              /\ ReviewStep([c EXCEPT !.usable = c.usable \ {p}, !.denied = c.denied \cup {p}])
    BY <1>0, <1>11, EvaluateCases, Zenon
  <2>4. CASE ~Denies(SpecOf(p, c.listed[p]), c.name, c.object.uid) /\ ReviewStep(Ended(c, "Approved", {p}))
    <3>1. {p} \in SUBSET (c.usable \cup c.denied) /\ {p} # {} /\ "Approved" \in {"Approved", "Denied"}
          /\ "Approved" # "Denied"
      BY <2>1
    <3>2. /\ \A q \in {p} : Denies(SpecOf(q, c.listed[q]), c.name, c.object.uid) <=> "Approved" = "Denied"
          /\ \A q \in {p} : ~Errs(SpecOf(q, c.listed[q]), c.name, c.object.uid)
      BY <2>3, <2>4, <3>1, Zenon
    <3>. QED
      BY <1>10, <2>3, <2>4, <3>1, <3>2, Zenon
  <2>5. CASE /\ Denies(SpecOf(p, c.listed[p]), c.name, c.object.uid)
             /\ ReviewStep(Ended(c, "Denied", c.denied \cup {p}))
    <3>1. c.denied \cup {p} \in SUBSET (c.usable \cup c.denied) /\ c.denied \cup {p} # {}
          /\ "Denied" \in {"Approved", "Denied"}
      BY <2>1
    <3>2. /\ \A q \in c.denied \cup {p} :
                Denies(SpecOf(q, c.listed[q]), c.name, c.object.uid) <=> "Denied" = "Denied"
          /\ \A q \in c.denied \cup {p} : ~Errs(SpecOf(q, c.listed[q]), c.name, c.object.uid)
      BY <2>2, <2>3, <2>5, Zenon DEF CallSound
    <3>. QED
      BY <1>10, <2>3, <2>5, <3>1, <3>2, Zenon
  <2>6. CASE /\ Denies(SpecOf(p, c.listed[p]), c.name, c.object.uid)
             /\ ReviewStep([c EXCEPT !.usable = c.usable \ {p}, !.denied = c.denied \cup {p}])
    <3> DEFINE d == [c EXCEPT !.usable = c.usable \ {p}, !.denied = c.denied \cup {p}]
    <3>1. /\ d.name = c.name /\ d.object = c.object /\ d.stage = c.stage /\ d.listed = c.listed
          /\ d.candidates = c.candidates /\ d.usable = c.usable \ {p} /\ d.denied = c.denied \cup {p}
      BY <2>2, Zenon DEF Call
    <3>2. d \in Call
      <4>1. c.usable \ {p} \in SUBSET Policy /\ c.denied \cup {p} \in SUBSET Policy
        BY <2>2, CallParts
      <4>. QED
        BY <2>2, <4>1, Zenon DEF Call
    <3>3. ReviewStep(d)
      BY <2>6
    <3> HIDE DEF d
    <3>4. CallSound(d)
      <4>1. "access" # "done" /\ "access" \notin {"list", "namespace"}
        OBVIOUS
      <4>. QED
        BY <2>1, <2>2, <2>3, <2>6, <3>1, <4>1, Zenon DEF CallSound
    <3>. QED
      BY <1>5, <3>2, <3>3, <3>4
  <2>. QED
    BY <2>3, <2>4, <2>5, <2>6, Zenon
<1>12. CASE NotApplicable
  <2>1. PICK c \in calls : NotApplicable!(c)
    BY <1>12, Zenon DEF NotApplicable
  <2> DEFINE d == Ended(c, "Unprocessed", {})
  <2>2. c \in Call /\ CallSound(c)
    BY <1>1
  <2>3. {} \in SUBSET Policy /\ "Unprocessed" \in {"Approved", "Denied", "Unprocessed"}
    OBVIOUS
  <2>4. /\ d.name = c.name /\ d.object = c.object /\ d.listed = c.listed
        /\ d.candidates = c.candidates /\ d.usable = {} /\ d.denied = {} /\ d.stage = "done"
        /\ d.outcome = [result |-> "Unprocessed", of |-> c.object.uid, by |-> Named(c, {})]
    BY <2>2, Zenon DEF Ended, Call
  <2>4a. d \in Call
    BY <2>2, <2>3, EndedType, Zenon
  <2>5. ReviewStep(d)
    BY <2>1, Zenon
  <2> HIDE DEF d
  <2>6. CallSound(d)
    <3>1. /\ d.candidates \cup d.usable \cup d.denied = {} /\ d.usable \cup d.denied = {}
          /\ d.outcome.result = "Unprocessed"
      BY <2>1, <2>4
    <3>. QED
      BY <2>2, <2>4, <3>1, ZenonT(30) DEF CallSound
  <2>. QED
    BY <1>5, <2>4a, <2>5, <2>6
<1>13. CASE Restart
  <2>1. PICK S \in SUBSET {c \in calls : c.stage = "done" /\ c.outcome.result # "Unprocessed"} :
           late' = late \cup {[name |-> c.name, decision |-> c.outcome] : c \in S}
    BY <1>13, Zenon DEF Restart
  <2>2. calls' = {}
    BY <1>13, Zenon DEF Restart
  <2>3. ASSUME NEW d \in late' PROVE Promise!Justified(d.name, d.decision)'
    <3>1. CASE d \in late
      BY <1>2, <3>1
    <3>2. ASSUME NEW c \in S, d = [name |-> c.name, decision |-> c.outcome]
          PROVE  Promise!Justified(d.name, d.decision)'
      <4>1. d.name = c.name /\ d.decision = c.outcome
        BY <3>2
      <4>2. c \in calls /\ CallSound(c)' /\ c.stage = "done" /\ c.outcome.result # "Unprocessed"
        BY <1>1, <1>2, Zenon
      <4>3. Promise!Justified(c.name, c.outcome)'
        BY <4>2, Zenon DEF CallSound
      <4>. QED
        BY <4>1, <4>3, Zenon
    <3>. QED
      BY <2>1, <3>1, <3>2, Zenon
  <2>. QED
    BY <2>2, <2>3, Zenon DEF ReviewSound
<1>14. CASE \/ \E r \in Request : \/ \E q \in RequestSpec : CreateRequest(r, q)
                                  \/ DeleteRequest(r)
            \/ \E p \in Policy : \/ DeletePolicy(p) \/ \E s \in PolicySpec : WritePolicy(p, s)
                                 \/ \E ready \in BOOLEAN, v \in 1 .. Len(specs[p]) : SetReady(p, ready, v)
                                 \/ \E r \in Request : Bind(r, p) \/ Unbind(r, p)
  <2>1. UNCHANGED <<calls, late>>
    BY <1>14, Zenon DEF CreateRequest, DeleteRequest, WritePolicy, DeletePolicy, SetReady, Bind, Unbind
  <2>. QED
    BY <1>3, <2>1, Zenon
<1>15. CASE \/ SyncAccess \/ SyncPolicy \/ SyncRequest \/ SyncNamespace \/ LatePatch
            \/ Leave \/ Patch \/ Fail \/ UNCHANGED tracked
  <2>1. (UNCHANGED calls \/ calls' = {}) /\ late' \subseteq late
    BY <1>15, Zenon DEF SyncAccess, SyncPolicy, SyncRequest, SyncNamespace, LatePatch, Leave,
       Patch, Fail, tracked, apiVars
  <2>. QED
    BY <1>3, <2>1, Zenon
<1>. QED
  BY <1>6, <1>7, <1>8, <1>9, <1>11, <1>12, <1>13, <1>14, <1>15, StepCases, Zenon

-----------------------------------------------------------------------------
\* A policy that fits goes on fitting as long as no step of its own says not.
LEMMA SteadyFrame ==
    ASSUME IInv, Grows, calls' = calls, steady' \subseteq steady,
           \A c \in calls : \A p \in steady' :
              /\ SelectorNamespace(SpecOf(p, c.listed[p]), c.name, labelCache')
              /\ <<c.name, p>> \in access'
    PROVE  SteadyInReview' /\ NoSteadyPolicyMissed'
<1>0. TypeOK /\ SteadyInReview /\ NoSteadyPolicyMissed /\ ReviewSound
  BY DEF IInv
<1>1. ASSUME NEW c \in calls, NEW p \in steady'
      PROVE  /\ Ready(c.listed[p])' /\ Reported(p, c.listed[p])'
             /\ SpecOf(p, c.listed[p])' = SpecOf(p, c.listed[p])
             /\ SelectorNamespace(SpecOf(p, c.listed[p]), c.name, labelCache)'
  <2>1. p \in steady /\ p \in Policy /\ c.listed[p] \in PolicyObject
    BY <1>0, CallParts, Zenon DEF TypeOK
  <2>2. Ready(c.listed[p]) /\ Reported(p, c.listed[p])
    BY <1>0, <2>1, Zenon DEF SteadyInReview, SteadyIn
  <2>3. Reported(p, c.listed[p])' /\ SpecOf(p, c.listed[p])' = SpecOf(p, c.listed[p])
    BY <2>1, <2>2, ReportedKept, Zenon DEF Ready
  <2>. QED
    BY <2>2, <2>3, ZenonT(30) DEF Ready, SelectorNamespace
<1>2. ASSUME NEW c \in calls PROVE SteadyIn(c)'
  <2>1. c.stage = "list" => steady' = {}
    BY <1>0, Zenon DEF SteadyInReview, SteadyIn
  <2>2. c.stage \in {"namespace", "access"} => steady' \subseteq c.candidates \cup c.usable \cup c.denied
    BY <1>0, Zenon DEF SteadyInReview, SteadyIn
  <2>. QED
    BY <1>1, <2>1, <2>2, Zenon DEF SteadyIn
<1>3. SteadyInReview'
  BY <1>0, <1>2, Zenon DEF SteadyInReview
<1>4. ASSUME NEW c \in calls, c.stage = "done"
      PROVE  /\ c.outcome.result = "Unprocessed" => steady' = {}
             /\ c.outcome.result = "Denied" =>
                   \A p \in steady' : /\ Denies(SpecOf(p, c.listed[p]), c.name, c.object.uid)'
                                       /\ ~Errs(SpecOf(p, c.listed[p]), c.name, c.object.uid)'
  <2>1. /\ c.outcome.result = "Unprocessed" => steady = {}
        /\ c.outcome.result = "Denied" =>
              \A p \in steady : /\ Denies(SpecOf(p, c.listed[p]), c.name, c.object.uid)
                                 /\ ~Errs(SpecOf(p, c.listed[p]), c.name, c.object.uid)
    BY <1>0, <1>4, Zenon DEF NoSteadyPolicyMissed
  <2>2. c.name \in Request /\ c.object.uid \in 1 .. Len(requests[c.name])
    BY <1>0, OutcomeType, Zenon DEF ReviewSound, CallSound
  <2>3. requests'[c.name][c.object.uid] = requests[c.name][c.object.uid]
    BY <2>2, RequestKept, Zenon
  <2>. QED
    BY <1>1, <2>1, <2>3, Zenon DEF Denies, Errs
<1>. QED
  BY <1>3, <1>4, Zenon DEF NoSteadyPolicyMissed

\* SteadyInReview and NoSteadyPolicyMissed: predicates and evaluators drop no
\* policy that fits, and the outcome is theirs.
LEMMA SteadyStep == IInv /\ [Next]_vars => SteadyInReview' /\ NoSteadyPolicyMissed'
<1> SUFFICES ASSUME IInv, [Next]_vars PROVE SteadyInReview' /\ NoSteadyPolicyMissed'
  OBVIOUS
<1>0. /\ TypeOK /\ Grows /\ PoliciesReported /\ AccessGranted /\ ReviewSound
      /\ SteadyInReview /\ NoSteadyPolicyMissed
  BY GrowsStep DEF IInv
<1>1. /\ calls \subseteq Call /\ \A c \in calls : CallSound(c) /\ SteadyIn(c)
      /\ \A c \in calls : \A p \in steady :
            /\ SelectorNamespace(SpecOf(p, c.listed[p]), c.name, labelCache)
            /\ <<c.name, p>> \in access
  BY <1>0, Zenon DEF TypeOK, ReviewSound, SteadyInReview, SteadyIn
<1>2. CASE UNCHANGED <<calls, steady, labelCache, access>>
  BY <1>0, <1>1, <1>2, SteadyFrame
<1>3. CASE calls' = {} /\ steady' = {}
  BY <1>3, Zenon DEF SteadyInReview, NoSteadyPolicyMissed
<1>4. ASSUME NEW d, ReviewStep(d), SteadyIn(d)',
             d.stage = "done" =>
                /\ d.outcome.result = "Unprocessed" => steady' = {}
                /\ d.outcome.result = "Denied" =>
                      \A p \in steady' : /\ Denies(SpecOf(p, d.listed[p]), d.name, d.object.uid)'
                                          /\ ~Errs(SpecOf(p, d.listed[p]), d.name, d.object.uid)'
      PROVE  SteadyInReview' /\ NoSteadyPolicyMissed'
  <2>1. calls' = {d}
    BY <1>4 DEF ReviewStep
  <2>. QED
    BY <1>4, <2>1, Zenon DEF SteadyInReview, NoSteadyPolicyMissed
<1>5. ASSUME NEW r \in Request, NEW p \in Policy, Bind(r, p)
      PROVE  SteadyInReview' /\ NoSteadyPolicyMissed'
  <2>1. UNCHANGED <<calls, steady, labelCache>> /\ SetBound(bound \cup {<<r, p>>})
    BY <1>5, Zenon DEF Bind, informerVars
  <2>2. access \subseteq access'
    BY <1>0, <2>1, Zenon DEF SetBound, AccessGranted
  <2>. QED
    BY <1>0, <1>1, <2>1, <2>2, SteadyFrame
<1>6. ASSUME steady' = StillBound(access'), UNCHANGED <<calls, labelCache>>
      PROVE  SteadyInReview' /\ NoSteadyPolicyMissed'
  <2>1. steady' \subseteq steady /\ \A c \in calls : \A p \in steady' : <<c.name, p>> \in access'
    BY <1>6, Zenon DEF StillBound
  <2>2. \A c \in calls : \A p \in steady' :
              /\ SelectorNamespace(SpecOf(p, c.listed[p]), c.name, labelCache')
              /\ <<c.name, p>> \in access'
    BY <1>1, <1>6, <2>1, Zenon
  <2>. QED
    BY <1>0, <1>6, <2>1, <2>2, SteadyFrame
<1>7. ASSUME NEW r \in Request, NEW p \in Policy, Unbind(r, p)
      PROVE  SteadyInReview' /\ NoSteadyPolicyMissed'
  <2>1. steady' = StillBound(access') /\ UNCHANGED <<calls, labelCache>>
    BY <1>7, Zenon DEF Unbind, informerVars
  <2>. QED
    BY <1>6, <2>1
<1>8. CASE SyncAccess
  <2>1. steady' = StillBound(access') /\ UNCHANGED <<calls, labelCache>>
    BY <1>8, Zenon DEF SyncAccess, informerVars
  <2>. QED
    BY <1>6, <2>1
<1>9. CASE SyncNamespace
  <2>1. /\ labelCache' = Head(labelWatch) /\ UNCHANGED <<calls, access>>
        /\ steady' = {p \in steady : \A c \in calls :
                         SelectorNamespace(SpecOf(p, c.listed[p]), c.name, Head(labelWatch))}
    BY <1>9, Zenon DEF SyncNamespace, apiVars, accessVars, labelVars
  <2>2. /\ steady' \subseteq steady
        /\ \A c \in calls : \A p \in steady' :
              /\ SelectorNamespace(SpecOf(p, c.listed[p]), c.name, labelCache')
              /\ <<c.name, p>> \in access'
    BY <1>1, <2>1, Zenon
  <2>. QED
    BY <1>0, <2>1, <2>2, SteadyFrame
<1>10. ASSUME NEW r \in Request, Start(r) PROVE SteadyInReview' /\ NoSteadyPolicyMissed'
  <2>1. /\ steady' = {}
        /\ \A c \in calls' : c.stage = "list"
    <3>1. steady' = steady /\ calls = {}
      BY <1>10, ZenonT(30) DEF Start, historyVars
    <3>2. \A c \in calls' : c.stage = "list"
      BY <1>10 DEF Start
    <3>. QED
      BY <1>0, <3>1, <3>2, Zenon DEF SteadyInReview
  <2>2. "list" # "done" /\ {} \subseteq Policy
    BY SMTT(30)
  <2>3. \A c \in calls' : SteadyIn(c)'
    BY <2>1 DEF SteadyIn
  <2>. QED
    BY <2>1, <2>2, <2>3, Zenon DEF SteadyInReview, NoSteadyPolicyMissed
<1>11. CASE List
  <2>1. PICK c \in calls : List!(c)
    BY <1>11, Zenon DEF List
  <2> DEFINE kept == {p \in {q \in Policy : Ready(policyCache[q])} :
                        SelectorIssuerRef(SpecOf(p, policyCache[p]), c.name, c.object.uid)}
  <2>2. c \in Call
    BY <1>1, SMTT(30)
  <2>2a. PICK d : d = [c EXCEPT !.stage = "namespace", !.listed = policyCache, !.candidates = kept]
    BY Zenon
  <2>3. /\ d.name = c.name /\ d.object = c.object /\ d.stage = "namespace" /\ d.listed = policyCache
        /\ d.candidates = kept
    BY <2>2, <2>2a, Zenon DEF Call
  <2>4. /\ ReviewStep(d)
        /\ steady' = {p \in kept : /\ SelectorNamespace(SpecOf(p, policyCache[p]), c.name, labelCache)
                                   /\ <<c.name, p>> \in access}
    BY <2>1, <2>2a, Zenon
  <2>5. UNCHANGED <<specs, labelCache, access, vetted>>
    BY <2>4, Zenon DEF ReviewStep, apiVars, accessVars, labelVars, informerVars
  <2>6. \A p \in kept : Ready(policyCache[p]) /\ Reported(p, policyCache[p])
    BY <1>0, Zenon DEF PoliciesReported
  <2> HIDE DEF kept
  <2>7. SteadyIn(d)'
    <3>1. d.stage # "list" /\ steady' \subseteq d.candidates \cup d.usable \cup d.denied
      BY <2>3, <2>4
    <3>2. ASSUME NEW p \in steady'
          PROVE  /\ Ready(d.listed[p])' /\ Reported(p, d.listed[p])'
                 /\ SelectorNamespace(SpecOf(p, d.listed[p]), d.name, labelCache)'
                 /\ <<d.name, p>> \in access'
      <4>1. /\ p \in kept /\ <<c.name, p>> \in access
            /\ SelectorNamespace(SpecOf(p, policyCache[p]), c.name, labelCache)
        BY <2>4
      <4>. QED
        BY <2>3, <2>5, <2>6, <4>1, Zenon DEF Ready, Reported, SelectorNamespace, SpecOf
    <3>. QED
      BY <3>1, <3>2, ZenonT(30) DEF SteadyIn
  <2>8. d.stage # "done"
    BY <2>3
  <2>. QED
    BY <1>4, <2>4, <2>7, <2>8, Zenon
<1>12. ASSUME NEW c \in calls, NEW d, ReviewStep(d), UNCHANGED steady,
              d.name = c.name, d.listed = c.listed, c.stage # "list", d.stage # "list"
       PROVE  (d.stage \in {"namespace", "access"} => steady \subseteq d.candidates \cup d.usable \cup d.denied)
                 => SteadyIn(d)'
  <2>1. UNCHANGED <<specs, labelCache, access, vetted>>
    BY <1>12, Zenon DEF ReviewStep, apiVars, accessVars, labelVars, informerVars
  <2>2. ASSUME NEW p \in steady
        PROVE  /\ Ready(d.listed[p])' /\ Reported(p, d.listed[p])'
               /\ SelectorNamespace(SpecOf(p, d.listed[p]), d.name, labelCache)'
               /\ <<d.name, p>> \in access'
    <3>1. /\ Ready(c.listed[p]) /\ Reported(p, c.listed[p]) /\ <<c.name, p>> \in access
          /\ SelectorNamespace(SpecOf(p, c.listed[p]), c.name, labelCache)
      BY <1>1, Zenon DEF SteadyIn
    <3>. QED
      BY <1>12, <2>1, <3>1, Zenon DEF Ready, Reported, SelectorNamespace, SpecOf
  <2>. QED
    BY <1>12, <2>2, Zenon DEF SteadyIn
<1>13. CASE FilterNamespace
  <2>1. PICK c \in calls : FilterNamespace!(c)
    BY <1>13, Zenon DEF FilterNamespace
  <2> DEFINE kept == {p \in c.candidates : SelectorNamespace(SpecOf(p, c.listed[p]), c.name, labelCache)}
  <2>2. c \in Call /\ c.stage = "namespace"
    BY <1>1, <2>1, SMTT(30)
  <2>2a. PICK d : d = [c EXCEPT !.stage = "access", !.candidates = kept]
    BY Zenon
  <2>3. /\ d.name = c.name /\ d.object = c.object /\ d.stage = "access" /\ d.listed = c.listed
        /\ d.candidates = kept /\ d.usable = c.usable /\ d.denied = c.denied
    BY <2>2, <2>2a, Zenon DEF Call
  <2>4. ReviewStep(d) /\ UNCHANGED steady
    BY <2>1, <2>2, <2>2a, Zenon DEF Call
  <2>5. steady \subseteq kept \cup c.usable \cup c.denied
    BY <1>1, <2>2, Zenon DEF SteadyIn
  <2> HIDE DEF kept
  <2>6. c.stage # "list" /\ d.stage # "list" /\ d.stage # "done"
    BY <2>2, <2>3
  <2>7. SteadyIn(d)'
    BY <1>12, <2>3, <2>4, <2>5, <2>6, Zenon
  <2>. QED
    BY <1>4, <2>4, <2>6, <2>7, Zenon
<1>14. ASSUME NEW p \in Policy, ReviewAccess(p) PROVE SteadyInReview' /\ NoSteadyPolicyMissed'
  <2>1. PICK c \in calls : ReviewAccess(p)!(c)
    BY <1>14, Zenon DEF ReviewAccess
  <2> DEFINE usable == IF <<c.name, p>> \in access THEN c.usable \cup {p} ELSE c.usable
  <2>2. c \in Call /\ c.stage = "access"
    BY <1>1, <2>1
  <2>2a. PICK d : d = [c EXCEPT !.candidates = c.candidates \ {p}, !.usable = usable]
    OBVIOUS
  <2>3. /\ d.name = c.name /\ d.object = c.object /\ d.stage = c.stage /\ d.listed = c.listed
        /\ d.candidates = c.candidates \ {p} /\ d.usable = usable /\ d.denied = c.denied
    BY <2>2, <2>2a, Zenon DEF Call
  <2>4. ReviewStep(d) /\ UNCHANGED steady
    BY <2>1, <2>2, <2>2a, Zenon DEF Call
  <2>5. steady \subseteq (c.candidates \ {p}) \cup usable \cup c.denied
    <3>1. steady \subseteq c.candidates \cup c.usable \cup c.denied
      BY <1>1, <2>2, Zenon DEF SteadyIn
    <3>2. p \in steady => <<c.name, p>> \in access
      BY <1>1
    <3>3. c.usable \subseteq usable /\ (p \in steady => p \in usable)
      BY <3>2
    <3> HIDE DEF usable
    <3>. QED
      BY <3>1, <3>3
  <2> HIDE DEF usable
  <2>6. c.stage # "list" /\ d.stage # "list" /\ d.stage # "done"
    BY <2>2, <2>3
  <2>7. SteadyIn(d)'
    BY <1>12, <2>3, <2>4, <2>5, <2>6, Zenon
  <2>. QED
    BY <1>4, <2>4, <2>6, <2>7, Zenon
<1>15. ASSUME NEW c \in calls, c.stage = "access", NEW result, NEW S,
              ReviewStep(Ended(c, result, S)), UNCHANGED steady,
              /\ result = "Unprocessed" => steady = {}
              /\ result = "Denied" =>
                    \A p \in steady : /\ Denies(SpecOf(p, c.listed[p]), c.name, c.object.uid)
                                       /\ ~Errs(SpecOf(p, c.listed[p]), c.name, c.object.uid)
       PROVE  SteadyInReview' /\ NoSteadyPolicyMissed'
  <2> DEFINE d == Ended(c, result, S)
  <2>1. c \in Call
    BY <1>1
  <2>2. /\ d.name = c.name /\ d.object = c.object /\ d.listed = c.listed /\ d.stage = "done"
        /\ d.outcome = [result |-> result, of |-> c.object.uid, by |-> Named(c, S)]
    BY <2>1, ZenonT(30) DEF Ended, Call
  <2>3. ReviewStep(d) /\ d.outcome.result = result
    BY <1>15, <2>2, SMTT(30)
  <2> HIDE DEF d
  <2>4. c.stage # "list" /\ d.stage # "list" /\ d.stage \notin {"namespace", "access"}
    BY <1>15, <2>2
  <2>5. SteadyIn(d)'
    BY <1>12, <1>15, <2>2, <2>3, <2>4, Zenon
  <2>6. UNCHANGED <<specs, requests>>
    BY <2>3, Zenon DEF ReviewStep, apiVars
  <2>7. /\ result = "Unprocessed" => steady' = {}
        /\ result = "Denied" =>
              \A p \in steady' : /\ Denies(SpecOf(p, d.listed[p]), d.name, d.object.uid)'
                                  /\ ~Errs(SpecOf(p, d.listed[p]), d.name, d.object.uid)'
    BY <1>15, <2>2, <2>6, Zenon DEF Denies, Errs, SpecOf
  <2>. QED
    BY <1>4, <2>3, <2>5, <2>7, Zenon
<1>16. ASSUME NEW p \in Policy, Evaluate(p) PROVE SteadyInReview' /\ NoSteadyPolicyMissed'
  <2>1. PICK c \in calls : p \in c.usable
    BY <1>16, Zenon DEF Evaluate
  <2>2. c \in Call /\ CallSound(c)
    BY <1>1
  <2>3. /\ c.stage = "access" /\ c.candidates = {} /\ UNCHANGED steady
        /\ ~Errs(SpecOf(p, c.listed[p]), c.name, c.object.uid)
        /\ \/ ReviewStep(Ended(c, "Approved", {p}))
           \/ /\ Denies(SpecOf(p, c.listed[p]), c.name, c.object.uid) /\ c.usable = {p}
              /\ ReviewStep(Ended(c, "Denied", c.denied \cup {p}))
           \/ ReviewStep([c EXCEPT !.usable = c.usable \ {p}, !.denied = c.denied \cup {p}])
    BY <1>0, <1>16, EvaluateCases, Zenon
  <2>4. steady \subseteq c.usable \cup c.denied
    <3>1. steady \subseteq c.candidates \cup c.usable \cup c.denied
      BY <1>1, <2>3, Zenon DEF SteadyIn
    <3>. QED
      BY <2>3, <3>1
  <2>5. CASE ReviewStep(Ended(c, "Approved", {p}))
    <3>1. "Approved" # "Unprocessed" /\ "Approved" # "Denied"
      OBVIOUS
    <3>. QED
      BY <1>15, <2>3, <2>5, <3>1, Zenon
  <2>6. CASE /\ Denies(SpecOf(p, c.listed[p]), c.name, c.object.uid) /\ c.usable = {p}
             /\ ReviewStep(Ended(c, "Denied", c.denied \cup {p}))
    <3>1. "Denied" # "Unprocessed"
      OBVIOUS
    <3>2. \A q \in steady : /\ Denies(SpecOf(q, c.listed[q]), c.name, c.object.uid)
                             /\ ~Errs(SpecOf(q, c.listed[q]), c.name, c.object.uid)
      BY <2>2, <2>3, <2>4, <2>6, Zenon DEF CallSound
    <3>. QED
      BY <1>15, <2>3, <2>6, <3>1, <3>2, Zenon
  <2>7. CASE ReviewStep([c EXCEPT !.usable = c.usable \ {p}, !.denied = c.denied \cup {p}])
    <3> DEFINE d == [c EXCEPT !.usable = c.usable \ {p}, !.denied = c.denied \cup {p}]
    <3>1. /\ d.name = c.name /\ d.object = c.object /\ d.stage = c.stage /\ d.listed = c.listed
          /\ d.candidates = c.candidates /\ d.usable = c.usable \ {p} /\ d.denied = c.denied \cup {p}
      BY <2>2, Zenon DEF Call
    <3>2. ReviewStep(d)
      BY <2>7
    <3> HIDE DEF d
    <3>3. steady \subseteq d.candidates \cup d.usable \cup d.denied
      BY <2>4, <3>1
    <3>4. c.stage # "list" /\ d.stage # "list" /\ d.stage # "done"
      BY <2>3, <3>1
    <3>5. SteadyIn(d)'
      BY <1>12, <2>3, <3>1, <3>2, <3>3, <3>4, Zenon
    <3>. QED
      BY <1>4, <3>2, <3>4, <3>5, Zenon
  <2>. QED
    BY <2>3, <2>5, <2>6, <2>7, Zenon
<1>17. CASE NotApplicable
  <2>1. PICK c \in calls : NotApplicable!(c)
    BY <1>17, Zenon DEF NotApplicable
  <2>2. steady = {}
    <3>1. steady \subseteq c.candidates \cup c.usable \cup c.denied
      BY <1>1, <2>1, Zenon DEF SteadyIn
    <3>. QED
      BY <2>1, <3>1
  <2>. QED
    BY <1>15, <2>1, <2>2, Zenon
<1>18. CASE Restart \/ Leave \/ Patch \/ Fail
  <2>1. calls' = {} /\ steady' = {}
    BY <1>18, Zenon DEF Restart, Leave, Patch, Fail
  <2>. QED
    BY <1>3, <2>1
<1>19. CASE \/ \E r \in Request : \/ \E q \in RequestSpec : CreateRequest(r, q)
                                  \/ DeleteRequest(r)
            \/ \E p \in Policy : \/ DeletePolicy(p) \/ \E s \in PolicySpec : WritePolicy(p, s)
                                 \/ \E ready \in BOOLEAN, v \in 1 .. Len(specs[p]) : SetReady(p, ready, v)
            \/ SyncPolicy \/ SyncRequest \/ LatePatch \/ UNCHANGED tracked
  <2>1. UNCHANGED <<calls, steady, labelCache, access>>
    BY <1>19, Zenon DEF CreateRequest, DeleteRequest, WritePolicy, DeletePolicy, SetReady, SyncPolicy,
       SyncRequest, LatePatch, tracked, apiVars, accessVars, labelVars, historyVars
  <2>. QED
    BY <1>2, <2>1
<1>. QED
  BY <1>5, <1>7, <1>8, <1>9, <1>10, <1>11, <1>13, <1>14, <1>16, <1>17, <1>18, <1>19, StepCases, Zenon
=============================================================================
