-------------------------- MODULE Approvers_proofs --------------------------
(***************************************************************************)
(* For any attributes, patterns, policies and requests: WildcardMatches is *)
(* true of what a pattern expresses; what the two Evaluate do not deny     *)
(* conforms to the policy; what allowed.Evaluate permits is closed under   *)
(* asking for less; and the webhook commits no policy that no request      *)
(* satisfies.                                                              *)
(***************************************************************************)
EXTENDS Approvers, TLAPS, WellFoundedInduction

(* WildcardMatches.  What a recursive function computes is shown by the    *)
(* least natural number for which it would not.                            *)

\* The order of the naturals is well founded.
LEMMA NaturalsWellFounded ==
    IsWellFoundedOn({pair \in Nat \X Nat : pair[1] < pair[2]}, Nat)
BY NatLessThanWellFounded DEF OpToRel

\* A set of naturals that is not empty has a least element.
LEMMA LeastNatural ==
    ASSUME NEW S \in SUBSET Nat, S # {}
    PROVE  \E n \in S : \A m \in S : n <= m
<1> DEFINE R == {pair \in Nat \X Nat : pair[1] < pair[2]}
<1>1. IsWellFoundedOn(R, Nat)
  BY NaturalsWellFounded
<1>2. PICK n \in S : \A m \in S : ~ (<<m, n>> \in R)
  <2> HIDE DEF R
  <2>. QED
    BY <1>1, WFMin
<1>3. ASSUME NEW m \in S PROVE n <= m
  <2>1. m \in Nat /\ n \in Nat
    OBVIOUS
  <2>2. CASE m < n
    <3>1. <<m, n>> \in R
      BY <2>1, <2>2
    <3>. QED
      BY <1>2, <3>1
  <2>. QED
    BY <2>1, <2>2
<1>. QED
  BY <1>3

\* A string without its first rune.
LEMMA TailString ==
    ASSUME NEW s \in String, s # <<>>
    PROVE  /\ Tail(s) \in String
           /\ Len(s) \in Nat /\ Len(s) >= 1
           /\ Len(Tail(s)) = Len(s) - 1
           /\ Head(s) = s[1]
           /\ \A k \in 1 .. Len(s) - 1 : Tail(s)[k] = s[k + 1]
BY DEF String

\* The cuts that Expresses speaks of.
Cuts(pattern, str, cut) ==
    /\ cut \in [0 .. Len(pattern) -> 0 .. Len(str)]
    /\ cut[0] = 0
    /\ cut[Len(pattern)] = Len(str)
    /\ \A i \in 1 .. Len(pattern) :
          IF pattern[i] = "*"
          THEN cut[i - 1] <= cut[i]
          ELSE cut[i] = cut[i - 1] + 1 /\ str[cut[i]] = pattern[i]

\* Expresses asks for such a way of cutting.
LEMMA ExpressesCuts ==
    ASSUME NEW p, NEW s
    PROVE  Expresses(p, s) <=> \E cut : Cuts(p, s, cut)
BY Zenon DEF Expresses, Cuts

\* No piece ends before the first one does.
LEMMA CutsGrow ==
    ASSUME NEW p \in String, NEW s \in String, NEW cut, Cuts(p, s, cut),
           NEW i \in 1 .. Len(p)
    PROVE  cut[1] <= cut[i]
<1> DEFINE Bad == {j \in 1 .. Len(p) : ~(cut[1] <= cut[j])}
<1>0. Len(p) \in Nat /\ Len(s) \in Nat /\ \A j \in 0 .. Len(p) : cut[j] \in 0 .. Len(s)
  <2>1. Len(p) \in Nat /\ Len(s) \in Nat
    BY DEF String
  <2>2. cut \in [0 .. Len(p) -> 0 .. Len(s)]
    BY Zenon DEF Cuts
  <2>. QED
    BY <2>1, <2>2
<1>1. SUFFICES ASSUME Bad # {} PROVE FALSE
  OBVIOUS
<1>2. PICK j \in Bad : \A k \in Bad : j <= k
  <2>1. Bad \in SUBSET Nat
    BY <1>0
  <2> HIDE DEF Bad
  <2>. QED
    BY <1>1, <2>1, LeastNatural
<1>3. j \in 1 .. Len(p) /\ ~(cut[1] <= cut[j])
  OBVIOUS
<1>4. j # 1 /\ j - 1 \in 1 .. Len(p)
  BY <1>0, <1>3
<1>5. cut[1] <= cut[j - 1]
  BY <1>0, <1>2, <1>3, <1>4
<1>6. cut[j - 1] <= cut[j]
  BY <1>0, <1>3, <1>4 DEF Cuts
<1>. QED
  BY <1>0, <1>3, <1>4, <1>5, <1>6

\* The empty pattern expresses the empty string alone.
LEMMA EmptyExpresses ==
    ASSUME NEW s \in String
    PROVE  Expresses(<<>>, s) <=> s = <<>>
<1>1. ASSUME Expresses(<<>>, s) PROVE s = <<>>
  <2>1. PICK cut : Cuts(<<>>, s, cut)
    BY <1>1, ExpressesCuts
  <2>2. Len(s) = 0
    BY <2>1 DEF Cuts
  <2>. QED
    BY <2>2 DEF String
<1>2. ASSUME s = <<>> PROVE Expresses(<<>>, s)
  <2>1. Cuts(<<>>, s, [i \in 0 .. 0 |-> 0])
    BY <1>2 DEF Cuts
  <2>. QED
    BY <2>1, ExpressesCuts
<1>. QED
  BY <1>1, <1>2

\* '*' expresses no rune or one more than it could.
LEMMA StarExpresses ==
    ASSUME NEW p \in String, NEW s \in String, p # <<>>, Head(p) = "*"
    PROVE  Expresses(p, s) <=> \/ Expresses(Tail(p), s)
                               \/ s # <<>> /\ Expresses(p, Tail(s))
<1>0. /\ Len(p) \in Nat /\ Len(p) >= 1 /\ Len(Tail(p)) = Len(p) - 1
      /\ p[1] = "*"
      /\ \A k \in 1 .. Len(p) - 1 : Tail(p)[k] = p[k + 1]
      /\ Len(s) \in Nat
  BY TailString DEF String
<1>1. ASSUME NEW cut, Cuts(p, s, cut), cut[1] = 0
      PROVE  Expresses(Tail(p), s)
  <2> DEFINE shorter == [i \in 0 .. Len(p) - 1 |-> cut[i + 1]]
  <2>1. cut \in [0 .. Len(p) -> 0 .. Len(s)] /\ cut[Len(p)] = Len(s)
    BY <1>1 DEF Cuts
  <2>2. shorter \in [0 .. Len(Tail(p)) -> 0 .. Len(s)]
    BY <1>0, <2>1
  <2>3. shorter[0] = 0 /\ shorter[Len(Tail(p))] = Len(s)
    BY <1>0, <1>1, <2>1
  <2>4. ASSUME NEW i \in 1 .. Len(Tail(p))
        PROVE  IF Tail(p)[i] = "*"
               THEN shorter[i - 1] <= shorter[i]
               ELSE shorter[i] = shorter[i - 1] + 1 /\ s[shorter[i]] = Tail(p)[i]
    <3>1. i + 1 \in 1 .. Len(p) /\ Tail(p)[i] = p[i + 1]
      BY <1>0
    <3>2. shorter[i] = cut[i + 1] /\ shorter[i - 1] = cut[i]
      BY <1>0
    <3>3. IF p[i + 1] = "*"
          THEN cut[i] <= cut[i + 1]
          ELSE cut[i + 1] = cut[i] + 1 /\ s[cut[i + 1]] = p[i + 1]
      BY <1>0, <1>1, <3>1 DEF Cuts
    <3> HIDE DEF shorter
    <3>. QED
      BY <3>1, <3>2, <3>3
  <2>5. Cuts(Tail(p), s, shorter)
    BY <2>2, <2>3, <2>4, Zenon DEF Cuts
  <2>. QED
    BY <2>5, ExpressesCuts
<1>2. ASSUME NEW cut, Cuts(p, s, cut), cut[1] # 0
      PROVE  s # <<>> /\ Expresses(p, Tail(s))
  <2>1. cut \in [0 .. Len(p) -> 0 .. Len(s)] /\ cut[Len(p)] = Len(s)
    BY <1>2 DEF Cuts
  <2>2. \A i \in 1 .. Len(p) : cut[i] \in 1 .. Len(s)
    <3>1. \A i \in 1 .. Len(p) : cut[1] <= cut[i]
      BY <1>2, CutsGrow
    <3>2. cut[1] \in 1 .. Len(s)
      BY <1>0, <1>2, <2>1
    <3>. QED
      BY <1>0, <2>1, <3>1, <3>2
  <2>3. s # <<>>
    BY <1>0, <2>2
  <2>4. /\ Tail(s) \in String /\ Len(Tail(s)) = Len(s) - 1
        /\ \A k \in 1 .. Len(s) - 1 : Tail(s)[k] = s[k + 1]
    BY <2>3, TailString
  <2> DEFINE earlier == [i \in 0 .. Len(p) |-> IF i = 0 THEN 0 ELSE cut[i] - 1]
  <2>5. earlier \in [0 .. Len(p) -> 0 .. Len(Tail(s))]
    BY <1>0, <2>2, <2>3, <2>4
  <2>6. earlier[0] = 0 /\ earlier[Len(p)] = Len(Tail(s))
    BY <1>0, <2>1, <2>4
  <2>7. ASSUME NEW i \in 1 .. Len(p)
        PROVE  IF p[i] = "*"
               THEN earlier[i - 1] <= earlier[i]
               ELSE earlier[i] = earlier[i - 1] + 1 /\ Tail(s)[earlier[i]] = p[i]
    <3>1. IF p[i] = "*"
          THEN cut[i - 1] <= cut[i]
          ELSE cut[i] = cut[i - 1] + 1 /\ s[cut[i]] = p[i]
      BY <1>2 DEF Cuts
    <3>2. CASE i = 1
      BY <1>0, <2>2, <3>2
    <3>3. CASE i # 1
      <4>1. i - 1 \in 1 .. Len(p) /\ earlier[i] = cut[i] - 1 /\ earlier[i - 1] = cut[i - 1] - 1
        BY <1>0, <3>3
      <4>2. cut[i] \in 1 .. Len(s) /\ cut[i - 1] \in 1 .. Len(s)
        BY <2>2, <4>1
      <4> HIDE DEF earlier
      <4>3. CASE p[i] = "*"
        BY <3>1, <4>1, <4>2, <4>3
      <4>4. CASE p[i] # "*"
        <5>1. cut[i] = cut[i - 1] + 1 /\ s[cut[i]] = p[i]
          BY <3>1, <4>4
        <5>2. earlier[i] = earlier[i - 1] + 1 /\ earlier[i] \in 1 .. Len(s) - 1 /\ earlier[i] + 1 = cut[i]
          BY <1>0, <4>1, <4>2, <5>1
        <5>3. Tail(s)[earlier[i]] = s[earlier[i] + 1]
          BY <2>4, <5>2
        <5>. QED
          BY <4>4, <5>1, <5>2, <5>3
      <4>. QED
        BY <4>3, <4>4
    <3>. QED
      BY <3>2, <3>3
  <2>8. Cuts(p, Tail(s), earlier)
    BY <2>5, <2>6, <2>7, Zenon DEF Cuts
  <2>. QED
    BY <2>3, <2>8, ExpressesCuts
<1>3. ASSUME NEW cut, Cuts(Tail(p), s, cut)
      PROVE  Expresses(p, s)
  <2> DEFINE longer == [i \in 0 .. Len(p) |-> IF i = 0 THEN 0 ELSE cut[i - 1]]
  <2>1. cut \in [0 .. Len(p) - 1 -> 0 .. Len(s)] /\ cut[0] = 0 /\ cut[Len(p) - 1] = Len(s)
    BY <1>0, <1>3 DEF Cuts
  <2>2. longer \in [0 .. Len(p) -> 0 .. Len(s)]
    BY <1>0, <2>1
  <2>3. longer[0] = 0 /\ longer[Len(p)] = Len(s)
    BY <1>0, <2>1
  <2>4. ASSUME NEW i \in 1 .. Len(p)
        PROVE  IF p[i] = "*"
               THEN longer[i - 1] <= longer[i]
               ELSE longer[i] = longer[i - 1] + 1 /\ s[longer[i]] = p[i]
    <3>1. CASE i = 1
      BY <1>0, <2>1, <3>1
    <3>2. CASE i # 1
      <4>1. i - 1 \in 1 .. Len(Tail(p)) /\ i - 1 \in 1 .. Len(p) - 1 /\ Tail(p)[i - 1] = p[i]
        BY <1>0, <3>2
      <4>2. longer[i] = cut[i - 1] /\ longer[i - 1] = cut[(i - 1) - 1]
        BY <1>0, <3>2
      <4>3. IF Tail(p)[i - 1] = "*"
            THEN cut[(i - 1) - 1] <= cut[i - 1]
            ELSE cut[i - 1] = cut[(i - 1) - 1] + 1 /\ s[cut[i - 1]] = Tail(p)[i - 1]
        BY <1>3, <4>1 DEF Cuts
      <4> HIDE DEF longer
      <4>. QED
        BY <4>1, <4>2, <4>3
    <3>. QED
      BY <3>1, <3>2
  <2>5. Cuts(p, s, longer)
    BY <2>2, <2>3, <2>4, Zenon DEF Cuts
  <2>. QED
    BY <2>5, ExpressesCuts
<1>4. ASSUME s # <<>>, NEW cut, Cuts(p, Tail(s), cut)
      PROVE  Expresses(p, s)
  <2>0. /\ Len(s) >= 1 /\ Len(Tail(s)) = Len(s) - 1
        /\ \A k \in 1 .. Len(s) - 1 : Tail(s)[k] = s[k + 1]
    BY <1>4, TailString
  <2> DEFINE later == [i \in 0 .. Len(p) |-> IF i = 0 THEN 0 ELSE cut[i] + 1]
  <2>1. cut \in [0 .. Len(p) -> 0 .. Len(s) - 1] /\ cut[0] = 0 /\ cut[Len(p)] = Len(s) - 1
    BY <1>4, <2>0 DEF Cuts
  <2>2. later \in [0 .. Len(p) -> 0 .. Len(s)]
    BY <1>0, <2>0, <2>1
  <2>3. later[0] = 0 /\ later[Len(p)] = Len(s)
    BY <1>0, <2>0, <2>1
  <2>4. ASSUME NEW i \in 1 .. Len(p)
        PROVE  IF p[i] = "*"
               THEN later[i - 1] <= later[i]
               ELSE later[i] = later[i - 1] + 1 /\ s[later[i]] = p[i]
    <3>1. CASE i = 1
      BY <1>0, <2>1, <3>1
    <3>2. CASE i # 1
      <4>1. /\ i \in 0 .. Len(p) /\ i - 1 \in 0 .. Len(p)
            /\ later[i] = cut[i] + 1 /\ later[i - 1] = cut[i - 1] + 1
        BY <1>0, <3>2
      <4>2. IF p[i] = "*"
            THEN cut[i - 1] <= cut[i]
            ELSE cut[i] = cut[i - 1] + 1 /\ Tail(s)[cut[i]] = p[i]
        BY <1>4 DEF Cuts
      <4>3. cut[i] \in 0 .. Len(s) - 1 /\ cut[i - 1] \in 0 .. Len(s) - 1
        BY <2>1, <4>1
      <4> HIDE DEF later
      <4>4. CASE p[i] = "*"
        BY <4>1, <4>2, <4>3, <4>4
      <4>5. CASE p[i] # "*"
        <5>1. cut[i] = cut[i - 1] + 1 /\ Tail(s)[cut[i]] = p[i]
          BY <4>2, <4>5
        <5>2. cut[i] \in 1 .. Len(s) - 1
          BY <1>0, <2>0, <4>3, <5>1
        <5>3. Tail(s)[cut[i]] = s[cut[i] + 1]
          BY <2>0, <5>2
        <5>. QED
          BY <4>1, <4>3, <4>5, <5>1, <5>3
      <4>. QED
        BY <4>4, <4>5
    <3>. QED
      BY <3>1, <3>2
  <2>5. Cuts(p, s, later)
    BY <2>2, <2>3, <2>4, Zenon DEF Cuts
  <2>. QED
    BY <2>5, ExpressesCuts
<1>5. ASSUME Expresses(p, s)
      PROVE  Expresses(Tail(p), s) \/ (s # <<>> /\ Expresses(p, Tail(s)))
  BY <1>1, <1>2, <1>5, ExpressesCuts, Zenon
<1>6. ASSUME Expresses(Tail(p), s) \/ (s # <<>> /\ Expresses(p, Tail(s)))
      PROVE  Expresses(p, s)
  BY <1>3, <1>4, <1>6, ExpressesCuts, Zenon
<1>. QED
  BY <1>5, <1>6, Zenon

\* Any other rune expresses itself.
LEMMA RuneExpresses ==
    ASSUME NEW p \in String, NEW s \in String, p # <<>>, Head(p) # "*"
    PROVE  Expresses(p, s) <=> s # <<>> /\ Head(s) = Head(p) /\ Expresses(Tail(p), Tail(s))
<1>0. /\ Len(p) \in Nat /\ Len(p) >= 1 /\ Len(Tail(p)) = Len(p) - 1
      /\ p[1] # "*" /\ Head(p) = p[1]
      /\ \A k \in 1 .. Len(p) - 1 : Tail(p)[k] = p[k + 1]
      /\ Len(s) \in Nat
  BY TailString DEF String
<1>1. ASSUME NEW cut, Cuts(p, s, cut)
      PROVE  s # <<>> /\ Head(s) = Head(p) /\ Expresses(Tail(p), Tail(s))
  <2>1. /\ cut \in [0 .. Len(p) -> 0 .. Len(s)] /\ cut[Len(p)] = Len(s)
        /\ cut[1] = 1 /\ s[1] = p[1]
    BY <1>0, <1>1 DEF Cuts
  <2>2. \A i \in 1 .. Len(p) : cut[i] \in 1 .. Len(s)
    <3>1. \A i \in 1 .. Len(p) : cut[1] <= cut[i]
      BY <1>1, CutsGrow
    <3>. QED
      BY <1>0, <2>1, <3>1
  <2>3. s # <<>>
    BY <1>0, <2>2
  <2>4. /\ Len(Tail(s)) = Len(s) - 1 /\ Head(s) = s[1] /\ Len(s) >= 1
        /\ \A k \in 1 .. Len(s) - 1 : Tail(s)[k] = s[k + 1]
    BY <2>3, TailString
  <2> DEFINE rest == [i \in 0 .. Len(p) - 1 |-> cut[i + 1] - 1]
  <2>5. rest \in [0 .. Len(Tail(p)) -> 0 .. Len(Tail(s))]
    BY <1>0, <2>2, <2>4
  <2>6. rest[0] = 0 /\ rest[Len(Tail(p))] = Len(Tail(s))
    BY <1>0, <2>1, <2>4
  <2>7. ASSUME NEW i \in 1 .. Len(Tail(p))
        PROVE  IF Tail(p)[i] = "*"
               THEN rest[i - 1] <= rest[i]
               ELSE rest[i] = rest[i - 1] + 1 /\ Tail(s)[rest[i]] = Tail(p)[i]
    <3>1. i \in 1 .. Len(p) /\ i + 1 \in 1 .. Len(p) /\ Tail(p)[i] = p[i + 1]
      BY <1>0
    <3>2. rest[i] = cut[i + 1] - 1 /\ rest[i - 1] = cut[i] - 1
      BY <1>0
    <3>3. cut[i] \in 1 .. Len(s) /\ cut[i + 1] \in 1 .. Len(s)
      BY <2>2, <3>1
    <3>4. IF p[i + 1] = "*"
          THEN cut[i] <= cut[i + 1]
          ELSE cut[i + 1] = cut[i] + 1 /\ s[cut[i + 1]] = p[i + 1]
      BY <1>0, <1>1, <3>1 DEF Cuts
    <3> HIDE DEF rest
    <3>5. CASE p[i + 1] = "*"
      BY <3>1, <3>2, <3>3, <3>4, <3>5
    <3>6. CASE p[i + 1] # "*"
      <4>1. cut[i + 1] = cut[i] + 1 /\ s[cut[i + 1]] = p[i + 1]
        BY <3>4, <3>6
      <4>2. rest[i] = rest[i - 1] + 1 /\ rest[i] \in 1 .. Len(s) - 1 /\ rest[i] + 1 = cut[i + 1]
        BY <1>0, <3>2, <3>3, <4>1
      <4>3. Tail(s)[rest[i]] = s[rest[i] + 1]
        BY <2>4, <4>2
      <4>. QED
        BY <3>1, <3>6, <4>1, <4>2, <4>3
    <3>. QED
      BY <3>5, <3>6
  <2>8. Cuts(Tail(p), Tail(s), rest)
    BY <2>5, <2>6, <2>7, Zenon DEF Cuts
  <2>. QED
    BY <1>0, <2>1, <2>3, <2>4, <2>8, ExpressesCuts
<1>2. ASSUME s # <<>>, Head(s) = Head(p), NEW cut, Cuts(Tail(p), Tail(s), cut)
      PROVE  Expresses(p, s)
  <2>0. /\ Len(s) >= 1 /\ Len(Tail(s)) = Len(s) - 1 /\ Head(s) = s[1]
        /\ \A k \in 1 .. Len(s) - 1 : Tail(s)[k] = s[k + 1]
    BY <1>2, TailString
  <2> DEFINE whole == [i \in 0 .. Len(p) |-> IF i = 0 THEN 0 ELSE cut[i - 1] + 1]
  <2>1. /\ cut \in [0 .. Len(p) - 1 -> 0 .. Len(s) - 1] /\ cut[0] = 0
        /\ cut[Len(p) - 1] = Len(s) - 1
    BY <1>0, <1>2, <2>0 DEF Cuts
  <2>2. whole \in [0 .. Len(p) -> 0 .. Len(s)]
    BY <1>0, <2>0, <2>1
  <2>3. whole[0] = 0 /\ whole[Len(p)] = Len(s)
    BY <1>0, <2>0, <2>1
  <2>4. ASSUME NEW i \in 1 .. Len(p)
        PROVE  IF p[i] = "*"
               THEN whole[i - 1] <= whole[i]
               ELSE whole[i] = whole[i - 1] + 1 /\ s[whole[i]] = p[i]
    <3>1. CASE i = 1
      BY <1>0, <1>2, <2>0, <2>1, <3>1
    <3>2. CASE i # 1
      <4>1. i - 1 \in 1 .. Len(Tail(p)) /\ Tail(p)[i - 1] = p[i]
        BY <1>0, <3>2
      <4>2. whole[i] = cut[i - 1] + 1 /\ whole[i - 1] = cut[(i - 1) - 1] + 1
        BY <1>0, <3>2
      <4>3. cut[i - 1] \in 0 .. Len(s) - 1 /\ cut[(i - 1) - 1] \in 0 .. Len(s) - 1
        BY <1>0, <2>1, <3>2
      <4>4. IF Tail(p)[i - 1] = "*"
            THEN cut[(i - 1) - 1] <= cut[i - 1]
            ELSE cut[i - 1] = cut[(i - 1) - 1] + 1 /\ Tail(s)[cut[i - 1]] = Tail(p)[i - 1]
        BY <1>2, <4>1 DEF Cuts
      <4> HIDE DEF whole
      <4>5. CASE p[i] = "*"
        BY <4>1, <4>2, <4>3, <4>4, <4>5
      <4>6. CASE p[i] # "*"
        <5>1. cut[i - 1] = cut[(i - 1) - 1] + 1 /\ Tail(s)[cut[i - 1]] = p[i]
          BY <4>1, <4>4, <4>6
        <5>2. cut[i - 1] \in 1 .. Len(s) - 1
          BY <1>0, <2>0, <4>3, <5>1
        <5>3. Tail(s)[cut[i - 1]] = s[cut[i - 1] + 1]
          BY <2>0, <5>2
        <5>. QED
          BY <4>2, <4>3, <4>6, <5>1, <5>3
      <4>. QED
        BY <4>5, <4>6
    <3>. QED
      BY <3>1, <3>2
  <2>5. Cuts(p, s, whole)
    BY <2>2, <2>3, <2>4, Zenon DEF Cuts
  <2>. QED
    BY <2>5, ExpressesCuts
<1>3. ASSUME Expresses(p, s)
      PROVE  s # <<>> /\ Head(s) = Head(p) /\ Expresses(Tail(p), Tail(s))
  BY <1>1, <1>3, ExpressesCuts, Zenon
<1>4. ASSUME s # <<>>, Head(s) = Head(p), Expresses(Tail(p), Tail(s))
      PROVE  Expresses(p, s)
  BY <1>2, <1>4, ExpressesCuts, Zenon
<1>. QED
  BY <1>3, <1>4, Zenon

\* What the body of matchRunes computes from the values of f.
MatchStep(f, p, s) ==
    IF p = <<>> THEN s = <<>>
    ELSE IF Head(p) = "*"
    THEN f[<<Tail(p), s>>] \/ (s # <<>> /\ f[<<p, Tail(s)>>])
    ELSE s # <<>> /\ Head(s) = Head(p) /\ f[<<Tail(p), Tail(s)>>]

\* Expresses satisfies the equation that defines matchRunes.
LEMMA ExpressesRecursive ==
    ASSUME NEW e, \A p, s \in String : e[<<p, s>>] = Expresses(p, s),
           NEW p \in String, NEW s \in String
    PROVE  Expresses(p, s) <=> MatchStep(e, p, s)
<1>1. CASE p = <<>>
  BY <1>1, EmptyExpresses, Zenon DEF MatchStep
<1>2. CASE p # <<>> /\ Head(p) = "*"
  <2>1. Tail(p) \in String /\ (s # <<>> => Tail(s) \in String)
    BY <1>2, TailString
  <2>. QED
    BY <1>2, <2>1, StarExpresses, Zenon DEF MatchStep
<1>3. CASE p # <<>> /\ Head(p) # "*"
  <2>1. Tail(p) \in String /\ (s # <<>> => Tail(s) \in String)
    BY <1>3, TailString
  <2>. QED
    BY <1>3, <2>1, RuneExpresses, Zenon DEF MatchStep
<1>. QED
  BY <1>1, <1>2, <1>3

\* So some function satisfies it, and matchRunes does.
LEMMA MatchRunesRecursive ==
    ASSUME NEW p \in String, NEW s \in String
    PROVE  matchRunes[<<p, s>>] = MatchStep(matchRunes, p, s)
<1> DEFINE Body(f) == [args \in String \X String |-> MatchStep(f, args[1], args[2])]
           e == [args \in String \X String |-> Expresses(args[1], args[2])]
<1>1. matchRunes = CHOOSE f : f = Body(f)
  BY Zenon DEF matchRunes, MatchStep
<1>2. e = Body(e)
  <2>1. \A q, t \in String : e[<<q, t>>] = Expresses(q, t)
    OBVIOUS
  <2>2. ASSUME NEW args \in String \X String
        PROVE  Expresses(args[1], args[2]) <=> MatchStep(e, args[1], args[2])
    <3> HIDE DEF e
    <3>1. args[1] \in String /\ args[2] \in String
      OBVIOUS
    <3>. QED
      BY <2>1, <3>1, ExpressesRecursive
  <2>3. ASSUME NEW args \in String \X String
        PROVE  Expresses(args[1], args[2]) = MatchStep(e, args[1], args[2])
    <3> HIDE DEF e
    <3>1. /\ Expresses(args[1], args[2]) \in BOOLEAN
          /\ MatchStep(e, args[1], args[2]) \in BOOLEAN
      BY Zenon DEF Expresses, MatchStep
    <3>2. Expresses(args[1], args[2]) <=> MatchStep(e, args[1], args[2])
      BY <2>2
    <3>. QED
      BY <3>1, <3>2, SMT
  <2>. QED
    BY <2>3, Zenon
<1>3. matchRunes = Body(matchRunes)
  <2> HIDE DEF e, Body
  <2>. QED
    BY <1>1, <1>2, Zenon
<1>. QED
  BY <1>3

\* matchRunes is true exactly for what the pattern expresses.  A pattern and a
\* string of least total length for which it were not cannot exist: its value
\* there comes from shorter ones.
LEMMA MatchRunesExpresses ==
    ASSUME NEW p \in String, NEW s \in String
    PROVE  matchRunes[<<p, s>>] <=> Expresses(p, s)
<1> DEFINE Wrong(q, t) == ~(matchRunes[<<q, t>>] <=> Expresses(q, t))
           Bad == {n \in Nat : \E q, t \in String : n = Len(q) + Len(t) /\ Wrong(q, t)}
<1>0. \A t \in String : Len(t) \in Nat
  BY DEF String
<1>1. SUFFICES ASSUME Wrong(p, s) PROVE FALSE
  OBVIOUS
<1>2. Bad # {} /\ Bad \in SUBSET Nat
  <2>1. Len(p) + Len(s) \in Nat
    BY <1>0
  <2>. QED
    BY <1>1, <2>1
<1>3. PICK n \in Bad : \A m \in Bad : n <= m
  <2> HIDE DEF Bad
  <2>. QED
    BY <1>2, LeastNatural
<1>4. PICK q, t \in String : n = Len(q) + Len(t) /\ Wrong(q, t)
  BY Zenon
<1>5. ASSUME NEW u \in String, NEW v \in String, Len(u) + Len(v) < Len(q) + Len(t)
      PROVE  matchRunes[<<u, v>>] <=> Expresses(u, v)
  <2>1. Len(u) + Len(v) \in Nat /\ ~(n <= Len(u) + Len(v))
    BY <1>0, <1>4, <1>5
  <2>2. Len(u) + Len(v) \notin Bad
    <3> HIDE DEF Bad
    <3>. QED
      BY <1>3, <2>1, Zenon
  <2>3. ~Wrong(u, v)
    BY <2>1, <2>2, Zenon
  <2>. QED
    BY <2>3
<1>6. matchRunes[<<q, t>>] <=> MatchStep(matchRunes, q, t)
  BY MatchRunesRecursive
<1>7. MatchStep(matchRunes, q, t) <=> Expresses(q, t)
  <2>1. t # <<>> => Tail(t) \in String /\ Len(Tail(t)) = Len(t) - 1
    BY TailString
  <2>2. CASE q = <<>>
    BY <2>2, EmptyExpresses, Zenon DEF MatchStep
  <2>3. CASE q # <<>> /\ Head(q) = "*"
    <3>1. Tail(q) \in String /\ Len(Tail(q)) + Len(t) < Len(q) + Len(t)
      BY <1>0, <2>3, TailString
    <3>2. t # <<>> => Len(q) + Len(Tail(t)) < Len(q) + Len(t)
      BY <1>0, <2>1
    <3>3. matchRunes[<<Tail(q), t>>] <=> Expresses(Tail(q), t)
      BY <1>5, <3>1, Zenon
    <3>4. t # <<>> => (matchRunes[<<q, Tail(t)>>] <=> Expresses(q, Tail(t)))
      BY <1>5, <2>1, <3>2, Zenon
    <3>. QED
      BY <2>3, <3>3, <3>4, StarExpresses, Zenon DEF MatchStep
  <2>4. CASE q # <<>> /\ Head(q) # "*"
    <3>1. Tail(q) \in String /\ Len(Tail(q)) = Len(q) - 1
      BY <2>4, TailString
    <3>2. t # <<>> => Len(Tail(q)) + Len(Tail(t)) < Len(q) + Len(t)
      BY <1>0, <2>1, <3>1
    <3>3. t # <<>> => (matchRunes[<<Tail(q), Tail(t)>>] <=> Expresses(Tail(q), Tail(t)))
      BY <1>5, <2>1, <3>1, <3>2, Zenon
    <3>. QED
      BY <2>4, <3>3, RuneExpresses, Zenon DEF MatchStep
  <2>. QED
    BY <2>2, <2>3, <2>4
<1>. QED
  BY <1>4, <1>6, <1>7

\* WildcardMatches takes its two shortcuts only where the loop would agree.
LEMMA WildcardMatchesExpresses ==
    ASSUME NEW p \in String, NEW s \in String
    PROVE  WildcardMatches(p, s) <=> Expresses(p, s)
<1>1. CASE p = <<>>
  <2>1. p # <<"*">>
    BY <1>1
  <2>. QED
    BY <1>1, <2>1, EmptyExpresses, Zenon DEF WildcardMatches
<1>2. CASE p = <<"*">>
  <2>1. Len(p) = 1 /\ p[1] = "*" /\ Len(s) \in Nat
    BY <1>2 DEF String
  <2> DEFINE cut == [i \in 0 .. 1 |-> IF i = 0 THEN 0 ELSE Len(s)]
  <2>2. Cuts(p, s, cut)
    BY <2>1 DEF Cuts
  <2>. QED
    BY <1>2, <2>2, ExpressesCuts, Zenon DEF WildcardMatches
<1>3. CASE p # <<>> /\ p # <<"*">>
  BY <1>3, MatchRunesExpresses, Zenon DEF WildcardMatches
<1>. QED
  BY <1>1, <1>2, <1>3

-----------------------------------------------------------------------------
(* allowed.Evaluate. *)

\* WildcardSubset holds of fewer members if it holds of more.
LEMMA FewerMembers ==
    ASSUME NEW patterns, NEW members, NEW fewer \in SUBSET members,
           WildcardSubset(patterns, members)
    PROVE  WildcardSubset(patterns, fewer)
  BY DEF WildcardSubset

\* An attribute that is not denied is not denied with fewer values either,
\* unless it is required and has none left.
LEMMA FewerValues ==
    ASSUME NEW entry, NEW values, NEW fewer \in SUBSET values,
           ~Denies(entry, values),
           fewer = {} => \A e \in entry : TRUE \notin e.required
    PROVE  ~Denies(entry, fewer)
<1>1. CASE fewer = {}
    BY <1>1, Zenon DEF Denies
<1>2. CASE fewer # {}
  <2>1. PICK e \in entry : \E patterns \in e.values : WildcardSubset(patterns, values)
      BY <1>2, Zenon DEF Denies
  <2>2. PICK patterns \in e.values : WildcardSubset(patterns, values)
      BY <2>1
  <2>3. WildcardSubset(patterns, fewer)
      BY <2>2, FewerMembers
  <2> QED
      BY <1>2, <2>3, Zenon DEF Denies
<1> QED
    BY <1>1, <1>2

\* Evaluate does not read a nil Values for fewer values if not for more.
LEMMA FewerDereferences ==
    ASSUME NEW entry, NEW values, NEW fewer \in SUBSET values,
           ~Dereferences(entry, values)
    PROVE  ~Dereferences(entry, fewer)
  BY DEF Dereferences

\* The four outcomes of allowed.Evaluate are tested in this order.
LEMMA NotDenied ==
    ASSUME NEW spec, NEW r
    PROVE  EvaluateAllowed(spec, r) = "not denied" <=>
               /\ r.decodes
               /\ \A a \in Attribute \cap Unchecked :
                      ~Dereferences(spec.attributes[a], r.attributes[a])
               /\ \A a \in Attribute : ~Denies(spec.attributes[a], r.attributes[a])
               /\ ~DeniesIsCA(spec, r)
               /\ ~DeniesUsages(spec, r)
  BY DEF EvaluateAllowed

\* allowed.Evaluate as a whole.
LEMMA LessNotDenied ==
    ASSUME NEW spec, NEW r, NEW less,
           EvaluateAllowed(spec, r) = "not denied",
           AsksLess(spec, less, r)
    PROVE  EvaluateAllowed(spec, less) = "not denied"
<1>1. \A a \in Attribute \cap Unchecked :
          ~Dereferences(spec.attributes[a], less.attributes[a])
    BY NotDenied, FewerDereferences, Zenon DEF AsksLess
<1>2. \A a \in Attribute : ~Denies(spec.attributes[a], less.attributes[a])
    BY NotDenied, FewerValues, Zenon DEF AsksLess
<1>3. ~DeniesIsCA(spec, less)
    BY NotDenied, Zenon DEF AsksLess, DeniesIsCA
<1>4. ~DeniesUsages(spec, less)
  <2>1. CASE less.usages = {}
      BY <2>1, Zenon DEF DeniesUsages
  <2>2. CASE less.usages # {}
    <3>1. r.usages # {} /\ less.usages \in SUBSET r.usages
        BY <2>2, Zenon DEF AsksLess
    <3>2. PICK usages \in spec.usages : WildcardSubset(usages, r.usages)
        BY <3>1, NotDenied, Zenon DEF DeniesUsages
    <3>3. WildcardSubset(usages, less.usages)
        BY <3>1, <3>2, FewerMembers, Zenon
    <3> QED
        BY <3>3, Zenon DEF DeniesUsages
  <2> QED
      BY <2>1, <2>2, Zenon
<1>5. less.decodes
    BY Zenon DEF AsksLess
<1> QED
    BY <1>1, <1>2, <1>3, <1>4, <1>5, NotDenied, Zenon

-----------------------------------------------------------------------------
(* What is not denied conforms. *)

\* The attributes of requests are strings, those of policies patterns.
LEMMA AttributesTyped ==
    ASSUME NEW spec \in CertificateRequestPolicySpec, NEW r \in CertificateRequest,
           NEW a \in Attribute
    PROVE  /\ r.attributes[a] \in SUBSET String
           /\ \A e \in spec.attributes[a] : \A patterns \in e.values :
                  patterns \in SUBSET String
<1>1. r.attributes \in [Attribute -> SUBSET String]
    BY DEF CertificateRequest
<1>2. spec.attributes \in
          [Attribute -> Pointer([values : Pointer(SUBSET String),
                                 required : Pointer(BOOLEAN)])]
    BY DEF CertificateRequestPolicySpec
<1>3. spec.attributes[a] \in SUBSET [values : Pointer(SUBSET String),
                                     required : Pointer(BOOLEAN)]
    BY <1>2 DEF Pointer
<1>4. \A e \in spec.attributes[a] : e.values \in SUBSET SUBSET String
    BY <1>3 DEF Pointer
<1> QED
    BY <1>1, <1>4

\* Members that WildcardSubset finds are expressed by the patterns.
LEMMA SubsetExpressed ==
    ASSUME NEW patterns \in SUBSET String, NEW members \in SUBSET String,
           WildcardSubset(patterns, members), NEW member \in members
    PROVE  \E pattern \in patterns : Expresses(pattern, member)
  BY WildcardMatchesExpresses DEF WildcardSubset, WildcardContains

\* An attribute that allowed.Evaluate does not deny conforms.
LEMMA AttributeConforms ==
    ASSUME NEW spec \in CertificateRequestPolicySpec, NEW r \in CertificateRequest,
           NEW a \in Attribute, ~Denies(spec.attributes[a], r.attributes[a])
    PROVE  /\ \A value \in r.attributes[a] :
                  \E e \in spec.attributes[a] : \E patterns \in e.values :
                      \E pattern \in patterns : Expresses(pattern, value)
           /\ \A e \in spec.attributes[a] :
                  TRUE \in e.required => r.attributes[a] # {}
<1>1. ASSUME NEW value \in r.attributes[a]
      PROVE  \E e \in spec.attributes[a] : \E patterns \in e.values :
                 \E pattern \in patterns : Expresses(pattern, value)
  <2>1. PICK e \in spec.attributes[a] : \E patterns \in e.values :
            WildcardSubset(patterns, r.attributes[a])
      BY Zenon DEF Denies
  <2>2. PICK patterns \in e.values : WildcardSubset(patterns, r.attributes[a])
      BY <2>1
  <2>3. \E pattern \in patterns : Expresses(pattern, value)
      BY <2>2, AttributesTyped, SubsetExpressed, Zenon
  <2> QED
      BY <2>3, Zenon
<1>2. \A e \in spec.attributes[a] : TRUE \in e.required => r.attributes[a] # {}
    BY Zenon DEF Denies
<1> QED
    BY <1>1, <1>2, Zenon

\* So do the key usages.
LEMMA UsagesConform ==
    ASSUME NEW spec \in CertificateRequestPolicySpec, NEW r \in CertificateRequest,
           ~DeniesUsages(spec, r), NEW usage \in r.usages
    PROVE  \E usages \in spec.usages : \E pattern \in usages : Expresses(pattern, usage)
<1>1. spec.usages \in Pointer(SUBSET String) /\ r.usages \in SUBSET String
    BY DEF CertificateRequestPolicySpec, CertificateRequest
<1>2. PICK usages \in spec.usages : WildcardSubset(usages, r.usages)
    BY Zenon DEF DeniesUsages
<1>3. usages \in SUBSET String
    BY <1>1 DEF Pointer
<1> QED
    BY <1>1, <1>2, <1>3, SubsetExpressed, Zenon

\* The duration that constraints.Evaluate does not deny is within the bounds.
LEMMA DurationConforms ==
    ASSUME NEW spec \in CertificateRequestPolicySpec, NEW r \in CertificateRequest,
           ~DeniesDuration(spec, r)
    PROVE  /\ \A max \in spec.maxDuration : \E d \in r.duration : d <= max
           /\ \A min \in spec.minDuration : \E d \in r.duration : min <= d
<1>1. /\ spec.maxDuration \in SUBSET Int /\ spec.minDuration \in SUBSET Int
      /\ r.duration \in SUBSET Int
    BY DEF CertificateRequestPolicySpec, CertificateRequest, Pointer
<1>2. spec.maxDuration \cup spec.minDuration # {} => r.duration # {}
    BY Zenon DEF DeniesDuration
<1>3. \A d \in r.duration : /\ \A max \in spec.maxDuration : ~(max < d)
                            /\ \A min \in spec.minDuration : ~(min > d)
    BY Zenon DEF DeniesDuration
<1> QED
    BY <1>1, <1>2, <1>3

\* The order of the integers is total.
LEMMA IntegersOrdered ==
    \A m, n \in Int : (~(m < n) => n <= m) /\ (~(m > n) => m <= n)
  OBVIOUS

\* The key that it does not deny is of the algorithm and within the sizes.
LEMMA KeyConforms ==
    ASSUME NEW spec \in CertificateRequestPolicySpec, NEW r \in CertificateRequest,
           EvaluateConstraints(spec, r) = "not denied",
           NEW private \in spec.privateKey
    PROVE  /\ \A algorithm \in private.algorithm :
                  [algorithm |-> algorithm, size |-> r.key.size]
                      \in decodePublicKey(r.key)
           /\ \A max \in private.maxSize : r.key.size <= max
           /\ \A min \in private.minSize : min <= r.key.size
<1>1. /\ decodePublicKey(r.key) # {}
      /\ \A public \in decodePublicKey(r.key) : ~DeniesKey(private, public)
    BY DEF EvaluateConstraints
<1>2. r.key \in PublicKey /\ r.key.size \in Int
    BY DEF CertificateRequest, PublicKey
<1>3. private.maxSize \in SUBSET Int /\ private.minSize \in SUBSET Int
  <2>1. spec.privateKey \in SUBSET [algorithm : Pointer(STRING),
                                    maxSize : Pointer(Int), minSize : Pointer(Int)]
      BY DEF CertificateRequestPolicySpec, Pointer
  <2> QED
      BY <2>1 DEF Pointer
<1>4. PICK algorithm : decodePublicKey(r.key) = {[algorithm |-> algorithm, size |-> r.key.size]}
    BY <1>1, <1>2 DEF decodePublicKey, PublicKey
<1> DEFINE public == [algorithm |-> algorithm, size |-> r.key.size]
<1>5. ~DeniesKey(private, public)
    BY <1>1, <1>4, Zenon
<1>6. public.algorithm = algorithm /\ public.size = r.key.size
    OBVIOUS
<1>7. /\ \A other \in private.algorithm : other = algorithm
      /\ \A max \in private.maxSize : ~(max < r.key.size)
      /\ \A min \in private.minSize : ~(min > r.key.size)
    BY <1>5, <1>6, Zenon DEF DeniesKey
<1>8. \A other \in private.algorithm :
          [algorithm |-> other, size |-> r.key.size] \in decodePublicKey(r.key)
    BY <1>4, <1>7, Zenon
<1>9. /\ \A max \in private.maxSize : r.key.size <= max
      /\ \A min \in private.minSize : min <= r.key.size
    BY <1>2, <1>3, <1>7, IntegersOrdered, Zenon
<1> QED
    BY <1>8, <1>9, Zenon

\* Both Evaluate together leave out no part of the policy.
LEMMA NotDeniedConforms ==
    ASSUME NEW spec \in CertificateRequestPolicySpec, NEW r \in CertificateRequest,
           EvaluateAllowed(spec, r) = "not denied",
           EvaluateConstraints(spec, r) = "not denied"
    PROVE  Conforms(spec, r)
<1>1. /\ \A a \in Attribute : ~Denies(spec.attributes[a], r.attributes[a])
      /\ ~DeniesIsCA(spec, r)
      /\ ~DeniesUsages(spec, r)
    BY NotDenied, Zenon
<1>2. ~DeniesDuration(spec, r)
    BY DEF EvaluateConstraints
<1>3. r.isCA => TRUE \in spec.isCA
    BY <1>1, Zenon DEF DeniesIsCA
<1> QED
    BY <1>1, <1>2, <1>3, AttributeConforms, UsagesConform, DurationConforms,
       KeyConforms, Zenon DEF Conforms

-----------------------------------------------------------------------------
\* What Validate of the built-in approvers does not allow, it gives errors for.
LEMMA RefusedWithErrors ==
    ASSUME NEW invalid \in BOOLEAN
    PROVE  ~Validated(invalid).allowed => Validated(invalid).errors > 0
<1>1. CASE invalid = TRUE
  <2>1. Validated(invalid).errors = 1
      BY <1>1 DEF Validated
  <2> QED
      BY <2>1
<1>2. CASE invalid = FALSE
  <2>1. Validated(invalid).allowed
      BY <1>2 DEF Validated
  <2> QED
      BY <2>1
<1> QED
    BY <1>1, <1>2

\* The recorded results are always those of the stored policy, and Validate
\* allows it.
THEOREM Invariance == Spec => []Evaluated
<1>1. Init => Evaluated
    BY DEF Init, Evaluated
<1>2. Evaluated /\ [Next]_vars => Evaluated'
  <2> SUFFICES ASSUME Evaluated, [Next]_vars
               PROVE  Evaluated'
      OBVIOUS
  <2>1. ASSUME stored = {}, NEW spec \in Specs, NEW verdicts, Handle(spec, verdicts)
        PROVE  Evaluated'
    <3>1. ValidateConstraints(spec).allowed
        BY <2>1, RefusedWithErrors, Zenon DEF Handle, Errors, ValidateConstraints
    <3>2. stored' = {spec} /\ request' = request
        BY <2>1, Zenon DEF Handle
    <3> QED
        BY <2>1, <3>1, <3>2, Zenon DEF Evaluated
  <2>2. ASSUME NEW spec \in stored, NEW r \in Requests, Evaluate(spec, r)
        PROVE  Evaluated'
      BY <2>2, Zenon DEF Evaluate, Evaluated
  <2>3. CASE UNCHANGED vars
      BY <2>3 DEF vars, Evaluated
  <2> QED
      BY <2>1, <2>2, <2>3, Zenon DEF Next
<1> QED
    BY <1>1, <1>2, PTL DEF Spec

\* Whatever allowed.Evaluate does not deny, it does not deny to a request that
\* asks for less.
THEOREM LessIsAlwaysPermitted == Spec => []LessIsPermitted
<1>1. Evaluated => LessIsPermitted
    BY LessNotDenied, Zenon DEF Evaluated, LessIsPermitted
<1> QED
    BY <1>1, Invariance, PTL

\* The wildcards of the patterns of policies, whatever the attribute, mean what
\* the API types say.
THEOREM MatchingIsExpressing == Spec => []MatchesExpressed
<1>1. Evaluated => MatchesExpressed
  <2> SUFFICES ASSUME Evaluated,
                      NEW spec \in stored, NEW r \in request, NEW a \in Attribute,
                      NEW value \in r.attributes[a], NEW e \in spec.attributes[a],
                      NEW patterns \in e.values, NEW pattern \in patterns
               PROVE  WildcardMatches(pattern, value) <=> Expresses(pattern, value)
      BY Zenon DEF MatchesExpressed
  <2>1. spec \in CertificateRequestPolicySpec /\ r \in CertificateRequest
      BY ConstantsAssumption, Zenon DEF Evaluated
  <2>2. value \in String /\ pattern \in String
      BY <2>1, AttributesTyped
  <2> QED
      BY <2>2, WildcardMatchesExpresses
<1> QED
    BY <1>1, Invariance, PTL

\* No request gets past both Evaluate that the policy, by the words of the API
\* types, does not permit.
THEOREM NotDeniedAlwaysConforms == Spec => []NotDeniedMeansConforms
<1>1. Evaluated => NotDeniedMeansConforms
  <2> SUFFICES ASSUME Evaluated, NEW spec \in stored, NEW r \in request,
                      allowed = "not denied", constraints = "not denied"
               PROVE  Conforms(spec, r)
      BY Zenon DEF NotDeniedMeansConforms
  <2>1. spec \in CertificateRequestPolicySpec /\ r \in CertificateRequest
      BY ConstantsAssumption, Zenon DEF Evaluated
  <2>2. /\ EvaluateAllowed(spec, r) = "not denied"
        /\ EvaluateConstraints(spec, r) = "not denied"
      BY Zenon DEF Evaluated
  <2> QED
      BY <2>1, <2>2, NotDeniedConforms
<1> QED
    BY <1>1, Invariance, PTL

-----------------------------------------------------------------------------
(* What Validate allows can be satisfied. *)

\* Users may submit a request of every duration and with an RSA key of every
\* size that Validate lets policies ask for.
RSARequests ==
    \A d \in Nat, n \in 1 .. MaxKeySize : \E r \in Requests :
        /\ r.decodes
        /\ r.duration = {d}
        /\ r.key = [type |-> "*rsa.PublicKey", size |-> n]

\* What is allowed is not invalid.
LEMMA ValidConstraints ==
    ASSUME NEW spec, ValidateConstraints(spec).allowed
    PROVE  /\ \A private \in spec.privateKey : ~InvalidKey(private)
           /\ \A max \in spec.maxDuration, min \in spec.minDuration : ~(max < min)
           /\ \A d \in spec.maxDuration \cup spec.minDuration : ~(d < 0)
<1> DEFINE invalid == \/ \E private \in spec.privateKey : InvalidKey(private)
                      \/ \E max \in spec.maxDuration, min \in spec.minDuration : max < min
                      \/ \E d \in spec.maxDuration \cup spec.minDuration : d < 0
<1>1. ValidateConstraints(spec) = Validated(invalid)
    BY Zenon DEF ValidateConstraints
<1>2. ~invalid
  <2>1. invalid \in BOOLEAN
      BY Zenon
  <2> HIDE DEF invalid
  <2>2. CASE invalid = TRUE
    <3>1. Validated(invalid).allowed = FALSE
        BY <2>2 DEF Validated
    <3> QED
        BY <1>1, <3>1
  <2> QED
      BY <2>1, <2>2
<1> QED
    BY <1>2, Zenon

\* Two bounds that do not contradict each other leave a number between them,
\* one of them or the least number there is.
LEMMA Between ==
    ASSUME NEW maxs \in Pointer(Int), NEW mins \in Pointer(Int), NEW low \in Int,
           \A max \in maxs, min \in mins : ~(max < min),
           \A max \in maxs : low <= max
    PROVE  \E n \in maxs \cup mins \cup {low} :
               /\ n \in Int
               /\ low <= n
               /\ \A max \in maxs : ~(max < n)
               /\ \A min \in mins : ~(min > n)
<1>0. /\ maxs \in SUBSET Int /\ mins \in SUBSET Int
      /\ \A x, y \in maxs : x = y
      /\ \A x, y \in mins : x = y
    BY DEF Pointer
<1>1. CASE maxs # {}
  <2>1. PICK max \in maxs : TRUE
      BY <1>1
  <2>2. low <= max /\ \A min \in mins : ~(min > max)
      BY <1>0
  <2>3. \A other \in maxs : ~(other < max)
    <3>1. \A other \in maxs : other = max
        BY <1>0
    <3> QED
        BY <1>0, <3>1
  <2> QED
      BY <1>0, <2>2, <2>3
<1>2. CASE maxs = {} /\ \E min \in mins : low <= min
  <2>1. PICK min \in mins : low <= min
      BY <1>2
  <2>2. \A other \in mins : ~(other > min)
    <3>1. \A other \in mins : other = min
        BY <1>0
    <3> QED
        BY <1>0, <3>1
  <2> QED
      BY <1>0, <1>2, <2>1, <2>2
<1>3. CASE maxs = {} /\ ~\E min \in mins : low <= min
  <2>1. \A min \in mins : ~(min > low)
      BY <1>0, <1>3
  <2> QED
      BY <1>3, <2>1
<1> QED
    BY <1>1, <1>2, <1>3

\* Some duration is within the bounds that Validate allows.
LEMMA DurationSatisfiable ==
    ASSUME NEW spec \in CertificateRequestPolicySpec, ValidateConstraints(spec).allowed
    PROVE  \E d \in Nat : /\ \A max \in spec.maxDuration : ~(max < d)
                          /\ \A min \in spec.minDuration : ~(min > d)
<1>1. spec.maxDuration \in Pointer(Int) /\ spec.minDuration \in Pointer(Int)
    BY DEF CertificateRequestPolicySpec
<1>2. /\ \A max \in spec.maxDuration, min \in spec.minDuration : ~(max < min)
      /\ \A max \in spec.maxDuration : ~(max < 0)
    BY ValidConstraints, Zenon
<1>3. \A max \in spec.maxDuration : 0 <= max
    BY <1>1, <1>2 DEF Pointer
<1>4. PICK d \in Int : /\ 0 <= d
                       /\ \A max \in spec.maxDuration : ~(max < d)
                       /\ \A min \in spec.minDuration : ~(min > d)
    BY <1>1, <1>2, <1>3, Between
<1>5. d \in Nat
    BY <1>4
<1> QED
    BY <1>4, <1>5, Zenon

\* The greatest size is that of some key.
LEMMA KeySizes == MaxKeySize \in Nat /\ MaxKeySize > 1
  BY DEF MaxKeySize

\* Some RSA key is of a size that Validate allows.
LEMMA SizeSatisfiable ==
    ASSUME NEW private, private.maxSize \in Pointer(Int), private.minSize \in Pointer(Int),
           ~InvalidKey(private), 0 \notin private.maxSize
    PROVE  \E n \in 1 .. MaxKeySize : /\ \A max \in private.maxSize : ~(max < n)
                                /\ \A min \in private.minSize : ~(min > n)
<1>1. /\ \A size \in private.maxSize \cup private.minSize : ~(size < 0) /\ ~(size > MaxKeySize)
      /\ \A max \in private.maxSize, min \in private.minSize : ~(max < min)
    BY Zenon DEF InvalidKey
<1>2. \A max \in private.maxSize : 1 <= max
    BY <1>1 DEF Pointer
<1>3. PICK n \in private.maxSize \cup private.minSize \cup {1} :
          /\ n \in Int
          /\ 1 <= n
          /\ \A max \in private.maxSize : ~(max < n)
          /\ \A min \in private.minSize : ~(min > n)
    BY <1>1, <1>2, Between
<1>4. ~(n > MaxKeySize)
    BY <1>1, <1>3, KeySizes
<1>5. n \in 1 .. MaxKeySize
    BY <1>3, <1>4, KeySizes
<1> QED
    BY <1>3, <1>5, Zenon

\* constraints.Evaluate does not deny the request of that duration and key.
LEMMA ConstraintsSatisfiable ==
    ASSUME NEW spec \in CertificateRequestPolicySpec, ValidateConstraints(spec).allowed,
           RSARequests,
           \A private \in spec.privateKey :
               private.algorithm \subseteq {"RSA"} /\ 0 \notin private.maxSize
    PROVE  \E r \in Requests : EvaluateConstraints(spec, r) = "not denied"
<1>1. PICK d \in Nat : /\ \A max \in spec.maxDuration : ~(max < d)
                       /\ \A min \in spec.minDuration : ~(min > d)
    BY DurationSatisfiable
<1>2. PICK n \in 1 .. MaxKeySize :
          \A private \in spec.privateKey : /\ \A max \in private.maxSize : ~(max < n)
                                           /\ \A min \in private.minSize : ~(min > n)
  <2>1. CASE spec.privateKey = {}
    <3>1. 1 \in 1 .. MaxKeySize
        BY KeySizes
    <3> QED
        BY <2>1, <3>1, Zenon
  <2>2. ASSUME NEW private \in spec.privateKey
        PROVE  \E n \in 1 .. MaxKeySize :
                   \A other \in spec.privateKey : /\ \A max \in other.maxSize : ~(max < n)
                                                  /\ \A min \in other.minSize : ~(min > n)
    <3>1. spec.privateKey \in Pointer([algorithm : Pointer(STRING),
                                       maxSize : Pointer(Int), minSize : Pointer(Int)])
        BY DEF CertificateRequestPolicySpec
    <3>2. /\ private.maxSize \in Pointer(Int) /\ private.minSize \in Pointer(Int)
          /\ \A other \in spec.privateKey : other = private
        BY <3>1 DEF Pointer
    <3>3. ~InvalidKey(private)
        BY ValidConstraints, Zenon
    <3>4. PICK n \in 1 .. MaxKeySize : /\ \A max \in private.maxSize : ~(max < n)
                                 /\ \A min \in private.minSize : ~(min > n)
        BY <3>2, <3>3, SizeSatisfiable, Zenon
    <3> QED
        BY <3>2, <3>4, Zenon
  <2> QED
      BY <2>1, <2>2, Zenon
<1>3. PICK r \in Requests : /\ r.decodes
                            /\ r.duration = {d}
                            /\ r.key = [type |-> "*rsa.PublicKey", size |-> n]
    BY Zenon DEF RSARequests
<1>4. ~DeniesDuration(spec, r)
    BY <1>1, <1>3, Zenon DEF DeniesDuration
<1>5. r.key.type = "*rsa.PublicKey" /\ r.key.size = n
    BY <1>3
<1>6. PICK public : /\ decodePublicKey(r.key) = {public}
                    /\ public.algorithm = "RSA" /\ public.size = n
  <2>1. decodePublicKey(r.key) = {[algorithm |-> "RSA", size |-> n]}
      BY <1>5 DEF decodePublicKey
  <2> WITNESS [algorithm |-> "RSA", size |-> n]
  <2> QED
      BY <2>1, Zenon
<1>7. \A private \in spec.privateKey : ~DeniesKey(private, public)
    BY <1>2, <1>6, Zenon DEF DeniesKey
<1>8. EvaluateConstraints(spec, r) = "not denied"
  <2>1. ~(~r.decodes \/ decodePublicKey(r.key) = {})
      BY <1>3, <1>6, Zenon
  <2>2. ~\E private \in spec.privateKey : \E other \in decodePublicKey(r.key) :
             DeniesKey(private, other)
      BY <1>6, <1>7, Zenon
  <2> QED
      BY <1>4, <2>1, <2>2, Zenon DEF EvaluateConstraints
<1> QED
    BY <1>8

\* The webhook commits no policy whose constraints exclude every request, as far
\* as RSA keys go: a user can write a request that constraints.Evaluate lets pass.
THEOREM CommittedAlwaysSatisfiable ==
    ASSUME RSARequests
    PROVE  Spec => []CommittedSatisfiable
<1>1. Evaluated => CommittedSatisfiable
    BY RSARequests, ConstantsAssumption, ConstraintsSatisfiable, Zenon
    DEF Evaluated, CommittedSatisfiable
<1> QED
    BY <1>1, Invariance, PTL
=============================================================================
