------------------------------ MODULE Wildcard ------------------------------
(***************************************************************************)
(* Wildcard matching (pkg/internal/util/wildcard.go).  Patterns and        *)
(* strings are sequences of runes; slices of them are sets, as the         *)
(* functions do not tell order or repetition apart.                        *)
(***************************************************************************)
EXTENDS Naturals, Sequences

CONSTANT Rune \* the runes of patterns and strings: a string may hold '*' too

String == Seq(Rune)

\* Altered: what follows '*' has to match the rest of the string or its tail.
matchRunesNear[args \in String \X String] ==
    LET p == args[1]
        s == args[2]
    IN  IF p = <<>> THEN s = <<>>
        ELSE IF Head(p) = "*"
        THEN \/ matchRunesNear[<<Tail(p), s>>]
             \/ s # <<>> /\ matchRunesNear[<<Tail(p), Tail(s)>>]
        ELSE s # <<>> /\ Head(s) = Head(p) /\ matchRunesNear[<<Tail(p), Tail(s)>>]

\* The loop consumes equal runes and branches at '*'.
matchRunes[args \in String \X String] ==
    LET p == args[1]
        s == args[2]
    IN  IF p = <<>> THEN s = <<>>
        ELSE IF Head(p) = "*"
        THEN matchRunes[<<Tail(p), s>>] \/ (s # <<>> /\ matchRunes[<<p, Tail(s)>>])
        ELSE s # <<>> /\ Head(s) = Head(p) /\ matchRunes[<<Tail(p), Tail(s)>>]

\* Altered: as matchRunesNear.
WildcardMatchesNear(pattern, str) == matchRunesNear[<<pattern, str>>]

WildcardMatches(pattern, str) ==
    \/ pattern = <<>> /\ str = <<>>
    \/ pattern = <<"*">>
    \/ pattern # <<>> /\ matchRunes[<<pattern, str>>]

WildcardContains(patterns, member) ==
    \E pattern \in patterns : WildcardMatches(pattern, member)

\* Altered: one member is enough.
WildcardOverlap(patterns, members) ==
    \E member \in members : WildcardContains(patterns, member)

WildcardSubset(patterns, members) ==
    \A member \in members : WildcardContains(patterns, member)

-----------------------------------------------------------------------------
\* What a pattern means: the string can be cut into one piece per rune of the
\* pattern, a piece of any length for each '*' and the rune itself for others.
\* cut[i] is the length of the first i pieces.
Expresses(pattern, str) ==
    \E cut \in [0 .. Len(pattern) -> 0 .. Len(str)] :
        /\ cut[0] = 0
        /\ cut[Len(pattern)] = Len(str)
        /\ \A i \in 1 .. Len(pattern) :
               IF pattern[i] = "*"
               THEN cut[i - 1] <= cut[i]
               ELSE cut[i] = cut[i - 1] + 1 /\ str[cut[i]] = pattern[i]
=============================================================================
