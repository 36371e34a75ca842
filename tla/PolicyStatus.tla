---------------------------- MODULE PolicyStatus ----------------------------
(***************************************************************************)
(* What the two controllers have to agree on: the CertificateRequest-      *)
(* Policies as the API server shows them to the certificaterequests        *)
(* controller (policyapi.CertificateRequestPolicyStatus).                  *)
(*                                                                         *)
(* The certificaterequestpolicies controller promises that the Ready       *)
(* condition is True only for a revision that every reconciler has         *)
(* accepted, though not that it is the current one.  The                   *)
(* certificaterequests controller is specified in an environment whose     *)
(* policies change by these actions, and by no others.                     *)
(***************************************************************************)
EXTENDS Naturals

CONSTANT Policy

VARIABLES
    policy,     \* the policies
    revisions,  \* the number of specs written so far of each name
    vetted      \* <<p, v>> once all reconcilers have accepted revision v of p

vars == <<policy, revisions, vetted>>

\* A policy is the revision of its spec, and of the Ready condition the status
\* and the revision it was computed from.  Zero: not there.
PolicyObject == [revision : Nat, ready : BOOLEAN, observed : Nat]
NoPolicy == [revision |-> 0, ready |-> FALSE, observed |-> 0]

-----------------------------------------------------------------------------
\* A policy is created, or its spec is replaced; its status is kept.
Write(p) ==
    /\ revisions' = [revisions EXCEPT ![p] = @ + 1]
    /\ policy' = [policy EXCEPT ![p].revision = revisions[p] + 1]
    /\ UNCHANGED vetted

Delete(p) ==
    /\ policy[p].revision > 0
    /\ policy' = [policy EXCEPT ![p] = NoPolicy]
    /\ UNCHANGED <<revisions, vetted>>

\* The last reconciler accepts revision v of p.
Vet(p, v) ==
    /\ vetted' = vetted \cup {<<p, v>>}
    /\ UNCHANGED <<policy, revisions>>

\* The Ready condition is set from revision v, which need not be the current
\* one, nor be of the same object.
SetCondition(p, ready, v) ==
    /\ policy[p].revision > 0
    /\ v \in 1 .. revisions[p]
    /\ policy' = [policy EXCEPT ![p].ready = ready, ![p].observed = v]
    /\ UNCHANGED revisions

\* It is set to True only if that revision has been vetted.
Report(p, ready, v) ==
    /\ ready => <<p, v>> \in vetted
    /\ SetCondition(p, ready, v)
    /\ UNCHANGED vetted

-----------------------------------------------------------------------------
Init ==
    /\ policy \in [Policy -> PolicyObject]
    /\ revisions \in [Policy -> Nat]
    /\ \A p \in Policy : /\ policy[p].revision \in {0, revisions[p]}
                         /\ policy[p].ready => <<p, policy[p].observed>> \in vetted

Next ==
    \E p \in Policy : \/ Write(p)
                      \/ Delete(p)
                      \/ \E v \in 1 .. revisions[p] :
                            \/ Vet(p, v)
                            \/ \E ready \in BOOLEAN : Report(p, ready, v)

Spec == Init /\ [][Next]_vars
=============================================================================
