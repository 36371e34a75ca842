----------------------------- MODULE MCRequests -----------------------------
(* Instances of CertificateRequests for TLC. *)
EXTENDS CertificateRequests, TLC

CONSTANTS p1, p2, n1, i1, i2, c1

PolicySymmetry == Permutations({p1, p2})

OneNamespace == [r \in Request |-> n1]

NoSpec == [issuerRef |-> IssuerRef, matchNames |-> {}, matchLabels |-> FALSE,
           denies |-> [e \in Evaluator |-> {}], errs |-> {}]

\* Policies that approve: all requests, all for one issuer in namespaces with
\* the label, all in namespaces that have none of the requests.
Permits == NoSpec
Labels == [NoSpec EXCEPT !.issuerRef = {i1}, !.matchLabels = TRUE]
Elsewhere == [NoSpec EXCEPT !.matchNames = {{}}]

\* One that denies all, one that no request can be evaluated against.
Forbids == [NoSpec EXCEPT !.matchNames = {{}, {n1}}, !.denies["constraints"] = Content]
Breaks == [NoSpec EXCEPT !.errs = Content]

AllSpecs == {Labels, Elsewhere, Forbids, Breaks}
LabelFree == {Permits, Forbids, Breaks}
LabelOnly == {Labels}
=============================================================================
