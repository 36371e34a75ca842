----------------------------- MODULE MCPolicies -----------------------------
(* Instances of CertificateRequestPolicies for TLC. *)
EXTENDS CertificateRequestPolicies

\* Reconcilers that never ask to be called again, and reconcilers that ask for
\* it, with a duration or without.
NoRequeue == {NoResult}
AnyRequeue == [requeue : {TRUE}, after : {0, 1}]
=============================================================================
