------------------------------ MODULE Approval ------------------------------
(***************************************************************************)
(* What approver-policy promises of the decisions on CertificateRequests,  *)
(* as those who write requests and policies may rely on it                 *)
(* (pkg/approver/manager/manager.go, Interface.Review).                    *)
(*                                                                         *)
(* A decision is taken at once, from all that has ever been true: no       *)
(* caches, no queue, no steps between reading and writing.  It is taken    *)
(* once for each request.                                                  *)
(***************************************************************************)
EXTENDS Naturals, Sequences

CONSTANTS Request, Policy, Namespace, NamespaceOf, Evaluator, PolicySpec, RequestSpec

VARIABLES
    specs,     \* all specs ever written of each policy name
    requests,  \* all requests ever created of each name
    request,   \* the requests: uid, an index into requests, and decision
    vetted,    \* <<p, v>> once revision v of p was reported ready
    granted,   \* <<r, p>> once r's user might use p
    marked     \* the namespaces that have had the label policies may ask for

vars == <<specs, requests, request, vetted, granted, marked>>

-----------------------------------------------------------------------------
Selects(s, q) == q.issuerRef \in s.issuerRef

\* The namespace of r is named, unless no names are given, and has had the label,
\* if that is asked for.
SelectsNamespace(s, r) ==
    /\ s.matchNames = {} \/ \E pattern \in s.matchNames : NamespaceOf[r] \in pattern
    /\ s.matchLabels => NamespaceOf[r] \in marked

Refuses(s, q) == \E e \in Evaluator : q.content \in s.denies[e]

\* Policy p may be consulted at its revision v on the request u of name r: it
\* selects the request's issuer and namespace, the request can be evaluated
\* against it, the user has been allowed to use it, and that revision or an
\* earlier one was reported ready.
Consultable(r, u, p, v) ==
    /\ v \in 1 .. Len(specs[p])
    /\ Selects(specs[p][v], requests[r][u])
    /\ SelectsNamespace(specs[p][v], r)
    /\ requests[r][u].content \notin specs[p][v].errs
    /\ <<r, p>> \in granted
    /\ \E w \in 1 .. v : <<p, w>> \in vetted

\* A decision on what bears the name r: of a request of that name, by policies
\* that were consultable; an approval by one that refuses nothing of the
\* request, a denial by policies that all refuse it.
Justified(r, d) ==
    /\ d.result \in {"Approved", "Denied"}
    /\ d.of \in 1 .. Len(requests[r])
    /\ d.by # {}
    /\ \A b \in d.by :
          /\ b[1] \in Policy
          /\ Consultable(r, d.of, b[1], b[2])
          /\ Refuses(specs[b[1]][b[2]], requests[r][d.of]) <=> d.result = "Denied"

-----------------------------------------------------------------------------
Write(p, s) ==
    /\ specs' = [specs EXCEPT ![p] = Append(@, s)]
    /\ UNCHANGED <<requests, request, vetted, granted, marked>>

Vet(p, v) ==
    /\ vetted' = vetted \cup {<<p, v>>}
    /\ UNCHANGED <<specs, requests, request, granted, marked>>

Grant(r, p) ==
    /\ granted' = granted \cup {<<r, p>>}
    /\ UNCHANGED <<specs, requests, request, vetted, marked>>

Mark(n) ==
    /\ marked' = marked \cup {n}
    /\ UNCHANGED <<specs, requests, request, vetted, granted>>

Create(r, q) ==
    /\ request[r].uid = 0
    /\ requests' = [requests EXCEPT ![r] = Append(@, q)]
    /\ request' = [request EXCEPT ![r].uid = Len(requests[r]) + 1]
    /\ UNCHANGED <<specs, vetted, granted, marked>>

Delete(r) ==
    /\ request[r].uid > 0
    /\ request' = [request EXCEPT ![r] = [uid |-> 0,
                      decision |-> [result |-> "None", of |-> 0, by |-> {}]]]
    /\ UNCHANGED <<specs, requests, vetted, granted, marked>>

\* A decision may be any that is justified, but the first one stays.
Decide(r) ==
    /\ request[r].uid > 0
    /\ request[r].decision.result = "None"
    /\ Justified(r, request'[r].decision)
    /\ request' = [request EXCEPT ![r].decision = request'[r].decision]
    /\ UNCHANGED <<specs, requests, vetted, granted, marked>>

-----------------------------------------------------------------------------
Init ==
    /\ specs \in [Policy -> Seq(PolicySpec)]
    /\ requests \in [Request -> Seq(RequestSpec)]
    /\ \A r \in Request : /\ request[r].uid \in {0, Len(requests[r])}
                          /\ request[r].decision.result = "None"

Next ==
    \/ \E p \in Policy : \/ \E s \in PolicySpec : Write(p, s)
                         \/ \E v \in 1 .. Len(specs[p]) : Vet(p, v)
                         \/ \E r \in Request : Grant(r, p)
    \/ \E n \in Namespace : Mark(n)
    \/ \E r \in Request : \/ \E q \in RequestSpec : Create(r, q)
                          \/ Delete(r)
                          \/ Decide(r)

Spec == Init /\ [][Next]_vars
=============================================================================
