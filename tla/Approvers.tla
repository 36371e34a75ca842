----------------------------- MODULE Approvers -----------------------------
(***************************************************************************)
(* The two built-in approvers, allowed and constraints                     *)
(* (pkg/internal/approver), and the validating webhook                     *)
(* (pkg/internal/webhook/validator.go): a policy is written through the    *)
(* webhook, then requests are evaluated against it.                        *)
(*                                                                         *)
(* A pointer of the API types is a set: empty for nil, else of one         *)
(* element.  The thirteen attributes of a request that allowed compares    *)
(* with patterns are the sets of their strings; a commonName or a          *)
(* serialNumber is a set of at most one.                                   *)
(***************************************************************************)
EXTENDS Wildcard, Integers

CONSTANTS
    Attribute, \* the attributes that requests and policies of the instance use
    Specs,     \* the specs that users submit
    Requests,  \* the CertificateRequests that are evaluated
    Plugin,    \* the registered approvers, allowed and constraints aside
    Verdict    \* what a plugin's webhook may answer

\* The attributes for which Evaluate looks whether Values is nil, and the others.
Checked == {"commonName", "dnsNames", "ipAddresses", "uris", "emailAddresses",
            "organizations"}
Unchecked == {"countries", "organizationalUnits", "localities", "provinces",
              "streetAddresses", "postalCodes", "serialNumber"}

\* A webhook returns Allowed with some number of Errors, or fails.
Response == [allowed : BOOLEAN, errors : Nat, failed : BOOLEAN]

\* A pointer to a member of S.
Pointer(S) == {pointer \in SUBSET S : \A x, y \in pointer : x = y}

\* What the approvers and the webhook read of a policy's spec.
CertificateRequestPolicySpec ==
    [attributes : [Attribute -> Pointer([values : Pointer(SUBSET String),
                                         required : Pointer(BOOLEAN)])],
     isCA : Pointer(BOOLEAN),
     usages : Pointer(SUBSET String),
     maxDuration : Pointer(Int),
     minDuration : Pointer(Int),
     privateKey : Pointer([algorithm : Pointer(STRING),
                           maxSize : Pointer(Int),
                           minSize : Pointer(Int)]),
     plugins : SUBSET STRING,
     selects : BOOLEAN,
     labelsParse : BOOLEAN]

\* A public key by its Go type; an Ed25519 key has no size.
PublicKey ==
    {key \in [type : STRING, size : Int] :
        key.type = "*ed25519.PublicKey" => key.size = -1}

\* What they read of a request: its spec and the CSR in it, if that decodes.
CertificateRequest ==
    [decodes : BOOLEAN,
     attributes : [Attribute -> SUBSET String],
     isCA : BOOLEAN,
     usages : SUBSET String,
     duration : Pointer(Int),
     key : PublicKey]

ASSUME ConstantsAssumption ==
    /\ Attribute \subseteq Checked \cup Unchecked
    /\ Specs \subseteq CertificateRequestPolicySpec
    /\ Requests \subseteq CertificateRequest
    /\ Verdict \subseteq Response

VARIABLES
    stored,     \* API server: the spec of the policy, {} before it is created
    refused,    \* history: a webhook answered Allowed=false to the stored spec
    request,    \* the request evaluated last, {} before
    allowed,    \* what allowed.Evaluate returned for it
    constraints \* what constraints.Evaluate returned for it

vars == <<stored, refused, request, allowed, constraints>>

Init ==
    /\ stored = {}
    /\ refused = FALSE
    /\ request = {}
    /\ allowed = "none"
    /\ constraints = "none"

-----------------------------------------------------------------------------
(* allowed.Evaluate *)

\* *Values or *Value is read although it is nil.
Dereferences(entry, values) ==
    values # {} /\ \E e \in entry : e.values = {}

\* Altered: a required attribute may be missing.
DeniesValues(entry, values) ==
    /\ values # {}
    /\ ~\E e \in entry : \E patterns \in e.values : WildcardSubset(patterns, values)

\* What is requested has to match, what is required has to be requested.
Denies(entry, values) ==
    \/ /\ values # {}
       /\ ~\E e \in entry : \E patterns \in e.values :
              WildcardSubset(patterns, values)
    \/ values = {} /\ \E e \in entry : TRUE \in e.required

DeniesIsCA(spec, r) == r.isCA /\ TRUE \notin spec.isCA

DeniesUsages(spec, r) ==
    r.usages # {} /\ ~\E usages \in spec.usages : WildcardSubset(usages, r.usages)

\* spec.allowed = nil is a spec that allows nothing.
EvaluateAllowed(spec, r) ==
    IF ~r.decodes THEN "error"
    ELSE IF \E a \in Attribute \cap Unchecked :
                Dereferences(spec.attributes[a], r.attributes[a]) THEN "panic"
    ELSE IF \/ \E a \in Attribute : Denies(spec.attributes[a], r.attributes[a])
            \/ DeniesIsCA(spec, r)
            \/ DeniesUsages(spec, r) THEN "denied"
    ELSE "not denied"

(* constraints.Evaluate *)

\* The algorithm and size of a public key, by its Go type; {} is an error.
\* x509.ParseCertificateRequest returns pointers to RSA and ECDSA keys, and
\* Ed25519 keys by value.
decodePublicKey(key) ==
    CASE key.type = "*rsa.PublicKey" -> {[algorithm |-> "RSA", size |-> key.size]}
      [] key.type = "*ecdsa.PublicKey" -> {[algorithm |-> "ECDSA", size |-> key.size]}
      [] key.type = "*ed25519.PublicKey" -> {[algorithm |-> "Ed25519", size |-> -1]}
      [] OTHER -> {}

DeniesDuration(spec, r) ==
    \/ r.duration = {} /\ spec.maxDuration \cup spec.minDuration # {}
    \/ \E d \in r.duration : \/ \E max \in spec.maxDuration : max < d
                             \/ \E min \in spec.minDuration : min > d

DeniesKey(private, public) ==
    \/ \E algorithm \in private.algorithm : algorithm # public.algorithm
    \/ \E max \in private.maxSize : max < public.size
    \/ \E min \in private.minSize : min > public.size

\* The CSR is decoded only for a constraint on the key.
EvaluateConstraints(spec, r) ==
    IF spec.privateKey # {} /\ (~r.decodes \/ decodePublicKey(r.key) = {})
    THEN "error"
    ELSE IF \/ DeniesDuration(spec, r)
            \/ \E private \in spec.privateKey : \E public \in decodePublicKey(r.key) :
                   DeniesKey(private, public) THEN "denied"
    ELSE "not denied"

-----------------------------------------------------------------------------
(* The Validate functions, as their responses. *)

Validated(invalid) ==
    [allowed |-> ~invalid, errors |-> IF invalid THEN 1 ELSE 0, failed |-> FALSE]

\* Values have to be defined for what is required.
ValidateAllowed(spec) ==
    Validated(\E a \in Attribute : \E e \in spec.attributes[a] :
                  TRUE \in e.required /\ e.values = {})

MaxKeySize == 8192

\* Altered: the order of the sizes is not looked at.
InvalidRange(private) ==
    \/ \E algorithm \in private.algorithm :
           \/ algorithm \notin {"RSA", "ECDSA", "Ed25519"}
           \/ algorithm = "Ed25519" /\ private.maxSize \cup private.minSize # {}
    \/ \E size \in private.maxSize \cup private.minSize : size < 0 \/ size > MaxKeySize

InvalidKey(private) ==
    \/ \E algorithm \in private.algorithm :
           \/ algorithm \notin {"RSA", "ECDSA", "Ed25519"}
           \/ algorithm = "Ed25519" /\ private.maxSize \cup private.minSize # {}
    \/ \E size \in private.maxSize \cup private.minSize : size < 0 \/ size > MaxKeySize
    \/ \E max \in private.maxSize, min \in private.minSize : max < min

ValidateConstraints(spec) ==
    Validated(\/ \E private \in spec.privateKey : InvalidKey(private)
              \/ \E max \in spec.maxDuration, min \in spec.minDuration : max < min
              \/ \E d \in spec.maxDuration \cup spec.minDuration : d < 0)

(* The webhook. *)

\* The errors that certificateRequestPolicy collects from the spec and from the
\* responses that are not Allowed.
Errors(spec, responses) ==
    \/ spec.plugins \ Plugin # {}
    \/ ~spec.selects
    \/ ~spec.labelsParse
    \/ \E response \in responses : ~response.allowed /\ response.errors > 0

\* Handle of a request to create or update the policy.  A request of another
\* kind, one that cannot be decoded, an error of a webhook and errors in the
\* spec are refused; then nothing is stored.
Handle(spec, verdicts) ==
    LET responses == {ValidateAllowed(spec), ValidateConstraints(spec)}
                         \cup {verdicts[p] : p \in Plugin}
    IN  /\ \A response \in responses : ~response.failed
        /\ ~Errors(spec, responses)
        /\ stored' = {spec}
        /\ refused' = (\E response \in responses : ~response.allowed)
        /\ UNCHANGED <<request, allowed, constraints>>

\* The manager has a request evaluated against the policy.
Evaluate(spec, r) ==
    /\ request' = {r}
    /\ allowed' = EvaluateAllowed(spec, r)
    /\ constraints' = EvaluateConstraints(spec, r)
    /\ UNCHANGED <<stored, refused>>

\* Bounds: one write, as nothing in Handle looks at the object it replaces, and
\* one evaluation, as neither Evaluate keeps anything.
Next ==
    \/ /\ stored = {}
       /\ \E spec \in Specs, verdicts \in [Plugin -> Verdict] : Handle(spec, verdicts)
    \/ /\ request = {}
       /\ \E spec \in stored, r \in Requests : Evaluate(spec, r)

Spec == Init /\ [][Next]_vars

-----------------------------------------------------------------------------
(* Properties. *)

\* What the API types say a permitted request is, with the meaning of patterns
\* in place of the algorithm that matches them.
Conforms(spec, r) ==
    /\ \A a \in Attribute :
           /\ \A value \in r.attributes[a] :
                  \E e \in spec.attributes[a] : \E patterns \in e.values :
                      \E pattern \in patterns : Expresses(pattern, value)
           /\ \A e \in spec.attributes[a] :
                  TRUE \in e.required => r.attributes[a] # {}
    /\ r.isCA => TRUE \in spec.isCA
    /\ \A usage \in r.usages : \E usages \in spec.usages :
           \E pattern \in usages : Expresses(pattern, usage)
    /\ \A max \in spec.maxDuration : \E d \in r.duration : d <= max
    /\ \A min \in spec.minDuration : \E d \in r.duration : min <= d
    /\ \A private \in spec.privateKey :
           /\ \A algorithm \in private.algorithm :
                  [algorithm |-> algorithm, size |-> r.key.size]
                      \in decodePublicKey(r.key)
           /\ \A max \in private.maxSize : r.key.size <= max
           /\ \A min \in private.minSize : min <= r.key.size

\* A request that neither Evaluate denies conforms to all of the policy, by the
\* words of the API types: the two approvers leave no gap between them.
NotDeniedMeansConforms ==
    \A spec \in stored, r \in request :
        allowed = "not denied" /\ constraints = "not denied" => Conforms(spec, r)

\* The request asks for no more than r does, and for something where required.
AsksLess(spec, less, r) ==
    /\ \A a \in Attribute :
           /\ less.attributes[a] \subseteq r.attributes[a]
           /\ less.attributes[a] = {} =>
                  \A e \in spec.attributes[a] : TRUE \notin e.required
    /\ less.isCA => r.isCA
    /\ less.usages \subseteq r.usages
    /\ less.decodes

\* "It is permissible for a CertificateRequest to request less than what is
\* allowed": allowed.Evaluate never denies a request that asks for less than
\* one it does not deny, as long as what is required is there.
LessIsPermitted ==
    \A spec \in stored, r \in request :
        allowed = "not denied" =>
            \A less \in Requests : AsksLess(spec, less, r) =>
                EvaluateAllowed(spec, less) = "not denied"

\* Validate lets no constraints through that contradict each other: some request
\* with an RSA key, of which there are all sizes from one bit on, satisfies them,
\* unless another algorithm or a key of no bits is asked for.
CommittedSatisfiable ==
    \A spec \in stored :
        (\A private \in spec.privateKey :
            private.algorithm \subseteq {"RSA"} /\ 0 \notin private.maxSize) =>
            \E r \in Requests : EvaluateConstraints(spec, r) = "not denied"

\* WildcardMatches, with its backtracking loop and its two special cases, is
\* true exactly for the strings that the pattern expresses: "Wildcards '*' in
\* patterns represent any string which has a length of 0 or more".
MatchesExpressed ==
    \A spec \in stored, r \in request, a \in Attribute :
        \A value \in r.attributes[a], e \in spec.attributes[a] :
            \A patterns \in e.values : \A pattern \in patterns :
                WildcardMatches(pattern, value) <=> Expresses(pattern, value)

\* Webhook.Validate: "If Validate returns a response with Allowed set to false,
\* the object will not be committed".
RefusedNotCommitted == ~refused

\* The results are those of the one policy, which Validate allows, and of the one
\* request of the state.
Evaluated ==
    /\ stored = {} => request = {}
    /\ \A s1, s2 \in stored : s1 = s2
    /\ \A spec \in stored : spec \in Specs /\ ValidateConstraints(spec).allowed
    /\ request \subseteq Requests
    /\ \A spec \in stored, r \in request :
           /\ allowed = EvaluateAllowed(spec, r)
           /\ constraints = EvaluateConstraints(spec, r)

\* "An omitted field or value of nil forbids any value on the related field in
\* the request from being requested": such requests are denied.
NilForbids ==
    \A spec \in stored, r \in request, a \in Attribute :
        /\ r.decodes
        /\ r.attributes[a] # {}
        /\ \A e \in spec.attributes[a] : e.values = {}
        => allowed = "denied"
=============================================================================
