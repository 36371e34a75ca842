---------------------------- MODULE MCApprovers ----------------------------
(* Instances of Approvers for TLC. *)
EXTENDS Approvers

Optional(S) == {{}} \cup {{x} : x \in S}

a == <<"a">>
b == <<"b">>
ab == <<"a", "b">>
aStar == <<"a", "*">>

NoSpec == [attributes |-> [x \in Attribute |-> {}], isCA |-> {}, usages |-> {},
           maxDuration |-> {}, minDuration |-> {}, privateKey |-> {},
           plugins |-> {}, selects |-> TRUE, labelsParse |-> TRUE]

NoRequest == [decodes |-> TRUE, attributes |-> [x \in Attribute |-> {}],
              isCA |-> FALSE, usages |-> {}, duration |-> {},
              key |-> [type |-> "*rsa.PublicKey", size |-> 2048]]

\* Policies and requests that differ in the attributes, or in isCA and usages.
Entry == [values : Optional({{}, {a}, {aStar}, {a, b}}), required : Optional(BOOLEAN)]

AllowedSpecs ==
    {[NoSpec EXCEPT !.attributes = attributes] :
        attributes \in [Attribute -> Optional(Entry)]}
    \cup {[NoSpec EXCEPT !.isCA = isCA, !.usages = usages] :
        isCA \in Optional(BOOLEAN), usages \in Optional({{}, {a}, {aStar}})}

AllowedRequests ==
    {[NoRequest EXCEPT !.attributes = attributes] :
        attributes \in [Attribute -> SUBSET {a, b, ab}]}
    \cup {[NoRequest EXCEPT !.isCA = isCA, !.usages = usages, !.decodes = decodes] :
        isCA \in BOOLEAN, usages \in SUBSET {a, ab}, decodes \in BOOLEAN}

\* Every pattern and every string up to a length, for one attribute.
MaxLength == 4
Word == UNION {[1 .. n -> Rune] : n \in 0 .. MaxLength}
WordSpecs ==
    {[NoSpec EXCEPT !.attributes["dnsNames"] =
        {[values |-> {{pattern}}, required |-> {}]}] : pattern \in Word}
WordRequests ==
    {[NoRequest EXCEPT !.attributes["dnsNames"] = {str}] : str \in Word}

\* Policies and requests that differ in durations or keys, and policies that
\* the webhook refuses for other reasons.
PrivateKey == [algorithm : Optional({"RSA", "ECDSA", "Ed25519", "other"}),
               maxSize : Optional({-1, 256, 2048, 8193}),
               minSize : Optional({-1, 256, 2048, 8193})]

ConstraintsSpecs ==
    {[NoSpec EXCEPT !.maxDuration = max, !.minDuration = min, !.privateKey = key] :
        max \in Optional({-1, 1, 2}), min \in Optional({-1, 1, 2}),
        key \in Optional(PrivateKey)}
    \cup {[NoSpec EXCEPT !.plugins = plugins, !.selects = selects,
                         !.labelsParse = parse] :
        plugins \in SUBSET {"registered", "unknown"}, selects \in BOOLEAN,
        parse \in BOOLEAN}

\* An Ed25519 key is held by value and has no size.
Keys == [type : {"*rsa.PublicKey"}, size : {255, 256, 2048, 2049}]
            \cup [type : {"*ecdsa.PublicKey"}, size : {256}]
            \cup [type : {"ed25519.PublicKey"}, size : {-1}]

ConstraintsRequests ==
    {[NoRequest EXCEPT !.duration = duration, !.key = key, !.decodes = decodes] :
        duration \in Optional({0, 1, 2, 3}), key \in Keys, decodes \in BOOLEAN}

AllSpecs == AllowedSpecs \cup WordSpecs \cup ConstraintsSpecs
AllRequests == AllowedRequests \cup WordRequests \cup ConstraintsRequests

\* A plugin's webhook may or may not allow, give errors, and fail.
AnyVerdict == [allowed : BOOLEAN, errors : {0, 1}, failed : BOOLEAN]
=============================================================================
