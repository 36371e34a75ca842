SPECIFICATION Spec
CONSTANTS
    Rune = {"a", "b", "*"}
    Attribute = {"dnsNames", "countries"}
    Specs <- AllSpecs
    Requests <- AllRequests
    Plugin = {"registered"}
    Verdict <- AnyVerdict
INVARIANTS
    NotDeniedMeansConforms
    LessIsPermitted
    CommittedSatisfiable
    MatchesExpressed
\* Without requests there is nothing to evaluate.
CHECK_DEADLOCK FALSE
