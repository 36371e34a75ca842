SPECIFICATION Spec
CONSTANTS
    Rune = {"a", "b", "*"}
    Attribute = {"dnsNames", "countries"}
    Specs <- AllowedSpecs
    Requests <- AllowedRequests
    Plugin = {"registered"}
    Verdict <- AnyVerdict
INVARIANTS
    RefusedNotCommitted
CHECK_DEADLOCK FALSE
