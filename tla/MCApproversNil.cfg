SPECIFICATION Spec
CONSTANTS
    Rune = {"a", "b", "*"}
    Attribute = {"dnsNames", "countries"}
    Specs <- AllowedSpecs
    Requests <- AllowedRequests
    Plugin = {}
    Verdict <- AnyVerdict
INVARIANTS
    NilForbids
CHECK_DEADLOCK FALSE
