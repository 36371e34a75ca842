SPECIFICATION Spec
CONSTANTS
    p1 = p1
    p2 = p2
    n1 = n1
    i1 = i1
    i2 = i2
    c1 = c1
    Request = {r1}
    Policy = {p1}
    Namespace = {n1}
    NamespaceOf <- OneNamespace
    IssuerRef = {i1, i2}
    Content = {c1}
    Evaluator = {"allowed", "constraints"}
    PolicySpec <- LabelOnly
    PromptReviews = TRUE
    MaxChanges = 1
    MaxDisruptions = 0
INVARIANTS
    QuietMeansDecided
\* A quiet controller with no user left to change anything has nothing to do.
CHECK_DEADLOCK FALSE
