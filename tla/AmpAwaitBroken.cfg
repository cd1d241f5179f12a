\* The registry may hold a record that lacks fields.
SPECIFICATION Spec
CONSTANTS
    c1 = c1
    c2 = c2
    c3 = c3
    common = common
    other = other
    None = None
    Calls = {c1, c2, c3}
    Receivers = {r1}
    Names <- MCNames
    Artifact <- MCArtifact
    Asked <- WholeNames
    AnswerKinds <- AnyAnswer
PROPERTIES
    OnlyTakenRecordsLeave
\* Every call may be done, or wait for a reply that never comes.
CHECK_DEADLOCK FALSE
