\* Three calls, two of them for one artifact, and any answers.
SPECIFICATION Spec
CONSTANTS
    c1 = c1
    c2 = c2
    c3 = c3
    common = common
    other = other
    None = None
    Calls = {c1, c2, c3}
    Receivers = {r1}
    Names <- MCNames
    Artifact <- MCArtifact
    Asked <- EndOfName
    AnswerKinds <- AnyAnswer
INVARIANTS
    TypeOK
    LockDiscipline
    OwnReply
    ReplyInOnePlace
\* The process may crash, and stops when every call is done.
CHECK_DEADLOCK FALSE
