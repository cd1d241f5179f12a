\* Good records only: refinement of Mailbox, and the wake-up of waiting calls.
SPECIFICATION FairSpec
CONSTANTS
    c1 = c1
    c2 = c2
    c3 = c3
    common = common
    other = other
    None = None
    Calls = {c1, c2, c3}
    Receivers = {r1}
    Names <- MCNames
    Artifact <- MCArtifact
    Asked <- WholeNames
    AnswerKinds <- GoodAnswer
PROPERTIES
    ImplementsMailbox
    WokenIsServed
\* Every call may be done, or wait for a reply that never comes.
CHECK_DEADLOCK FALSE
