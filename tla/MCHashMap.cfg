CONSTANTS
    Node = {n1, n2, n3}
    NULL = NULL
    wild = wild
    BucketSize = 3
    Key <- MCKey
    HashFunc <- MCHashFunc
SPECIFICATION Spec
INVARIANTS
    TypeOK
    BeginIsFirst
    InOwnBucket
    NoOtherLeak
    WalkPosition
    WalkComplete
PROPERTIES
    DestroyTerminates
    ImplementsKeyStacks
