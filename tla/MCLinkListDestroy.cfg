CONSTANTS
    List = {l1}
    Node = {n1, n2, n3}
    POISON = POISON
    UseEndAfterDrain = FALSE
SPECIFICATION Spec
PROPERTY
    DestroyTerminates
