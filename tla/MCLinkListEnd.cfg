CONSTANTS
    List = {l1, l2}
    Node = {n1, n2, n3}
    POISON = POISON
    UseEndAfterDrain = TRUE
SPECIFICATION Spec
INVARIANT
    NoPoison
