CONSTANTS
    List = {l1, l2}
    Node = {n1, n2, n3}
    POISON = POISON
    UseEndAfterDrain = FALSE
SPECIFICATION Spec
SYMMETRY MCSymmetry
INVARIANTS
    TypeOK
    Shape
    Separation
    EndIsLast
    NoPoison
    WalkComplete
