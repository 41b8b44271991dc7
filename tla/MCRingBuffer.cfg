CONSTANTS
    Values = {a, b}
    Garbage = Garbage
    Cells = 6
SYMMETRY Symmetry
SPECIFICATION Spec
INVARIANT TypeOK
PROPERTY ImplementsBoundedSeq
