CONSTANTS
    Cap = 4
    Prios = {1, 2, 3}
    Data = {d1, d2, d3, d4}
    Int32Min = 0
SPECIFICATION Spec
SYMMETRY Indices
INVARIANTS RootIsMinimum
