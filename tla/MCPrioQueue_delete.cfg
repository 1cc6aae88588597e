CONSTANTS
    Cap = 4
    Prios = {0, 2, 3}
    Data = {d1, d2, d3, d4}
    Int32Min = 1
SPECIFICATION Spec
SYMMETRY Indices
INVARIANTS DeletesTheElement
