SPECIFICATION Spec
CONSTANTS
    Nobody = Nobody
    p1 = p1
    p2 = p2
    p3 = p3
    Procs <- MCProcs
    MaxInodes = 3
SYMMETRY MCSymmetry
INVARIANTS TypeOK OneWriter CommandSeesBaseline
PROPERTIES OneSessionAtATime
