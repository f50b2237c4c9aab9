SPECIFICATION Spec
CONSTANTS
    Candidates = {a1, a2}
    Data = {d1}
SYMMETRY Symmetry
INVARIANT DirectStreamLeadsToPeer
\* An attempt ends.
CHECK_DEADLOCK FALSE
