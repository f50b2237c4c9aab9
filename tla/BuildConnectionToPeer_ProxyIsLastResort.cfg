SPECIFICATION Spec
CONSTANTS
    Candidates = {a1, a2}
    Data = {d1}
PROPERTY ProxyIsLastResort
\* An attempt ends.
CHECK_DEADLOCK FALSE
