SPECIFICATION Spec
CONSTANTS
    Cases = {c1, c2}
    Metrics = {cpu}
    MaxRows = 10
    Gaps = FALSE
INVARIANTS NoCaseLost RowsAreMeasured
CHECK_DEADLOCK FALSE
