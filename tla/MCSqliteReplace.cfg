SPECIFICATION Spec
CONSTANTS
    Rows = {r1, r2}
    Passwords = {p1}
    Plain = Plain
    NoRow = NoRow
    Failures = FALSE
    Statements = FALSE
INVARIANTS
    TrueMeansDone
CHECK_DEADLOCK FALSE
