SPECIFICATION Spec
CONSTANTS
    c1 = c1
    c2 = c2
    c3 = c3
    Conns <- ThreeConns
    Periods <- TwoPeriods
    Grace = 1
    MaxLate = 2
    NoEntry = end
SYMMETRY Symmetric
INVARIANTS
    ListInv
PROPERTIES
    PeriodKept
CHECK_DEADLOCK FALSE
