\* Two executions (a first run, a recovery or a fork) over two amounts, one settlement.
SPECIFICATION FairSpec
CONSTANTS
    Attempt = {a1, a2}
    Settler = {s1}
    Key = {k1}
    Amount = {m1, m2}
    NoOwner = NoOwner
INVARIANTS TypeOK ChargedAtMostOnce ReportedIsTrue
PROPERTIES Promise LeaseComesFree
CHECK_DEADLOCK FALSE
