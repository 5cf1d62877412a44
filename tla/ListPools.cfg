\* Two nodes, pool lists of up to two entries, two distinct amounts so that
\* the staker and total columns can be told apart, keys possibly missing.
CONSTANTS
    NODES_COUNT = 2
    PoolIds = {p1}
    Amounts = {a1, a2}
    Absent = Absent
    MaxPools = 2
SPECIFICATION Spec
INVARIANTS TypeOK
PROPERTIES ImplementsReport
\* The script stops for good once it is done or has failed.
CHECK_DEADLOCK FALSE
