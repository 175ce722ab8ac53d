\* Bounds: a converging run takes six role calls and eight after one repair, so
\* eight calls let it finish, while an allowance of 2 and a limit of 9 also let
\* the budget refuse a role in the middle; a call costs less than its allowance
\* or more.
CONSTANTS
    Execute = Execute
    recover1 = recover1
    recover2 = recover2
    reporter = reporter
    NoRun = NoRun
    Free = Free
    Recoveries <- MCRecoveries
    Actors <- MCActors
    Costs = {1, 3}
    MaxPaidCalls = 8
    MaxCharge = 9
    Allowance = 2
    MaxRepairCycles = 1
    RequiredCleanCycles = 2
SPECIFICATION Spec
SYMMETRY Symmetric
CHECK_DEADLOCK FALSE
INVARIANTS
    TypeOK
    NothingPaidTwice
    WithinBudget
    EndingStands
