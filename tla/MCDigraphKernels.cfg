SPECIFICATION Spec
CONSTANT Calls <- MCCalls
INVARIANT ComponentsRight
INVARIANT ClosureRight
INVARIANT DistancesRight
INVARIANT StrongComponentsRight
INVARIANT PathMarked
INVARIANT SearchesRight
INVARIANT ComparesRight
INVARIANT ListsRight
PROPERTY Terminates
CHECK_DEADLOCK FALSE
