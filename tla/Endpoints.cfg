CONSTANT MaxEndpoints = 2
SPECIFICATION Spec
CHECK_DEADLOCK FALSE
INVARIANTS TypeOK AckPreference GoodConfigsAreAcked
