CONSTANT MaxEndpoints = 1
SPECIFICATION Spec
CHECK_DEADLOCK FALSE
INVARIANT NoneIfUnusable
