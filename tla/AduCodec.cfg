CONSTANTS
    Sizes <- MCSizes
    MaxStray = 3
SPECIFICATION Spec
INVARIANTS TypeOK PadsPayForLegs
