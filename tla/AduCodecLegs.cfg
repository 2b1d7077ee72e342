CONSTANTS
    Sizes <- MCRealSizes
    MaxStray = 0
SPECIFICATION Spec
INVARIANT SurvivesLegs
