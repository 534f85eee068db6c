SPECIFICATION FairSpec
CONSTANTS
    SampleNum = 2
    MaxDepth = 3
    Layers = 1
    Unit = 2
    MaxReflect = 3
    Beyond = 1
    MaxShadow = 2
INVARIANTS
    TypeOK
    StackBounded
    RaysWithinBudget
    UndefinedOnlyInTheDark
    SamplesInterpolate
PROPERTIES
    PixelsAreDone
