SPECIFICATION Spec
CONSTANTS
    NominalWidth = 2
    NominalHeight = 2
    SmallSize = 2
    MaxImages = 2
    Images <- SomeImages
CHECK_DEADLOCK FALSE
INVARIANTS ImagesArrive AttributesTravel NothingLeftBehind
PROPERTY GenerateReturns
