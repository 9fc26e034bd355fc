SPECIFICATION QmlSpec
CONSTANTS
    MaxFrames = 3
    Destroys = {FALSE}
    Touches = {1, 2}
    Sizes = {0, 1, 2}
CHECK_DEADLOCK FALSE
INVARIANTS SceneAtRest ImageKept OneKindOfInput
PROPERTY MainReturns
