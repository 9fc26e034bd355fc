SPECIFICATION Spec
CONSTANTS
    Windows = {w1, w2}
    Desktop = desktop
    Images = {1, 2}
CHECK_DEADLOCK FALSE
PROPERTY StopsInTheEnd
