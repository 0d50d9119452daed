SPECIFICATION Spec
CONSTANTS
    ControlCapacity = 2
    MaxTick = 2
    MaxPlain = 2
CHECK_DEADLOCK FALSE
PROPERTIES
    MalformedFrameKeepsConnection
