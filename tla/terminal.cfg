SPECIFICATION Spec
CONSTANTS
    RESOLUTION_WIDTH = 2
    RESOLUTION_HEIGHT = 3
    CLOCK_WIDTH = 1
    INPUT_MAX = 6
    Printables = {"a", "b"}
    Prompt <- MCPrompt
    Outputs <- MCOutputs
    MaxHeld = 2
INVARIANTS
    TypeOK
    KeyIsHeld
    EchoMatchesLine
    NothingBehindCursor
