CONSTANTS
    Conversations = {c1, c2}
    Texts = {x, y}
    MaxTurns = 3
    MaxTokens = 0
    MaxFailing = 1
    New = New
    Away = Away
    None = None
SPECIFICATION Spec
SYMMETRY Symmetry
PROPERTIES
    RegenerateRepeats
CHECK_DEADLOCK FALSE
