CONSTANTS
    Conversations = {c1, c2}
    Texts = {x}
    MaxTurns = 2
    MaxTokens = 1
    MaxFailing = 1
    New = New
    Away = Away
    None = None
SPECIFICATION Spec
SYMMETRY Symmetry
PROPERTIES
    TokensStayOnScreen
CHECK_DEADLOCK FALSE
