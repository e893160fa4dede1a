SPECIFICATION Spec
CONSTANTS
    NULL = NULL
    Name = {"alice", "Alice"}
    LowerCase <- MCLowerCase
    Handmade <- MCHandmade
    Capacity = 4
    Width = {9, 255}
INVARIANTS
    TypeOK
    PromptThere
PROPERTY SurvivesLogin
