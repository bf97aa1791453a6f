SPECIFICATION MCSpec
CONSTANT
    Parts = {"tree", "text", "read", "value", "person"}
INVARIANTS
    TreesAreSound
    MessagesAreFaithful
PROPERTIES
    ParseIsSound
    PrintIsParsed
    ReadsSoundly
    KeepsComments
    WritesReadBack
    ValuesAreHonest
CHECK_DEADLOCK FALSE
