SPECIFICATION Spec
CONSTANTS
    c1 = c1
    c2 = c2
    s1 = s1
    s2 = s2
    None = None
    Collections <- MCCollections
    Scopes <- MCScopes
INVARIANTS
    SuccessIsPublished
    ShutdownSettles
PROPERTIES
    FinishedStaysFinished
