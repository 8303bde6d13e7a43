SPECIFICATION Spec
INVARIANTS
    HistoryIsKept
    HistoryIsServed
    OldClaimsAreMarked
    RefusalsAreKnown
CONSTANTS
    Origins <- MCOrigins
