SPECIFICATION StatusSpec
CONSTANTS
    Measures = {1, 2, 3}
    Idents = {"A1", "A1C", "S2"}
    Ident <- Named3
    Stripped <- NoSuffix
    Actions <- TwoDays
    ChunkSize = 2
    SweepBatch = 2
    MaxChanges = 3
INVARIANTS ChunkBlind TwoPassesSettle RowsFollowText
PROPERTIES OutcomesStand CalendarReaches
