CONSTANTS
    Pieces <- MCPieces
    Hdr = Hdr  Fin = Fin  Refusal = Refusal
SPECIFICATION FairSpec
INVARIANTS TypeOK FirstCloserHeard HttpAnswered
PROPERTIES PipeSpec RelayEnds
CHECK_DEADLOCK FALSE
