SPECIFICATION FilesSpec
CONSTANTS
    Entries <- MCEntries
    Source <- MCSource
    MaxBytes = 2
    MaxEntries = 3
INVARIANTS
    SourceIntact
    DiskBounded
    ExtractedWhole
    JudgedAsAWhole
CHECK_DEADLOCK FALSE
