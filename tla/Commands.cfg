SPECIFICATION Spec
CONSTANTS
    Stdin <- MCStdin
    Unprintable <- MCUnprintable
    Contents <- MCContents
    Dashed <- MCDashed
    Families <- MCFamilies
    FirstId = 100
INVARIANTS
    CounterpartsAgree
PROPERTIES
    FilesKept
    BlameIsRight
    FlagOrderIrrelevant
CHECK_DEADLOCK FALSE
