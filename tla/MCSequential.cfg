\* Every text with and without a NUL, every literal, and an allocation that
\* may be refused anywhere; five seconds of two ticks, five rows and two
\* failures; words of 16, and a kernel that has counted up to four.
SPECIFICATION MCSpec
CONSTANTS
    Texts <- MCTexts
    NestingLimit = 2
    Literals <- MCLiterals
    Printed <- MCPrinted
    NoMeaning = NoMeaning
    Second = 2
    MaxTime = 10
    MaxRows = 5
    MaxFaults = 2
    Word = 16
    MaxStat = 4
INVARIANTS
    TypeOK
    EveryItemOwned
    ListsLinked
    AcceptsTheGrammar
    CategoryOfTheText
    StringTypeOK
    OutputFits
    PrintedFits
    MeaningKept
    LogTypeOK
    OneRowPerSecond
    NoCatchUpSpin
    DamageBounded
    CpuTypeOK
    ShareOfBusyTime
PROPERTY
    Terminates
CHECK_DEADLOCK FALSE
