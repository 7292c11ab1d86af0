\* The documents themselves: what the report says of the consumer does not
\* hold for a commit as the report's schema has it.
SPECIFICATION MCSpec
CONSTANTS
    Texts <- Documents
    NestingLimit = 2
    Literals <- MCLiterals
    Printed <- MCPrinted
    NoMeaning = NoMeaning
    Second = 2
    MaxTime = 10
    MaxRows = 5
    MaxFaults = 2
    Word = 16
    MaxStat = 4
INVARIANT
    DocumentedCategory
