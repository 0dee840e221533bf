\* Every project of three files: each readable file with either syntax value and any
\* imports, one path in two spellings, or unreadable in each of the four ways; three
\* of the graphs with every combination of declarations from small sets.
CONSTANTS
    a = a
    b = b
    c = c
    plain = plain
    dotted = dotted
    v1 = v1
    v2 = v2
    None = None
    Path <- MCPath
    Root = a
    Spelling = {plain, dotted}
    SpelledAs <- MCSpelledAs
    SyntaxValue = {v1, v2}
    Kind = {"ok", "missing", "invalid", "duplicate", "blank"}
    BaseOf <- MCBaseOf
    BaseType <- MCBaseType
    TypeExpr <- MCTypeExpr
    Order <- MCOrder
    Holdings <- MCHoldings
SPECIFICATION CheckSpec
INVARIANTS
    TypeOK
    StackIsImportChain
    VerdictIndependentOfOrder
    MergedExactlyOnce
    GeneratorsMeetNamesOnce
    ChecksIndependentOfOrder
    SpecIsProjects
PROPERTY Terminates
CHECK_DEADLOCK FALSE
