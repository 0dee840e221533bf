\* A home that is named by default, with --home or in both ways.
CONSTANTS
    Owner = {"gogen", "apigen"}
    Category = {"api"}
    Name = {"handler", "template"}
    Chain <- MCChain
    CategoryOf <- MCCategoryOf
    Files <- MCFiles
    Loose = {}
    Fixed <- MCFixed
    Usage <- AnyHome
    MaxEdited = 2
    MaxVersion = 2
    None = None
SPECIFICATION Spec
INVARIANTS TypeOK CommandsKeepPromises
PROPERTY EditsSurviveInit
CHECK_DEADLOCK FALSE
