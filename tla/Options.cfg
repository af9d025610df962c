SPECIFICATION Spec
CONSTANTS
    Programs <- MCPrograms
    Lines <- MCLines
    Spelled <- MCSpelled
    Abbreviates <- MCAbbreviates
    Number <- MCNumber
    Rank <- MCRank
INVARIANTS IndexFresh AsMeant UsageComplete
CHECK_DEADLOCK FALSE
