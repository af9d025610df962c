SPECIFICATION Spec
CONSTANTS
    Programs <- MCPrograms
    Lines <- MCLines
    Spelled <- MCSpelled
    Abbreviates <- MCAbbreviates
    Number <- MCNumber
    Rank <- MCRank
INVARIANTS SeenIsStored
CHECK_DEADLOCK FALSE
