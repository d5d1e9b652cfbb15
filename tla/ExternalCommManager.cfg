SPECIFICATION Spec
CONSTANTS
    WorldSize = 4
    Types <- MCTypes
    RankIds <- MCRankIds
    GroupId <- MCGroupId
    Programs <- MCPrograms
    LowerBound = 2
    UpperBound = 7
    Requests = 3
INVARIANTS GroupsMeet NoStrangersMeet GroupsAreReused
CHECK_DEADLOCK FALSE
