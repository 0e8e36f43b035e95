SPECIFICATION MCSpec
CONSTANTS
    ActionList <- List
    Families <- MCFamilies
    Calls <- MCCalls
    Matches <- MCMatches
    Most <- MCMost
    Rounds = 2
    GrowTo = {1, 6}
    MaxSection = 2
    MaxGlobals = 2
    MaxSecPos = 8
    Base = 4096
    External <- MCExternal
    Reference <- Assemble
INVARIANTS
    CodeIsMeant
    PassesAgree
    RoomSuffices
