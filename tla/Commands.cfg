SPECIFICATION FairSpec
CONSTANTS
    a = a
    b = b
    p = p
    q = q
    Names <- MCNames
    Lower <- MCLower
    Within <- MCWithin
    NotAName = NotAName
    Inside <- MCInside
    Size <- MCSize
    Numbers <- MCNumbers
    HostLike <- MCHostLike
    PortLike <- MCPortLike
    Short <- MCShort
    NodesOf <- MCNodesOf
    Daemons <- MCDaemons
    Chats = {a, b}
    Pages = {p, q}
    Messages <- MCMessages
    Forms <- MCForms
    Skills <- MCSkills
    Storages = {"yrfs01"}
    Configurations <- MCConfigs
    LLMAnswers <- MCLLMAnswers
    Dev <- MCDev
    FirstFlags <- MCFirstFlags
    MaxReloads = 1
    MaxRequests = 2
INVARIANTS TypeOK ChangesAreNamed FlagsAsWritten ConfirmedAsTyped DryRunRunsNothing OneSkillForTheWeb ChatChangesRecorded
PROPERTY EveryRequestAnswered
CHECK_DEADLOCK FALSE
