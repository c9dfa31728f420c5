SPECIFICATION ScenarioSpec
CONSTANTS
    a1 = a1
    a2 = a2
    NoApp = NoApp
    App = {a1, a2}
    Profile <- SomeProfiles
    CandidateList <- AllLists
    Terminal <- AllTerminals
    RestrictionResult <- Expiry
    RiskResult <- Floor
    HostResponse <- AllReplies
    MaxRetries = 1
INVARIANTS
    TypeOK
    ApprovalRestsOnTc
    BadCdaStaysOffline
    ArcMatchesDecision
    XdaFailureIsHonoured
    NoForeignData
PROPERTIES
    ImplementsProtocol
    ChoiceIsTheCardholders
    FirstAcOnce
    CallReturns
