SPECIFICATION Spec
CONSTANTS
    a1 = a1
    a2 = a2
    NoApp = NoApp
    App = {a1}
    Profile <- XdaProfiles
    CandidateList <- Single
    Terminal <- AttendedTerminal
    RestrictionResult <- NoBits
    RiskResult <- Floor
    HostResponse <- Replies
    MaxRetries = 0
INVARIANTS
    XdaFailureDeclines
