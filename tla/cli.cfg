SPECIFICATION TestSpec
CONSTANTS
    a1 = a1
    a2 = a2
    NoApp = NoApp
    App = {a1}
    Profile <- CardProfiles
    CandidateList <- KeyboardLists
    Terminal <- InstalledTerminals
    RestrictionResult <- Expiry
    RiskResult <- Floor
    HostResponse <- Replies
    MaxRetries = 0
    Invocation <- Invocations
    Installed <- InstalledFiles
    TwoHexDigits <- HexCodes
    Typed <- Lines
PROPERTIES
    TestImplementsProtocol
    AgreesWithFlow
