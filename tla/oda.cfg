\* Offline data authentication: certificate chains and dynamic signatures.
SPECIFICATION Spec
CONSTANTS
    CaOverhead <- MCCaOverhead
    IssuerOverhead <- MCIssuerOverhead
    Cards <- MCCards
    Terminals <- MCTerminals
    Faults <- MCFaults
    Cdol1 <- MCCdol1
    Cdol2 <- MCCdol2
    Children <- MCChildren
    RsaKeys <- MCRsaKeys
    EccKeys <- MCEccKeys
    Expiries <- MCExpiries
    Serials <- MCSerials
INVARIANTS
    AuthenticatedIsGenuine
    GenuineIsAuthenticated
    SignatureBindsExchange
PROPERTY SecondDoesNotRepair
