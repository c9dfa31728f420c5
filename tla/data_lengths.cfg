SPECIFICATION Spec
CONSTANTS
    Cards <- LongInside
    Terminals <- MCTerminals
    Inputs <- MCInputs
    Random <- MCRandom
    ScriptResults <- MCScriptResults
    Sha1 <- MCSha1
INVARIANTS
    SignedInputIsRecordValues
