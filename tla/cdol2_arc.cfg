SPECIFICATION Spec
CONSTANTS
    Cards <- MCCards
    Terminals <- MCTerminals
    Inputs <- MCInputs
    Random <- MCRandom
    ScriptResults <- MCScriptResults
    Sha1 <- MCSha1
INVARIANTS
    SecondAcTellsTheArc
