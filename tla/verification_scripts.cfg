SPECIFICATION VerificationAndScriptsSpec
CONSTANTS
    CvmLists <- SmallLists
    Ctx <- FullSupport
    PinTries = 2
    Messages <- SomeMessages
INVARIANTS
    LoopMatchesList
    RequirementLeavesNoTrace
    LostVerifyIsReported
    OfflineSuccessIsTheCards
    ResultsTellWhatHappened
    BitsMatchResults
PROPERTIES
    NoPinSparesTheCard
    SilenceAfterLoss
