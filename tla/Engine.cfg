SPECIFICATION FairSpec
CONSTANTS
    None = None
    Callers = {w, a}
    Warmup = w
INVARIANT CpuGeneratesLoaded
INVARIANT BuildsBounded
INVARIANT OwnAnswerInTurn
INVARIANT FailureIsRetried
INVARIANT ChipNeverLies
PROPERTY CallsReturn
