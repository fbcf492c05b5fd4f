SPECIFICATION RulesSpec
CONSTANTS
    Bits <- MCBits
    StringMax = 2
    Minus = Minus
    Letter = Letter
    NaN = NaN
    Infinity = 100
    Grain = 3
    FloatMax = 60
    Unknown = Unknown
    NoKey = NoKey
    MinOnTimeLimit = 2
    ReportLimit = 2
    TurnOnStep = 3
    StepsBits = 2
    Numbers <- MCNumbers
    Limits <- MCLimits
    Texts <- MCTexts
    Levels = {0, 1, 2, 3, 4}
    Seconds <- MCSeconds
INVARIANTS
    CodecSound
    ConstraintsExact
    ConfigSound
    CommandsAsAsked
CHECK_DEADLOCK FALSE
