SPECIFICATION Spec
CONSTANTS
    Q = 5
    MaxSigners = 3
    MinSigners = 3
    Suite = "bip340"
    Messages <- OneMessage
    PairwiseKeys <- MCPairwiseKeys
    Hsig <- MCHsig
    Hnon <- MCHnon
    Hs <- MCHs
    Dealings <- AllDealings
    Draws <- Once
    MaxPackages = 1
INVARIANTS
    TypeOK
    CompleteSessionVerifies
    ThresholdNeeded
CHECK_DEADLOCK FALSE
