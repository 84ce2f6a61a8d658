SPECIFICATION Spec
CONSTANTS
    Q = 7
    MaxSigners = 3
    MinSigners = 2
    Suite = "plain"
    Messages <- TwoMessages
    PairwiseKeys <- MCPairwiseKeys
    Hsig <- MCHsig
    Hnon <- MCHnon
    Hs <- MCHs
    Dealings <- OddDealing
    Draws <- TwiceOnce
    MaxPackages = 2
INVARIANTS
    CompleteSessionVerifies
    ValidSignsOneSession
CHECK_DEADLOCK FALSE
