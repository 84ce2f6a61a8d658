SPECIFICATION Spec
CONSTANTS
    Q = 5
    MaxSigners = 3
    MinSigners = 2
    Suite = "plain"
    Messages <- MCMessages
    PairwiseKeys <- MCPairwiseKeys
    Hsig <- MCHsig
    Hnon <- MCHnon
    Hs <- MCHs
    Dealings <- MCDealings
    Nonces <- MCNonces
    SignerSets <- TwoSign
    Faulty = {2}
    WrongKeys <- MCWrongKeys
    ZOffsets = {0}
    ROffsets = {0}
    MayOmit = FALSE
    OutsideOpenings = TRUE
INVARIANT OnlySignersNamed
