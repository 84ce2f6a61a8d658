SPECIFICATION Spec
CONSTANTS
    Q = 5
    MaxSigners = 3
    MinSigners = 2
    Suite = "bip340"
    Messages <- MCMessages
    PairwiseKeys <- MCPairwiseKeys
    Hsig <- MCHsig
    Hnon <- MCHnon
    Hs <- MCHs
    Dealings <- OddDealing
    Nonces <- OddNonces
    SignerSets <- AllSign
    Faulty = {2, 3}
    WrongKeys <- MCWrongKeys
    ZOffsets = {0, 1}
    ROffsets = {0}
    MayOmit = FALSE
    OutsideOpenings = FALSE
INVARIANTS
    HonestNotNamed
    AbortNamesFaulty
