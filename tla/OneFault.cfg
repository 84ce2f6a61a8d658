SPECIFICATION Spec
CONSTANTS
    Q = 5
    MaxSigners = 3
    MinSigners = 2
    Suite = "plain"
    Messages <- MCMessages
    PairwiseKeys <- MCPairwiseKeys
    Hsig <- MCHsig
    Hnon <- MCHnon
    Hs <- MCHs
    Dealings <- OddDealing
    Nonces <- OddNonces
    SignerSets <- AtLeastTwo
    Faulty = {2}
    WrongKeys <- MCWrongKeys
    ZOffsets = {0, 1}
    ROffsets = {0}
    MayOmit = TRUE
    OutsideOpenings = FALSE
INVARIANTS
    TypeOK
    IInv
    HonestNotNamed
    LoneFaultNamesNoHonestSigner
    AbortNamesFaulty
    HonestPairsAgree
    OpensOnlyTowardsFaulty
    FaithfulSharesSign
PROPERTIES
    AbortIsDecided
    ImplementsAccountableSigning
    FailuresAreAttributed
