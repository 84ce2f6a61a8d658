SPECIFICATION Spec
CONSTANTS
    Q = 5
    MaxSigners = 3
    MinSigners = 1
    Suite = "plain"
    Messages = {1, 2}
    PairwiseKeys = {}
    Hsig <- MCHsig
    Hnon <- MCHnon
    Hs <- MCHs
    Base = 3
    PLen = 2
    SLen = 2
    PointRepr <- PointReprs
    ScalarRepr <- ScalarReprs
    OtherReprs <- OtherRepr
    Rfc8032 <- MCRfc8032
INVARIANTS
    DecodeInvertsEncode
    Ed25519VerifiersAgree
CHECK_DEADLOCK FALSE
