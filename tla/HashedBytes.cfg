SPECIFICATION HashSpec
CONSTANTS
    Q = 5
    MaxSigners = 3
    MinSigners = 1
    Suite = "plain"
    Messages = {1, 2}
    PairwiseKeys = {}
    Hsig <- MCHsig
    Hnon <- MCHnon
    Hs <- MCHs
    Base = 256
    PLen = 32
    SLen = 32
    PointRepr <- Reprs32
    ScalarRepr <- Reprs32
    SigningPackagesSeen <- SeenPackages
    VerifyingKeys = {1, 2}
    ByteArray <- In32Bytes
    PairKeyOf <- SumOfIds
    ViewsSeen <- SeenViews
    MaxDigests = 2
INVARIANTS
    HashInputsSeparate
CHECK_DEADLOCK FALSE
