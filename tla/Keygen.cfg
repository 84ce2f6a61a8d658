SPECIFICATION KeygenSpec
CONSTANTS
    Q = 5
    MaxSigners = 3
    MinSigners = 3
    Suite = "bip340"
    Messages = {}
    PairwiseKeys <- Pairs
    Hsig <- MCHsig
    Hnon <- MCHnon
    Hs <- MCHs
    SCHEME_ID = "FaFROST-secp256k1-bip340"
    Keygens = {keygen1, keygen2}
    Addresses = {generateaddress}
    Spends = {spenddemo}
    Arguments <- KeygenArguments
    FixedLength = 3
    Mixed <- MixedNumbers
    Secrets <- TwoSecrets
    InitialFiles <- FilesFound
    NoFile = NoFile
    Garbled = Garbled
    Dealings <- AllDealings
    IdMaxs = {3, 7}
    Builds = {"debug", "release"}
INVARIANTS
    TypeOK
    WrittenKeyIsReadable
    LostOnlyInWrite
    LoopsDeal
PROPERTIES
    ImplementsKeyStore
    EveryDealEnds
