SPECIFICATION KeyUsesSpec
CONSTANTS
    Q = 7
    MaxSigners = 3
    MinSigners = 3
    Suite = "bip340"
    Messages = {1}
    PairwiseKeys <- MCPairwiseKeys
    Hsig <- MCHsig
    Hnon <- MCHnon
    Hs <- MCHs
    SecretKey = 5
    Deals = {1, 2}
    Random <- MCRandom
    Signers = {1, 2, 3}
    SignerNonces <- MCSignerNonces
    Message = 1
    Dealings <- SpendDealings
    Nonces <- SpendNonces
    Amounts = {0, 800}
INVARIANTS
    TypeOK
    SessionTypeOK
    PrintedSpendsAddress
    TwoSignersSpend
    NegationNamesSigners
    VerifiersAgree
    OnlyOneDealSigns
    NamesOtherDeals
