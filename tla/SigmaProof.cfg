SPECIFICATION Spec
CONSTANTS
    Q = 3
    MaxSigners = 2
    MinSigners = 2
    Suite = "bip340"
    Messages <- MCMessages
    PairwiseKeys <- MCPairwiseKeys
    Hsig <- MCHsig
    Hnon <- MCHnon
    Hs <- MCHs
    Package <- MCPackage
    VerifyingKey = 2
    Prover = 1
    Witnesses <- Secrets
    Coins <- Secrets
    Statements <- MCStatements
    Commitments <- MCCommitments
    Responses <- MCResponses
    MaxAnswers = 2
INVARIANTS
    HonestProofsAccepted
    TwoAnswersGiveWitness
CHECK_DEADLOCK FALSE
