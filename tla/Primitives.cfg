SPECIFICATION Spec
CONSTANTS
    LimbBits = 4
    NLimbs = 2
    Excess = 1
    A24 = 2
    Steps <- SmallSteps
    HashBlock = 4
    CounterMod = 8
    MacLimbBits = 7
    MacLimbs = 2
    ByteBits = 4
    BlockSize = 3
    StreamBlock = 2
    MacKeyLen = 1
    Scalar <- EachClamped
    UCoordinate <- EachU
    Modulus <- UpTo300
    HashKey <- Keys
    MaxHashed = 18
    MacKeys <- RAndPad
    MacByte = {0, 1, 15}
    MaxMaced = 5
    MaxChunk = 5
    AeadKey = {k1, k2}
    AeadNonce <- Nonces
    AeadText <- Texts
    AeadData <- Pieces
INVARIANTS
    FieldExact
    ConsecutiveMultiples
    ResultIsMultiple
    ChainInverts
    DigestOfWhole
    MacIsPolynomial
    TagFixesInput
    OpensOnlySealed
CHECK_DEADLOCK FALSE
