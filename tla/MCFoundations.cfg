SPECIFICATION Spec
CONSTANTS
    Limbs = 6
    EvenBits = 5
    Fold = 3
    ByteBits = 4
    Prime = 61
    d = 2
    SqrtM1 = 11
    BaseX = 3
    BaseY = 8
    FieldBits = 6
    ScalarBits = 16
    Digest <- Digests
    ScLimbs = 4
    ScBits = 3
    FoldLimbs <- FoldFactors
    Seed = {s1, s2}
    Password = {p1, p2}
    Payload = {x1, x2}
    LimbValues <- LimbSamples
    ByteValues <- ByteSamples
    BaseScalars <- BaseSamples
    PointScalars <- PointSamples
    ScalarValues <- ScalarSamples
    WideValues <- WideSamples
    Installations <- Places
INVARIANTS
    FieldRight
    CurveRight
    ScalarsRight
    WalletRight
    GateRight
CHECK_DEADLOCK FALSE
