SPECIFICATION Spec
CONSTANTS
    LimbBits = 4
    Limbs = 4
    Modulus = 6659
    Operands <- SomeOperands
    FullModulus = 46337
    FullOperands <- SomeFull
    WideBits = 8
    WideModulus = 436277759
    WideOperands <- SomeWide
    Dividends <- SomeDividends
    Divisors <- SomeDivisors
    PairingField = 163
    Chain <- SomeChain
    MillerLoopNMax = 2
    Order = 13
    Multiples1 <- SomeMultiples1
    Multiples2 <- SomeMultiples2
    Exponents <- SomeExponents
    Elements <- SomeElements
    Elements2 <- SomeElements2
    LargeField = 7207
    SmallField = 19
    LargeCurve1 <- LargeE1
    SmallCurve1 <- SmallE1
    LargeInputs1 <- LargeE1Inputs
    SmallInputs1 <- SmallE1Inputs
    LargeCurve2 <- LargeE2
    SmallCurve2 <- SmallE2
    LargeInputs2 <- LargeE2Inputs
    SmallInputs2 <- SmallE2Inputs
    HalfBits1 = 6
    DigitBits2 = 3
    ShortScalar = 5
    LongScalar = 10
    Contexts = {c1, c2}
    GroupSize = 3
    PendingMax = 2
    Points <- SomePoints
    Factors = {NoArgument, 2}
    Hashes = {2}
    RawPairs <- SomeRawPairs
    Outside = Outside
    NoArgument = NoArgument
    ZeroProduct = ZeroProduct
    MaxCalls = 4
    Messages <- SomeMessages
INVARIANTS
    FieldAgrees
    PairingAgrees
    PointsAgree
    EncodingsAgree
    VerdictIsProduct
    UniquenessHolds
CHECK_DEADLOCK FALSE
