SPECIFICATION Spec
CONSTANTS
  ScBits = 8
  M <- MCM
  ScFactor = 29297
  Strings <- MCStrings
  WideStrings <- MCWideStrings
  FeBits = 10
  Pad = 3
  FeFactor = 38659
  Elements <- MCElements
  FeStrings <- MCFeStrings
  FieldBits = 7
  P = 109
  D = 11
  SqrtM1 = 33
  Bx = 84
  By = 2
  Order = 13
  NBits = 16
  Multipliers <- MCMultipliers
  DoubleMults <- MCDoubleMults
  Few <- MCFew
  Digest <- MCDigest
  Seeds = {1, 2, 3}
  Messages = {4, 5, 6}
  Paths <- MCPaths
  Lanes <- MCLanes
  MaxRate = 3
  Base = 16
  Kinds <- MCKinds
  Chunks <- MCChunks
  Reads = {0, 1, 4}
  MaxMessage = 5
  MaxOutput = 5
  Inputs <- MCInputs
  ByteBits = 2
  Items <- MCItems
  Snapshots <- MCSnapshots
  Texts = {1, 2}
  MaxItems = 3
  MaxList = 20
  Width64 = 7
  Half64 = 64
  Width32 = 5
  Half32 = 16
  Signed64 <- MCSigned64
  Unsigned64 <- MCUnsigned64
  LogSizes = {4, 8}
  LogFiles = 2
  MaxWrite = 3
  MaxStream = 7
  SmallInts = 16
  VarBase = 64
  ItemLists <- MCItemLists
  Sources <- MCSources
  HashOf <- MCHashOf
  Signature <- MCSignature
  SignatureSize = 2
  PublicKeySize = 1
  Runlimit = 10000
  DataItems <- MCDataItems
  Operands <- MCOperands
  Stacks <- MCStacks
  Strings2 <- MCStrings2
  Checks <- MCChecks
  HashWords = 2
  WordBytes = 2
  ByteStrings <- MCByteStrings
  HexTexts <- MCHexTexts
  Headers <- MCHeaders
  Outcome <- MCOutcome
  Blocks <- MCBlockSet
  Receivers <- MCReceivers
  Predicates <- MCPredicates
  Arguments <- MCArguments
  Runlimits <- MCRunlimits
  Expirations <- MCExpirations
  BlockTimes <- MCBlockTimes
  Windows = {0, 3, 40, 63}
  MaxParts = 3
  SourceTexts <- MCSourceTexts
  Extras = {0, 1}
  MaxErrors = 5
  DataKeys = {1}
  Goroutines = {"g1", "g2"}
  MaxContexts = 4
  KeyTexts <- MCKeyTexts
  ValueTexts <- MCValueTexts
INVARIANTS
  ArithmeticExact
  GroupExact
  KeysAgree
  HashesRight
  TreesRight
  CheckedExact
  AssemblyRight
  ProgramsRun
  BlocksExact
  ResultsOwn
  LoggingRight
