SPECIFICATION Spec
CONSTANTS
  Thrown = Thrown  Absent = Absent  s0 = s0  r0 = r0  Nonce = Nonce
  Unencodable = {"u-"}  Abbreviations <- mcAbbreviations
  AxisBits = 3  GroupBits = 3  WordBits = 11  ByteBits = 4
  Origins <- mcOrigins  Options <- mcOptions  Draw = r0  Axes <- mcAxes  Texts <- mcTexts  Numbers <- mcNumbers
  Payloads <- mcPayloads  Parties <- mcParties  Stray <- mcStray  Challenge = Nonce
  Claims <- mcClaims  Statuses <- mcStatuses  StatusLists <- mcStatusLists
  Requests <- mcRequests  Frames <- mcFrames
  MaxKeys = 2  MaxDIDs = 1  MaxTokens = 1  MaxRequests = 2
INVARIANT OwnCredentialsAreReadable
CHECK_DEADLOCK FALSE
