CONSTANTS
  ptz = ptz
  body = body
  Clients = {a, b}
  Sources <- MCSources
  MainCodec <- MCMainCodec
  SubCodec <- MCSubCodec
  CapsReports <- MCCapsReports
  NoClient = NoClient
  NoSource = NoSource
  NoCodec = NoCodec
SYMMETRY ClientSymmetry
SPECIFICATION Spec
INVARIANT TypeOK
INVARIANT NobodyAbsentHolds
INVARIANT NewsReachesAll
