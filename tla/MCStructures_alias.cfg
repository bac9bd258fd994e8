SPECIFICATION MCSpec
CONSTANTS
  Parts = {"pdu"}
  Nodes = {n1, n2, n3, n4}
  Ids = {i1, i2}
  NULL = NULL
  Kinds = {"LL", "DL", "CDL", "HASH"}
  MaxLength = 5
  Keys = {1, 2, 3}
  Members = {1, 2, 3}
  Items = {1, 2, 3, 4, 5}
  HashValues = {0, 1, 4}
  InitialBuckets = 1
  Thresh = 1
  BloomBits = 2
  MaxBuckets = 32
  HostLengths = {12}
  PathLengths = {13, 14, 255}
  BlockLengths = {1}
  ListMax = 3
  TokenLengths = {0, 1, 8}
  MaxSize = 1400
  ReceivedTypes = {3, 11, 23, 60, 259}
  ReceivedMax = 4
  Filters = {{3}, {11, 65}, {23, 27}}
  ALL = ALL
  Second = 1000000000
  Delay = 20000000
  Instants = {0, 1, 979999998, 979999999, 980000000, 980000001, 999999999}
  Base = 3
  Bytes = 3
  Requests = 30
  Codes = {0, 1, 2, 31, 32, 63, 64, 69, 132, 191, 192, 255}
  Mids = {1, 2}
INVARIANT CheckFindsType
CHECK_DEADLOCK FALSE
