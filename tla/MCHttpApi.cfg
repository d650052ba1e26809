SPECIFICATION Spec
CONSTANTS
  v = v
  w = w
  r1 = r1
  r2 = r2
  NoRequest = NoRequest
  Request = {r1, r2}
  Byte <- MCByte
  MaxLen = 2
  Value <- MCValue
SYMMETRY Symmetry
INVARIANTS TypeOK PrefixScanIsFilter DeleteFindsKey
