CONSTANTS
  st_a = st_a
  st_fid = st_fid
  Stores <- MCStores
  NameLen <- MCNameLen
  FID_STORE = st_fid
  Bytes = {1, 2}
  MAX_LEN = 2
  Sizes = {1, 2}
  MAX_BOOTS = 2
  NoKey = NoKey
  Unknown = Unknown
  NoData = NoData
  NoRead = NoRead
SPECIFICATION Spec
INVARIANTS
  ReadSeesAckedWrite
