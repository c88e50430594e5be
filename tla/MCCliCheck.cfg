CONSTANTS
  Inodes = {cwd}
  Dirents = {}
  Names = {}
  Devices = {1}
  HolderOf <- Empty
  NameOf <- Empty
  LinkOf <- Empty
  TargetOf <- Empty
  Meta <- MCMeta
  UnknownDType = {}
  Cwd = cwd
  NoInode = NoInode
  NoMeta = NoMeta
  None = None
  FnMatch <- MCFnMatch
  HiddenNames = {}
  IgnoredNames = {}
  UINT64_MAX = 1023
  INT64_MAX = 511
  UINT_MAX = 1023
  MODE_MAX = 63
  Multiplier <- MCMultiplier
  Invalid = Invalid
  DaySeconds = 10
  ReferenceMtime <- MCReferenceMtime
  Lines <- MCLines
  Ages = {}
SPECIFICATION Spec
INVARIANTS RefusedIffIllegal NumbersAreExact NoInternalError
