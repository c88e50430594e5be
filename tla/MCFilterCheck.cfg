CONSTANTS
  Inodes = {cwd}
  Dirents = {}
  Names <- MCNames
  Devices = {1}
  HolderOf <- Empty
  NameOf <- Empty
  LinkOf <- Empty
  TargetOf <- Empty
  Meta <- MCMeta
  UnknownDType = {}
  Cwd = cwd
  NoInode = NoInode
  NoMeta = NoMeta
  None = None
  FnMatch <- MCFnMatch
  HiddenNames = {}
  IgnoredNames = {}
  OptionSets <- MCOptionSets
  Candidates <- MCCandidates
  Now = 8
SPECIFICATION Spec
INVARIANTS VerdictMatchesReference VerdictIsFinal StatIsLazy
