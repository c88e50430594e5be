CONSTANTS
  Inodes <- MCInodes
  Dirents <- MCDirents
  Names <- MCNames
  Devices = {1}
  HolderOf <- MCHolderOf
  NameOf <- MCNameOf
  LinkOf <- MCLinkOf
  TargetOf <- MCLinkOf
  Meta <- MCMeta
  UnknownDType = {}
  Cwd = "cwd"
  NoInode = NoInode
  NoMeta = NoMeta
  None = None
  FnMatch <- MCFnMatch
  HiddenNames = {}
  IgnoredNames = {}
  Configs = {}
  DefaultRoot = "r"
  Now = 9
  ArgNames <- MCArgNames
  PathCapacity = 4
  UINT64_MAX = 1023
  INT64_MAX = 511
  UINT_MAX = 65535
  MODE_MAX = 4095
  Multiplier <- MCMultiplier
  Invalid = Invalid
  DaySeconds = 10
  ReferenceMtime <- MCReferenceMtime
  CommandLines <- MCCommandLines
  Machines <- MCMachines
  WriterCapacity = 6
  EmitStackCapacity = 5
  Nul = Nul
  Newline = Newline
  Faults = {"cli_memory", "cli_store", "runtime", "context", "collector", "open", "attach", "walk", "silent", "write", "close"}
SPECIFICATION Spec
INVARIANTS TypeOK LifetimesNest ReleasesAll TruncatesOnlyForASearch ThreadsFit Delivered StoppedIs130
PROPERTY Terminates
