SPECIFICATION AllSpec
CONSTANTS
  KeyOrder <- MCKeyOrder
  UidKey <- MCUid
  Strings <- MCStrings
  Numbers = {1}
  Iters = {i1}
  BLOCK = 2
  MaxCalls = 4
  NoIter = NoIter
  B = 2
  Width <- MCWidth
  Paths = {"a"}
  BadPaths = {"b"}
  FolderOf <- MCFolderOf
  Handles = {1, 2}
  Texts <- MCTexts
  WrittenValues = {1, 6}
  MaxSize = 2
  IoHandles <- MCIoHandles
  StdFile <- MCStdFile
  Stdin = "stdin"
  Stdout = "stdout"
  MaxLines = 1
  Files = {"f1", "f2", "f3"}
  Line <- MCLine
  LUAL_BUFFERSIZE = 2
  NULL = NULL
  Procs = {p1, p2}
  Iterators = {1}
  Locks = {1}
  Names = {"a"}
  LockName = "lockfile.lfs"
  Root <- MCRoot
  Modules = {"a", "b", "c"}
  Loader <- MCLoader
  Library <- MCLibrary
  Libraries = {"lib"}
  MaxDepth = 3
  Holders = {"o1", "o2"}
  Own <- MCOwn
  LuaTables = {"G", "M", "T"}
  Globals = "G"
  MetaTables = {"M"}
  FieldNames <- MCFieldNames
  Scalars = {"s"}
  Userdata = "U"
  NIL = "nil"
  LINK = "link"
  LuaCallBound = 3
  Careless = {}
  Values = {f, g}
  NoValue = NoValue
  KEYS = 64
  MaxPatts = 4
  MaxKeyNodes = 5
  Tables = {"t"}
  EntryNames = {"x", "y"}
  ScriptData <- MCScriptData
  EngineData <- MCEngineData
  MaxStrings = 2
  MaxTick = 1
  Messages = {m1, m2, m3}
  Colourless = {m2}
  Threads = {t1, t2}
  Main = t1
  SpewHabits = {}
  MaxOpens = 3
  Events = {"policy", "approve", "deny"}
  Attaching = {"policy"}
  Arguments <- MCArguments
  Checked = {"IsSecure"}
  Unchecked = {"CreateUnauthenticatedUserConnection"}
  BASE = 2
  Lookups = {q1, q2, q3}
  Unknown = Unknown
  CaresHabits = {}
  CaresDepth = 4
  Dlls = {"server", "engine"}
  lib_base <- MCBase
  SymTab <- MCSymTab
  SymbolNames = {"a", "b", "c", "d"}
  HashString <- MCHash
  START_SIZE = 1
  NoAddress = NoAddress
INVARIANTS
  IdsAreUnique
  StoreIsFaithful
  WrittenReadsBack
  FilesHaveOneHandle
  ReadsAreExact
  LocksExclude
  ModulesRunOnce
  ObjectsAreMeant
  KeysAreTheirs
  ReadersAgree
  EveryMessageOnce
  EventsLeaveNothing
  EveryLookupAnswered
  SymbolsAreTheirs
CHECK_DEADLOCK FALSE
