SPECIFICATION AllSpec
CONSTANTS
  R = 16
  Functions <- MCFunctions
  FunctionAt = 20
  Objects <- MCObjects
  DetourAt <- MCDetourAt
  BackupAt <- MCBackupAt
  TrampolineAt <- MCTrampolineAt
  Cells = {c1, c2}
  Wraps = {w1, w2, w3}
  NoCell = NoCell
  Byte = 3
  NET_MESSAGE_BITS = 2
  MsgBits <- MCMsgBits
  NetMsgs = {"Tick"}
  Packets <- MCPackets
  Scripts = 2
  Room = 9
  PacketHabits = {}
  Blocks = {"b1", "b2"}
  Views = {"v1", "v2"}
  ByteBits = 2
  Formats <- MCFormats
  Counts = {4}
  BitNumbers <- MCBitNumbers
  Words <- MCWords
  Sizes = {2}
  Fills = {1}
  StringRoom = 2
  NoMemory = NoMemory
  BufferHabits = {}
  FragmentAt = {f1, f2}
  BufferAt = {b1, b2}
  MAX_STREAMS = 2
  Indices <- MCIndices
  FileFields = {"total"}
  SizeFields = {"total"}
  CountFields = {"total"}
  TimeFields = {"rate"}
  ModeFields = {"rate"}
  SubFields = {"rate"}
  FieldValues = {1}
  NULLPTR = NULLPTR
  UNSET = UNSET
  QueueRoom = 2
  Reckless = {}
  Targets = {10, 20}
  ThreadsOf <- MCThreadsOf
  MapOf <- MCMapOf
  Stripped = {3}
  WithThreads = {2}
  FailsAt = {"attach", "thread", "peek"}
  MaxAsked = 2
  Dim = 2
  Points <- Plane
  Query <- AskedPoints
  Ranges = {0, 1, 2}
  MaxNodes = 4
INVARIANTS
  CallsRunTheChain
  LivesWithItsUserdata
  MessagesPassOn
  MessagesReadBack
  ChannelOwnsItsQueue
  PstackLetsGo
PROPERTY Refines
CHECK_DEADLOCK FALSE
