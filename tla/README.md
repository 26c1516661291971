# gbins in TLA+

gbins is a collection of binary modules for Garry's Mod servers. Every directory
builds one library that a Lua state loads; they share no state with each other
beyond that Lua state, so each is a system of its own. This project models those
whose control is hard to get right and hard to test: worker threads next to the
Lua thread, hooks that scripts and the engine re-enter, handles the collector
closes, a store that crashes, code patched in place, a compiler with
optimizations.

## Inventory

| part | state it keeps | operations | what is hard | what makes it correct |
|---|---|---|---|---|
| **navigation: A\* search** (`nav.cpp`, `node.cpp`) | per node: opened, closed, F, G, parent; the list `opened`; the path | begin, close the lowest, open a connection, walk back | runs on a worker under `Nav::lock` while scripts edit nodes without it; marks and parents survive from one search to the next; `opened` holds duplicates | a found path is a shortest walk; "not found" is right; every search ends |
| **navigation: jobs** (`main.cpp`) | `JobQueue`, threads and flags, the lock, `generating`, `generated` | queue, poll, callbacks, join, shut down | callbacks that raise, queue jobs or poll again; shutdown while threads run | each callback once; no deleted job in the queue; workers read live nodes; shutdown returns |
| **navigation: graph and file** | `nodes`, ids, connections, kd-tree, start and end, the file | create, connect, remove, move, save, load, look up | pointers both ways; ids are indexes that shift; the tree copies positions | scripts see the graph they made; `Load` restores it |
| **navigation: generation** | visited directions, parents, seeds, the phase | take a seed, explore a direction, pop | a flood fill without a stack; snapping; ground height | ends, explores all that can be walked, no node twice in a place |
| **navigation: kd-tree** (`kdtree.cpp`) | tree, bounding box | insert, clear, nearest, range | pruning at boundaries, duplicates | it is a collection of points |
| **sourcenet: hooks** (`main.h`, `gl_hooks.cpp`, `vfnhook.h`) | the list of Lua states, patched virtual tables | open, close, attach, detach, a hooked call | calls nest in callbacks and originals; states come and go meanwhile | every open state is told once; the right original runs |
| **sourcenet: messages** (`gl_hooks.cpp`, `net_chan.cpp`) | read and write buffers | rewrite a packet, parse it | one script writes what the next reads; the channel goes in the middle | the next reads what the last wrote |
| **sourcenet: network objects** | blocks, views, channels, fragments | read and write bits, queue and delete fragments | widths and signs; two owners of one fragment | what is written reads back; nothing is freed twice |
| **hooking** (`detours.h`) | a detour's trampoline and backup | create, revert | several detours on one function, relocation both ways | calls run the chain; the code is restored |
| **leveldb** | the store, an iterator, a block of ids | open, put, get, seek, next, ids | crash, repair, unnoticed write errors | ids are unique; iterators read the store |
| **vfs** | handles, the engine's files | open, typed reads and writes, seek, CRC32, collect | positions that calls leave behind | what is written reads back |
| **luaiox, lfs, luaload** | handles and what closes them; directories and locks; loaded modules | io, lfs, require2 | collection, errors in the middle, two processes | right closer once; exact reads; locks exclude; a body runs once |
| **backwards_headers** | Lua's stack, registry and tables behind objects | every operation of `ILuaObject`, `ILuaInterface` | push and pop counts, references | objects mean what callers mean |
| **pvs** | objects behind userdata | create, collect, delete, poll | several owners, addresses used again | an object lives as long as it is counted on |
| **cares, gsapi** | lookups under way; a context that outlives the Lua state | resolve, call, close; events | callbacks inside callbacks and at close; two globals for the stack | each lookup is told once, at the latest when the module closes; events leave nothing |
| **stringtables** | the engine's tables | add, set, read | data by C string and by length | readers agree |
| **enginespew, xterm** | the chain of output functions, `inspew` | print, hook, warn, load, close | the hook prints; other threads print; two modules in one chain | every message once |
| **sigscanning** | two caches of symbols | resolve | answers depend on what was read before; a table that grows | an address is that of the symbol asked for |
| **nixinfo: pstack** | processes and threads stopped by ptrace | attach, read, crawl, let go | a signal between any two calls | nothing stays stopped |
| **lpeg** | trees, their tables of values, code, the machine's stack, captures | construct, compile, match, evaluate | four kinds of optimization; captures that are overwritten | code means what the pattern means |
| the rest | none, or a pointer to an engine interface | getters and setters, one call each | - | - |

Hazards are listed with their lines in `PROJECT.json`.

## Modules

| module | models | code |
|---|---|---|
| `NavSearch` | one search at a time, interleaved with the script's edits and `abort` | `nav.cpp`, `node.cpp` |
| `NavJobs` | the queue, `nav.Poll`, workers, lock and shutdown (boost build) | `main.cpp`; `nav.cpp` |
| `NavGraph` | the graph under edits and lookups, and the file | `nav.cpp`, `main.cpp` |
| `NavGen` | extends `NavGraph` with seeds and the worker of a generation | `nav.cpp` |
| `KdSet`, `KdTree` | what `Nav` expects of a kd-tree, and the tree that implements it (`Refines`) | `kdtree.cpp` |
| `NetHooks` | Lua states, hooks on virtual functions, nested hooked calls | `sourcenet/src` |
| `NetMessages` | the messages of a packet handed from script to script | `gl_hooks.cpp`, `net_chan.cpp` |
| `SnBuffers`, `SnChannel` | bit buffers on shared blocks; channels, fragments and their queues | `gl_bitbuf_*.cpp`, `gl_cnetchan.cpp`, ... |
| `Detours` | detours of one function, in machine code | `detours.h` |
| `PvsObjects` | objects behind userdata | `pvs/src` |
| `Pstack` | pstack and its signal handler | `pstack.c` |
| `LevelDb` | the store, iterators, ids, crashes | `leveldb/src` |
| `Vfs`, `LuaIo`, `Lfs`, `LuaLoad` | handles; io; directories and locks; modules | `VFS.cpp`, `lioxlib.c`, `lfs.c`, `luaload/src/main.c` |
| `LuaObjects` | `ILuaObject` and `ILuaInterface` over Lua's stack and registry | `backwards_headers` |
| `StringTables`, `EngineSpew`, `GsApi`, `Cares`, `SymbolFinder` | the modules they are named for | see `PROJECT.json` |
| `LpegTree`, `LpegCode`, `LpegVM`, `LpegCap`, `LpegValue` | constructors and analyses; compiler; machine; captures; values | `lptree.c`, `lpcode.c`, `lpvm.c`, `lpcap.c` |
| `Peg` | what a pattern means, the definition `LpegVM` is checked against | `lpeg` |
| `LpegKeys` | the tables of Lua values that patterns share and join | `lptree.c` |
| `NavSearchProofs`, `NavJobsProofs`, `NavGraphProofs` | theorems about the module each is named for | |
| `NetHooksProofs` | theorems about `NetHooks`, `NetMessages` and `SnBuffers` | |
| `StorageProofs` | theorems about `LevelDb` and `Vfs` | |
| `EngineProofs` | theorems about `PvsObjects`, `Pstack`, `SnChannel`, `KdTree` and `SymbolFinder` | |
| `LibraryProofs` | theorems about `GsApi`, `LuaLoad`, `Cares`, `Lfs`, `LuaIo`, `StringTables`, `EngineSpew`, `LpegKeys`, `LuaObjects` | |
| `SeqLemmas` | facts about naturals, sequences and recursive functions they cite | |
| `MC*` | instances for TLC | |

How they compose: `NavGen` extends `NavGraph`, and its script's actions are
those of `NavGraph`. `NavJobs` takes a search for "runs, then done", which
`NavSearch!SearchEnds` justifies, and a generation for "runs, marks, clears",
which `NavGen!GenerationEnds` justifies. `KdTree` implements `KdSet`. `LpegVM`
extends the compiler, the captures and the meaning of patterns: a behaviour
compiles a tree, runs the code and evaluates the captures. `EngineSpew` has the
two modules that hook one function. `MCLibraries`, `MCEngine` and `MCShared` put modules
that share nothing side by side: `which`, chosen by `Init`, says which one runs
while the others rest, so that one run has the states of each by itself (a sum,
not a product). Constants are shared by name.

### How state and actions correspond to the code

* **NavSearch.** `pc` is where `ExecuteFindPath` is: `"loop"` at the head of the
  while loop, `"expand"` in the loop over directions, `"walk"` in the loop that
  fills the path. One turn of a loop is one action, so edits come between any
  two. `BeginSearch` is everything up to the loop, `Reset` included; parents and
  scores of earlier searches stay. `FindLowestF` keeps the code's treatment of a
  score of 0. Distances are naturals.
* **NavJobs.** One Lua thread: in the script, in activations of `nav.Poll`
  (`polls`, a stack), or in `Shutdown` (`at` is its index). `thread` follows the
  stages of a boost thread. Reading a freed job ends in `"crashed"`. `Habits`
  says what the script does beyond well-behaved use.
* **NavGraph.** Nodes are heap cells, every binding is one action. `Load` builds
  nodes in any cells. A behaviour has one `script`, a set of uses. Two mistakes
  nothing guards against, "overwrite" (a connection into a slot that is taken) and
  "remove ends" (removing the node chosen as start or end), each break
  `ScriptsSeeTheGraph` and are in no script of the runs.
* **NavGen.** `Explore` is one direction with the whole of `AddNode`; `Pop` and
  `SeedStep` are the moves of `SampleStep` before it. The map is a `terrain` of
  solid intervals per column, walls, and free air positions; `Ground` is
  `GetGroundHeight` with its ten traces. The number of directions, the grid and
  the mask stay as they are during a generation.
* **KdTree.** Insertion descends as `insert_rec` does; `Nearest` and
  `FindNearest` leave the farther subtree out where the code does, with the
  bounding box sliced as the code slices it. The refinement mapping forgets the
  links and keeps the points and the last answer.
* **NetHooks.** `slots`, `list` and `free` are the slots of `g_LuaStates`, a
  `CUtlLinkedList` of the engine's SDK, modelled from its use. `frames` is the
  C++ stack of hooked calls, each with its phase and loop index.
* **NetMessages.** A packet is a sequence of cells, each a bit of a message; the
  write buffer of one script becomes the read buffer of the next by `Restarted`.
  Scripts that read ahead of what they write, leave a ragged last byte, or close
  the channel on a file request are habits, each of which breaks
  `MessagesPassOn`. What messages do is the engine's: any outcome.
  The patch of the net thread is left out; on Windows `Close` looks for it by a
  signature that the patch itself has overwritten (`main.cpp:46`, 691).
* **SnBuffers, SnChannel.** Bits are what the wrappers choose to write: width,
  mask, sign. The habit "negative" (a negative `WriteChar` or `WriteShort`, which
  the mask turns into a number the engine does not write with that width) breaks
  `MessagesReadBack`. A script keeps five rules no call checks (`Reckless` names
  those it breaks): a fragment is queued once, with every field set and a buffer
  of its own, and neither is deleted while queued; each, dropped, breaks
  `ChannelOwnsItsQueue`. A new fragment's fields are unset, as `new
  dataFragments_t` leaves them.
* **Detours.** Memory is bytes, an address two of them, so a jump takes three.
  A constructor that throws after it has redirected the function leaves it so
  (`stuck`). The disassembler is modelled by what `Detour` asks of it.
* **PvsObjects.** `allocated` is `m_allocated`, a set of addresses that are used
  again. `CheckCluster` lets `cluster == count` and negative ones pass, and
  `GetList` leaks a reference; neither touches the state modelled.
* **Pstack.** Every place between two calls of ptrace is a `phase`, a signal may
  come at each. One between attaching to a thread and recording it leaves that
  thread stopped; the property excepts it. `crawl(...) != 1` (pstack.c:774) reports
  an error for stacks it read well; reports are left out.
* **LevelDb.** `disk` is what the next process finds. `put` gets its error
  pointer by value, so a failed write is not noticed (`lost`); freeing the error
  of `checkError` frees the address of a local, which ends the process; a repair
  leaves `db` null, so that `Init` crashes and the next start finds a repaired
  store. `Shutdown` closes nothing.
* **Vfs.** A handle is the pointer a script holds, `content` the bytes of the
  engine's file. `IsEOF` and `CRC32` push their result as a stack position, so
  scripts do not get it; their effect on the file's position is modelled. A
  failed `Open` still makes the folder.
* **LuaIo, Lfs, LuaLoad.** What closes a handle is found in the environment of
  the function that made it. A lock of `Lfs` keeps a relative path, so that its
  release from another working directory unlinks another name: `astray` marks
  that and the property excepts it. A body of `LuaLoad` may raise, require and
  set its own entry.
* **LuaObjects.** Every operation is the sequence of pushes, calls and pops of
  the code over a machine with Lua's stack, registry and tables; `meant` is what
  callers mean. A table made anew, perhaps where one that is gone was, has no
  members (`Made`). `ErrorNoHalt` hands on its format instead of the text. `SetNil`,
  a wrapper set to itself and `GetAllTableMembers` leave the stack shifted: they
  are the set `Careless`, and each breaks `ObjectsAreMeant`.
* **StringTables.** Data is a sequence of bytes with a length; some readers take
  it for a C string. Data of the engine without a 0 is read beyond its end (the
  FIXME at `main.cpp:158`), which the property excepts. `SetData` keeps a Lua string
  up to its first 0; `stored` is that text, so `ReadersAgree` does not speak of what
  is lost behind it.
* **EngineSpew.** `spews` has the calls of output functions each thread is in;
  `hooked` the modules in the order of loading. Lua closes its modules the last
  first; closed in another order ("unordered") the engine prints through a
  module that is gone. A missing `hook` table, which panics, a module loaded
  twice in a process, and unloading while another thread prints are left out.
* **GsApi.** The context outlives the Lua state and attaches by an event.
  `CreateUnauthenticatedUserConnection` lacks the check the others begin with
  (`Unchecked`). `m_mapCallResults` is never filled: what would fill it is
  commented out.
* **Cares.** `frames` is the C stack: `__Call`, the callbacks in it, and closing.
  c-ares (1.10.0, `getcares.cmd`) is external: a lookup is one query; `begun` is
  its list `all_queries`. `ares_destroy` walks that list and goes on to the query
  behind before it ends one and runs its callback (`CloseAnswers`), so a lookup
  that a callback begins is come to as well, unless it begins while the last query
  of the list is told: such a lookup is in `late`, is never told, and is the one
  exception of `EveryLookupAnswered`. A script that calls from a coroutine, drops a
  name that is pending, lets `cares.Callback` raise, or calls `__Call` in a callback
  that tells the end of a query, which c-ares frees only afterwards, has a habit of
  `CaresHabits`; each breaks `EveryLookupAnswered`.
* **SymbolFinder.** `tables` has for every load address the place where the last
  successful search stopped and what was passed. Of a name that occurs twice
  `ResolveSymbol` always answers the first; `SymbolFinder` answers the first or a
  later one, as it depends on what was asked before. A library loaded where
  another was is answered with the other's symbols: the instance gives each an
  address of its own.
* **Lpeg.** Code is a sequence of slots as wide as an `Instruction`; the machine
  has one action for each instruction. `StacksHold` has the assertions of `lpvm.c`
  on its stack. The one on the values of match-time captures (`lpvm.c:165`;
  `DynamicsCounted`) does not hold: `BackCommit` drops the captures of a predicate and leaves their
  values and the count, and a match-time capture that lets the match fail leaves the
  values it took off the Lua stack in the count. `NDEBUG` (`lptypes.h:12`) compiles
  the assertion out, and what holds all the same is `DynamicsHeld`, the other part
  of `StacksHold`: every match-time capture of the list finds its value on the Lua
  stack, in the order of the list. `LpegKeys` models the tables of values apart from
  the trees.
  `hascaptures` (`lpcode.c:130`) does not look into the rule a call names, so
  `codeand` and `codecapture` lose captures of called rules; `MCLpeg` leaves
  those grammars out.

## Runs

Bounds are constants of the instances; each is named where it is declared.

| run | instance | shows |
|---|---|---|
| `MCNavSearch` | 4 nodes, 3 directions, 12 graphs, 5 requests, two heuristics, hull and abort | found paths are shortest walks; "not found" is right |
| `MCNavSearchEdits` | 3 nodes; the script disables and connects one and traces answer anything, or it moves the node and changes the heuristic to one that overestimates | a found path has its ends; searches end |
| `MCNavJobs` | 3 jobs of one nav, raising callbacks, `Generate` while generating | queue, heap and threads agree; workers read live nodes; started jobs are served; shutdown returns |
| `MCNavJobsReenter` | all habits, callbacks that call `nav.Poll` too | a callback is started once |
| `MCShared` | `NavGraph` with 3 cells, 2 directions, 3 places, several scripts; or `NetHooks` with 3 Lua states, 2 classes, 2 hooks, calls 2 deep, no bad habit | what scripts see of the graph is what they made, `Load` restores it; every state open all along is told once, the right original runs, detaching restores |
| `MCNavGen` | 3 grid squares, 5 terrains, 2 seeds | generation ends and covers the ground |
| `MCLpeg` | some thousand patterns of two and more operators, subjects up to 3 characters | answers and values are those of `Peg`; the machine's stack and the values on Lua's are what instructions take them for |
| `MCLibraries` | twelve modules, one at a time | one property of each (two of `LevelDb` and of `LuaIo`) |
| `MCEngine` | seven modules, one at a time | one property of each |
| `MCNavGenStray` (violation) | 2 squares, seeds above each other | `Load`'s guard lets an id through that is no index |
| `MCLpegCount` (violation) | match-time captures in predicates and in a failing match-time capture | the assertion on the count of their values fails |
| `MCPvsStale` (violation) | 2 addresses, 3 userdata | the userdata of a deleted object reaches the next object at its address |

Why the bounds are enough. A search needs three nodes to reopen one by a shorter
way and a fourth for the detour not to be the end; searches follow each other
without limit. Three jobs are one in a callback, one it queues and one behind
both. Three cells give a node removed before, at and after another. Three squares
have a node with both neighbours. Four points build every shape of a tree with a
subtree that can be left out below another. Three states are one that opens or
closes while others are told; calls two deep are one in a callback and one in an
original. Two operators put every optimization of the lpeg compiler next to every
other; three characters are one that is decided on, one that follows and one to
fail at. Blocks of two ids, buffers of two characters and files of two bytes put
the boundary within reach of the calls allowed. Three detours meet on one function, one below and one above another;
two buffers and two fragments are one queued and one being made; two processes
contend for a lock; three lookups are one answered, one begun by its callback and
one pending at close. Three loads give both orders of the two output modules and
a second loading. A hash table that starts with one bucket grows twice over four
symbols.

Deadlock is checked in `MCNavSearch*`. It is not in the others: a bounded script
has nothing left to do, a module that is closed or a process that has ended does
nothing. `MCNavJobsReenter` and `MCShared` use symmetry: their properties are
safety, and no constant tells the symmetric values apart; in `MCShared` the cells of
a graph and the Lua states are the same three values, of which each of its two
modules knows one meaning.

Behaviour that is left to chance in the code (memory that is not set, what a
signal interrupts, answers of the engine, of Steam, of the resolver and of the
file system) is a choice over every outcome.

## Fairness

* `NavSearch`: the worker is a thread that never blocks inside a search:
  `WF(SearchStep)`. The script owes nothing.
* `NavJobs`: weak fairness of each worker, of `nav.Poll` (the Think hook calls
  it every tick while the module is loaded) and of `Shutdown`. The lock is
  handed over by weak fairness of the waiting worker only while it is free;
  `Served` holds because the jobs are finitely many.
* `NavGen`: `WF(Worker)`.
* `LpegVM` states safety: `match` runs to completion on the Lua thread. The other
  modules do what scripts, the engine and the operating system ask of them, and
  these owe nothing.

## Proofs

A proved property holds for every value of the constants; the runs check the same
one on small instances. Of the properties the passing runs check, 31 are proved.
What a proof assumes of the constants is named `...Assumption` in the module that
declares them and evaluated by TLC on the instances; what it assumes of the script
is a hypothesis of the theorem, for what the code does not guard against: edits
while a search runs, places and heuristics, and the habits of scripts that the
modules name (see `Habits` and its like above).

| property | theorem | hypotheses beyond the types of the constants |
|---|---|---|
| `FoundPathHasItsEnds` | `FoundPathEnds` | - |
| `NotFoundMeansUnreachable` | `FalseMeansNoWay` | `Undisturbed`: the script edits nothing |
| `FoundPathIsShortest` | `FoundIsShortest` | `Undisturbed`, `DistinctPlaces`, `ConsistentHeuristics` |
| `CalledOnce` | `OnceCalled` | - |
| `QueueIsLive` | `LiveQueue` | `NoReentry`: no callback calls `nav.Poll` |
| `SearchReadsLiveNodes` | `LiveNodes` | `NoReentry`; `NoMix`: nodes are not replaced under one's own search |
| `ScriptsSeeTheGraph`, `LoadRestores` | `GraphIsSeen`, `SavedGraphReturns` | `Careful`: no start or end is removed, and a script that removes nodes overwrites no connection |
| `EveryStateIsTold`, `RunsOwnOriginal`, `DetachRestores` | `StatesAreTold`, `OwnOriginal`, `Restores` | `HookHabits = {}` |
| `IdsAreUnique`, `StoreIsFaithful` | `UniqueIds`, `StoreStaysFaithful` | - |
| `LivesWithItsUserdata` | `ThingsLiveOn` | - |
| `PstackLetsGo` | `PstackAlwaysLetsGo` | - |
| `ChannelOwnsItsQueue` | `ChannelOwns` | `Reckless = {}` |
| `EventsLeaveNothing` | `EventsBalance` | - |
| `ModulesRunOnce` | `BodiesRunOnce` | - |
| `EveryLookupAnswered` | `LookupsAreAnswered` | `CaresHabits = {}` |
| `LocksExclude` | `LocksDoExclude` | - |
| `FilesHaveOneHandle` | `HandlesOwnFiles` | - |
| `ReadersAgree` | `ReadersDoAgree` | - |
| `EveryMessageOnce` | `MessagesComeOnce` | `"unordered" \notin SpewHabits` |
| `KeysAreTheirs` | `KeysStayTheirs` | - |
| `Refines` (`KdTree` implements `KdSet`) | `TreeIsASet` | - |
| `ReadsAreExact` | `ReadsComeExact` | `LineAssumption`: `fgets` has room for a character |
| `WrittenReadsBack` | `FilesReadBack` | - |
| `MessagesPassOn` | `MessagesArePassedOn` | `PacketHabits = {}` |
| `MessagesReadBack` | `ReadBackAsWritten` | `"negative" \notin BufferHabits` |
| `SymbolsAreTheirs` | `SymbolsFound` | `SymAssumption`: no library is loaded where another was |
| `ObjectsAreMeant` | `ObjectsMeant` | `Careless = {}` |

The library's induction theorems take an operator, which no backend can
instantiate. `SeqLemmas` has what stands in for them, from the well-foundedness of
`<` by `WFMin`: induction over a set of naturals (`NatInduct`, `StrongInduct`,
`RangeInduct`, and `TreeInduct` for links that lead up), and that functions defined
by recursion exist (`PrimRec`, `RangeRec`, `CourseRec`, `TreeRec`), given the step
as a function. From these come `FlattenFacts` and `FlattenAppend` (what
`FlattenSeq` does with one more part), and for each recursive function of a model
what it computes.

None of these properties is inductive. What had to be added:

* **NavSearch.** `SearchInv`, whatever the script edits: the node being expanded
  is closed (`ControlInv`), the start is closed first and never opened again
  (`StartInv`), what the list holds is opened (`MarksInv`), what the walk back has
  done (`WalkInv`); type correctness, `NoCandidateLost`, `ChainStaysInSearch` and
  `EmptyUnlessFound` follow. `RankInv`: some rank falls from each node to its
  parent, so parents never form a ring, which is why the walk back ends. For an
  undisturbed search `ReachInv` and `UnreachableInv`: a usable connection from a
  closed node leads to an opened one, so when the list is empty the closed nodes
  are a set nothing leaves that has the start and not the end. `OptimalInv` adds
  that scores are those of a walk along parents (`ScoreInv`), that no closed node
  has a higher F than a listed one (`OrderInv`) and that no neighbour already
  looked at has a worse score than the way over the closed node
  (`CheapestInv`). Nodes are closed in order of F, so with a consistent heuristic
  no later way to a closed node is cheaper: this is why never looking at one
  again loses nothing. `DistinctPlaces` is needed because `FindLowestF` takes a
  score of 0 for "none yet": with two nodes at one place others than the start
  could have it.
* **NavJobs.** `CallsInv`: a job whose callback was started has been joined, and
  only such a job is freed. That `Joinable` fails after the join is all that keeps
  a nested `nav.Poll` from calling twice, and it is enough at any depth.
  `QueueInv`: without nesting there is one activation, and the entry at its index
  is its job, so that what is removed is what is deleted; `Shutdown` leaves only
  joined threads behind it. `EpochInv`: `generating` admits one sampling worker to
  a nav, and none while a search of that nav is queued, so nodes stay of the epoch
  a search began in.
* **NavGraph.** `GraphInv` joins what pointers, ids, tree and file say of each
  other: a connection leads to a node of the list and the one back leads here; the
  tree has each node where it was when it was put in; the file has no id beyond
  its nodes. Removal shifts ids, and `Load` puts nodes in any free cells, so
  `SavedGraphReturns` compares shapes, a graph by its ids. `NothingStrays` is what
  `MCNavGenStray` refutes once a generation comes in between.
* **NetHooks.** `HooksInv`. `SlotsInv`: the slots in use are the first ones in the
  order of the list, and the next to be taken is the one after them; only this
  makes slot numbers positions, and only closing the last opened first keeps it.
  `PatchInv`: one class of an attached hook has the gate. `CallInv`: `original` is
  that of the class of each call under way. `LoopInv`: of the states still due, a
  loop has told exactly those it has passed.
* **LevelDb.** `IInv`: the block on disk is the one this process hands out of, and
  every id handed out lies below what comes next. For the store, `OnCourse`: the
  entry an iterator stands at is the next one of those it should return, in the
  order `Before` of leveldb (`OrderAssumption`: the keys are listed in it).
* **PvsObjects.** `OneUserdata`: an object has one userdata at most, which is its
  one reference, so that nothing but its collection marks it.
* **Pstack.** `StoppedIsKnown`: what is stopped is what `detachall` will let go,
  and between the stop and its record the one thread they are about.
* **SnChannel.** A fragment is in one place of one list (`Apart`), its buffer is no
  other's (`OwnBuffers`), and a queued one lives and is initialized (`QueueLives`).
* **GsApi, LuaLoad.** The height of the stack in and outside a hook. `DueModules`:
  an entry that `require` would run the body for belongs to a module that is due;
  `Handled`: a library is open as often as its handle says.
* **Cares, Lfs, LuaIo.** `AnswersInv`: what is pending has its name held, what has
  ended was told once. `CloseInv`: the query the close comes to next is pending, and
  no pending one is before it in the list (`QueriesInv`) unless it is late; so the
  walk leaves none but late ones. `StackInv`: beneath a `__Call` no callback tells
  the end of a query. `LocksStand`: a taken
  lock has its file, which is of no other lock. `OneHandle`: an open file has one
  handle, and what closes it is of its kind.
* **StringTables.** `RowsAgree`, `TicksAgree`: a row is what was stored, and a table
  was changed in this tick if and only if it was touched.
* **EngineSpew.** Each call of an output function bears what is to come of its
  message: an output, a hook of a module. `SpewInv`: what is due is borne by one
  call on one stack or was done, never both. The hook's own printing finds
  `inspew` set only in the calls beneath it.
* **LpegKeys.** Tables only grow, so a key that is right stays right
  (`NodesStay`); joining moves the values of the second behind those of the first
  by the number its keys are corrected with (`CorrectFits`).

* **KdTree.** `KdInv`: some assignment of a subtree to every node fits the links
  (`IsBelow`): links lead to later nodes, every node is below the root, and what is
  below a link is on that side of the node; and the box has every point. So a search
  that leaves a subtree out, because its half space or box is further away than the
  best or the range, leaves out no answer: shown of all subtrees by `TreeInduct`, the
  last node first. `TreeIsASet` maps each step of the tree to one of the set.
* **LuaIo, reads.** `ReadInv`: offsets are within the file. `ReadsComeExact` is
  about what the loops of `read_line` and `read_chars` return, over as many
  fillings of the buffer as it takes.
* **Vfs.** `FilesInv`: at each place that is logged the file holds the bytes of what
  was written, and a file that is gone has no log. `HandlesInv`: a valid handle is on
  a file that is there and stands where its reads and writes have led it.
  The digits of a number give it back, by division with remainder (`DivUnique`).
* **NetMessages.** `MsgInv`: what the reader has taken is a beginning of what was
  sent, its buffer has the bits of the rest from its position on, and the
  write buffer those of what was written; the padding of the last byte is shorter
  than the kind of a message (`RoundUp`), so none is read out of it.
* **SnBuffers.** `BufInv`: a view lies within a block that is there, and wherever
  a write is noted memory has the bits of what was meant (`IntactLies`), through
  copies and overlapping writes. `NumberReads`: the sum of a number's bits, less
  its sign's, is the number, at any width it fits; `StringReads`: the same by bytes.
* **SymbolFinder.** `SymInv`: a table knows every defined symbol up to `last_pos`
  and nothing false. For the hash table: a name is in the bucket it hashes to, at
  any size, with the first symbol of that name (`GoodTable`); for the map: an
  address is that of a symbol of the name (`GoodMap`).
* **LuaObjects.** `ObjectsInv`: besides what is meant, `InOrder`: every reference
  held, by an object, a number or a pair, has a slot of its own (that of nil has
  none) and no two holders share one; the free slots are all the others, listed
  once each. So a reference made takes a slot nobody holds, and one freed was held
  by nobody else. `GetMembers` is a loop: after each turn the stack has the table
  and the last key, and the pairs are those of the members walked so far.

Only model-checked:

* Liveness (`SearchEnds`, `Served`, `ShutdownReturns`, `GenerationEnds`) rests on
  fairness, which is out of the prover's reach; `GroundIsExplored` with it.
* `AnswerIsMeaning`, `ValuesAreMeaning`, `StacksHold`: the compiler and the
  captures of lpeg are `RECURSIVE` operators.
* `CallsRunTheChain`: `Detours` runs machine code byte by byte over memory that it
  rewrites; an invariant would have to say what every jump leads to in every state
  of every chain.

## Not modelled

* navigation: float rounding, the layout and I/O errors of the file, the build
  without boost; edits of nodes while a generation runs and reads of the node
  list while the worker appends (data races); metatables and argument checks.
* sourcenet: game events, addresses and string tables, objects the engine owns
  that the bindings pass on; `sourcenetinfo` is getters of the same kind.
* hooking: 64 bits, whose macro is misspelt (`MOLOGIE_DETOURS_HDE64`);
  `DetourImport` and `DetourHotpatch`, which nothing uses; operands that reach
  past the overwritten bytes.
* SnBuffers: quantised floats. StringTables: `GetTableID`, `GetEntryBits`,
  `SetAllowClientSideAddString`, which pass on; `GetBool` and `GetNumber`, which
  return an address; code for `CLIENT_DLL`.
* LuaIo: number formats, embedded zeros, what writing puts into a file or a pipe.
  Lfs: attributes, links, locks on open files. LuaLoad: the search of paths.
* vfs: searches of files, the checks of a path one by one, the value of a CRC.
* sigscanning: patterns, which keep no state; Windows and OS X.
* lpeg: printing, locale sets, the module `re` (written in Lua).
* autogain: samples rather than control; the one function with a framing hazard,
  `Compress` (`voice.cpp:46`), is never called.
* Single detours around a function of the engine (slog, transfercheck, physframe,
  packetpeek, ghostinj) are instances of `Detours`; what they do in it is one
  hook call. evilmine does not compile as it stands.
* The rest are single calls to the operating system, to Steam or to a library, or
  code of other projects (LuaSocket, LuaSec, cURL, speex, silk).

## Plan

1. Proofs next: the chain of jumps of `Detours`, as an invariant over the order of
   redirections.
2. `NetMessages` on top of `NetHooks`: a nested `ProcessMessages` that reuses the
   buffers while the outer one is parsed.
3. The searches of `vfs`, the attributes of `lfs`, the bindings of game events.
