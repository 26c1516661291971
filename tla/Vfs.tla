-------------------------------- MODULE Vfs --------------------------------
(***************************************************************************)
(* The module vfs: files of the engine's file system behind handles that   *)
(* scripts hold, close or drop.  A byte has B values, 0 ends a string.     *)
(* Buffers of the engine are left out: a write is seen by every handle.    *)
(***************************************************************************)
EXTENDS Integers, Sequences

CONSTANTS
  B,           \* the values of a byte
  Width,       \* the bytes of the number types
  Paths,       \* paths that pass the checks
  BadPaths,    \* and paths that do not
  FolderOf,    \* the folder of every path
  Handles,     \* the handles at once
  Texts,       \* what scripts write as strings and data, sequences of bytes
  WrittenValues,      \* and as numbers
  MaxSize      \* bound: the size of a file

ASSUME VfsAssumption ==
  /\ B \in Nat \ {0, 1}
  /\ \A type \in DOMAIN Width : Width[type] \in Nat \ {0}
  /\ DOMAIN Width \cap {"string", "data"} = {}
  /\ Texts \subseteq Seq(0..(B - 1))
  /\ WrittenValues \subseteq Int
  /\ MaxSize \in Nat

VARIABLES
  content,     \* the bytes of every file, or Gone
  folders,     \* the folders there are
  handle,      \* the user data of every handle
  openFiles,      \* how often the engine's file behind it was opened less closed
  seen,        \* where the script left each handle
  log          \* what was written and not overwritten: [at, type, val, size]

vfsVars == <<content, folders, handle, openFiles, seen, log>>

Gone == <<-1>>

Nil == -1

NoHandle == [valid |-> FALSE, path |-> "", mode |-> "", pos |-> 0]

Modes == {"rb", "wb", "ab", "r+b"}

VfsInit ==
  /\ content = [p \in Paths |-> Gone]
  /\ folders = {}
  /\ handle = [h \in Handles |-> NoHandle]
  /\ openFiles = [h \in Handles |-> 0]
  /\ seen = [h \in Handles |-> 0]
  /\ log = [p \in Paths |-> {}]

(* IsExtensionDisallowed and the other checks of a path.                   *)
Allowed(path) == path \notin BadPaths

(* vfs.Open makes the folders on the way, also for a file it then does not *)
(* find.                                                                   *)
Finds(path, mode) == mode \in {"rb", "r+b"} => content[path] # Gone

OpenFails(path, mode) ==
  /\ Allowed(path) /\ ~Finds(path, mode)
  /\ folders' = folders \cup {FolderOf[path]}
  /\ UNCHANGED <<content, handle, openFiles, seen, log>>

Open(h, path, mode) ==
  /\ Allowed(path) /\ Finds(path, mode)
  /\ handle[h] = NoHandle
  /\ folders' = folders \cup {FolderOf[path]}
  /\ content' = [content EXCEPT ![path] = IF mode = "wb" \/ @ = Gone THEN <<>> ELSE @]
  /\ log' = [log EXCEPT ![path] = IF mode = "wb" THEN {} ELSE @]
  /\ handle' = [handle EXCEPT ![h] = [valid |-> TRUE, path |-> path, mode |-> mode, pos |-> 0]]
  /\ openFiles' = [openFiles EXCEPT ![h] = @ + 1]
  /\ seen' = [seen EXCEPT ![h] = 0]

IsOpen(path) == \E h \in Handles : handle[h].valid /\ handle[h].path = path

(* vfs.RemoveFile, of a file no handle is open on.                         *)
RemoveFile(path) ==
  /\ Allowed(path) /\ content[path] # Gone /\ ~IsOpen(path)
  /\ content' = [content EXCEPT ![path] = Gone]
  /\ log' = [log EXCEPT ![path] = {}]
  /\ UNCHANGED <<folders, handle, openFiles, seen>>

(* vfs.RemoveDir: rmdir, which takes an empty folder only.                 *)
RemoveDir(folder) ==
  /\ folder \in folders
  /\ \A p \in Paths : FolderOf[p] = folder => content[p] = Gone
  /\ folders' = folders \ {folder}
  /\ UNCHANGED <<content, handle, openFiles, seen, log>>

(* CheckIsValid, with which every call on a handle begins.                 *)
CheckIsValid(h) == handle[h].valid

Invalidated(h) == [handle EXCEPT ![h].valid = FALSE]

Close(h) ==
  /\ CheckIsValid(h)
  /\ handle' = Invalidated(h)
  /\ openFiles' = [openFiles EXCEPT ![h] = @ - 1]
  /\ UNCHANGED <<content, folders, seen, log>>

(* __gc: the handle is closed if no one has, and a new one may come.       *)
GarbageCollect(h) ==
  /\ handle[h].path # ""
  /\ handle' = [handle EXCEPT ![h] = NoHandle]
  /\ openFiles' = [openFiles EXCEPT ![h] = IF handle[h].valid THEN @ - 1 ELSE @]
  /\ seen' = [seen EXCEPT ![h] = 0]
  /\ UNCHANGED <<content, folders, log>>

Least(a, b) == IF a < b THEN a ELSE b

(* What a digit counts: a power of B.                                      *)
Place(n) ==
  LET place[i \in 0..n] == IF i = 0 THEN 1 ELSE B * place[i - 1] IN place[n]

Digits(v, w) == [i \in 1..w |-> (v \div Place(i - 1)) % B]

(* Up to the first 0: what C takes a string for.                           *)
CString(s) ==
  LET zeros == {i \in 1..Len(s) : s[i] = 0}
  IN IF zeros = {} THEN s ELSE SubSeq(s, 1, (CHOOSE i \in zeros : \A j \in zeros : i <= j) - 1)

(* The bytes a value is written as.                                        *)
BytesOf(type, v) ==
  CASE type = "string" -> CString(v) \o <<0>>
    [] type = "data" -> v
    [] OTHER -> Digits(v, Width[type])

(* Content c with bytes s at position from; a gap is filled with zeros.     *)
Overwritten(c, from, s) ==
  LET end == from + Len(s) IN
  [i \in 1..(IF end > Len(c) THEN end ELSE Len(c)) |->
     IF i \in (from + 1)..end THEN s[i - from] ELSE IF i <= Len(c) THEN c[i] ELSE 0]

Touches(e, from, n) == e.at < from + n /\ from < e.at + e.size

(* The engine's Write, for a handle that may.                              *)
WriteBytes(h, type, v, s) ==
  LET path == handle[h].path
      append == handle[h].mode = "ab"
      from == IF append THEN Len(content[path]) ELSE handle[h].pos
      want == IF append THEN Len(content[path]) ELSE seen[h]
  IN
  /\ from + Len(s) <= MaxSize
  /\ content' = [content EXCEPT ![path] = Overwritten(@, from, s)]
  /\ handle' = [handle EXCEPT ![h].pos = from + Len(s)]
  /\ seen' = [seen EXCEPT ![h] = want + Len(s)]
  /\ log' = [log EXCEPT ![path] = {e \in @ : ~Touches(e, want, Len(s))} \cup
               (IF s = <<>> THEN {} ELSE {[at |-> want, type |-> type, val |-> v, size |-> Len(s)]})]
  /\ UNCHANGED <<folders, openFiles>>

(* What VFS_WRITE_ and VFS_READ_ name.                                     *)
Types == DOMAIN Width \cup {"string", "data"}

Write(h) ==
  /\ CheckIsValid(h) /\ handle[h].mode # "rb"
  /\ \/ \E type \in DOMAIN Width, v \in WrittenValues : WriteBytes(h, type, <<v>>, BytesOf(type, v))
     \/ \E t \in Texts : WriteBytes(h, "string", CString(t), BytesOf("string", t))
     \/ \E t \in Texts, asked \in 0..(MaxSize + 1) :
          LET cut == SubSeq(t, 1, Least(asked, Len(t))) IN WriteBytes(h, "data", cut, cut)

(* What a read of a type, and for data of a length, returns at a position  *)
(* of content c, and how many bytes it takes.  A string ends with the file.*)
Value(c, from, w) ==
  LET sum[i \in 0..w] == IF i = 0 THEN 0 ELSE sum[i - 1] + c[from + i] * Place(i - 1) IN sum[w]

ReadFrom(c, from, type, len) ==
  LET left == IF from < Len(c) THEN Len(c) - from ELSE 0
      rest == SubSeq(c, from + 1, from + left)
      text == CString(rest)
      n == Least(IF type = "data" THEN len ELSE Width[type], left)
  IN CASE type = "string" -> [val |-> text, size |-> Least(Len(text) + 1, left)]
       [] type = "data" -> [val |-> SubSeq(c, from + 1, from + n), size |-> n]
       [] OTHER -> [val |-> IF n < Width[type] THEN Nil ELSE Value(c, from, n), size |-> n]

Read(h) ==
  /\ CheckIsValid(h) /\ handle[h].mode \in {"rb", "r+b"}
  /\ \E type \in Types, len \in 0..MaxSize :
       LET got == ReadFrom(content[handle[h].path], handle[h].pos, type, len) IN
       /\ type # "data" => len = 0
       /\ handle' = [handle EXCEPT ![h].pos = @ + got.size]
       /\ seen' = [seen EXCEPT ![h] = @ + got.size]
  /\ UNCHANGED <<content, folders, openFiles, log>>

(* The engine refuses to seek before the start.                            *)
SeekTo(h, from) == handle' = [handle EXCEPT ![h].pos = IF from < 0 THEN @ ELSE from]

SeekHandle(h) ==
  /\ CheckIsValid(h)
  /\ \E n \in (0 - MaxSize)..MaxSize,
        from \in {0, handle[h].pos, Len(content[handle[h].path])} :
       /\ from + n <= MaxSize
       /\ SeekTo(h, from + n)
       /\ seen' = [seen EXCEPT ![h] = IF from + n < 0 THEN @ ELSE from + n]
  /\ UNCHANGED <<content, folders, openFiles, log>>

(* A bug: the position is not put back. *)
Rewound_Lost(h, before) == SeekTo(h, Len(content[handle[h].path]))

Rewound(h, before) == SeekTo(h, before)

(* CRC32 reads the whole file and seeks back.  What it returns is lost: it *)
(* is pushed as a position of the stack, as the answer of IsEOF is.        *)
CRC32(h) ==
  /\ CheckIsValid(h)
  /\ Rewound(h, handle[h].pos)
  /\ UNCHANGED <<content, folders, openFiles, seen, log>>

Tell(h) == handle[h].pos

(* The metatable of a handle; Flush, Tell, IsEOF and IsValid change        *)
(* nothing.                                                                *)
OnHandle(h) == Close(h) \/ GarbageCollect(h) \/ Write(h) \/ Read(h) \/ SeekHandle(h) \/ CRC32(h)

VfsNext ==
  \/ \E h \in Handles, path \in Paths \cup BadPaths, mode \in Modes :
       Open(h, path, mode) \/ OpenFails(path, mode)
  \/ \E path \in Paths : RemoveFile(path) \/ RemoveDir(FolderOf[path])
  \/ \E h \in Handles : OnHandle(h)

VfsSpec == VfsInit /\ [][VfsNext]_vfsVars

(* Whatever is written, through whichever handles, reads back as the same  *)
(* type and value where the script wrote it, until it is overwritten; and  *)
(* the engine's file behind a handle is closed exactly once, and Tell says *)
(* where the script left it.  A file is in its folder, whatever is removed.*)
WrittenReadsBack ==
  /\ \A p \in Paths : \A e \in log[p] :
       ReadFrom(content[p], e.at, e.type, e.size) =
         [val |-> IF e.type \in DOMAIN Width THEN e.val[1] % Place(Width[e.type]) ELSE e.val, size |-> e.size]
  /\ \A h \in Handles : openFiles[h] = IF handle[h].valid THEN 1 ELSE 0
  /\ \A h \in Handles : handle[h].valid => Tell(h) = seen[h]
  /\ \A p \in Paths : content[p] # Gone => FolderOf[p] \in folders
=============================================================================
