------------------------------- MODULE LuaIo -------------------------------
(***************************************************************************)
(* The io library of luaio and luaiox: handles on C files, the default     *)
(* files, and iterators over lines.  Every handle is made closed; how one  *)
(* is closed stands in the environment it was made in.  A handle is known  *)
(* to the script, a default file, or held by an iterator, or it is         *)
(* collected.                                                              *)
(***************************************************************************)
EXTENDS Integers, Sequences, FiniteSets

CONSTANTS
  IoHandles,   \* the handles there may be, the standard ones included
  StdFile,     \* the C files of the handles that luaopen_io makes
  Stdin, Stdout,
  Files,       \* the C files
  Line,        \* the characters of a file, 0 ends a line
  MaxLines,    \* bound: iterators at once
  LUAL_BUFFERSIZE,
  NULL

ASSUME IoAssumption ==
  /\ DOMAIN StdFile \subseteq IoHandles /\ {Stdin, Stdout} \subseteq IoHandles
  /\ \A h, k \in DOMAIN StdFile : StdFile[h] \in Files /\ (StdFile[h] = StdFile[k] => h = k)
  /\ NULL \notin Files
  /\ NULL \notin [file : Files \cup {NULL}, env : {"noclose", "fclose", "pclose"}, known : BOOLEAN]

(* fgets is given LUAL_BUFFERSIZE, and keeps one for the 0 at the end.      *)
ASSUME LineAssumption ==
  /\ Line \in Seq(Nat)
  /\ LUAL_BUFFERSIZE \in Nat \ {0, 1}

IO_INPUT == 1
IO_OUTPUT == 2

VARIABLES
  fp,        \* handle -> [file, env, known], or NULL: no such handle
  file,      \* file -> what it is open as: "std", "file", "pipe", "closed"
  default,   \* the handles of the default files
  lines,     \* the iterators: [handle, toclose]
  offset,        \* the position of a file
  misread,   \* a read returned something else than the next characters
  misused    \* a file was closed that was not open, or closed the wrong way

ioVars == <<fp, file, default, lines, offset, misread, misused>>

(* io_fclose, io_noclose and io_pclose are told apart by the environment.  *)
CloserOf(env) ==
  CASE env = "noclose" -> "std" [] env = "pclose" -> "pipe" [] OTHER -> "file"

IoInit ==
  /\ fp = [h \in IoHandles |-> IF h \in DOMAIN StdFile
            THEN [file |-> StdFile[h], env |-> "noclose", known |-> TRUE] ELSE NULL]
  /\ file = [x \in Files |-> IF \E h \in DOMAIN StdFile : StdFile[h] = x THEN "std" ELSE "closed"]
  /\ default = [n \in {IO_INPUT, IO_OUTPUT} |-> IF n = IO_INPUT THEN Stdin ELSE Stdout]
  /\ lines = {}
  /\ offset = [x \in Files |-> 0]
  /\ misread = FALSE /\ misused = FALSE

(* tofile: the argument is a handle that is not closed.                    *)
IsOpenHandle(h) == fp[h] # NULL /\ fp[h].file # NULL

Held(h) == h \in {default[n] : n \in DOMAIN default} \/ \E l \in lines : l.handle = h

(* newfile and what then opens: a closed handle, or one on a fresh file.   *)
newfile(h, x, env, known) ==
  fp' = [fp EXCEPT ![h] = [file |-> x, env |-> env, known |-> known]]

Opened(h, x, env, known) ==
  /\ fp[h] = NULL /\ file[x] = "closed"
  /\ newfile(h, x, env, known)
  /\ file' = [file EXCEPT ![x] = CloserOf(env)]
  /\ offset' = [offset EXCEPT ![x] = 0]

(* io_open and io_tmpfile; where fopen fails the handle is dropped.        *)
io_open ==
  /\ \E h \in IoHandles, x \in Files : Opened(h, x, "fclose", TRUE)
  /\ UNCHANGED <<default, lines, misread, misused>>

(* A bug: popen has the environment of the other functions. *)
io_popen_Env ==
  /\ \E h \in IoHandles, x \in Files :
       /\ fp[h] = NULL /\ file[x] = "closed"
       /\ newfile(h, x, "fclose", TRUE)
       /\ file' = [file EXCEPT ![x] = "pipe"]
       /\ offset' = [offset EXCEPT ![x] = 0]
  /\ UNCHANGED <<default, lines, misread, misused>>

io_popen ==
  /\ \E h \in IoHandles, x \in Files : Opened(h, x, "pclose", TRUE)
  /\ UNCHANGED <<default, lines, misread, misused>>

(* g_iofile: a name or a handle becomes the default file.                  *)
g_iofile ==
  /\ \E n \in {IO_INPUT, IO_OUTPUT}, h \in IoHandles :
       /\ default' = [default EXCEPT ![n] = h]
       /\ \/ \E x \in Files : Opened(h, x, "fclose", FALSE)
          \/ IsOpenHandle(h) /\ fp[h].known /\ UNCHANGED <<fp, file, offset>>
  /\ UNCHANGED <<lines, misread, misused>>

(* aux_close: the __close of the handle's environment.  io_noclose leaves  *)
(* the handle as it is.                                                    *)
aux_close(h, after) ==
  IF fp[h].env = "noclose"
  THEN fp' = [fp EXCEPT ![h] = after] /\ UNCHANGED <<file, misused>>
  ELSE /\ fp' = [fp EXCEPT ![h] = IF after = NULL THEN NULL ELSE [after EXCEPT !.file = NULL]]
       /\ file' = [file EXCEPT ![fp[h].file] = "closed"]
       /\ misused' = (misused \/ file[fp[h].file] # CloserOf(fp[h].env))

(* io_close, without an argument the default output.                       *)
io_close ==
  /\ \E h \in IoHandles :
       /\ IsOpenHandle(h) /\ (fp[h].known \/ h = default[IO_OUTPUT])
       /\ aux_close(h, fp[h])
  /\ UNCHANGED <<default, lines, offset, misread>>

(* f_lines, and io_lines without a name; io_lines with a name closes the   *)
(* file at its end.                                                        *)
io_lines ==
  /\ Cardinality(lines) < MaxLines
  /\ \/ /\ \E h \in IoHandles :
             /\ IsOpenHandle(h) /\ (fp[h].known \/ h = default[IO_INPUT])
             /\ lines' = lines \cup {[handle |-> h, toclose |-> FALSE]}
        /\ UNCHANGED <<fp, file, offset>>
     \/ \E h \in IoHandles, x \in Files :
          /\ Opened(h, x, "fclose", FALSE)
          /\ lines' = lines \cup {[handle |-> h, toclose |-> TRUE]}
  /\ UNCHANGED <<default, misread, misused>>

Next0(p) == IF \E i \in p + 1..Len(Line) : Line[i] = 0
            THEN CHOOSE i \in p + 1..Len(Line) : Line[i] = 0 /\ \A j \in p + 1..i - 1 : Line[j] # 0
            ELSE Len(Line) + 1

Smaller(a, b) == IF a < b THEN a ELSE b

(* read_line: what it returns, and how far it reads.  fgets takes one      *)
(* character less than the buffer holds, up to the end of a line.          *)
read_line(p) ==
  LET piece(q) == SubSeq(Line, q + 1, Smaller(Smaller(q + LUAL_BUFFERSIZE - 1, Next0(q)), Len(Line)))
      from[q \in p..Len(Line)] ==
        LET s == piece(q) IN
        IF s = <<>> THEN <<>>
        ELSE IF s[Len(s)] = 0 THEN SubSeq(s, 1, Len(s) - 1)
        ELSE s \o from[q + Len(s)]
  IN [val |-> from[p], end |-> Smaller(Next0(p), Len(Line))]

(* A bug: the buffer is filled whole once more. *)
read_chars_Whole(p, n) ==
  SubSeq(Line, p + 1, Smaller(p + ((n + LUAL_BUFFERSIZE - 1) \div LUAL_BUFFERSIZE) * LUAL_BUFFERSIZE, Len(Line)))

(* read_chars: a buffer at a time until n are read or the file ends.       *)
read_chars(p, n) ==
  LET from[left \in 0..n] ==
        LET rlen == Smaller(LUAL_BUFFERSIZE, left)
            q == p + n - left
            nr == IF q >= Len(Line) THEN 0 ELSE Smaller(rlen, Len(Line) - q)
            s == SubSeq(Line, q + 1, q + nr)
        IN IF left > nr /\ nr = rlen THEN s \o from[left - nr] ELSE s
  IN from[n]

(* g_read with one format: a line, a number of characters, the whole file; *)
(* test_eof takes none.  A read says wrong when the characters it returns  *)
(* are not those of the file from the position on.                         *)
g_read(h) ==
  LET x == fp[h].file
      p == offset[x]
      line == read_line(p)
  IN
  \/ /\ offset' = [offset EXCEPT ![x] = line.end]
     /\ misread' = (misread \/ line.val # SubSeq(Line, p + 1, Next0(p) - 1))
  \/ \E n \in 0..Len(Line) + 1 :
       LET s == read_chars(p, n) IN
       /\ offset' = [offset EXCEPT ![x] = p + Len(s)]
       /\ misread' = (misread \/ s # SubSeq(Line, p + 1, Smaller(p + n, Len(Line))))

(* What comes from a pipe or a standard file is left out.                  *)
io_read ==
  /\ \E h \in IoHandles :
       /\ IsOpenHandle(h) /\ file[fp[h].file] = "file" /\ (fp[h].known \/ h = default[IO_INPUT])
       /\ g_read(h)
  /\ UNCHANGED <<fp, file, default, lines, misused>>

(* io_readline raises when the file is closed; at its end it closes a file *)
(* that io_lines has opened.                                               *)
io_readline ==
  /\ \E l \in lines :
       LET x == fp[l.handle].file IN
       /\ IsOpenHandle(l.handle) /\ file[x] = "file"
       /\ IF offset[x] < Len(Line)
          THEN offset' = [offset EXCEPT ![x] = read_line(offset[x]).end] /\ UNCHANGED <<fp, file, misused>>
          ELSE /\ IF l.toclose THEN aux_close(l.handle, fp[l.handle]) ELSE UNCHANGED <<fp, file, misused>>
               /\ UNCHANGED offset
  /\ UNCHANGED <<default, lines, misread>>

f_seek ==
  /\ \E h \in IoHandles, p \in 0..Len(Line) :
       /\ IsOpenHandle(h) /\ file[fp[h].file] = "file" /\ fp[h].known
       /\ offset' = [offset EXCEPT ![fp[h].file] = p]
  /\ UNCHANGED <<fp, file, default, lines, misread, misused>>

(* The script drops a handle or an iterator.                               *)
Drop ==
  /\ \/ \E h \in IoHandles :
          /\ fp[h] # NULL /\ fp[h].known
          /\ fp' = [fp EXCEPT ![h].known = FALSE]
          /\ UNCHANGED lines
     \/ \E l \in lines : lines' = lines \ {l} /\ UNCHANGED fp
  /\ UNCHANGED <<file, default, offset, misread, misused>>

io_gc ==
  /\ \E h \in IoHandles :
       /\ fp[h] # NULL /\ ~fp[h].known /\ ~Held(h)
       /\ IF fp[h].file = NULL
          THEN fp' = [fp EXCEPT ![h] = NULL] /\ UNCHANGED <<file, misused>>
          ELSE aux_close(h, NULL)
  /\ UNCHANGED <<default, lines, offset, misread>>

IoNext ==
  \/ io_open \/ io_popen \/ g_iofile \/ io_close \/ io_lines
  \/ io_read \/ io_readline \/ f_seek \/ Drop \/ io_gc

IoSpec == IoInit /\ [][IoNext]_ioVars

(* Every C file is closed once and the way it was opened, the standard     *)
(* files never; no two handles share one, none is left on a closed one,    *)
(* and none that a script opened is open without a handle.                 *)
FilesHaveOneHandle ==
  /\ ~misused
  /\ \A h \in DOMAIN StdFile : file[StdFile[h]] = "std"
  /\ \A x \in Files : file[x] \in {"file", "pipe"} =>
       Cardinality({h \in IoHandles : fp[h] # NULL /\ fp[h].file = x}) = 1
  /\ \A h \in IoHandles : IsOpenHandle(h) => file[fp[h].file] = CloserOf(fp[h].env)

(* Lines and blocks of characters come whole and in order, however long    *)
(* they are against the buffer.                                            *)
ReadsAreExact == ~misread
=============================================================================
