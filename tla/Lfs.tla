-------------------------------- MODULE Lfs --------------------------------
(***************************************************************************)
(* LuaFileSystem (POSIX): the working directory, directories and links,    *)
(* directory iterators and locks of directories.  The attributes of a file *)
(* are left out.  Processes share the files; each has its own working      *)
(* directory, locks and iterators.  A directory is the sequence of the     *)
(* names that lead to it, its entries are names.                           *)
(***************************************************************************)
EXTENDS Integers, Sequences, FiniteSets

CONSTANTS
  Procs,       \* the processes, one Lua state each
  Iterators,   \* the directory iterators of a process
  Locks,       \* its locks
  Names,       \* the names of directories
  LockName,    \* "lockfile.lfs"
  Root         \* the directories at the start, the root included

ASSUME LfsAssumption == LockName \notin Names

VARIABLES
  entries,     \* directory -> the names in it
  cwd,         \* the working directories
  dirs,         \* the iterators: the directory whose DIR is open
  lock,        \* the locks: [taken, ln, held]
  astray       \* a lock was released from another working directory

lfsVars == <<entries, cwd, dirs, lock, astray>>

NoDir == [closed |-> TRUE, of |-> <<>>]

NoPath == [abs |-> TRUE, names |-> <<>>]

NoLock == [taken |-> FALSE, ln |-> NoPath, held |-> <<>>]

LfsInit ==
  /\ entries = [d \in Root |-> {Head(SubSeq(e, Len(d) + 1, Len(e))) :
                  e \in {x \in Root : Len(x) = Len(d) + 1 /\ SubSeq(x, 1, Len(d)) = d}}]
  /\ cwd = [p \in Procs |-> <<>>]
  /\ dirs = [p \in Procs |-> [i \in Iterators |-> NoDir]]
  /\ lock = [p \in Procs |-> [l \in Locks |-> NoLock]]
  /\ astray = FALSE

(* A path is absolute or relative to the working directory.                *)
LfsPath == [abs : BOOLEAN, names : {<<>>} \cup {<<n>> : n \in Names}]

Resolve(p, path) == IF path.abs THEN path.names ELSE cwd[p] \o path.names

Exists(d) == d \in DOMAIN entries

change_dir(p, path) ==
  /\ Exists(Resolve(p, path))
  /\ cwd' = [cwd EXCEPT ![p] = Resolve(p, path)]
  /\ UNCHANGED <<entries, dirs, lock, astray>>

make_dir(p, path) ==
  LET d == Resolve(p, path) IN
  /\ d # <<>> /\ ~Exists(d) /\ Exists(SubSeq(d, 1, Len(d) - 1)) /\ Len(d) < 3
  /\ LET parent == SubSeq(d, 1, Len(d) - 1)
         names == entries[parent] \cup {d[Len(d)]}
     IN entries' = [x \in DOMAIN entries \cup {d} |->
                      IF x = parent THEN names ELSE IF x = d THEN {} ELSE entries[x]]
  /\ UNCHANGED <<cwd, dirs, lock, astray>>

(* Only an empty directory goes, so never one that is locked; the model    *)
(* leaves those a process works in.                                        *)
remove_dir(p, path) ==
  LET d == Resolve(p, path) IN
  /\ d # <<>> /\ Exists(d) /\ entries[d] = {}
  /\ \A q \in Procs : cwd[q] # d /\ \A i \in Iterators : ~dirs[q][i].closed => dirs[q][i].of # d
  /\ LET parent == SubSeq(d, 1, Len(d) - 1)
         names == entries[parent] \ {d[Len(d)]}
     IN entries' = [x \in DOMAIN entries \ {d} |-> IF x = parent THEN names ELSE entries[x]]
  /\ UNCHANGED <<cwd, dirs, lock, astray>>

(* lfs.dir: opendir fails for what is not there, and the iterator, not     *)
(* closed and without a DIR, is collected.                                 *)
dir_iter_factory(p, i, path) ==
  LET d == Resolve(p, path) IN
  /\ dirs[p][i].closed /\ Exists(d)
  /\ dirs' = [dirs EXCEPT ![p][i] = [closed |-> FALSE, of |-> d]]
  /\ UNCHANGED <<entries, cwd, lock, astray>>

(* readdir gives another entry, or at the end the DIR is closed.           *)
dir_iter(p, i) ==
  /\ ~dirs[p][i].closed
  /\ dirs' \in {dirs, [dirs EXCEPT ![p][i] = NoDir]}
  /\ UNCHANGED <<entries, cwd, lock, astray>>

(* dir:close() and __gc.                                                   *)
dir_close(p, i) ==
  /\ ~dirs[p][i].closed
  /\ dirs' = [dirs EXCEPT ![p][i] = NoDir]
  /\ UNCHANGED <<entries, cwd, lock, astray>>

(* A bug: a lock file that is there is taken over. *)
LockFree_Any(d) == TRUE

LockFree(d) == LockName \notin entries[d]

(* symlink makes the file or fails because it is there.  The lock keeps    *)
(* the path as it was given.                                               *)
lfs_lock_dir(p, l, path) ==
  LET d == Resolve(p, path) IN
  /\ ~lock[p][l].taken /\ Exists(d) /\ LockFree(d)
  /\ entries' = [entries EXCEPT ![d] = @ \cup {LockName}]
  /\ lock' = [lock EXCEPT ![p][l] = [taken |-> TRUE, ln |-> path, held |-> d]]
  /\ UNCHANGED <<cwd, dirs, astray>>

(* lock:free() and __gc: unlink of that path, from where the process is    *)
(* now.                                                                    *)
lfs_unlock_dir(p, l) ==
  LET k == lock[p][l]
      d == Resolve(p, k.ln)
  IN
  /\ k.taken
  /\ IF Exists(d)
     THEN entries' = [entries EXCEPT ![d] = @ \ {LockName}]
     ELSE UNCHANGED entries
  /\ lock' = [lock EXCEPT ![p][l] = NoLock]
  /\ astray' = (astray \/ d # k.held)
  /\ UNCHANGED <<cwd, dirs>>

(* The process ends without closing its state: its lock files stay.        *)
Die(p) ==
  /\ dirs' = [dirs EXCEPT ![p] = [i \in Iterators |-> NoDir]]
  /\ lock' = [lock EXCEPT ![p] = [l \in Locks |-> NoLock]]
  /\ cwd' = [cwd EXCEPT ![p] = <<>>]
  /\ UNCHANGED <<entries, astray>>

LfsNext ==
  \E p \in Procs :
    \/ Die(p)
    \/ \E path \in LfsPath :
         \/ change_dir(p, path) \/ make_dir(p, path) \/ remove_dir(p, path)
         \/ \E i \in Iterators : dir_iter_factory(p, i, path)
         \/ \E l \in Locks : lfs_lock_dir(p, l, path)
    \/ \E i \in Iterators : dir_iter(p, i) \/ dir_close(p, i)
    \/ \E l \in Locks : lfs_unlock_dir(p, l)

LfsSpec == LfsInit /\ [][LfsNext]_lfsVars

(* No two locks, in one process or in two, hold a directory at once, and   *)
(* who holds one has its file there, as long as no lock is released from   *)
(* another working directory than it was taken in.                         *)
LocksExclude ==
  ~astray =>
    LET taken == {x \in Procs \X Locks : lock[x[1]][x[2]].taken}
        held(x) == lock[x[1]][x[2]].held
    IN /\ \A x, y \in taken : held(x) = held(y) => x = y
       /\ \A x \in taken : Exists(held(x)) /\ LockName \in entries[held(x)]

=============================================================================
