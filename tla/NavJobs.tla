------------------------------ MODULE NavJobs ------------------------------
(***************************************************************************)
(* The job queue of gm_navigation: the worker threads that nav:Generate    *)
(* and nav:FindPath start, nav.Poll that the Think hook calls to join them *)
(* and run their callbacks, Nav's lock, and Shutdown (navigation/src/      *)
(* main.cpp and nav.cpp, the USE_BOOST_THREADS build).                     *)
(*                                                                         *)
(* There is one Lua thread.  It is in the script, in some activations of   *)
(* nav.Poll (a callback runs inside one, and may call nav.Poll again), or  *)
(* in Shutdown.  What the script does is bounded by Habits:                *)
(*   "raise"       a callback may end with a Lua error, which unwinds Poll *)
(*   "raise update" an update callback may; updateTime then stays, so that  *)
(*                 every later Poll calls it again before any later job    *)
(*   "reenter"     a callback may call nav.Poll                            *)
(*   "regenerate"  nav:Generate may be called while the nav generates      *)
(*   "mix"         nodes may be replaced while searches of the nav are     *)
(*                 queued or a worker generates them, and searches queued  *)
(*                 while it generates                                      *)
(*                                                                         *)
(* boost's timed_join(0) is external: it joins a thread that has finished  *)
(* and returns true, and returns false on a thread that runs, was joined,  *)
(* or was never started.                                                   *)
(***************************************************************************)
EXTENDS Integers, SequencesExt

CONSTANTS
  Nav,       \* the navs
  Job,       \* the JobInfo_t the script allocates (bounds the model)
  NULL,      \* no job, no owner
  Habits,    \* what the script may do
  MaxDepth,  \* nested activations of nav.Poll (bounds the model)
  MaxEpoch   \* how often the nodes of a nav are replaced (bounds the model)

ASSUME NavJobsAssumption ==
  /\ NULL \notin Job
  /\ Habits \subseteq {"raise", "raise update", "reenter", "regenerate", "mix"}
  /\ MaxDepth \in Nat \ {0}
  /\ MaxEpoch \in Nat

VARIABLES
  queue,       \* JobQueue
  mem,         \* per job: "unused", "allocated" or "freed"
  kind,        \* info->findPath: "path" or "generate"
  navOf,       \* info->nav
  updates,     \* info->objUpdate is set
  abort,       \* info->abort
  jobEpoch     \* the epoch of the nodes the job's start and end belong to

VARIABLES
  thread,      \* the stage of info->thread, see Stages
  lock,        \* the job that owns Nav::lock, or NULL
  generating,  \* Nav::generating
  generated,   \* Nav::generated
  epoch        \* counts the replacements of Nav::nodes

VARIABLES
  lua,         \* "up", "closing", "closed", or "crashed" on a freed job
  polls,       \* the activations of nav.Poll, the innermost last
  at,          \* Shutdown's loop index
  calls        \* history: how often the callback of a job was started

jobVars == <<queue, mem, kind, navOf, updates, abort, jobEpoch>>
navVars == <<lock, generating, generated, epoch>>
luaVars == <<lua, polls, at, calls>>
vars == <<jobVars, thread, navVars, luaVars>>

\* "none" is a default boost::thread, "ready" one that waits for its start or
\* for the lock; a generation sets generated and clears generating in two
\* steps before its thread is "done".
Stages == {"none", "ready", "running", "marked", "cleared", "done", "joined"}
Alive == {"ready", "running", "marked", "cleared"}

Init ==
  /\ queue = <<>>
  /\ mem = [j \in Job |-> "unused"]
  /\ kind = [j \in Job |-> "path"]
  /\ navOf \in [Job -> Nav]
  /\ updates = [j \in Job |-> FALSE]
  /\ abort = [j \in Job |-> FALSE]
  /\ jobEpoch = [j \in Job |-> 0]
  /\ thread = [j \in Job |-> "none"]
  /\ lock = [n \in Nav |-> NULL]
  /\ generating = [n \in Nav |-> FALSE]
  /\ generated = [n \in Nav |-> FALSE]
  /\ epoch = [n \in Nav |-> 0]
  /\ lua = "up" /\ polls = <<>> /\ at = 0
  /\ calls = [j \in Job |-> 0]

----------------------------------------------------------------------------
(* The script: at top level, or in the callback of the innermost Poll.     *)

Top == polls[Len(polls)]
ScriptRuns == lua = "up" /\ (polls # <<>> => Top.info # NULL)

Replaceable(n) ==
  /\ epoch[n] < MaxEpoch
  /\ "mix" \notin Habits =>
       \A j \in ToSet(queue) : navOf[j] = n => kind[j] = "generate"

Allocate(j, k) ==
  /\ mem[j] = "unused"
  /\ mem' = [mem EXCEPT ![j] = "allocated"]
  /\ kind' = [kind EXCEPT ![j] = k]
  /\ jobEpoch' = [jobEpoch EXCEPT ![j] = epoch[navOf[j]]]
  /\ queue' = Append(queue, j)

\* ResetGeneration: the nodes go, the flags start over.
ResetGeneration(n) ==
  /\ epoch' = [epoch EXCEPT ![n] = @ + 1]
  /\ generating' = [generating EXCEPT ![n] = TRUE]
  /\ generated' = [generated EXCEPT ![n] = FALSE]

\* The early return of GenerateQueue.  (Mutant: it is missing.)
NeverRefused(n) == FALSE
Refused(n) == generating[n]

\* Nav_Generate queues the job even when GenerateQueue returned early and
\* started no thread.
Generate(j, u) ==
  LET n == navOf[j]
  IN  /\ ScriptRuns
      /\ generating[n] => "regenerate" \in Habits
      /\ Allocate(j, "generate")
      /\ updates' = [updates EXCEPT ![j] = u]
      /\ IF Refused(n)
         THEN UNCHANGED <<thread, generating, generated, epoch>>
         ELSE /\ Replaceable(n)
              /\ ResetGeneration(n)
              /\ thread' = [thread EXCEPT ![j] = "ready"]
      /\ UNCHANGED <<navOf, abort, lock, luaVars>>

\* Nav_FindPath and Nav_FindPathHull; the start and the end are captured here.
FindPath(j) ==
  /\ ScriptRuns
  /\ generating[navOf[j]] => "mix" \in Habits
  /\ Allocate(j, "path")
  /\ thread' = [thread EXCEPT ![j] = "ready"]
  /\ UNCHANGED <<navOf, updates, abort, navVars, luaVars>>

\* Nav_Load: refused while generating, and done under the lock.
Load(n) ==
  /\ ScriptRuns
  /\ ~generating[n] /\ lock[n] = NULL
  /\ Replaceable(n)
  /\ epoch' = [epoch EXCEPT ![n] = @ + 1]
  /\ UNCHANGED <<jobVars, thread, lock, generating, generated, luaVars>>

\* A worker samples the nav, or is about to.
Sampled(n) ==
  \E j \in Job :
    /\ navOf[j] = n /\ kind[j] = "generate"
    /\ thread[j] \in {"ready", "running", "marked"}

\* Nav_ResetGeneration, which no job comes with: until FullGeneration runs,
\* generating stays set and Generate starts no thread.
ResetByScript(n) ==
  /\ ScriptRuns
  /\ Sampled(n) => "mix" \in Habits
  /\ Replaceable(n)
  /\ ResetGeneration(n)
  /\ UNCHANGED <<jobVars, thread, lock, luaVars>>

\* Nav_FullGeneration resets and samples to the end before it returns.
FullGeneration(n) ==
  /\ ScriptRuns
  /\ Sampled(n) => "mix" \in Habits
  /\ Replaceable(n)
  /\ epoch' = [epoch EXCEPT ![n] = @ + 1]
  /\ generating' = [generating EXCEPT ![n] = FALSE]
  /\ generated' = [generated EXCEPT ![n] = TRUE]
  /\ UNCHANGED <<jobVars, thread, lock, luaVars>>

----------------------------------------------------------------------------
(* The worker threads.                                                     *)

Stage(j, from, to) ==
  /\ thread[j] = from
  /\ thread' = [thread EXCEPT ![j] = to]

Acquire(j) ==
  /\ kind[j] = "path" /\ lock[navOf[j]] = NULL
  /\ Stage(j, "ready", "running")
  /\ lock' = [lock EXCEPT ![navOf[j]] = j]
  /\ UNCHANGED <<jobVars, generating, generated, epoch, luaVars>>

\* The search itself is NavSearch: it ends, aborted or not.
EndSearch(j) ==
  /\ kind[j] = "path"
  /\ Stage(j, "running", "done")
  /\ lock' = [lock EXCEPT ![navOf[j]] = NULL]
  /\ UNCHANGED <<jobVars, generating, generated, epoch, luaVars>>

StartGeneration(j) ==
  /\ kind[j] = "generate"
  /\ Stage(j, "ready", "running")
  /\ UNCHANGED <<jobVars, navVars, luaVars>>

\* FullGeneration leaves its loop on abort and leaves generating set.
AbortGeneration(j) ==
  /\ kind[j] = "generate" /\ abort[j]
  /\ Stage(j, "running", "done")
  /\ UNCHANGED <<jobVars, navVars, luaVars>>

\* The last SampleStep: generated = true, generating = false, return.
MarkGenerated(j) ==
  /\ kind[j] = "generate"
  /\ Stage(j, "running", "marked")
  /\ generated' = [generated EXCEPT ![navOf[j]] = TRUE]
  /\ UNCHANGED <<jobVars, lock, generating, epoch, luaVars>>

ClearGenerating(j) ==
  /\ Stage(j, "marked", "cleared")
  /\ generating' = [generating EXCEPT ![navOf[j]] = FALSE]
  /\ UNCHANGED <<jobVars, lock, generated, epoch, luaVars>>

EndGeneration(j) ==
  /\ Stage(j, "cleared", "done")
  /\ UNCHANGED <<jobVars, navVars, luaVars>>

WorkerStep(j) ==
  \/ Acquire(j) \/ EndSearch(j)
  \/ StartGeneration(j) \/ AbortGeneration(j)
  \/ MarkGenerated(j) \/ ClearGenerating(j) \/ EndGeneration(j)

----------------------------------------------------------------------------
(* nav.Poll.  An activation is at queue index i (from 1); info is the job  *)
(* whose callback it runs, NULL between callbacks.                         *)

\* timed_join.  (Mutants: a joined thread counts as finished; it never succeeds.)
JoinTwice(j) == thread[j] \in {"done", "joined"}
JoinNever(j) == FALSE
Joinable(j) == thread[j] = "done"

SetTop(i, info, update) ==
  polls' = [polls EXCEPT ![Len(polls)] = [i |-> i, info |-> info, update |-> update]]

Activation == [i |-> 1, info |-> NULL, update |-> FALSE]

\* The Think hook, when no script runs.
Think ==
  /\ lua = "up" /\ polls = <<>>
  /\ polls' = <<Activation>>
  /\ UNCHANGED <<jobVars, thread, navVars, lua, at, calls>>

Reenter ==
  /\ "reenter" \in Habits
  /\ ScriptRuns /\ polls # <<>> /\ Len(polls) < MaxDepth
  /\ polls' = Append(polls, Activation)
  /\ UNCHANGED <<jobVars, thread, navVars, lua, at, calls>>

Between == lua = "up" /\ polls # <<>> /\ Top.info = NULL
Looking == Between /\ Top.i <= Len(queue)
Looked == queue[Top.i]

PollReturns ==
  /\ Between /\ Top.i > Len(queue)
  /\ polls' = Front(polls)
  /\ UNCHANGED <<jobVars, thread, navVars, lua, at, calls>>

\* The entry points to a job that was deleted.
PollCrashes ==
  /\ Looking /\ mem[Looked] = "freed"
  /\ lua' = "crashed"
  /\ UNCHANGED <<jobVars, thread, navVars, polls, at, calls>>

\* timed_join succeeds and the callback is called.
StartCallback ==
  /\ Looking /\ mem[Looked] = "allocated" /\ Joinable(Looked)
  /\ thread' = [thread EXCEPT ![Looked] = "joined"]
  /\ calls' = [calls EXCEPT ![Looked] = @ + 1]
  /\ SetTop(Top.i, Looked, FALSE)
  /\ UNCHANGED <<jobVars, navVars, lua, at>>

\* A second or more has passed since the last update of a generation.
StartUpdate ==
  /\ Looking /\ mem[Looked] = "allocated" /\ ~Joinable(Looked)
  /\ kind[Looked] = "generate" /\ updates[Looked]
  /\ SetTop(Top.i, Looked, TRUE)
  /\ UNCHANGED <<jobVars, thread, navVars, lua, at, calls>>

\* (Mutant: the loop ends at a job that is not finished.)
BreakIndex == Len(queue) + 1
NextIndex == Top.i + 1

PollSkips ==
  /\ Looking /\ mem[Looked] = "allocated" /\ ~Joinable(Looked)
  /\ SetTop(NextIndex, NULL, FALSE)
  /\ UNCHANGED <<jobVars, thread, navVars, lua, at, calls>>

\* delete info and JobQueue.Remove(i), which shifts the rest; nothing says
\* that entry i still is this job.  (Mutant: i is reset before the removal.)
RemoveAtReset(i) == Tail(queue)
RemoveEntry(i) == IF i <= Len(queue) THEN RemoveAt(queue, i) ELSE queue

\* i = 0, then the loop's i++: the next index is the second.
CallbackReturns ==
  /\ lua = "up" /\ polls # <<>> /\ Top.info # NULL /\ ~Top.update
  /\ mem' = [mem EXCEPT ![Top.info] = "freed"]
  /\ queue' = RemoveEntry(Top.i)
  /\ SetTop(2, NULL, FALSE)
  /\ UNCHANGED <<kind, navOf, updates, abort, jobEpoch, thread, navVars, lua, at, calls>>

\* The update callback returns and info->updateTime is written.
UpdateReturns ==
  /\ lua = "up" /\ polls # <<>> /\ Top.info # NULL /\ Top.update
  /\ lua' = IF mem[Top.info] = "freed" THEN "crashed" ELSE "up"
  /\ SetTop(Top.i + 1, NULL, FALSE)
  /\ UNCHANGED <<jobVars, thread, navVars, at, calls>>

\* Lua()->Call is not protected: the error leaves nav.Poll as it is, and is
\* caught by the hook library or by the callback around it.
CallbackRaises ==
  /\ lua = "up" /\ polls # <<>> /\ Top.info # NULL
  /\ IF Top.update THEN "raise update" \in Habits ELSE "raise" \in Habits
  /\ polls' = Front(polls)
  /\ UNCHANGED <<jobVars, thread, navVars, lua, at, calls>>

PollStep ==
  \/ Think \/ PollReturns \/ PollCrashes
  \/ StartCallback \/ StartUpdate \/ PollSkips
  \/ CallbackReturns \/ UpdateReturns \/ CallbackRaises

----------------------------------------------------------------------------
(* Shutdown, called when the Lua state closes.                             *)

BeginShutdown ==
  /\ lua = "up" /\ polls = <<>>
  /\ lua' = "closing" /\ at' = 1
  /\ UNCHANGED <<jobVars, thread, navVars, polls, calls>>

Waiting == lua = "closing" /\ at <= Len(queue)

ShutdownAborts ==
  /\ Waiting /\ ~abort[queue[at]]
  /\ abort' = [abort EXCEPT ![queue[at]] = TRUE]
  /\ UNCHANGED <<queue, mem, kind, navOf, updates, jobEpoch, thread, navVars, luaVars>>

JoinedAfterAbort(j) == abort[j] /\ Joinable(j)

\* Until it succeeds the loop sleeps and tries again: no state changes.
ShutdownJoins ==
  /\ Waiting /\ JoinedAfterAbort(queue[at])
  /\ thread' = IF Joinable(queue[at]) THEN [thread EXCEPT ![queue[at]] = "joined"] ELSE thread
  /\ at' = at + 1
  /\ UNCHANGED <<jobVars, navVars, lua, polls, calls>>

EndShutdown ==
  /\ lua = "closing" /\ at > Len(queue)
  /\ lua' = "closed"
  /\ UNCHANGED <<jobVars, thread, navVars, polls, at, calls>>

ShutdownStep == ShutdownAborts \/ ShutdownJoins \/ EndShutdown

----------------------------------------------------------------------------

ScriptStep ==
  \/ \E j \in Job, u \in BOOLEAN : Generate(j, u)
  \/ \E j \in Job : FindPath(j)
  \/ \E n \in Nav : Load(n) \/ ResetByScript(n) \/ FullGeneration(n)
  \/ Reenter
  \/ BeginShutdown

Next ==
  \/ ScriptStep
  \/ \E j \in Job : WorkerStep(j)
  \/ PollStep
  \/ ShutdownStep

\* Threads run and searches end (NavSearch!SearchEnds), the engine keeps
\* calling Think while the module is loaded, callbacks end, and Shutdown runs
\* to its end.  Nothing makes the script queue a job or close the module.
Spec ==
  /\ Init /\ [][Next]_vars
  /\ \A j \in Job : WF_vars(WorkerStep(j))
  /\ WF_vars(PollStep)
  /\ WF_vars(ShutdownStep)

(***************************************************************************)
(* Properties.                                                             *)
(***************************************************************************)

\* Every variable has its type.
TypeOK ==
  /\ queue \in Seq(Job)
  /\ mem \in [Job -> {"unused", "allocated", "freed"}]
  /\ kind \in [Job -> {"path", "generate"}]
  /\ navOf \in [Job -> Nav]
  /\ updates \in [Job -> BOOLEAN]
  /\ abort \in [Job -> BOOLEAN]
  /\ jobEpoch \in [Job -> Nat]
  /\ thread \in [Job -> Stages]
  /\ lock \in [Nav -> Job \cup {NULL}]
  /\ generating \in [Nav -> BOOLEAN]
  /\ generated \in [Nav -> BOOLEAN]
  /\ epoch \in [Nav -> Nat]
  /\ lua \in {"up", "closing", "closed", "crashed"}
  /\ polls \in Seq([i : Nat \ {0}, info : Job \cup {NULL}, update : BOOLEAN])
  /\ at \in Nat
  /\ calls \in [Job -> Nat]

\* The queue holds exactly the allocated jobs, each once: what Poll deletes is
\* what it removes, though the callback in between may queue jobs, raise, or
\* run next to workers that finish. So no worker runs on a job that is gone,
\* and none runs the code of the module once Shutdown has returned.
QueueIsLive ==
  /\ ToSet(queue) = { j \in Job : mem[j] = "allocated" }
  /\ \A i, k \in 1 .. Len(queue) : queue[i] = queue[k] => i = k
  /\ \A j \in Job : thread[j] \in Alive => mem[j] = "allocated" /\ lua # "closed"

\* A callback is started at most once per job, also when it raises (the job
\* then stays in the queue) and when it polls again from inside: what keeps
\* Poll from calling it again is only that a joined thread cannot be joined.
CalledOnce ==
  \A j \in Job : calls[j] <= 1 /\ (mem[j] = "freed" => calls[j] = 1)

(* nav:IsGenerated.                                                       *)
IsGenerated(n) == generated[n]

\* While a search runs, and while its path is handed to the callback, the nodes
\* are those of the time it was queued, and no generation works on the nav;
\* nav:IsGenerated() is true only when no worker samples the nav any more.
SearchReadsLiveNodes ==
  \A j \in Job :
    /\ (/\ kind[j] = "path" /\ mem[j] = "allocated"
        /\ thread[j] \in {"ready", "running", "done"})
       => /\ jobEpoch[j] = epoch[navOf[j]]
          /\ \A i \in Job :
               (kind[i] = "generate" /\ navOf[i] = navOf[j]) => thread[i] # "running"
    /\ (kind[j] = "generate" /\ thread[j] \in {"ready", "running"}) => ~IsGenerated(navOf[j])

\* Every job whose thread was started gets its callback, unless the module is
\* shut down: jobs that are stuck in the queue do not hold up the others.
Served ==
  \A j \in Job : (thread[j] = "ready") ~> (calls[j] > 0 \/ lua # "up")

\* Shutdown returns when every job in the queue has a thread to join.
HasThread(j) == thread[j] \in Alive \cup {"done"}
ShutdownReturns ==
  (lua = "closing" /\ \A i \in at .. Len(queue) : HasThread(queue[i])) ~> (lua = "closed")

\* For TLC: jobs are interchangeable, and so are navs.
Symmetry == Permutations(Job) \cup Permutations(Nav)

============================================================================
