------------------------------ MODULE Pstack ------------------------------
(* nixinfo/src/pstack.c: pstack stops a process with ptrace, loads the        *)
(* symbols of the objects it maps and, when one of them is LinuxThreads,      *)
(* finds its threads and stops those too, prints the stack of each and lets   *)
(* all of them run again. A signal may come between any two calls; its        *)
(* handler lets go of what is recorded as stopped and ends pstack, and so     *)
(* does quit, after an error. What the stacks say is left out.                *)
EXTENDS Naturals, Sequences

CONSTANTS Targets,      \* processes pstack is asked about
          ThreadsOf,    \* target -> the pids in its __pthread_handles; 0 is none
          MapOf,        \* target -> the objects of its link_map chain
          Stripped,     \* objects and targets without a symbol table
          WithThreads,  \* objects with __pthread_threads_debug
          FailsAt,      \* what may fail: "attach", "thread", "open", "peek"
          MaxAsked      \* bound: arguments of a run of pstack

ASSUME PstackAssumption == \A p \in Targets : ThreadsOf[p] \in Seq(Nat)

VARIABLES phase,     \* where pstack stands: the place of its next ptrace or list
          thePid,    \* the process asked about; 0 before there is one
          threadsFound,     \* threads.found
          pids,      \* threads.pids
          attached,  \* threads.attached
          threadAt,      \* the thread a loop is at
          loading,    \* the object of the chain loadSymbols is at; 0 is the target's own
          allSyms,   \* the symbol tables loaded: [of, object]
          stopped,   \* external: what ptrace has stopped
          endedIn,       \* where a signal ended pstack; "quit" after an error
          misled,    \* a stack was read of what runs, or with another's symbols
          requests      \* arguments so far

psVars == <<phase, thePid, threadsFound, pids, attached, threadAt, loading, allSyms, stopped, endedIn, misled, requests>>
threads == <<threadsFound, pids, attached>>

PsInit ==
  /\ phase = "main" /\ endedIn = "no" /\ thePid = 0 /\ requests = 0 /\ misled = FALSE
  /\ threadsFound = FALSE /\ pids = <<>> /\ attached = <<>> /\ threadAt = 0
  /\ loading = 0 /\ allSyms = {} /\ stopped = {}

----------------------------------------------------------------------------
(* Letting go. *)

\* Mutant: the threads are left to the process they belong to.
Detached_Process == {thePid}
\* detachall: the threads recorded as attached, then the process. Of what is not
\* stopped PTRACE_DETACH fails, which is reported and no more.
Detached == (IF threadsFound THEN {pids[i] : i \in {i \in 1..Len(pids) : attached[i]}} ELSE {})
            \cup {thePid}

End(why) ==
  /\ phase' = "over" /\ endedIn' = why
  /\ stopped' = stopped \ Detached
  /\ UNCHANGED <<thePid, threads, threadAt, loading, allSyms, misled, requests>>

\* A signal: detachall if there is a process, and exit.
handle_signal == phase # "over" /\ End(phase)

\* quit: an object that cannot be opened or is no ELF file of this machine (verify_ident),
\* a word of the target that cannot be read (readSym, readDynoData, readLinkMap).
quit == phase \in {"symbols", "handles"} /\ FailsAt \cap {"open", "peek"} # {} /\ End("quit")

----------------------------------------------------------------------------
(* main, for each argument. *)

\* attach: ptrace and waitpid.
NextPid ==
  /\ phase = "main" /\ requests < MaxAsked
  /\ requests' = requests + 1
  /\ \E pid \in Targets :
       /\ thePid' = pid
       /\ \/ phase' = "symbols" /\ stopped' = stopped \cup {pid}
          \/ "attach" \in FailsAt /\ phase' = "release" /\ UNCHANGED stopped
  /\ loading' = 0
  /\ UNCHANGED <<threads, threadAt, allSyms, endedIn, misled>>

\* newSyms and find_stables; an object without a symbol table is dropped again.
Loaded(o) == IF o \in Stripped THEN allSyms ELSE allSyms \cup {[of |-> thePid, object |-> o]}

\* loadSymbols: the object of the target itself, without whose symbols nothing
\* else is looked for.
LoadOwn ==
  /\ phase = "symbols" /\ loading = 0
  /\ allSyms' = Loaded(thePid)
  /\ loading' = 1
  /\ phase' = IF thePid \in Stripped THEN "crawl" ELSE "symbols"
  /\ threadAt' = 1
  /\ UNCHANGED <<thePid, threads, stopped, endedIn, misled, requests>>

\* The next object of the chain; checkForThreads in one that has symbols, unless
\* threads are found.
LoadLinked ==
  /\ phase = "symbols" /\ loading \in 1..Len(MapOf[thePid])
  /\ LET o == MapOf[thePid][loading] IN
     /\ allSyms' = Loaded(o)
     /\ phase' = IF o \in WithThreads \ Stripped /\ ~threadsFound /\ Len(ThreadsOf[thePid]) # 1
                 THEN "handles" ELSE "symbols"
  /\ loading' = loading + 1
  /\ UNCHANGED <<thePid, threads, threadAt, stopped, endedIn, misled, requests>>

LoadEnd ==
  /\ phase = "symbols" /\ loading > Len(MapOf[thePid])
  /\ phase' = "crawl" /\ threadAt' = 1
  /\ UNCHANGED <<thePid, threads, loading, allSyms, stopped, endedIn, misled, requests>>

\* checkForThreads: the pids are read, then threads.found is set, then the loop.
ReadHandles ==
  /\ phase = "handles"
  /\ pids' = ThreadsOf[thePid]
  /\ attached' = [i \in 1..Len(ThreadsOf[thePid]) |-> FALSE]
  /\ threadsFound' = TRUE
  /\ threadAt' = 1 /\ phase' = "attach"
  /\ UNCHANGED <<thePid, loading, allSyms, stopped, endedIn, misled, requests>>

\* A thread of the loop is stopped and waited for, unless it has ended meanwhile.
AttachThread ==
  /\ phase = "attach" /\ threadAt <= Len(pids) /\ pids[threadAt] \notin {0, thePid}
  /\ \/ phase' = "record" /\ stopped' = stopped \cup {pids[threadAt]} /\ UNCHANGED threadAt
     \/ "thread" \in FailsAt /\ threadAt' = threadAt + 1 /\ UNCHANGED <<phase, stopped>>
  /\ UNCHANGED <<thePid, threads, loading, allSyms, endedIn, misled, requests>>

\* It is recorded; the process itself is stopped already.
Record ==
  /\ \/ phase = "record"
     \/ phase = "attach" /\ threadAt <= Len(pids) /\ pids[threadAt] = thePid
  /\ attached' = [attached EXCEPT ![threadAt] = TRUE]
  /\ threadAt' = threadAt + 1 /\ phase' = "attach"
  /\ UNCHANGED <<thePid, threadsFound, pids, loading, allSyms, stopped, endedIn, misled, requests>>

SkipNone ==
  /\ phase = "attach" /\ threadAt <= Len(pids) /\ pids[threadAt] = 0
  /\ threadAt' = threadAt + 1
  /\ UNCHANGED <<phase, thePid, threads, loading, allSyms, stopped, endedIn, misled, requests>>

AttachEnd ==
  /\ phase = "attach" /\ threadAt > Len(pids)
  /\ phase' = "symbols"
  /\ UNCHANGED <<thePid, threads, threadAt, loading, allSyms, stopped, endedIn, misled, requests>>

\* crawl: of each thread that is attached, or of the process.
Crawled == IF threadsFound THEN pids[threadAt] ELSE thePid

Crawl ==
  /\ phase = "crawl" /\ threadAt <= (IF threadsFound THEN Len(pids) ELSE 1)
  /\ misled' = (misled \/ /\ threadsFound => attached[threadAt]
                          /\ Crawled \notin stopped \/ \E s \in allSyms : s.of # thePid)
  /\ threadAt' = threadAt + 1
  /\ UNCHANGED <<phase, thePid, threads, loading, allSyms, stopped, endedIn, requests>>

CrawlEnd ==
  /\ phase = "crawl" /\ threadAt > (IF threadsFound THEN Len(pids) ELSE 1)
  /\ phase' = "release"
  /\ UNCHANGED <<thePid, threads, threadAt, loading, allSyms, stopped, endedIn, misled, requests>>

Release ==
  /\ phase = "release"
  /\ stopped' = stopped \ Detached
  /\ phase' = "reset"
  /\ UNCHANGED <<thePid, threads, threadAt, loading, allSyms, endedIn, misled, requests>>

\* resetData: threads and symbols.
Reset ==
  /\ phase = "reset"
  /\ threadsFound' = FALSE /\ pids' = <<>> /\ attached' = <<>>
  /\ allSyms' = {}
  /\ phase' = "main"
  /\ UNCHANGED <<thePid, threadAt, loading, stopped, endedIn, misled, requests>>

PsNext ==
  \/ handle_signal \/ quit \/ NextPid \/ LoadOwn \/ LoadLinked \/ LoadEnd \/ ReadHandles
  \/ AttachThread \/ Record \/ SkipNone \/ AttachEnd \/ Crawl \/ CrawlEnd \/ Release \/ Reset

PsSpec == PsInit /\ [][PsNext]_psVars

----------------------------------------------------------------------------
\* Between two processes and after the end, whatever ended it, nothing pstack has
\* stopped is left so, but the one thread that had been stopped and not yet been
\* recorded when a signal came; and stacks are read of what stands still, with
\* the symbols of its own process.
PstackLetsGo ==
  /\ ~misled
  /\ phase = "main" => stopped = {}
  /\ phase = "over" => stopped \subseteq (IF endedIn = "record" THEN {pids[threadAt]} ELSE {})
============================================================================
