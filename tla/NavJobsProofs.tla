--------------------------- MODULE NavJobsProofs ---------------------------
(***************************************************************************)
(* Proofs about NavJobs.                                                   *)
(***************************************************************************)
EXTENDS NavJobs, SeqLemmas

Act == [i : Nat \ {0}, info : Job \cup {NULL}, update : BOOLEAN]

(***************************************************************************)
(* Types.                                                                  *)
(***************************************************************************)

LEMMA ActFacts ==
  ASSUME NEW s \in Seq(Act), NEW k \in 1 .. Len(s)
  PROVE  /\ s[k] \in Act
         /\ s[k].i \in Nat \ {0} /\ s[k].info \in Job \cup {NULL} /\ s[k].update \in BOOLEAN
<1>1. s[k] \in Act
  OBVIOUS
<1> QED BY <1>1 DEF Act

\* The innermost activation, and what writing it leaves of the others.
LEMMA TopFacts ==
  ASSUME TypeOK, polls # <<>>
  PROVE  /\ Len(polls) \in 1 .. Len(polls) /\ Top \in Act /\ Top = polls[Len(polls)]
         /\ Top.i \in Nat \ {0} /\ Top.info \in Job \cup {NULL} /\ Top.update \in BOOLEAN
<1>1. polls \in Seq(Act)
  BY DEF TypeOK, Act
<1>2. Len(polls) \in Nat /\ Len(polls) # 0
  BY <1>1, EmptySeq
<1>3. Top \in Act
  BY <1>1, <1>2 DEF Top
<1> QED BY <1>2, <1>3 DEF Act, Top

LEMMA SetTopFacts ==
  ASSUME TypeOK, polls # <<>>, NEW i \in Nat \ {0}, NEW info \in Job \cup {NULL},
         NEW u \in BOOLEAN, SetTop(i, info, u)
  PROVE  /\ polls' \in Seq(Act) /\ polls' # <<>> /\ Len(polls') = Len(polls)
         /\ polls'[Len(polls)] = [i |-> i, info |-> info, update |-> u]
         /\ Top' = [i |-> i, info |-> info, update |-> u]
         /\ Top'.i = i /\ Top'.info = info /\ Top'.update = u
         /\ polls'[Len(polls)].info = info /\ polls'[Len(polls)].update = u
         /\ \A k \in 1 .. Len(polls) : k # Len(polls) => polls'[k] = polls[k]
<1>1. polls \in Seq(Act)
  BY DEF TypeOK, Act
<1> DEFINE a == [i |-> i, info |-> info, update |-> u]
<1>2. a \in Act
  BY DEF Act
<1>3. polls' = [polls EXCEPT ![Len(polls)] = a]
  BY DEF SetTop
<1> HIDE DEF a
<1>4. /\ polls' \in Seq(Act) /\ polls' # <<>> /\ Len(polls') = Len(polls)
      /\ polls'[Len(polls)] = a
      /\ \A k \in 1 .. Len(polls) : k # Len(polls) => polls'[k] = polls[k]
  BY <1>1, <1>2, <1>3, ReplaceLastFacts
<1>5. Top' = a
  BY <1>4 DEF Top
<1>6. a.i = i /\ a.info = info /\ a.update = u
  BY DEF a
<1> QED BY <1>4, <1>5, <1>6 DEF a

\* A new activation, and the end of one.
LEMMA PushFacts ==
  ASSUME TypeOK, polls' = Append(polls, Activation)
  PROVE  /\ polls' \in Seq(Act) /\ Len(polls') = Len(polls) + 1
         /\ polls'[Len(polls) + 1] = Activation
         /\ \A k \in 1 .. Len(polls) : polls'[k] = polls[k]
<1>1. polls \in Seq(Act) /\ Activation \in Act
  BY DEF TypeOK, Act, Activation
<1> HIDE DEF Activation
<1> QED BY <1>1, AppendProperties

LEMMA PopFacts ==
  ASSUME TypeOK, polls # <<>>, polls' = Front(polls)
  PROVE  /\ polls' \in Seq(Act) /\ Len(polls) = Len(polls') + 1 /\ Len(polls') \in Nat
         /\ \A k \in 1 .. Len(polls') : polls'[k] = polls[k]
<1>1. polls \in Seq(Act)
  BY DEF TypeOK, Act
<1> QED BY <1>1, FrontFacts

\* What the steps do to the queue keeps it a sequence of jobs.
LEMMA QueueTypes ==
  ASSUME TypeOK
  PROVE  /\ \A j \in Job : Append(queue, j) \in Seq(Job)
         /\ \A i \in Nat \ {0} : RemoveEntry(i) \in Seq(Job)
         /\ Looking => Looked \in Job
         /\ Waiting /\ at \in Nat \ {0} => queue[at] \in Job
<1>1. queue \in Seq(Job) /\ Len(queue) \in Nat
  BY DEF TypeOK
<1>2. ASSUME NEW i \in Nat \ {0} PROVE RemoveEntry(i) \in Seq(Job)
  <2>1. CASE i <= Len(queue)
    <3>1. i \in 1 .. Len(queue)
      BY <1>1, <1>2, <2>1
    <3> QED BY <1>1, <2>1, <3>1, RemoveAtFacts DEF RemoveEntry
  <2>2. CASE ~ (i <= Len(queue))
    BY <1>1, <2>2 DEF RemoveEntry
  <2> QED BY <2>1, <2>2
<1>3. Looking => Looked \in Job
  <2> SUFFICES ASSUME Looking PROVE Looked \in Job
    OBVIOUS
  <2>1. Top.i \in Nat \ {0} /\ Top.i <= Len(queue)
    BY TopFacts DEF Looking, Between
  <2>2. Top.i \in 1 .. Len(queue)
    BY <1>1, <2>1
  <2> QED BY <1>1, <2>2 DEF Looked
<1> QED BY <1>1, <1>2, <1>3 DEF Waiting

\* Shutdown's index counts from 1.
AtInv == (lua \in {"closing", "closed"}) => at # 0

LEMMA TypeInit == Init => TypeOK /\ AtInv
BY DEF Init, TypeOK, Stages, AtInv

LEMMA TypeStep ==
  ASSUME TypeOK, AtInv, [Next]_vars
  PROVE  TypeOK' /\ AtInv'
<1> USE DEF TypeOK, AtInv
<1>1. ASSUME NEW j \in Job, NEW u \in BOOLEAN, Generate(j, u)
      PROVE  TypeOK' /\ AtInv'
  <2>1. queue' \in Seq(Job)
    BY <1>1, QueueTypes DEF Generate, Allocate
  <2>2. /\ mem' \in [Job -> {"unused", "allocated", "freed"}]
        /\ kind' \in [Job -> {"path", "generate"}]
        /\ jobEpoch' \in [Job -> Nat] /\ updates' \in [Job -> BOOLEAN]
    BY <1>1 DEF Generate, Allocate
  <2>3. /\ thread' \in [Job -> Stages] /\ generating' \in [Nav -> BOOLEAN]
        /\ generated' \in [Nav -> BOOLEAN] /\ epoch' \in [Nav -> Nat]
    <3>1. CASE Refused(navOf[j])
      BY <1>1, <3>1 DEF Generate
    <3>2. CASE ~Refused(navOf[j])
      <4>1. thread' = [thread EXCEPT ![j] = "ready"] /\ ResetGeneration(navOf[j])
        BY <1>1, <3>2 DEF Generate
      <4>2. thread' \in [Job -> Stages]
        BY <4>1 DEF Stages
      <4> QED BY <4>1, <4>2 DEF ResetGeneration
    <3> QED BY <3>1, <3>2
  <2> QED BY <1>1, <2>1, <2>2, <2>3 DEF Generate, luaVars
<1>2. ASSUME NEW j \in Job, FindPath(j)
      PROVE  TypeOK' /\ AtInv'
  <2>1. queue' \in Seq(Job)
    BY <1>2, QueueTypes DEF FindPath, Allocate
  <2>2. /\ mem' \in [Job -> {"unused", "allocated", "freed"}]
        /\ kind' \in [Job -> {"path", "generate"}]
        /\ jobEpoch' \in [Job -> Nat] /\ thread' \in [Job -> Stages]
    BY <1>2 DEF FindPath, Allocate, Stages
  <2> QED BY <1>2, <2>1, <2>2 DEF FindPath, luaVars, navVars
<1>3. ASSUME NEW n \in Nav, Load(n) \/ ResetByScript(n) \/ FullGeneration(n)
      PROVE  TypeOK' /\ AtInv'
  <2>1. /\ generating' \in [Nav -> BOOLEAN]
        /\ generated' \in [Nav -> BOOLEAN] /\ epoch' \in [Nav -> Nat]
    <3>1. CASE Load(n)
      BY <3>1 DEF Load
    <3>2. CASE ResetByScript(n)
      BY <3>2 DEF ResetByScript, ResetGeneration
    <3>3. CASE FullGeneration(n)
      BY <3>3 DEF FullGeneration
    <3> QED BY <1>3, <3>1, <3>2, <3>3
  <2> QED BY <1>3, <2>1 DEF Load, ResetByScript, FullGeneration, jobVars, luaVars
<1>4. ASSUME NEW j \in Job, WorkerStep(j)
      PROVE  TypeOK' /\ AtInv'
  <2>1. thread' \in [Job -> Stages]
    BY <1>4 DEF WorkerStep, Acquire, EndSearch, StartGeneration, AbortGeneration,
                MarkGenerated, ClearGenerating, EndGeneration, Stage, Stages
  <2>2. lock' \in [Nav -> Job \cup {NULL}]
    BY <1>4 DEF WorkerStep, Acquire, EndSearch, StartGeneration, AbortGeneration,
                MarkGenerated, ClearGenerating, EndGeneration, navVars
  <2>3. generating' \in [Nav -> BOOLEAN] /\ generated' \in [Nav -> BOOLEAN] /\ epoch' = epoch
    BY <1>4 DEF WorkerStep, Acquire, EndSearch, StartGeneration, AbortGeneration,
                MarkGenerated, ClearGenerating, EndGeneration, navVars
  <2>4. UNCHANGED <<jobVars, luaVars>>
    BY <1>4 DEF WorkerStep, Acquire, EndSearch, StartGeneration, AbortGeneration,
                MarkGenerated, ClearGenerating, EndGeneration
  <2> QED BY <2>1, <2>2, <2>3, <2>4 DEF jobVars, luaVars
<1>5. CASE Think \/ Reenter
  <2>1. polls' = Append(polls, Activation)
    <3>1. Append(<<>>, Activation) = <<Activation>>
      OBVIOUS
    <3> QED BY <1>5, <3>1 DEF Think, Reenter
  <2>2. polls' \in Seq(Act)
    BY <2>1, PushFacts
  <2> QED BY <1>5, <2>2 DEF Think, Reenter, jobVars, navVars, Act
<1>6. CASE PollReturns \/ CallbackRaises
  <2>1. polls # <<>> /\ polls' = Front(polls)
    BY <1>6 DEF PollReturns, CallbackRaises, Between
  <2>2. polls' \in Seq(Act)
    BY <2>1, PopFacts
  <2> QED BY <1>6, <2>2 DEF PollReturns, CallbackRaises, jobVars, navVars, Act
<1>7. CASE PollCrashes
  BY <1>7 DEF PollCrashes, jobVars, navVars
<1>8. CASE StartCallback
  <2>1. Looked \in Job /\ polls # <<>> /\ Top.i \in Nat \ {0}
    BY <1>8, QueueTypes, TopFacts DEF StartCallback, Looking, Between
  <2>2. polls' \in Seq(Act)
    BY <1>8, <2>1, SetTopFacts DEF StartCallback
  <2>3. thread' \in [Job -> Stages] /\ calls' \in [Job -> Nat]
    BY <1>8, <2>1 DEF StartCallback, Stages
  <2> QED BY <1>8, <2>2, <2>3 DEF StartCallback, jobVars, navVars, Act
<1>9. CASE StartUpdate \/ PollSkips
  <2>1. Looked \in Job /\ polls # <<>> /\ Top.i \in Nat \ {0}
    BY <1>9, QueueTypes, TopFacts DEF StartUpdate, PollSkips, Looking, Between
  <2>2. Top.i + 1 \in Nat \ {0}
    BY <2>1
  <2>3. polls' \in Seq(Act)
    BY <1>9, <2>1, <2>2, SetTopFacts DEF StartUpdate, PollSkips, NextIndex
  <2> QED BY <1>9, <2>3 DEF StartUpdate, PollSkips, jobVars, navVars, Act
<1>10. CASE CallbackReturns
  <2>1. polls # <<>> /\ Top.i \in Nat \ {0}
    BY <1>10, TopFacts DEF CallbackReturns
  <2>2. polls' \in Seq(Act)
    <3>1. SetTop(2, NULL, FALSE)
      BY <1>10 DEF CallbackReturns
    <3>2. 2 \in Nat \ {0} /\ FALSE \in BOOLEAN /\ NULL \in Job \cup {NULL}
      OBVIOUS
    <3> HIDE DEF TypeOK
    <3> QED BY <2>1, <3>1, <3>2, SetTopFacts
  <2>3. queue' \in Seq(Job) /\ mem' \in [Job -> {"unused", "allocated", "freed"}]
    BY <1>10, <2>1, QueueTypes DEF CallbackReturns
  <2> QED BY <1>10, <2>2, <2>3 DEF CallbackReturns, navVars, Act
<1>11. CASE UpdateReturns
  <2>1. polls # <<>> /\ Top.i + 1 \in Nat \ {0}
    <3>1. polls # <<>>
      BY <1>11 DEF UpdateReturns
    <3> HIDE DEF TypeOK
    <3>2. Top.i \in Nat \ {0}
      BY <3>1, TopFacts
    <3> QED BY <3>1, <3>2
  <2>2. polls' \in Seq(Act)
    BY <1>11, <2>1, SetTopFacts DEF UpdateReturns
  <2> QED BY <1>11, <2>2 DEF UpdateReturns, jobVars, navVars, Act
<1>12. CASE BeginShutdown
  BY <1>12 DEF BeginShutdown, jobVars, navVars
<1>13. CASE ShutdownAborts
  BY <1>13 DEF ShutdownAborts, luaVars, navVars
<1>14. CASE ShutdownJoins
  <2>1. thread' = [thread EXCEPT ![queue[at]] = "joined"] /\ at' = at + 1
    BY <1>14 DEF ShutdownJoins, JoinedAfterAbort
  <2>2. at' \in Nat /\ at' # 0
    BY <2>1
  <2>3. queue[at] \in Job
    BY <1>14, QueueTypes DEF ShutdownJoins, Waiting
  <2>4. thread' \in [Job -> Stages]
    BY <2>1, <2>3 DEF Stages
  <2> QED BY <1>14, <2>2, <2>4 DEF ShutdownJoins, jobVars, navVars
<1>15. CASE EndShutdown
  BY <1>15 DEF EndShutdown, jobVars, navVars
<1>16. CASE UNCHANGED vars
  BY <1>16 DEF vars, jobVars, navVars, luaVars
<1> QED
  BY <1>1, <1>2, <1>3, <1>4, <1>5, <1>6, <1>7, <1>8, <1>9, <1>10, <1>11, <1>12,
     <1>13, <1>14, <1>15, <1>16
  DEF Next, ScriptStep, PollStep, ShutdownStep

\* TypeOK holds in every behaviour, whatever callbacks do and however deep they
\* poll again.
THEOREM JobsTyped == Spec => [](TypeOK /\ AtInv)
<1>1. Init => TypeOK /\ AtInv
  BY TypeInit
<1>2. TypeOK /\ AtInv /\ [Next]_vars => TypeOK' /\ AtInv'
  BY TypeStep
<1> QED BY <1>1, <1>2, PTL DEF Spec

(***************************************************************************)
(* Callbacks.                                                              *)
(***************************************************************************)

\* A job whose callback was started is one whose thread was joined, which
\* happens once, and only such a job is freed.
CallsInv ==
  /\ \A j \in Job : mem[j] = "unused" => calls[j] = 0 /\ thread[j] = "none"
  /\ \A j \in Job : calls[j] = 0 \/ (calls[j] = 1 /\ thread[j] = "joined")
  /\ \A j \in Job : mem[j] = "freed" => calls[j] = 1
  /\ \A k \in 1 .. Len(polls) :
       (polls[k].info # NULL /\ ~polls[k].update) => calls[polls[k].info] = 1

LEMMA CallsStep ==
  ASSUME TypeOK, CallsInv, [Next]_vars
  PROVE  CallsInv'
<1>a. polls \in Seq(Act) /\ Len(polls) \in Nat
  BY DEF TypeOK, Act
<1>b. \A k \in 1 .. Len(polls) : polls[k].info \in Job \cup {NULL}
  BY <1>a, ActFacts
<1>1. ASSUME NEW j \in Job,
             \/ \E u \in BOOLEAN : Generate(j, u)
             \/ FindPath(j)
      PROVE  CallsInv'
  <2>1. /\ mem[j] = "unused" /\ mem' = [mem EXCEPT ![j] = "allocated"]
        /\ UNCHANGED <<polls, calls>>
        /\ thread' = [thread EXCEPT ![j] = "ready"] \/ thread' = thread
    BY <1>1 DEF Generate, FindPath, Allocate, luaVars
  <2>2. calls[j] = 0
    BY <2>1 DEF CallsInv
  <2>3. \A i \in Job : i # j => mem'[i] = mem[i] /\ thread'[i] = thread[i]
    BY <2>1 DEF TypeOK
  <2>4. mem'[j] = "allocated"
    BY <2>1 DEF TypeOK
  <2> QED BY <2>1, <2>2, <2>3, <2>4 DEF CallsInv
<1>2. ASSUME NEW n \in Nav, Load(n) \/ ResetByScript(n) \/ FullGeneration(n)
      PROVE  CallsInv'
  BY <1>2 DEF Load, ResetByScript, FullGeneration, jobVars, luaVars, CallsInv
<1>3. ASSUME NEW j \in Job, WorkerStep(j)
      PROVE  CallsInv'
  <2>1. /\ thread[j] \in Alive /\ \E to : thread' = [thread EXCEPT ![j] = to]
        /\ UNCHANGED <<mem, polls, calls>>
    BY <1>3 DEF WorkerStep, Acquire, EndSearch, StartGeneration, AbortGeneration, MarkGenerated,
                ClearGenerating, EndGeneration, Stage, Alive, jobVars, luaVars
  <2>2. calls[j] = 0 /\ mem[j] # "unused"
    BY <2>1 DEF CallsInv, Alive
  <2>3. \A i \in Job : i # j => thread'[i] = thread[i]
    BY <2>1 DEF TypeOK
  <2> QED BY <2>1, <2>2, <2>3 DEF CallsInv
<1>4. CASE Think \/ Reenter
  <2>1. Append(<<>>, Activation) = <<Activation>>
    OBVIOUS
  <2>2. polls' = Append(polls, Activation) /\ UNCHANGED <<mem, thread, calls>>
    BY <1>4, <2>1 DEF Think, Reenter, jobVars
  <2>3. \A k \in 1 .. Len(polls') : k = Len(polls) + 1 \/ k \in 1 .. Len(polls)
    BY <1>a, <2>2, PushFacts
  <2>4. polls'[Len(polls) + 1] = Activation /\ \A k \in 1 .. Len(polls) : polls'[k] = polls[k]
    BY <2>2, PushFacts
  <2>5. Activation.info = NULL
    BY DEF Activation
  <2> HIDE DEF Activation
  <2> QED BY <2>2, <2>3, <2>4, <2>5 DEF CallsInv
<1>5. CASE PollReturns \/ CallbackRaises
  <2>1. polls # <<>> /\ polls' = Front(polls) /\ UNCHANGED <<mem, thread, calls>>
    BY <1>5 DEF PollReturns, CallbackRaises, Between, jobVars
  <2>2. \A k \in 1 .. Len(polls') : k \in 1 .. Len(polls) /\ polls'[k] = polls[k]
    <3>1. /\ Len(polls) = Len(polls') + 1 /\ Len(polls') \in Nat
          /\ \A k \in 1 .. Len(polls') : polls'[k] = polls[k]
      BY <2>1, PopFacts
    <3> QED BY <3>1
  <2> QED BY <2>1, <2>2 DEF CallsInv
<1>6. CASE PollCrashes \/ BeginShutdown \/ ShutdownAborts \/ EndShutdown
  BY <1>6 DEF PollCrashes, BeginShutdown, ShutdownAborts, EndShutdown, jobVars, luaVars, CallsInv
<1>7. CASE StartCallback
  <2>1. Looked \in Job /\ polls # <<>> /\ Top.i \in Nat \ {0}
    BY <1>7, QueueTypes, TopFacts DEF StartCallback, Looking, Between
  <2>2. /\ mem[Looked] = "allocated" /\ thread[Looked] = "done"
        /\ thread' = [thread EXCEPT ![Looked] = "joined"]
        /\ calls' = [calls EXCEPT ![Looked] = @ + 1]
        /\ mem' = mem
        /\ SetTop(Top.i, Looked, FALSE)
    BY <1>7 DEF StartCallback, Joinable, jobVars
  <2>3. calls[Looked] = 0
    BY <2>1, <2>2 DEF CallsInv
  <2>4. thread'[Looked] = "joined" /\ calls'[Looked] = 1
    BY <2>1, <2>2, <2>3 DEF TypeOK
  <2>5. \A i \in Job : i # Looked => thread'[i] = thread[i] /\ calls'[i] = calls[i]
    BY <2>1, <2>2 DEF TypeOK
  <2>6. /\ Len(polls') = Len(polls) /\ polls'[Len(polls)].info = Looked
        /\ \A k \in 1 .. Len(polls) : k # Len(polls) => polls'[k] = polls[k]
    <3>1. Looked \in Job \cup {NULL} /\ FALSE \in BOOLEAN /\ SetTop(Top.i, Looked, FALSE)
      BY <2>1, <2>2
    <3> QED BY <2>1, <3>1, SetTopFacts
  <2>7. ASSUME NEW k \in 1 .. Len(polls'), polls'[k].info # NULL, ~polls'[k].update
        PROVE  calls'[polls'[k].info] = 1
    <3>1. CASE k = Len(polls)
      BY <2>4, <2>6, <3>1
    <3>2. CASE k # Len(polls)
      <4>1. polls'[k] = polls[k] /\ polls[k].info \in Job /\ calls[polls[k].info] = 1
        BY <1>b, <2>6, <2>7, <3>2 DEF CallsInv
      <4> QED BY <2>3, <2>5, <4>1
    <3> QED BY <3>1, <3>2
  <2> QED BY <2>1, <2>2, <2>4, <2>5, <2>7 DEF CallsInv
<1>8. CASE StartUpdate \/ PollSkips \/ UpdateReturns
  <2>1. polls # <<>> /\ Top.i \in Nat \ {0} /\ Top.i + 1 \in Nat \ {0}
    <3>1. polls # <<>>
      BY <1>8 DEF StartUpdate, PollSkips, UpdateReturns, Looking, Between
    <3>2. Top.i \in Nat \ {0}
      BY <3>1, TopFacts
    <3>3. Top.i + 1 \in Nat \ {0}
      BY <3>2
    <3> QED BY <3>1, <3>2, <3>3
  <2>2. UNCHANGED <<mem, thread, calls>>
    BY <1>8 DEF StartUpdate, PollSkips, UpdateReturns, jobVars
  <2>3. /\ Len(polls') = Len(polls)
        /\ polls'[Len(polls)].info = NULL \/ polls'[Len(polls)].update
        /\ \A k \in 1 .. Len(polls) : k # Len(polls) => polls'[k] = polls[k]
    <3>1. CASE StartUpdate
      <4>1. SetTop(Top.i, Looked, TRUE) /\ Looked \in Job
        BY <3>1, QueueTypes DEF StartUpdate
      <4>2. Looked \in Job \cup {NULL} /\ TRUE \in BOOLEAN
        BY <4>1
      <4> QED BY <2>1, <4>1, <4>2, SetTopFacts
    <3>2. CASE PollSkips \/ UpdateReturns
      <4>1. SetTop(Top.i + 1, NULL, FALSE)
        BY <3>2 DEF PollSkips, UpdateReturns, NextIndex
      <4>2. NULL \in Job \cup {NULL} /\ FALSE \in BOOLEAN
        OBVIOUS
      <4> QED BY <2>1, <4>1, <4>2, SetTopFacts
    <3> QED BY <1>8, <3>1, <3>2
  <2> QED BY <2>2, <2>3 DEF CallsInv
<1>9. CASE CallbackReturns
  <2>1. polls # <<>> /\ Top.info \in Job /\ ~Top.update /\ Top.info # NULL
        /\ mem' = [mem EXCEPT ![Top.info] = "freed"] /\ UNCHANGED <<thread, calls>>
        /\ SetTop(2, NULL, FALSE)
    BY <1>9, TopFacts DEF CallbackReturns
  <2>2. calls[Top.info] = 1
    BY <2>1, TopFacts DEF CallsInv
  <2>3. \A i \in Job : i # Top.info => mem'[i] = mem[i]
    BY <2>1 DEF TypeOK
  <2>4. mem'[Top.info] = "freed"
    BY <2>1 DEF TypeOK
  <2>5. /\ Len(polls') = Len(polls)
        /\ polls'[Len(polls)].info = NULL
        /\ \A k \in 1 .. Len(polls) : k # Len(polls) => polls'[k] = polls[k]
    <3>1. 2 \in Nat \ {0} /\ NULL \in Job \cup {NULL} /\ FALSE \in BOOLEAN
      OBVIOUS
    <3> QED BY <2>1, <3>1, SetTopFacts
  <2>6. \A i \in Job : mem'[i] = mem[i] \/ (mem'[i] = "freed" /\ calls[i] = 1)
    BY <2>2, <2>3, <2>4
  <2> QED BY <2>1, <2>5, <2>6 DEF CallsInv
<1>10. CASE ShutdownJoins
  <2>1. /\ thread[queue[at]] = "done" /\ thread' = [thread EXCEPT ![queue[at]] = "joined"]
        /\ UNCHANGED <<mem, polls, calls>>
    BY <1>10 DEF ShutdownJoins, JoinedAfterAbort, Joinable, jobVars
  <2>2. \A i \in Job : thread'[i] = thread[i] \/ (thread'[i] = "joined" /\ thread[i] = "done")
    BY <2>1 DEF TypeOK
  <2> QED BY <2>1, <2>2 DEF CallsInv
<1>11. CASE UNCHANGED vars
  BY <1>11 DEF vars, jobVars, luaVars, CallsInv
<1> QED
  BY <1>1, <1>2, <1>3, <1>4, <1>5, <1>6, <1>7, <1>8, <1>9, <1>10, <1>11
  DEF Next, ScriptStep, PollStep, ShutdownStep

LEMMA CallsInit == Init => CallsInv
BY DEF Init, CallsInv

\* Whatever scripts call from a callback, a job is called back after its join, once.
THEOREM CallsInvariant == Spec => []CallsInv
<1>1. Init => CallsInv
  BY CallsInit
<1>2. TypeOK /\ CallsInv /\ [Next]_vars => CallsInv'
  BY CallsStep
<1> QED BY <1>1, <1>2, JobsTyped, PTL DEF Spec

\* CalledOnce holds in every behaviour: no callback is started twice, and none
\* is deleted uncalled, also when callbacks raise, poll again to any depth, and
\* generations start while another runs. A thread that was joined is never
\* joined again, and that is all that keeps Poll from it.
THEOREM OnceCalled == Spec => []CalledOnce
<1>1. CallsInv => CalledOnce
  BY DEF CallsInv, CalledOnce
<1> QED BY <1>1, CallsInvariant, PTL

(***************************************************************************)
(* The queue, when callbacks do not poll again.                            *)
(***************************************************************************)

\* Polling again from a callback is a habit.
NoReentry == "reenter" \notin Habits

\* There is one activation at most, and while it runs a callback the entry at
\* its index is the job of the callback; Shutdown leaves joined threads behind.
QueueInv ==
  /\ QueueIsLive
  /\ lua # "crashed"
  /\ Len(polls) <= 1
  /\ lua # "up" => polls = <<>>
  /\ (polls # <<>> /\ Top.info # NULL) => Top.i <= Len(queue) /\ queue[Top.i] = Top.info
  /\ lua \in {"closing", "closed"} =>
       /\ at <= Len(queue) + 1
       /\ \A i \in 1 .. at - 1 : thread[queue[i]] = "joined"
  /\ lua = "closed" => at > Len(queue)

\* Queueing a job that was unused.
LEMMA QueueAllocates ==
  ASSUME TypeOK, CallsInv, QueueInv, NEW j \in Job, ScriptRuns,
         mem[j] = "unused", mem' = [mem EXCEPT ![j] = "allocated"],
         queue' = Append(queue, j),
         thread' = [thread EXCEPT ![j] = "ready"] \/ thread' = thread,
         UNCHANGED luaVars
  PROVE  QueueInv'
<1>1. queue \in Seq(Job) /\ Len(queue) \in Nat /\ DOMAIN queue = 1 .. Len(queue)
  BY DEF TypeOK
<1>2. lua = "up" /\ lua' = "up" /\ polls' = polls
  BY DEF ScriptRuns, luaVars
<1>3. /\ queue' \in Seq(Job) /\ Len(queue') = Len(queue) + 1 /\ queue'[Len(queue) + 1] = j
      /\ \A i \in 1 .. Len(queue) : queue'[i] = queue[i]
  BY <1>1, AppendProperties
<1>4. ToSet(queue') = ToSet(queue) \cup {j}
  BY <1>1, AppendFacts
<1>5. /\ mem'[j] = "allocated"
      /\ \A i \in Job : i # j => mem'[i] = mem[i] /\ thread'[i] = thread[i]
  BY DEF TypeOK
<1>6. j \notin ToSet(queue)
  BY DEF QueueInv, QueueIsLive
<1>7. \A i \in 1 .. Len(queue) : queue[i] \in ToSet(queue)
  BY <1>1 DEF ToSet
<1>8. ASSUME NEW i \in 1 .. Len(queue'), NEW k \in 1 .. Len(queue'), queue'[i] = queue'[k]
      PROVE  i = k
  <2>1. /\ i = Len(queue) + 1 \/ i \in 1 .. Len(queue)
        /\ k = Len(queue) + 1 \/ k \in 1 .. Len(queue)
    BY <1>1, <1>3
  <2> QED BY <1>3, <1>6, <1>7, <1>8, <2>1 DEF QueueInv, QueueIsLive
<1>9. ToSet(queue') = { i \in Job : mem'[i] = "allocated" }
  BY <1>4, <1>5 DEF QueueInv, QueueIsLive
<1>10. \A i \in Job : thread'[i] \in Alive => mem'[i] = "allocated" /\ lua' # "closed"
  BY <1>2, <1>5 DEF QueueInv, QueueIsLive
<1>11. QueueIsLive'
  BY <1>8, <1>9, <1>10 DEF QueueIsLive
<1>12. Top' = Top
  BY <1>2 DEF Top
<1>13. (polls' # <<>> /\ Top'.info # NULL) => Top'.i <= Len(queue') /\ queue'[Top'.i] = Top'.info
  <2> SUFFICES ASSUME polls # <<>>, Top.info # NULL
               PROVE  Top.i <= Len(queue') /\ queue'[Top.i] = Top.info
    BY <1>2, <1>12
  <2>1. Top.i <= Len(queue) /\ queue[Top.i] = Top.info
    BY DEF QueueInv
  <2>2. Top.i \in Nat \ {0}
    BY TopFacts
  <2>3. Top.i \in 1 .. Len(queue)
    BY <1>1, <2>1, <2>2
  <2> QED BY <1>1, <1>3, <2>1, <2>3
<1> QED BY <1>2, <1>11, <1>13 DEF QueueInv

\* Steps of threads and of Shutdown, and those that only write the innermost
\* activation.
LEMMA QueueKeeps ==
  ASSUME TypeOK, QueueInv, UNCHANGED <<queue, mem, lua, at>>,
         polls' = polls \/ (polls # <<>> /\ Len(polls') = Len(polls) /\ Top'.info = NULL /\ lua = "up"),
         \A j \in Job : /\ thread'[j] \in Alive => thread[j] \in Alive
                        /\ thread[j] = "joined" => thread'[j] = "joined"
  PROVE  QueueInv'
<1>1. QueueIsLive'
  BY DEF QueueInv, QueueIsLive
<1>2. queue \in Seq(Job) /\ Len(queue) \in Nat /\ at \in Nat
  BY DEF TypeOK
<1>3. (lua \in {"closing", "closed"})' =>
        /\ at' <= Len(queue') + 1
        /\ \A i \in 1 .. at' - 1 : thread'[queue'[i]] = "joined"
  <2> SUFFICES ASSUME lua \in {"closing", "closed"}, NEW i \in 1 .. at - 1
               PROVE  at <= Len(queue) + 1 /\ thread'[queue[i]] = "joined"
    BY DEF QueueInv
  <2>1. at <= Len(queue) + 1 /\ thread[queue[i]] = "joined"
    BY DEF QueueInv
  <2>2. i \in 1 .. Len(queue)
    BY <1>2, <2>1
  <2>3. queue[i] \in Job
    BY <1>2, <2>2
  <2> QED BY <2>1, <2>3
<1>4. CASE polls' = polls
  BY <1>1, <1>3, <1>4 DEF QueueInv, Top
<1>5. CASE polls # <<>> /\ Len(polls') = Len(polls) /\ Top'.info = NULL /\ lua = "up"
  BY <1>1, <1>3, <1>5 DEF QueueInv
<1> QED BY <1>4, <1>5

LEMMA QueueStep ==
  ASSUME NoReentry, TypeOK, AtInv, CallsInv, QueueInv, [Next]_vars
  PROVE  QueueInv'
<1>a. queue \in Seq(Job) /\ Len(queue) \in Nat /\ DOMAIN queue = 1 .. Len(queue)
  BY DEF TypeOK
<1>b. polls \in Seq(Act) /\ Len(polls) \in Nat
  BY DEF TypeOK, Act
<1>1. ASSUME NEW j \in Job,
             \/ \E u \in BOOLEAN : Generate(j, u)
             \/ FindPath(j)
      PROVE  QueueInv'
  <2>1. /\ ScriptRuns /\ mem[j] = "unused" /\ mem' = [mem EXCEPT ![j] = "allocated"]
        /\ queue' = Append(queue, j) /\ UNCHANGED luaVars
        /\ thread' = [thread EXCEPT ![j] = "ready"] \/ thread' = thread
    BY <1>1 DEF Generate, FindPath, Allocate
  <2> QED BY <2>1, QueueAllocates
<1>2. ASSUME NEW n \in Nav, Load(n) \/ ResetByScript(n) \/ FullGeneration(n)
      PROVE  QueueInv'
  <2>1. UNCHANGED <<queue, mem, lua, at, polls, thread>>
    BY <1>2 DEF Load, ResetByScript, FullGeneration, jobVars, luaVars
  <2> QED BY <2>1, QueueKeeps
<1>3. ASSUME NEW j \in Job, WorkerStep(j)
      PROVE  QueueInv'
  <2>1. /\ thread[j] \in Alive /\ \E to : thread' = [thread EXCEPT ![j] = to]
        /\ UNCHANGED <<queue, mem, lua, at, polls>>
    BY <1>3 DEF WorkerStep, Acquire, EndSearch, StartGeneration, AbortGeneration, MarkGenerated,
                ClearGenerating, EndGeneration, Stage, Alive, jobVars, luaVars
  <2>2. \A i \in Job : i # j => thread'[i] = thread[i]
    BY <2>1 DEF TypeOK
  <2>3. thread[j] # "joined"
    BY <2>1 DEF Alive
  <2> QED BY <2>1, <2>2, <2>3, QueueKeeps
<1>4. CASE Think
  <2>1. /\ polls' = <<Activation>> /\ lua = "up"
        /\ UNCHANGED <<queue, mem, lua, at, thread>>
    BY <1>4 DEF Think, jobVars
  <2>2. Len(polls') = 1 /\ Top'.info = NULL
    BY <2>1 DEF Top, Activation
  <2>3. QueueIsLive'
    BY <2>1 DEF QueueInv, QueueIsLive
  <2> QED BY <2>1, <2>2, <2>3 DEF QueueInv
<1>5. CASE Reenter
  BY <1>5 DEF Reenter, NoReentry
<1>6. CASE PollReturns \/ CallbackRaises
  <2>1. /\ polls # <<>> /\ polls' = Front(polls) /\ lua = "up"
        /\ UNCHANGED <<queue, mem, lua, at, thread>>
    BY <1>6 DEF PollReturns, CallbackRaises, Between, jobVars
  <2>2. polls' \in Seq(Act) /\ Len(polls) = Len(polls') + 1 /\ Len(polls') \in Nat
    BY <2>1, PopFacts
  <2>3. Len(polls') = 0
    BY <1>b, <2>2 DEF QueueInv
  <2>4. polls' = <<>>
    BY <2>2, <2>3, EmptySeq
  <2>5. QueueIsLive'
    BY <2>1 DEF QueueInv, QueueIsLive
  <2> QED BY <2>1, <2>3, <2>4, <2>5 DEF QueueInv
<1>7. CASE PollCrashes
  <2>1. Looking /\ mem[Looked] = "freed" /\ polls # <<>>
    BY <1>7 DEF PollCrashes, Looking, Between
  <2>2. Top.i \in 1 .. Len(queue)
    BY <1>a, <2>1, TopFacts DEF Looking
  <2>3. Looked \in ToSet(queue)
    BY <1>a, <2>2 DEF Looked, ToSet
  <2> QED BY <2>1, <2>3 DEF QueueInv, QueueIsLive
<1>8. CASE StartCallback \/ StartUpdate
  <2>1. polls # <<>> /\ Looking /\ lua = "up"
    BY <1>8 DEF StartCallback, StartUpdate, Looking, Between
  <2>2. /\ Top.i \in Nat \ {0} /\ Looked \in Job /\ Top.i <= Len(queue) /\ queue[Top.i] = Looked
    BY <2>1, TopFacts, QueueTypes DEF Looking, Looked
  <2>3. \E u \in BOOLEAN : SetTop(Top.i, Looked, u)
    BY <1>8 DEF StartCallback, StartUpdate
  <2>4. Looked \in Job \cup {NULL}
    BY <2>2
  <2>5. PICK u \in BOOLEAN : SetTop(Top.i, Looked, u)
    BY <2>3
  <2>5a. Len(polls') = Len(polls) /\ Top'.i = Top.i /\ Top'.info = Looked
    <3>1. \A x \in Job \cup {NULL} :
            SetTop(Top.i, x, u) => Len(polls') = Len(polls) /\ Top'.i = Top.i /\ Top'.info = x
      BY <2>1, <2>2, SetTopFacts
    <3> QED BY <3>1, <2>4, <2>5
  <2>6. UNCHANGED <<queue, mem, lua, at>>
    BY <1>8 DEF StartCallback, StartUpdate, jobVars
  <2>7. thread' = thread \/ thread' = [thread EXCEPT ![Looked] = "joined"]
    BY <1>8 DEF StartCallback, StartUpdate
  <2>8. \A i \in Job : thread'[i] \in Alive => thread[i] \in Alive
    BY <2>2, <2>7 DEF TypeOK, Alive
  <2>9. QueueIsLive'
    BY <2>6, <2>8 DEF QueueInv, QueueIsLive
  <2> QED BY <2>1, <2>2, <2>5a, <2>6, <2>9 DEF QueueInv
<1>9. CASE PollSkips
  <2>1. polls # <<>> /\ Top.i \in Nat \ {0} /\ lua = "up"
    BY <1>9, TopFacts DEF PollSkips, Looking, Between
  <2>2. SetTop(Top.i + 1, NULL, FALSE) /\ UNCHANGED <<queue, mem, lua, at, thread>>
    BY <1>9 DEF PollSkips, NextIndex, jobVars
  <2>3. Top.i + 1 \in Nat \ {0} /\ NULL \in Job \cup {NULL} /\ FALSE \in BOOLEAN
    BY <2>1
  <2>4. Len(polls') = Len(polls) /\ Top'.info = NULL
    BY <2>1, <2>2, <2>3, SetTopFacts
  <2> QED BY <2>1, <2>2, <2>4, QueueKeeps
<1>10. CASE UpdateReturns
  <2>1. polls # <<>> /\ Top.i \in Nat \ {0} /\ Top.info # NULL /\ lua = "up" /\ Top.info \in Job
    BY <1>10, TopFacts DEF UpdateReturns
  <2>2. Top.i \in 1 .. Len(queue) /\ queue[Top.i] = Top.info
    BY <1>a, <2>1 DEF QueueInv
  <2>3. Top.info \in ToSet(queue)
    BY <1>a, <2>2 DEF ToSet
  <2>4. mem[Top.info] = "allocated"
    BY <2>3 DEF QueueInv, QueueIsLive
  <2>5. SetTop(Top.i + 1, NULL, FALSE) /\ UNCHANGED <<queue, mem, lua, at, thread>>
    BY <1>10, <2>1, <2>4 DEF UpdateReturns, jobVars
  <2>6. Top.i + 1 \in Nat \ {0} /\ NULL \in Job \cup {NULL} /\ FALSE \in BOOLEAN
    BY <2>1
  <2>7. Len(polls') = Len(polls) /\ Top'.info = NULL
    BY <2>1, <2>5, <2>6, SetTopFacts
  <2> QED BY <2>1, <2>5, <2>7, QueueKeeps
<1>11. CASE CallbackReturns
  <2>1. /\ polls # <<>> /\ Top.info \in Job /\ ~Top.update /\ Top.info # NULL /\ lua = "up"
        /\ mem' = [mem EXCEPT ![Top.info] = "freed"]
        /\ queue' = RemoveEntry(Top.i)
        /\ UNCHANGED <<lua, at, thread>>
        /\ SetTop(2, NULL, FALSE)
    BY <1>11, TopFacts DEF CallbackReturns
  <2>2. Top.i \in Nat \ {0} /\ Top.i <= Len(queue) /\ queue[Top.i] = Top.info
    BY <2>1, TopFacts DEF QueueInv
  <2>3. Top.i \in 1 .. Len(queue) /\ queue' = RemoveAt(queue, Top.i)
    BY <1>a, <2>1, <2>2 DEF RemoveEntry
  <2>4. \A i, k \in 1 .. Len(queue) : queue[i] = queue[k] => i = k
    BY DEF QueueInv, QueueIsLive
  <2>5. /\ ToSet(queue') = ToSet(queue) \ {Top.info}
        /\ \A i, k \in 1 .. Len(queue') : queue'[i] = queue'[k] => i = k
    BY <1>a, <2>2, <2>3, <2>4, RemoveAtOnce
  <2>6. calls[Top.info] = 1
    BY <2>1, TopFacts DEF CallsInv
  <2>7. thread[Top.info] = "joined"
    BY <2>1, <2>6 DEF CallsInv
  <2>8. mem'[Top.info] = "freed" /\ \A i \in Job : i # Top.info => mem'[i] = mem[i]
    BY <2>1 DEF TypeOK
  <2>9. ToSet(queue') = { i \in Job : mem'[i] = "allocated" }
    BY <2>5, <2>8 DEF QueueInv, QueueIsLive
  <2>10. \A i \in Job : thread'[i] \in Alive => mem'[i] = "allocated" /\ lua' # "closed"
    BY <2>1, <2>7, <2>8 DEF QueueInv, QueueIsLive, Alive
  <2>11. QueueIsLive'
    BY <2>5, <2>9, <2>10 DEF QueueIsLive
  <2>12. 2 \in Nat \ {0} /\ NULL \in Job \cup {NULL} /\ FALSE \in BOOLEAN
    OBVIOUS
  <2>13. Len(polls') = Len(polls) /\ Top'.info = NULL
    BY <2>1, <2>12, SetTopFacts
  <2> QED BY <2>1, <2>11, <2>13 DEF QueueInv
<1>12. CASE BeginShutdown
  <2>1. /\ polls' = <<>> /\ polls = <<>> /\ lua' = "closing" /\ at' = 1
        /\ UNCHANGED <<queue, mem, thread>>
    BY <1>12 DEF BeginShutdown, jobVars
  <2>2. QueueIsLive'
    BY <2>1 DEF QueueInv, QueueIsLive
  <2> QED BY <1>a, <2>1, <2>2 DEF QueueInv
<1>13. CASE ShutdownAborts
  <2>1. UNCHANGED <<queue, mem, lua, at, polls, thread>>
    BY <1>13 DEF ShutdownAborts, luaVars
  <2> QED BY <2>1, QueueKeeps
<1>14. CASE ShutdownJoins
  <2>1. /\ lua = "closing" /\ at <= Len(queue) /\ at' = at + 1
        /\ thread' = [thread EXCEPT ![queue[at]] = "joined"]
        /\ UNCHANGED <<queue, mem, lua, polls>>
    BY <1>14 DEF ShutdownJoins, JoinedAfterAbort, jobVars, Waiting
  <2>2. at \in 1 .. Len(queue) /\ queue[at] \in Job
    BY <1>a, <2>1 DEF AtInv, TypeOK
  <2>3. \A i \in Job : thread'[i] = IF i = queue[at] THEN "joined" ELSE thread[i]
    BY <2>1, <2>2 DEF TypeOK
  <2>4. QueueIsLive'
    BY <2>1, <2>3 DEF QueueInv, QueueIsLive, Alive
  <2>5. ASSUME NEW i \in 1 .. at' - 1 PROVE thread'[queue[i]] = "joined"
    <3>1. i = at \/ i \in 1 .. at - 1
      BY <2>1, <2>2
    <3>2. i \in 1 .. Len(queue)
      BY <1>a, <2>2, <3>1
    <3>3. queue[i] \in Job
      BY <1>a, <3>2
    <3>4. i \in 1 .. at - 1 => thread[queue[i]] = "joined"
      BY <2>1 DEF QueueInv
    <3> QED BY <2>3, <3>1, <3>3, <3>4
  <2>6. at' <= Len(queue) + 1
    BY <1>a, <2>1, <2>2
  <2> QED BY <2>1, <2>4, <2>5, <2>6 DEF QueueInv, Top
<1>15. CASE EndShutdown
  <2>1. /\ lua = "closing" /\ at > Len(queue) /\ lua' = "closed"
        /\ UNCHANGED <<queue, mem, thread, polls, at>>
    BY <1>15 DEF EndShutdown, jobVars
  <2>2. ASSUME NEW j \in Job, thread[j] \in Alive PROVE FALSE
    <3>1. j \in ToSet(queue)
      BY <2>2 DEF QueueInv, QueueIsLive
    <3>2. PICK i \in 1 .. Len(queue) : queue[i] = j
      BY <1>a, <3>1 DEF ToSet
    <3>3. i \in 1 .. at - 1
      BY <1>a, <2>1 DEF TypeOK
    <3>4. thread[j] = "joined"
      BY <2>1, <3>2, <3>3 DEF QueueInv
    <3> QED BY <2>2, <3>4 DEF Alive
  <2>3. QueueIsLive'
    BY <2>1, <2>2 DEF QueueInv, QueueIsLive
  <2> QED BY <2>1, <2>3 DEF QueueInv
<1>16. CASE UNCHANGED vars
  <2>1. UNCHANGED <<queue, mem, lua, at, polls, thread>>
    BY <1>16 DEF vars, jobVars, luaVars
  <2> QED BY <2>1, QueueKeeps
<1> QED
  BY <1>1, <1>2, <1>3, <1>4, <1>5, <1>6, <1>7, <1>8, <1>9, <1>10, <1>11, <1>12,
     <1>13, <1>14, <1>15, <1>16
  DEF Next, ScriptStep, PollStep, ShutdownStep

LEMMA QueueInit == Init => QueueInv
<1> SUFFICES ASSUME Init PROVE QueueInv
  OBVIOUS
<1>1. ToSet(queue) = {}
  BY DEF Init, ToSet
<1>2. QueueIsLive
  BY <1>1 DEF Init, QueueIsLive, Alive
<1> QED BY <1>2 DEF Init, QueueInv

\* What holds of the queue, whatever the script does but poll in a callback.
THEOREM QueueInvariant ==
  ASSUME NoReentry
  PROVE  Spec => []QueueInv
<1>1. Init => QueueInv
  BY QueueInit
<1>2. TypeOK /\ AtInv /\ CallsInv /\ QueueInv /\ [Next]_vars => QueueInv'
  BY QueueStep
<1> QED BY <1>1, <1>2, JobsTyped, CallsInvariant, PTL DEF Spec

\* QueueIsLive holds in every behaviour in which no callback calls nav.Poll:
\* Poll deletes the job it removes and no other, whatever is queued by the
\* callback in between and however callbacks raise; no worker is left on a job
\* that was deleted, and none runs once Shutdown has returned.
THEOREM LiveQueue ==
  ASSUME NoReentry
  PROVE  Spec => []QueueIsLive
<1>1. QueueInv => QueueIsLive
  BY DEF QueueInv
<1> QED BY <1>1, QueueInvariant, PTL

(***************************************************************************)
(* What a search reads, when the script does not mix searches and          *)
(* generations of a nav either.                                            *)
(***************************************************************************)

\* Replacing nodes under a queued search is a habit.
NoMix == "mix" \notin Habits

\* The job's worker samples its nav, or is about to.
Samples(j) == kind[j] = "generate" /\ thread[j] \in {"ready", "running", "marked"}

\* generating is set as long as a worker samples the nav, and generated is not
\* before its last step; so generating admits one such worker per nav, and none
\* while a search of the nav is queued.
EpochInv ==
  /\ \A j \in Job : Samples(j) => generating[navOf[j]]
  /\ \A j \in Job : (Samples(j) /\ thread[j] # "marked") => ~generated[navOf[j]]
  /\ \A i, j \in Job : (Samples(i) /\ Samples(j) /\ navOf[i] = navOf[j]) => i = j
  /\ \A j \in Job : (kind[j] = "path" /\ mem[j] = "allocated") =>
       /\ jobEpoch[j] = epoch[navOf[j]]
       /\ \A i \in Job : Samples(i) => navOf[i] # navOf[j]
  /\ \A j \in Job : thread[j] \in {"marked", "cleared"} => kind[j] = "generate"

\* Nodes are replaced only where no search is queued.
LEMMA ReplaceableFacts ==
  ASSUME TypeOK, QueueInv, NoMix, NEW n \in Nav, Replaceable(n)
  PROVE  \A j \in Job : (kind[j] = "path" /\ mem[j] = "allocated") => navOf[j] # n
<1> SUFFICES ASSUME NEW j \in Job, kind[j] = "path", mem[j] = "allocated", navOf[j] = n
             PROVE  FALSE
  OBVIOUS
<1>1. j \in ToSet(queue)
  BY DEF QueueInv, QueueIsLive
<1>2. kind[j] = "generate"
  BY <1>1 DEF Replaceable, NoMix
<1> QED BY <1>2

\* Joining a thread, freeing a job and walking the queue disturb nothing.
LEMMA EpochKeeps ==
  ASSUME EpochInv,
         UNCHANGED <<kind, navOf, jobEpoch, generating, generated, epoch>>,
         \A j \in Job : thread'[j] = thread[j] \/ thread'[j] \in {"joined", "done"},
         \A j \in Job : mem'[j] = "allocated" => mem[j] = "allocated"
  PROVE  EpochInv'
<1>1. \A j \in Job : Samples(j)' => Samples(j) /\ thread'[j] = thread[j]
  BY DEF Samples
<1> QED BY <1>1 DEF EpochInv

LEMMA EpochStep ==
  ASSUME TypeOK, CallsInv, QueueInv, EpochInv, NoMix, [Next]_vars
  PROVE  EpochInv'
<1>1. ASSUME NEW j \in Job, NEW u \in BOOLEAN, Generate(j, u)
      PROVE  EpochInv'
  <2> DEFINE n == navOf[j]
  <2>1. /\ mem[j] = "unused" /\ thread[j] = "none" /\ n \in Nav
        /\ mem' = [mem EXCEPT ![j] = "allocated"]
        /\ kind' = [kind EXCEPT ![j] = "generate"]
        /\ jobEpoch' = [jobEpoch EXCEPT ![j] = epoch[n]]
        /\ navOf' = navOf
    BY <1>1 DEF Generate, Allocate, CallsInv, TypeOK
  <2>2. /\ kind'[j] = "generate"
        /\ \A i \in Job : i # j => /\ kind'[i] = kind[i] /\ mem'[i] = mem[i]
                                   /\ jobEpoch'[i] = jobEpoch[i]
    BY <2>1 DEF TypeOK
  <2>3. CASE Refused(n)
    <3>1. UNCHANGED <<thread, generating, generated, epoch>>
      BY <1>1, <2>3 DEF Generate
    <3>2. \A i \in Job : Samples(i)' => i # j /\ Samples(i)
      BY <2>1, <2>2, <3>1 DEF Samples
    <3> QED BY <2>1, <2>2, <3>1, <3>2 DEF EpochInv
  <2>4. CASE ~Refused(n)
    <3>1. /\ Replaceable(n) /\ thread' = [thread EXCEPT ![j] = "ready"]
          /\ epoch' = [epoch EXCEPT ![n] = @ + 1]
          /\ generating' = [generating EXCEPT ![n] = TRUE]
          /\ generated' = [generated EXCEPT ![n] = FALSE]
          /\ ~generating[n]
      BY <1>1, <2>4 DEF Generate, ResetGeneration, Refused
    <3>2. thread'[j] = "ready" /\ \A i \in Job : i # j => thread'[i] = thread[i]
      BY <3>1 DEF TypeOK
    <3>3. /\ generating'[n] /\ ~generated'[n]
          /\ \A m \in Nav : m # n => /\ generating'[m] = generating[m]
                                     /\ generated'[m] = generated[m] /\ epoch'[m] = epoch[m]
      BY <2>1, <3>1 DEF TypeOK
    <3>4. \A i \in Job : i # j => (Samples(i)' <=> Samples(i))
      BY <2>2, <3>2 DEF Samples
    <3>5. \A i \in Job : Samples(i) => navOf[i] # n
      BY <3>1 DEF EpochInv
    <3>6. \A i \in Job : (kind[i] = "path" /\ mem[i] = "allocated") => navOf[i] # n
      BY <2>1, <3>1, ReplaceableFacts
    <3>7. \A i \in Job : navOf[i] \in Nav
      BY DEF TypeOK
    <3> HIDE DEF n
    <3>8. \A i \in Job : /\ Samples(i)' => generating'[navOf'[i]]
                         /\ (Samples(i)' /\ thread'[i] # "marked") => ~generated'[navOf'[i]]
      BY <2>1, <3>2, <3>3, <3>4, <3>5, <3>7 DEF EpochInv, n
    <3>9. \A i, k \in Job : (Samples(i)' /\ Samples(k)' /\ navOf'[i] = navOf'[k]) => i = k
      BY <2>1, <3>4, <3>5 DEF EpochInv, n
    <3>10. \A i \in Job : (kind'[i] = "path" /\ mem'[i] = "allocated") =>
             /\ jobEpoch'[i] = epoch'[navOf'[i]]
             /\ \A k \in Job : Samples(k)' => navOf'[k] # navOf'[i]
      <4> SUFFICES ASSUME NEW i \in Job, kind'[i] = "path", mem'[i] = "allocated"
                   PROVE  /\ jobEpoch'[i] = epoch'[navOf'[i]]
                          /\ \A k \in Job : Samples(k)' => navOf'[k] # navOf'[i]
        OBVIOUS
      <4>1. i # j /\ kind[i] = "path" /\ mem[i] = "allocated"
        BY <2>2
      <4>2. navOf[i] # n /\ navOf[i] \in Nav
        BY <3>6, <3>7, <4>1
      <4> QED BY <2>1, <2>2, <3>3, <3>4, <4>1, <4>2 DEF EpochInv, n
    <3>11. \A i \in Job : thread'[i] \in {"marked", "cleared"} => kind'[i] = "generate"
      BY <2>2, <3>2 DEF EpochInv
    <3> QED BY <3>8, <3>9, <3>10, <3>11 DEF EpochInv
  <2> QED BY <2>3, <2>4
<1>2. ASSUME NEW j \in Job, FindPath(j)
      PROVE  EpochInv'
  <2>1. /\ mem[j] = "unused" /\ thread[j] = "none" /\ navOf[j] \in Nav /\ ~generating[navOf[j]]
        /\ mem' = [mem EXCEPT ![j] = "allocated"]
        /\ kind' = [kind EXCEPT ![j] = "path"]
        /\ jobEpoch' = [jobEpoch EXCEPT ![j] = epoch[navOf[j]]]
        /\ thread' = [thread EXCEPT ![j] = "ready"]
        /\ UNCHANGED <<navOf, generating, generated, epoch>>
    BY <1>2 DEF FindPath, Allocate, CallsInv, TypeOK, NoMix, navVars
  <2>2. /\ kind'[j] = "path" /\ thread'[j] = "ready" /\ jobEpoch'[j] = epoch[navOf[j]]
        /\ \A i \in Job : i # j => /\ kind'[i] = kind[i] /\ mem'[i] = mem[i]
                                   /\ jobEpoch'[i] = jobEpoch[i] /\ thread'[i] = thread[i]
    BY <2>1 DEF TypeOK
  <2>3. \A i \in Job : Samples(i)' => i # j /\ Samples(i)
    BY <2>2 DEF Samples
  <2>4. \A i \in Job : Samples(i) => navOf[i] # navOf[j]
    BY <2>1 DEF EpochInv
  <2>5. \A i \in Job : (kind'[i] = "path" /\ mem'[i] = "allocated") =>
          /\ jobEpoch'[i] = epoch'[navOf'[i]]
          /\ \A k \in Job : Samples(k)' => navOf'[k] # navOf'[i]
    BY <2>1, <2>2, <2>3, <2>4 DEF EpochInv
  <2> QED BY <2>1, <2>2, <2>3, <2>5 DEF EpochInv
<1>3. ASSUME NEW n \in Nav, Load(n) \/ ResetByScript(n) \/ FullGeneration(n)
      PROVE  EpochInv'
  <2>1. /\ UNCHANGED <<kind, navOf, mem, jobEpoch, thread>>
        /\ epoch' = [epoch EXCEPT ![n] = @ + 1]
        /\ \A i \in Job : (kind[i] = "path" /\ mem[i] = "allocated") => navOf[i] # n
    BY <1>3, ReplaceableFacts
       DEF Load, ResetByScript, FullGeneration, ResetGeneration, jobVars
  <2>2. \A m \in Nav : m # n => epoch'[m] = epoch[m]
    BY <2>1 DEF TypeOK
  <2>3. \A i \in Job : Samples(i)' <=> Samples(i)
    BY <2>1 DEF Samples
  <2>4. \A i \in Job : Samples(i) => generating'[navOf[i]]
    <3>1. CASE Load(n)
      BY <3>1 DEF Load, EpochInv
    <3>2. CASE ResetByScript(n) \/ FullGeneration(n)
      <4>1. \A i \in Job : Samples(i) => navOf[i] # n
        BY <3>2 DEF ResetByScript, FullGeneration, Sampled, Samples, NoMix
      <4>2. \A m \in Nav : m # n => generating'[m] = generating[m]
        BY <3>2 DEF ResetByScript, FullGeneration, ResetGeneration, TypeOK
      <4> QED BY <4>1, <4>2 DEF EpochInv, TypeOK
    <3> QED BY <1>3, <3>1, <3>2
  <2>5. \A i \in Job : (Samples(i) /\ thread[i] # "marked") => ~generated'[navOf[i]]
    <3>1. CASE Load(n)
      BY <3>1 DEF Load, EpochInv
    <3>2. CASE ResetByScript(n) \/ FullGeneration(n)
      <4>1. \A i \in Job : Samples(i) => navOf[i] # n
        BY <3>2 DEF ResetByScript, FullGeneration, Sampled, Samples, NoMix
      <4>2. \A m \in Nav : m # n => generated'[m] = generated[m]
        BY <3>2 DEF ResetByScript, FullGeneration, ResetGeneration, TypeOK
      <4> QED BY <4>1, <4>2 DEF EpochInv, TypeOK
    <3> QED BY <1>3, <3>1, <3>2
  <2>6. \A i \in Job : (kind[i] = "path" /\ mem[i] = "allocated") =>
          jobEpoch'[i] = epoch'[navOf[i]]
    BY <2>1, <2>2 DEF EpochInv, TypeOK
  <2> QED BY <2>1, <2>3, <2>4, <2>5, <2>6 DEF EpochInv
<1>4. ASSUME NEW j \in Job, Acquire(j) \/ EndSearch(j) \/ StartGeneration(j)
      PROVE  EpochInv'
  <2>1. /\ UNCHANGED <<kind, navOf, mem, jobEpoch, generating, generated, epoch>>
        /\ \E to \in {"running", "done"} : thread' = [thread EXCEPT ![j] = to]
        /\ kind[j] = "path" \/ thread[j] = "ready"
    BY <1>4 DEF Acquire, EndSearch, StartGeneration, Stage, jobVars, navVars
  <2>2. /\ \A i \in Job : i # j => thread'[i] = thread[i]
        /\ thread'[j] \in {"running", "done"}
    BY <2>1 DEF TypeOK
  <2>3. \A i \in Job : Samples(i)' =>
          Samples(i) /\ (thread'[i] = "marked" <=> thread[i] = "marked")
    BY <2>1, <2>2 DEF Samples
  <2> QED BY <2>1, <2>2, <2>3 DEF EpochInv
<1>5. ASSUME NEW j \in Job, AbortGeneration(j) \/ EndGeneration(j)
      PROVE  EpochInv'
  <2>1. /\ UNCHANGED <<kind, navOf, mem, jobEpoch, generating, generated, epoch>>
        /\ thread' = [thread EXCEPT ![j] = "done"]
    BY <1>5 DEF AbortGeneration, EndGeneration, Stage, jobVars, navVars
  <2>2. \A i \in Job : thread'[i] = thread[i] \/ thread'[i] \in {"joined", "done"}
    BY <2>1 DEF TypeOK
  <2> QED BY <2>1, <2>2, EpochKeeps
<1>6. ASSUME NEW j \in Job, MarkGenerated(j)
      PROVE  EpochInv'
  <2>1. /\ UNCHANGED <<kind, navOf, mem, jobEpoch, generating, epoch>>
        /\ Samples(j) /\ kind[j] = "generate"
        /\ thread' = [thread EXCEPT ![j] = "marked"]
        /\ generated' = [generated EXCEPT ![navOf[j]] = TRUE]
    BY <1>6 DEF MarkGenerated, Stage, jobVars, Samples
  <2>2. /\ thread'[j] = "marked"
        /\ \A i \in Job : i # j => thread'[i] = thread[i]
        /\ \A m \in Nav : m # navOf[j] => generated'[m] = generated[m]
    BY <2>1 DEF TypeOK
  <2>3. \A i \in Job : Samples(i)' <=> Samples(i)
    BY <2>1, <2>2 DEF Samples
  <2>4. \A i \in Job : (Samples(i)' /\ thread'[i] # "marked") => ~generated'[navOf'[i]]
    <3> SUFFICES ASSUME NEW i \in Job, Samples(i), thread'[i] # "marked"
                 PROVE  ~generated'[navOf[i]]
      BY <2>1, <2>3
    <3>1. i # j /\ thread[i] # "marked" /\ navOf[i] # navOf[j]
      BY <2>1, <2>2 DEF EpochInv
    <3>2. generated'[navOf[i]] = generated[navOf[i]]
      BY <2>2, <3>1 DEF TypeOK
    <3> QED BY <3>1, <3>2 DEF EpochInv
  <2> QED BY <2>1, <2>2, <2>3, <2>4 DEF EpochInv
<1>7. ASSUME NEW j \in Job, ClearGenerating(j)
      PROVE  EpochInv'
  <2>1. /\ UNCHANGED <<kind, navOf, mem, jobEpoch, generated, epoch>>
        /\ thread[j] = "marked" /\ kind[j] = "generate"
        /\ thread' = [thread EXCEPT ![j] = "cleared"]
        /\ generating' = [generating EXCEPT ![navOf[j]] = FALSE]
    BY <1>7 DEF ClearGenerating, Stage, jobVars, EpochInv
  <2>2. /\ thread'[j] = "cleared"
        /\ \A i \in Job : i # j => thread'[i] = thread[i]
        /\ \A m \in Nav : m # navOf[j] => generating'[m] = generating[m]
    BY <2>1 DEF TypeOK
  <2>3. Samples(j) /\ \A i \in Job : Samples(i)' => i # j /\ Samples(i)
    BY <2>1, <2>2 DEF Samples
  <2>4. \A i \in Job : Samples(i)' => generating'[navOf'[i]]
    BY <2>1, <2>2, <2>3 DEF EpochInv, TypeOK
  <2> QED BY <2>1, <2>2, <2>3, <2>4 DEF EpochInv
<1>8. CASE PollStep \/ ShutdownStep \/ Reenter \/ BeginShutdown
  <2>1. UNCHANGED <<kind, navOf, jobEpoch, generating, generated, epoch>>
    BY <1>8 DEF PollStep, ShutdownStep, Reenter, BeginShutdown, Think, PollReturns, PollCrashes,
                StartCallback, StartUpdate, PollSkips, CallbackReturns, UpdateReturns,
                CallbackRaises, ShutdownAborts, ShutdownJoins, EndShutdown, jobVars, navVars
  <2>2. thread' = thread \/ \E i : thread' = [thread EXCEPT ![i] = "joined"]
    BY <1>8 DEF PollStep, ShutdownStep, Reenter, BeginShutdown, Think, PollReturns, PollCrashes,
                StartCallback, StartUpdate, PollSkips, CallbackReturns, UpdateReturns,
                CallbackRaises, ShutdownAborts, ShutdownJoins, EndShutdown, JoinedAfterAbort
  <2>3. mem' = mem \/ \E i : mem' = [mem EXCEPT ![i] = "freed"]
    BY <1>8 DEF PollStep, ShutdownStep, Reenter, BeginShutdown, Think, PollReturns, PollCrashes,
                StartCallback, StartUpdate, PollSkips, CallbackReturns, UpdateReturns,
                CallbackRaises, ShutdownAborts, ShutdownJoins, EndShutdown, jobVars
  <2>4. \A j \in Job : thread'[j] = thread[j] \/ thread'[j] \in {"joined", "done"}
    BY <2>2 DEF TypeOK
  <2>5. \A j \in Job : mem'[j] = "allocated" => mem[j] = "allocated"
    BY <2>3 DEF TypeOK
  <2> QED BY <2>1, <2>4, <2>5, EpochKeeps
<1>9. CASE UNCHANGED vars
  BY <1>9, EpochKeeps DEF vars, jobVars, navVars
<1> QED
  BY <1>1, <1>2, <1>3, <1>4, <1>5, <1>6, <1>7, <1>8, <1>9 DEF Next, ScriptStep, WorkerStep

LEMMA EpochInit == Init => EpochInv
BY DEF Init, EpochInv, Samples

\* For a script that does not poll again from callbacks and does not replace
\* nodes under its own searches, for any number of navs, jobs and threads.
THEOREM EpochInvariant ==
  ASSUME NoReentry, NoMix
  PROVE  Spec => []EpochInv
<1>1. Init => EpochInv
  BY EpochInit
<1>2. TypeOK /\ CallsInv /\ QueueInv /\ EpochInv /\ [Next]_vars => EpochInv'
  BY EpochStep
<1> QED BY <1>1, <1>2, JobsTyped, CallsInvariant, QueueInvariant, PTL DEF Spec

\* SearchReadsLiveNodes: the lock keeps only searches apart, so what a search
\* reads is kept by the refusals of Load and Generate while generating is set,
\* and by the script.
THEOREM LiveNodes ==
  ASSUME NoReentry, NoMix
  PROVE  Spec => []SearchReadsLiveNodes
<1>1. EpochInv => SearchReadsLiveNodes
  BY DEF EpochInv, SearchReadsLiveNodes, Samples, IsGenerated
<1> QED BY <1>1, EpochInvariant, PTL

============================================================================
