-------------------------- MODULE ApplicationProofs --------------------------
(***************************************************************************)
(* The program for every set of keys, every script of registrations and    *)
(* any number of inputs.  While a callback of a hotkey or a search runs,   *)
(* the workflow exists: the hotkey's and the tray's thread change the jobs *)
(* of the pool but neither its phase nor the place of the main thread,     *)
(* which advance together.  A press calls the callback of its key: the ids *)
(* on their way name one registration for ever.  And nothing that is used  *)
(* is destroyed when the program ends in quiet.                            *)
(***************************************************************************)
EXTENDS Application, SequenceTheorems, TLAPS

JobStates == {"none", "called", "queued", "running", "over"}

\* The phase of the pool at each place of the main thread.
PhaseAt ==
  [start |-> "none", hotkey_wait |-> "none",
   tray_wait |-> "up", script |-> "up", post |-> "up", loop |-> "up", tray_exit |-> "up",
   tray_free |-> "up", tray_reset |-> "up", pool_flag |-> "up",
   pool_lock |-> "flag", pool_clear |-> "clear",
   listen |-> "cleared", unregister |-> "cleared", quit |-> "cleared",
   hotkey_reset |-> "cleared", workflow_end |-> "cleared", ended |-> "cleared"]

\* Jobs run between init() of the pool and the end of its guard, and the workflow is
\* made before and destroyed after both.
JobInv ==
  /\ job \in [Jobs -> JobStates]
  /\ phase = "none" => \A k \in Jobs : job[k] = "none"
  /\ phase = "cleared" => \A k \in Jobs : job[k] # "running"

PlaceInv ==
  /\ place \in DOMAIN PhaseAt
  /\ phase = PhaseAt[place]
  /\ workflow <=> place \notin {"start", "ended"}

AppInv == JobInv /\ PlaceInv

-----------------------------------------------------------------------------
\* What a job of the pool may do without the main thread.
PoolWork ==
  \/ UNCHANGED <<phase, job>>
  \/ \E k : Called(k) \/ Accepted(k) \/ Begun(k) \/ Ended(k)

LEMMA PoolWorkKeepsJobs ==
  ASSUME JobInv, PoolWork
  PROVE  JobInv' /\ phase' = phase
<1>1. CASE UNCHANGED <<phase, job>>
  BY <1>1 DEF JobInv
<1>2. CASE \E k : Called(k) \/ Accepted(k) \/ Begun(k) \/ Ended(k)
  <2>1. PICK k : Called(k) \/ Accepted(k) \/ Begun(k) \/ Ended(k)
    BY <1>2
  <2> QED
    BY <2>1 DEF JobInv, JobStates, Called, Accepted, Begun, Ended, Becomes
<1> QED
  BY <1>1, <1>2 DEF PoolWork

LEMMA HotkeyThreadWorks ==
  ASSUME HotkeyThread
  PROVE  PoolWork /\ UNCHANGED <<place, workflow>>
<1> USE DEF HotkeyThread, appVars, PoolWork, poolVars
<1>1. ASSUME HKCall PROVE \E k : Called(k)
  BY <1>1 DEF HKCall
<1>2. ASSUME HKAccept PROVE \E k : Accepted(k)
  BY <1>2 DEF HKAccept
<1>3. ASSUME HKStep, ~HKCall, ~HKAccept PROVE UNCHANGED <<phase, job>>
  BY <1>3 DEF HKStep, HKBegin, HKStart, HKTest, HKEnter, HKReceive, HKTasksDone, HKRegister,
     HKUnregister, HKUnregisterThrows, HKRefused, HKAgain, HKUnregisterAll
<1> QED
  BY <1>1, <1>2, <1>3

LEMMA TrayThreadWorks ==
  ASSUME TrayThread
  PROVE  PoolWork /\ UNCHANGED <<place, workflow>>
<1> USE DEF TrayThread, appVars, PoolWork, poolVars
<1>1. ASSUME TRCall PROVE \E k : Called(k)
  BY <1>1 DEF TRCall
<1>2. ASSUME TRAccept PROVE \E k : Accepted(k)
  BY <1>2 DEF TRAccept
<1>3. ASSUME TRStep, ~TRCall, ~TRAccept PROVE UNCHANGED <<phase, job>>
  BY <1>3 DEF TRStep, TRBegin, TRBuild, TRBuildFails, TRReceive, TRMenu, TRLeave, TRChoose,
     Looks, TRFreed, TRAgain
<1> QED
  BY <1>1, <1>2, <1>3

LEMMA JobsWork ==
  ASSUME JobStep
  PROVE  PoolWork /\ UNCHANGED <<place, workflow>>
<1> USE DEF PoolWork
<1>1. CASE JobBegins
  BY <1>1 DEF JobBegins, appVars
<1>2. CASE ExitEnds
  BY <1>2 DEF ExitEnds
<1>3. CASE FindCalls
  BY <1>3 DEF FindCalls, appVars
<1>4. CASE FindAccepted
  BY <1>4 DEF FindAccepted, appVars
<1>5. CASE FindEnds
  BY <1>5 DEF FindEnds, appVars
<1>6. CASE SearchEnds
  BY <1>6 DEF SearchEnds, appVars
<1> QED
  BY <1>1, <1>2, <1>3, <1>4, <1>5, <1>6 DEF JobStep

-----------------------------------------------------------------------------
LEMMA MainKeepsInv ==
  ASSUME AppInv, MainStep
  PROVE  AppInv'
<1> USE DEF AppInv, JobInv, PlaceInv, PhaseAt, To
\* The steps at which the pool changes.
<1>1. CASE MainTrayInit
  BY <1>1 DEF MainTrayInit, PoolUp
<1>2. CASE MainPoolFlag
  BY <1>2 DEF MainPoolFlag, PoolFlag
<1>3. CASE MainPoolLock
  BY <1>3 DEF MainPoolLock, PoolLock
<1>4. CASE MainPoolDrop
  <2>1. PICK k \in Jobs : Dropped({k})
    BY <1>4 DEF MainPoolDrop
  <2>2. job' \in [Jobs -> JobStates] /\ phase' = phase
    BY <2>1 DEF Dropped, JobStates
  <2> QED
    BY <1>4, <2>1, <2>2 DEF MainPoolDrop, Dropped, appVars
<1>5. CASE MainPoolCleared
  BY <1>5 DEF MainPoolCleared, PoolCleared
\* Those at which the workflow does.
<1>6. CASE MainHotkeyInit
  BY <1>6 DEF MainHotkeyInit, poolVars
<1>7. CASE MainWorkflowEnd
  BY <1>7 DEF MainWorkflowEnd, poolVars
\* The others.
<1>8. CASE MainTrayReady
  BY <1>8 DEF MainTrayReady, poolVars
<1>9. CASE MainRegister
  BY <1>9 DEF MainRegister, poolVars
<1>10. CASE MainPost
  BY <1>10 DEF MainPost, poolVars
<1>11. CASE MainRun
  BY <1>11 DEF MainRun, poolVars
<1>12. CASE MainDummy
  BY <1>12 DEF MainDummy, poolVars
<1>13. CASE MainEnd
  BY <1>13 DEF MainEnd, poolVars
<1>14. CASE MainTrayExit
  BY <1>14 DEF MainTrayExit, poolVars
<1>15. CASE MainTrayFree
  BY <1>15 DEF MainTrayFree, poolVars
<1>16. CASE MainTrayReset
  BY <1>16 DEF MainTrayReset, poolVars
<1>17. CASE MainStopListening
  BY <1>17 DEF MainStopListening, poolVars
<1>18. CASE MainUnregister
  BY <1>18 DEF MainUnregister, poolVars
<1>19. CASE MainQuit
  BY <1>19 DEF MainQuit, poolVars
<1>20. CASE MainHotkeyReset
  BY <1>20 DEF MainHotkeyReset, poolVars
<1> QED
  BY <1>1, <1>2, <1>3, <1>4, <1>5, <1>6, <1>7, <1>8, <1>9, <1>10, <1>11, <1>12, <1>13,
     <1>14, <1>15, <1>16, <1>17, <1>18, <1>19, <1>20 DEF MainStep

LEMMA AppInitInv == Init => AppInv
BY DEF Init, PoolInit, AppInv, JobInv, JobStates, PlaceInv, PhaseAt

LEMMA AppStepInv ==
  ASSUME AppInv, [Next]_vars
  PROVE  AppInv'
<1>1. ASSUME PoolWork, UNCHANGED <<place, workflow>> PROVE AppInv'
  BY <1>1, PoolWorkKeepsJobs DEF AppInv, PlaceInv
<1>2. CASE MainStep
  BY <1>2, MainKeepsInv
<1>3. CASE JobStep
  BY <1>3, <1>1, JobsWork
<1>4. CASE HotkeyThread
  BY <1>4, <1>1, HotkeyThreadWorks
<1>5. CASE TrayThread
  BY <1>5, <1>1, TrayThreadWorks
<1>6. CASE User \/ GetMessageFails
  BY <1>6, <1>1 DEF User, Press, Click, GetMessageFails, HKReceiveError, TRReceiveError,
     PoolWork, poolVars
<1>7. CASE Idle \/ UNCHANGED vars
  BY <1>7, <1>1 DEF Idle, vars, appVars, PoolWork, poolVars
<1> QED
  BY <1>2, <1>3, <1>4, <1>5, <1>6, <1>7 DEF Next

\* The workflow that the callbacks of the hotkeys and the searches use by reference
\* (main.cpp:62) exists as long as one of them runs.
THEOREM WorkflowOutlives == Spec => []WorkflowOutlivesSearch
<1>1. AppInv => WorkflowOutlivesSearch
  <2> SUFFICES ASSUME AppInv, NEW n \in 1 .. MaxInputs,
                      "running" \in {job[Find(n)], job[Search(n)]}
               PROVE  workflow
    BY DEF WorkflowOutlivesSearch
  <2>1. Find(n) \in Jobs /\ Search(n) \in Jobs
    BY ApplicationAssumption DEF Find, Search
  <2>2. phase \notin {"none", "cleared"}
    BY <2>1 DEF AppInv, JobInv
  <2> QED
    BY <2>2 DEF AppInv, PlaceInv, PhaseAt
<1> QED
  BY <1>1, AppInitInv, AppStepInv, PTL DEF Spec

-----------------------------------------------------------------------------
(* The ids of the hotkeys.  An id is given once: it waits in register_queue, *)
(* then it is in callback_map, then it is gone.  callback_map and id_map are *)
(* not inverse to each other, because a key may be registered twice; but an  *)
(* id that either of them, or Windows, has for a key stands for this key.    *)
Registrations == ({"register"} \X Keys \X Nat) \cup ({"unregister"} \X Keys)

\* The id waits in register_queue, at place r.
WaitsAt(r, i) ==
  /\ r \in DOMAIN register_queue
  /\ register_queue[r][1] = "register" /\ register_queue[r][3] = i

IdInv ==
  /\ script \in Seq({"register", "unregister"} \X Keys)
  /\ hotkey_id \in Nat
  /\ register_queue \in Seq(Registrations)
  /\ callback_map \in [DOMAIN callback_map -> Keys]
  /\ \A i \in DOMAIN callback_map : i \in Nat /\ i < hotkey_id
  /\ \A r, i : WaitsAt(r, i) =>
       /\ i \in Nat /\ i < hotkey_id
       /\ i \notin DOMAIN callback_map
       /\ \A r2 : WaitsAt(r2, i) => r2 = r
  /\ \A h \in hooked :
       h[1] \in DOMAIN callback_map /\ h[2] = Codes(callback_map[h[1]])
  /\ \A k \in DOMAIN id_map :
       id_map[k] \in DOMAIN callback_map /\ callback_map[id_map[k]] = k

(* The messages.  Those that wait in the worker's queue belong to the presses*)
(* after the n-th, in this order; the n-th is the one whose message was      *)
(* received last, and no call has been made for it before AfterTasks; each   *)
(* call belongs to an earlier press than the next.                           *)
Messages == {Null, Quit} \cup ({"hotkey"} \X Nat)
KeyCodes == {Codes(k) : k \in Keys}

\* An id was, when its key was pressed, the one of the codes c: it is so still, or the
\* id is gone for good.
Means(i, c) ==
  /\ i < hotkey_id
  /\ i \in DOMAIN callback_map => Codes(callback_map[i]) = c
  /\ \A r : ~WaitsAt(r, i)

MessageInv ==
  /\ hkMsg \in Messages
  /\ hkMessages \in Seq(Messages)
  /\ presses \in Seq(KeyCodes)
  /\ calls \in Seq(Nat \X Keys)
  /\ hkAt = "call" => hkMsg[1] = "hotkey" /\ hkMsg[2] \in DOMAIN callback_map

\* f[i] is the press that the i-th call belongs to.
CallsMatch(f) ==
  /\ \A i, j \in DOMAIN calls : i < j => f[i] < f[j]
  /\ \A i \in DOMAIN calls : presses[f[i]] = Codes(calls[i][2])

\* g[i] is the press that the i-th message in the queue belongs to, if it is a hotkey's.
QueueMatches(n, g) ==
  \A i \in DOMAIN hkMessages : hkMessages[i][1] = "hotkey" =>
    /\ n < g[i]
    /\ Means(hkMessages[i][2], presses[g[i]])
    /\ \A j \in DOMAIN hkMessages : i < j /\ hkMessages[j][1] = "hotkey" => g[i] < g[j]

\* The n-th press is the one of the message the worker is at.
MessageMatches(n, f) ==
  hkAt \in {"tasks", "call"} /\ hkMsg[1] = "hotkey" =>
    /\ n # 0
    /\ Means(hkMsg[2], presses[n])
    /\ \A i \in DOMAIN calls : f[i] < n

MatchInv ==
  \E n \in 0 .. Len(presses) :
    /\ \E f \in [DOMAIN calls -> 1 .. n] : CallsMatch(f) /\ MessageMatches(n, f)
    /\ \E g \in [DOMAIN hkMessages -> 0 .. Len(presses)] : QueueMatches(n, g)

PressInv == IdInv /\ MessageInv /\ MatchInv

-----------------------------------------------------------------------------
(* A quiet end.  The tray's first task is the only one of its kind.          *)
TrayInv ==
  /\ trTasks = <<"start">> \/ trTasks \in Seq({"get_message"})
  /\ trTasks = <<"start">> => place = "tray_wait" /\ tray = "none" /\ trAt = "out"
  /\ trAt = "build" => place = "tray_wait" /\ tray = "none" /\ trTasks = <<>>
  /\ place \in {"start", "hotkey_wait"} => tray = "none" /\ trAt = "out" /\ trTasks = <<>>

\* A callback of a hotkey does not end before its search is accepted.
SearchInv ==
  \A n \in 1 .. MaxInputs : job[Search(n)] = "called" => job[Find(n)] = "running"

EndPlaces ==
  {"tray_exit", "tray_free", "tray_reset", "pool_flag", "pool_lock", "pool_clear",
   "listen", "unregister", "quit", "hotkey_reset", "workflow_end", "ended"}

\* Neither thread has a message but WM_QUIT, and no job is on its way to the pool.
QuietInv ==
  quiet =>
    /\ ~undefined
    /\ place \in EndPlaces
    /\ trAt \in {"out", "wait"} /\ trMessages \in Seq({"quit"})
    /\ hkAt \in {"out", "test", "enter", "wait"} /\ hkMessages \in Seq({Quit})
    /\ \A n \in 1 .. MaxInputs : job[Find(n)] \in {"none", "over"}

-----------------------------------------------------------------------------
(* The tray's first task.                                                    *)
LEMMA Messaging ==
  ASSUME NEW t \in Seq({"get_message"})
  PROVE  /\ Append(t, "get_message") \in Seq({"get_message"})
         /\ t # <<"start">>
         /\ t # <<>> => Head(t) = "get_message" /\ Tail(t) \in Seq({"get_message"})
<1>1. t # <<>> => Tail(t) \in Seq({"get_message"}) /\ Head(t) \in {"get_message"}
  BY HeadTailProperties
<1>2. t # <<"start">>
  <2>1. <<"start">> \notin Seq({"get_message"})
    <3>1. SUFFICES ASSUME <<"start">> \in Seq({"get_message"}) PROVE FALSE
      OBVIOUS
    <3>2. <<"start">>[1] \in {"get_message"}
      BY <3>1, Len(<<"start">>) = 1
    <3> QED
      BY <3>2
  <2> QED
    BY <2>1
<1> QED
  BY <1>1, <1>2

LEMMA Starting ==
  /\ Append(<<>>, "start") = <<"start">>
  /\ Head(<<"start">>) = "start" /\ Tail(<<"start">>) = <<>> /\ <<"start">> # <<>>
  /\ <<>> \in Seq({"get_message"})
OBVIOUS

LEMMA TrayStepKeepsTrayInv ==
  ASSUME TrayInv, TRStep, UNCHANGED place
  PROVE  TrayInv'
<1>1. CASE TRBegin
  BY <1>1, Messaging, Starting DEF TRBegin, TrayInv, TR!Begin
<1>2. CASE TRBuild
  BY <1>2, Starting DEF TRBuild, TrayInv, Moves, trWorkerVars
<1>3. CASE TRBuildFails
  BY <1>3, Starting DEF TRBuildFails, TrayInv, Moves, TR!End
<1>4. CASE TRReceive
  BY <1>4, Starting DEF TRReceive, TrayInv, Moves, TR!End, trWorkerVars
<1>5. CASE TRMenu \/ TRLeave \/ TRChoose
  BY <1>5, Starting DEF TRMenu, TRLeave, TRChoose, Looks, TrayInv, Moves, trWorkerVars
<1>6. CASE TRCall \/ TRAccept
  BY <1>6, Starting DEF TRCall, TRAccept, TrayInv, Moves, trWorkerVars
<1>7. CASE TRFreed
  BY <1>7 DEF TRFreed, TrayInv, trVars
<1>8. CASE TRAgain
  BY <1>8, Messaging, Starting DEF TRAgain, TrayInv, Moves
<1> QED
  BY <1>1, <1>2, <1>3, <1>4, <1>5, <1>6, <1>7, <1>8 DEF TRStep

LEMMA MainKeepsTrayInv ==
  ASSUME TrayInv, AppInv, MainStep
  PROVE  TrayInv'
<1> USE DEF TrayInv, To
<1>1. CASE MainHotkeyInit
  BY <1>1, Starting DEF MainHotkeyInit, trVars
<1>2. CASE MainTrayInit
  BY <1>2, Starting DEF MainTrayInit, TrayInit
<1>3. CASE MainTrayReady
  BY <1>3, Starting DEF MainTrayReady, trVars
<1>4. CASE MainRegister \/ MainPost \/ MainRun \/ MainDummy \/ MainEnd
  BY <1>4, Starting DEF MainRegister, MainPost, MainRun, MainDummy, MainEnd, trVars
<1>5. CASE MainTrayExit \/ MainTrayFree
  BY <1>5, Starting DEF MainTrayExit, MainTrayFree, TrayExit, TrayFree, trWorkerVars
<1>6. CASE MainTrayReset
  BY <1>6, Starting DEF MainTrayReset, TrayReset, TR!Shutdown, TR!Closed
<1>7. CASE MainPoolFlag \/ MainPoolLock \/ MainPoolDrop \/ MainPoolCleared
  BY <1>7, Starting DEF MainPoolFlag, MainPoolLock, MainPoolDrop, MainPoolCleared, trVars, appVars
<1>8. CASE MainStopListening \/ MainUnregister \/ MainQuit \/ MainHotkeyReset \/ MainWorkflowEnd
  BY <1>8, Starting DEF MainStopListening, MainUnregister, MainQuit, MainHotkeyReset,
     MainWorkflowEnd, trVars
<1> QED
  BY <1>1, <1>2, <1>3, <1>4, <1>5, <1>6, <1>7, <1>8 DEF MainStep

LEMMA StepKeepsTrayInv ==
  ASSUME TrayInv, AppInv, [Next]_vars
  PROVE  TrayInv'
<1>1. CASE MainStep
  BY <1>1, MainKeepsTrayInv
<1>2. CASE TrayThread
  BY <1>2, TrayStepKeepsTrayInv DEF TrayThread, appVars
<1>3. CASE User
  BY <1>3 DEF User, Click, TrayInv, trVars, trWorkerVars
<1>4. CASE HotkeyThread \/ Idle \/ UNCHANGED vars
  BY <1>4 DEF HotkeyThread, Idle, vars, TrayInv, trVars, appVars
<1>5. CASE JobStep
  BY <1>5 DEF JobStep, JobBegins, ExitEnds, FindCalls, FindAccepted, FindEnds, SearchEnds,
     TrayInv, trVars, appVars
<1>6. CASE GetMessageFails
  <2>1. CASE TRReceiveError
    BY <1>6, <2>1, Starting DEF GetMessageFails, TRReceiveError, Moves, TrayInv, trWorkerVars
  <2>2. CASE UNCHANGED trVars
    BY <1>6, <2>2 DEF GetMessageFails, TrayInv, trVars
  <2> QED
    BY <1>6, <2>1, <2>2 DEF GetMessageFails
<1> QED
  BY <1>1, <1>2, <1>3, <1>4, <1>5, <1>6 DEF Next

-----------------------------------------------------------------------------
(* The callbacks and their searches.                                         *)
LEMMA JobNames ==
  ASSUME NEW n \in 1 .. MaxInputs
  PROVE  /\ Find(n) \in Jobs /\ Search(n) \in Jobs
         /\ \A m : Find(n) # Search(m) /\ Find(n) # Exit(m) /\ Search(n) # Exit(m)
         /\ \A m : Find(m) = Find(n) => m = n
         /\ \A m : Search(m) = Search(n) => m = n
BY ApplicationAssumption DEF Find, Search, Exit

\* What a step of a job that is no search means for the jobs of a hotkey.
LEMMA OtherJobsStep ==
  ASSUME JobInv, NEW k, \A m : k # Search(m),
         Called(k) \/ Accepted(k), SearchInv
  PROVE  SearchInv'
<1> SUFFICES ASSUME NEW n \in 1 .. MaxInputs, job'[Search(n)] = "called"
             PROVE  job'[Find(n)] = "running"
  BY DEF SearchInv
<1>1. job[Search(n)] = "called" /\ job[Find(n)] = "running"
  BY JobNames DEF JobInv, Called, Accepted, Becomes, SearchInv
<1> QED
  BY <1>1, JobNames DEF JobInv, Called, Accepted, Becomes

LEMMA JobsKeepSearchInv ==
  ASSUME JobInv, SearchInv, JobStep
  PROVE  SearchInv'
<1> SUFFICES ASSUME NEW n \in 1 .. MaxInputs, job'[Search(n)] = "called"
             PROVE  job'[Find(n)] = "running"
  BY DEF SearchInv
<1> USE JobNames DEF JobInv, Becomes
<1>1. CASE JobBegins
  BY <1>1 DEF JobBegins, Begun, SearchInv
<1>2. CASE ExitEnds
  BY <1>2 DEF ExitEnds, Ended, SearchInv
<1>3. CASE FindCalls
  BY <1>3 DEF FindCalls, Called, SearchInv
<1>4. CASE FindAccepted
  BY <1>4 DEF FindAccepted, Accepted, SearchInv
<1>5. CASE FindEnds
  BY <1>5 DEF FindEnds, Ended, SearchInv
<1>6. CASE SearchEnds
  BY <1>6 DEF SearchEnds, Ended, SearchInv
<1> QED
  BY <1>1, <1>2, <1>3, <1>4, <1>5, <1>6 DEF JobStep

LEMMA MainKeepsSearchInv ==
  ASSUME JobInv, SearchInv, MainStep
  PROVE  SearchInv'
<1>1. CASE UNCHANGED job
  BY <1>1 DEF SearchInv
<1>2. CASE MainPoolDrop
  <2>1. PICK k \in Jobs : Dropped({k})
    BY <1>2 DEF MainPoolDrop
  <2>2. ASSUME NEW n \in 1 .. MaxInputs, job'[Search(n)] = "called"
        PROVE  job[Search(n)] = "called" /\ job'[Find(n)] = job[Find(n)]
    <3>1. job[Search(n)] = "called"
      BY <2>1, <2>2, JobNames DEF Dropped
    <3>2. job[Find(n)] = "running"
      BY <3>1 DEF SearchInv
    <3> QED
      BY <2>1, <3>1, <3>2, JobNames DEF Dropped
  <2> QED
    BY <2>2 DEF SearchInv
<1>3. CASE MainStep /\ ~MainPoolDrop
  <2>1. CASE MainHotkeyInit \/ MainTrayInit \/ MainTrayReady \/ MainRegister \/ MainPost \/ MainRun
    BY <2>1, <1>1 DEF MainHotkeyInit, MainTrayInit, MainTrayReady, MainRegister, MainPost, MainRun,
       PoolUp, poolVars
  <2>2. CASE MainDummy \/ MainEnd \/ MainTrayExit \/ MainTrayFree \/ MainTrayReset
    BY <2>2, <1>1 DEF MainDummy, MainEnd, MainTrayExit, MainTrayFree, MainTrayReset, poolVars
  <2>3. CASE MainPoolFlag \/ MainPoolLock \/ MainPoolCleared \/ MainStopListening
    BY <2>3, <1>1 DEF MainPoolFlag, MainPoolLock, MainPoolCleared, MainStopListening,
       PoolFlag, PoolLock, PoolCleared, poolVars
  <2>4. CASE MainUnregister \/ MainQuit \/ MainHotkeyReset \/ MainWorkflowEnd
    BY <2>4, <1>1 DEF MainUnregister, MainQuit, MainHotkeyReset, MainWorkflowEnd, poolVars
  <2> QED
    BY <1>3, <2>1, <2>2, <2>3, <2>4 DEF MainStep
<1> QED
  BY <1>2, <1>3

LEMMA StepKeepsSearchInv ==
  ASSUME JobInv, SearchInv, [Next]_vars
  PROVE  SearchInv'
<1>0. CASE UNCHANGED job
  BY <1>0 DEF SearchInv
<1>1. CASE MainStep
  BY <1>1, MainKeepsSearchInv
<1>2. CASE JobStep
  BY <1>2, JobsKeepSearchInv
<1>3. CASE HotkeyThread
  <2>1. CASE HKCall
    BY <2>1, OtherJobsStep DEF HKCall, Find, Search
  <2>2. CASE HKAccept
    BY <2>2, OtherJobsStep DEF HKAccept, Find, Search
  <2>3. CASE HKStep /\ ~HKCall /\ ~HKAccept
    BY <2>3, <1>0 DEF HKStep, HKBegin, HKStart, HKTest, HKEnter, HKReceive, HKTasksDone,
       HKRegister, HKUnregister, HKUnregisterThrows, HKRefused, HKAgain, HKUnregisterAll, poolVars
  <2> QED
    BY <1>3, <2>1, <2>2, <2>3 DEF HotkeyThread
<1>4. CASE TrayThread
  <2>1. CASE TRCall
    BY <2>1, OtherJobsStep DEF TRCall, Exit, Search
  <2>2. CASE TRAccept
    BY <2>2, OtherJobsStep DEF TRAccept, Exit, Search
  <2>3. CASE TRStep /\ ~TRCall /\ ~TRAccept
    BY <2>3, <1>0 DEF TRStep, TRBegin, TRBuild, TRBuildFails, TRReceive, TRMenu, TRLeave,
       TRChoose, Looks, TRFreed, TRAgain, poolVars
  <2> QED
    BY <1>4, <2>1, <2>2, <2>3 DEF TrayThread
<1>5. CASE User \/ GetMessageFails \/ Idle \/ UNCHANGED vars
  BY <1>5, <1>0 DEF User, Press, Click, GetMessageFails, HKReceiveError, TRReceiveError, Idle,
     vars, poolVars
<1> QED
  BY <1>1, <1>2, <1>3, <1>4, <1>5 DEF Next

-----------------------------------------------------------------------------
(* The quiet end.                                                            *)
LEMMA Quitting ==
  /\ <<>> \in Seq({"quit"}) /\ <<>> \in Seq({Quit})
  /\ \A q \in Seq({"quit"}) :
       /\ Append(q, "quit") \in Seq({"quit"})
       /\ q # <<>> => Head(q) = "quit" /\ Tail(q) \in Seq({"quit"})
  /\ \A q \in Seq({Quit}) :
       /\ Append(q, Quit) \in Seq({Quit})
       /\ q # <<>> => Head(q) = Quit /\ Tail(q) \in Seq({Quit})
<1>1. ASSUME NEW x, NEW q \in Seq({x})
      PROVE  /\ <<>> \in Seq({x}) /\ Append(q, x) \in Seq({x})
             /\ q # <<>> => Head(q) = x /\ Tail(q) \in Seq({x})
  <2>1. q # <<>> => Head(q) \in {x} /\ Tail(q) \in Seq({x})
    BY HeadTailProperties
  <2> QED
    BY <2>1
<1>2. <<>> \in Seq({"quit"}) /\ <<>> \in Seq({Quit})
  OBVIOUS
<1> QED
  BY <1>1, <1>2

LEMMA HotkeyThreadQuiet ==
  ASSUME QuietInv, quiet, HotkeyThread
  PROVE  QuietInv'
<1>1. UNCHANGED <<place, quiet, trAt, trMessages>>
  BY DEF HotkeyThread, trVars, appVars
<1> USE <1>1 DEF QuietInv
<1>2. CASE HKBegin
  BY <1>2 DEF HKBegin, poolVars
<1>3. CASE HKStart \/ HKUnregisterAll
  BY <1>3 DEF HKStart, HKUnregisterAll, poolVars
<1>4. CASE HKTest \/ HKEnter
  BY <1>4 DEF HKTest, HKEnter, Goes, poolVars
<1>5. CASE HKReceive
  BY <1>5, Quitting DEF HKReceive, Goes, poolVars
\* The worker is not where the other steps begin.
<1>6. ~HKTasksDone /\ ~HKRegister /\ ~HKUnregister /\ ~HKUnregisterThrows
  BY DEF HKTasksDone, HKRegister, HKUnregister, HKUnregisterThrows, Goes
<1>7. ~HKRefused /\ ~HKCall /\ ~HKAccept /\ ~HKAgain
  BY DEF HKRefused, HKCall, HKAccept, HKAgain, Goes
<1> QED
  BY <1>2, <1>3, <1>4, <1>5, <1>6, <1>7 DEF HotkeyThread, HKStep

LEMMA TrayThreadQuiet ==
  ASSUME QuietInv, TrayInv, quiet, TrayThread
  PROVE  QuietInv'
<1>1. UNCHANGED <<place, quiet, hkAt, hkMessages>>
  BY DEF TrayThread, hkVars, appVars
<1> USE <1>1 DEF QuietInv
<1>2. trTasks \in Seq({"get_message"})
  BY DEF TrayInv, EndPlaces
<1>3. CASE TRBegin
  BY <1>2, <1>3, Messaging DEF TRBegin, TR!Begin, poolVars
<1>4. CASE TRReceive
  BY <1>4, Quitting DEF TRReceive, Moves, poolVars
<1>5. ~TRBuild /\ ~TRBuildFails /\ ~TRMenu /\ ~TRLeave /\ ~TRChoose
  BY DEF TRBuild, TRBuildFails, TRMenu, TRLeave, TRChoose, Looks, Moves
<1>6. ~TRCall /\ ~TRFreed /\ ~TRAccept /\ ~TRAgain
  BY DEF TRCall, TRFreed, TRAccept, TRAgain, Moves
<1> QED
  BY <1>3, <1>4, <1>5, <1>6 DEF TrayThread, TRStep

LEMMA JobsQuiet ==
  ASSUME QuietInv, JobInv, SearchInv, quiet, JobStep
  PROVE  QuietInv'
<1>1. UNCHANGED <<place, quiet, trAt, trMessages, hkAt, hkMessages>>
  BY DEF JobStep, JobBegins, ExitEnds, FindCalls, FindAccepted, FindEnds, SearchEnds,
     hkVars, trVars, appVars
<1>2. \A n \in 1 .. MaxInputs :
        job[Find(n)] \in {"none", "over"} /\ job[Search(n)] # "called"
  BY DEF QuietInv, SearchInv
<1>3. ~FindCalls /\ ~FindAccepted /\ ~FindEnds
  BY <1>2 DEF FindCalls, FindAccepted, FindEnds, Accepted, Ended
<1>4. ASSUME NEW n \in 1 .. MaxInputs, JobBegins \/ ExitEnds \/ SearchEnds
      PROVE  job'[Find(n)] = job[Find(n)]
  <2> USE <1>2, JobNames DEF JobInv, Becomes
  <2>1. CASE JobBegins
    BY <2>1 DEF JobBegins, Begun
  <2>2. CASE ExitEnds
    BY <2>2 DEF ExitEnds, Ended
  <2>3. CASE SearchEnds
    BY <2>3 DEF SearchEnds, Ended
  <2> QED
    BY <1>4, <2>1, <2>2, <2>3
<1>5. CASE JobBegins \/ ExitEnds \/ SearchEnds
  <2>1. undefined' = undefined
    BY <1>5 DEF JobBegins, ExitEnds, SearchEnds, Begun, Ended
  <2> QED
    BY <1>1, <1>4, <1>5, <2>1 DEF QuietInv
<1> QED
  BY <1>3, <1>5 DEF JobStep

LEMMA MainQuiet ==
  ASSUME QuietInv, JobInv, quiet, MainStep
  PROVE  QuietInv'
<1> USE DEF QuietInv, EndPlaces, To
<1>1. ~MainHotkeyInit /\ ~MainTrayInit /\ ~MainTrayReady /\ ~MainRegister /\ ~MainPost
  BY DEF MainHotkeyInit, MainTrayInit, MainTrayReady, MainRegister, MainPost
<1>2. ~MainRun /\ ~MainDummy /\ ~MainEnd
  BY DEF MainRun, MainDummy, MainEnd
<1>3. CASE MainTrayExit
  BY <1>3, Quitting DEF MainTrayExit, TrayExit, hkVars, poolVars
<1>4. CASE MainTrayFree \/ MainTrayReset
  BY <1>4 DEF MainTrayFree, TrayFree, MainTrayReset, TrayReset, hkVars, poolVars
<1>5. CASE MainPoolFlag \/ MainPoolLock \/ MainPoolCleared
  BY <1>5 DEF MainPoolFlag, PoolFlag, MainPoolLock, PoolLock, MainPoolCleared, PoolCleared,
     hkVars, trVars
<1>6. CASE MainPoolDrop
  <2>1. PICK k \in Jobs : Dropped({k})
    BY <1>6 DEF MainPoolDrop
  <2>2. ASSUME NEW n \in 1 .. MaxInputs
        PROVE  job'[Find(n)] \in {"none", "over"}
    BY <2>1, JobNames DEF Dropped
  <2>3. UNCHANGED <<place, quiet, trAt, trMessages, hkAt, hkMessages, undefined>>
    BY <1>6, <2>1 DEF MainPoolDrop, Dropped, hkVars, trVars, appVars
  <2> QED
    BY <2>2, <2>3
<1>7. CASE MainStopListening \/ MainUnregister \/ MainHotkeyReset \/ MainWorkflowEnd
  BY <1>7 DEF MainStopListening, StopListening, MainUnregister, QueueUnregister,
     MainHotkeyReset, HotkeyReset, MainWorkflowEnd, hkVars, trVars, poolVars
<1>8. CASE MainQuit
  BY <1>8, Quitting DEF MainQuit, Post, trVars, poolVars
<1> QED
  BY <1>1, <1>2, <1>3, <1>4, <1>5, <1>6, <1>7, <1>8 DEF MainStep

\* Until main() leaves the loop it is not decided whether the end is quiet.
LEMMA QuietBegins ==
  ASSUME ~quiet, [Next]_vars
  PROVE  QuietInv'
<1>1. CASE MainEnd
  BY <1>1, Quitting DEF MainEnd, To, Quiet, QuietInv, EndPlaces, hkVars, trVars, poolVars
<1>2. CASE MainStep /\ ~MainEnd
  BY <1>2 DEF QuietInv, MainStep, MainHotkeyInit, MainTrayInit, MainTrayReady, MainRegister,
     MainPost, MainRun, MainDummy, MainTrayExit, MainTrayFree, MainTrayReset, MainPoolFlag,
     MainPoolLock, MainPoolDrop, MainPoolCleared, MainStopListening, MainUnregister, MainQuit,
     MainHotkeyReset, MainWorkflowEnd, appVars
<1>3. CASE JobStep
  BY <1>3 DEF QuietInv, JobStep, JobBegins, ExitEnds, FindCalls, FindAccepted, FindEnds,
     SearchEnds, appVars
<1>4. CASE HotkeyThread \/ TrayThread \/ User \/ GetMessageFails \/ Idle \/ UNCHANGED vars
  BY <1>4 DEF QuietInv, HotkeyThread, TrayThread, User, GetMessageFails, Idle, vars, appVars
<1> QED
  BY <1>1, <1>2, <1>3, <1>4 DEF Next

LEMMA StepKeepsQuietInv ==
  ASSUME QuietInv, TrayInv, SearchInv, JobInv, [Next]_vars
  PROVE  QuietInv'
<1>1. CASE ~quiet
  BY <1>1, QuietBegins
<1>2. CASE quiet
  <2>1. CASE MainStep
    BY <1>2, <2>1, MainQuiet
  <2>2. CASE JobStep
    BY <1>2, <2>2, JobsQuiet
  <2>3. CASE HotkeyThread
    BY <1>2, <2>3, HotkeyThreadQuiet
  <2>4. CASE TrayThread
    BY <1>2, <2>4, TrayThreadQuiet
  <2>5. CASE User \/ GetMessageFails
    BY <2>5 DEF User, GetMessageFails, QuietInv
  <2>6. CASE Idle \/ UNCHANGED vars
    BY <2>6 DEF Idle, vars, QuietInv, hkVars, trVars, appVars, poolVars
  <2> QED
    BY <2>1, <2>2, <2>3, <2>4, <2>5, <2>6 DEF Next
<1> QED
  BY <1>1, <1>2

\* A program whose main() ends while no message is on its way and no hotkey is being
\* served uses nothing that was destroyed (main.cpp:30, hotkey_windows.hpp:137,
\* tray_windows.hpp:103), however many searches still run.
THEOREM QuietEnd == Spec => []QuietEndIsClean
<1> DEFINE EndInv == AppInv /\ TrayInv /\ SearchInv /\ QuietInv
<1>1. Init => EndInv
  <2>1. ASSUME Init PROVE TrayInv
    BY <2>1, Starting DEF Init, TrayInv, TRInit, TR!SEInit
  <2>2. ASSUME Init PROVE SearchInv /\ QuietInv
    BY <2>2, JobNames DEF Init, PoolInit, SearchInv, QuietInv
  <2> QED
    BY <2>1, <2>2, AppInitInv
<1>2. EndInv /\ [Next]_vars => EndInv'
  BY AppStepInv, StepKeepsTrayInv, StepKeepsSearchInv, StepKeepsQuietInv DEF AppInv
<1>3. EndInv => QuietEndIsClean
  BY DEF QuietInv, QuietEndIsClean
<1> QED
  BY <1>1, <1>2, <1>3, PTL DEF Spec

-----------------------------------------------------------------------------
(* The ids.                                                                  *)
LEMMA QueueTyped ==
  ASSUME register_queue \in Seq(Registrations), register_queue # <<>>
  PROVE  /\ Head(register_queue)[1] = "register" =>
              Head(register_queue)[2] \in Keys /\ Head(register_queue)[3] \in Nat
         /\ Head(register_queue)[1] = "unregister" => Head(register_queue)[2] \in Keys
<1>1. Head(register_queue) \in Registrations
  BY HeadTailProperties
<1> QED
  BY <1>1 DEF Registrations

\* Which ids wait after the steps on register_queue.
LEMMA WaitsAfterAppend ==
  ASSUME register_queue \in Seq(Registrations), NEW e \in Registrations,
         register_queue' = Append(register_queue, e)
  PROVE  /\ register_queue' \in Seq(Registrations)
         /\ \A r, i : WaitsAt(r, i)' <=>
              WaitsAt(r, i) \/ (r = Len(register_queue) + 1 /\ e[1] = "register" /\ e[3] = i)
<1>1. register_queue' \in Seq(Registrations)
  OBVIOUS
<1> QED
  BY <1>1, AppendProperties DEF WaitsAt

LEMMA WaitsAfterTail ==
  ASSUME register_queue \in Seq(Registrations), register_queue # <<>>,
         register_queue' = Tail(register_queue)
  PROVE  /\ register_queue' \in Seq(Registrations)
         /\ \A r, i : WaitsAt(r, i)' => r \in Nat /\ WaitsAt(r + 1, i) /\ r # 0
         /\ Head(register_queue)[1] = "register" => WaitsAt(1, Head(register_queue)[3])
<1>1. register_queue' \in Seq(Registrations)
  BY HeadTailProperties
<1>2. ASSUME NEW r, NEW i, WaitsAt(r, i)' PROVE r \in Nat /\ WaitsAt(r + 1, i) /\ r # 0
  <2>1. r \in 1 .. Len(register_queue) - 1
    BY <1>2, HeadTailProperties DEF WaitsAt
  <2> QED
    BY <1>2, <2>1, HeadTailProperties DEF WaitsAt
<1>3. Head(register_queue)[1] = "register" => WaitsAt(1, Head(register_queue)[3])
  BY HeadTailProperties DEF WaitsAt
<1> QED
  BY <1>1, <1>2, <1>3

\* What becomes of an id in a step: nothing that gives it to another key.
Kept ==
  /\ hotkey_id <= hotkey_id'
  /\ \A r, i : WaitsAt(r, i)' => (\E r2 : WaitsAt(r2, i)) \/ i >= hotkey_id
  /\ \A i : i \in DOMAIN callback_map' =>
       \/ i \in DOMAIN callback_map /\ callback_map'[i] = callback_map[i]
       \/ \E r : WaitsAt(r, i)

LEMMA MeansStays ==
  ASSUME IdInv, (hotkey_id \in Nat)', Kept, NEW i \in Nat, NEW c, Means(i, c)
  PROVE  Means(i, c)'
<1>1. i < hotkey_id'
  BY DEF IdInv, Kept, Means
<1>2. \A r : ~WaitsAt(r, i)'
  BY DEF IdInv, Kept, Means
<1>3. i \in DOMAIN callback_map' => Codes(callback_map'[i]) = c
  BY DEF Kept, Means
<1> QED
  BY <1>1, <1>2, <1>3 DEF Means

\* The invariant of the maps alone, which most steps leave as they are.
LEMMA MapsUnchanged ==
  ASSUME IdInv, UNCHANGED <<script, hotkey_id, register_queue, callback_map, id_map>>,
         hooked' \subseteq hooked
  PROVE  IdInv' /\ Kept
<1>1. \A r, i : WaitsAt(r, i)' <=> WaitsAt(r, i)
  BY DEF WaitsAt
<1>2. Kept
  BY <1>1 DEF IdInv, Kept
<1>3. IdInv'
  BY <1>1 DEF IdInv
<1> QED
  BY <1>2, <1>3

LEMMA RegisterKeepsIds ==
  ASSUME IdInv, MainRegister
  PROVE  IdInv' /\ Kept
<1>1. /\ script # <<>> /\ Head(script)[2] \in Keys
      /\ script' \in Seq({"register", "unregister"} \X Keys)
  <2>1. script \in Seq({"register", "unregister"} \X Keys) /\ script # <<>> /\ script' = Tail(script)
    BY DEF IdInv, MainRegister
  <2>2. Head(script) \in {"register", "unregister"} \X Keys
    BY <2>1, HeadTailProperties
  <2> QED
    BY <2>1, <2>2, HeadTailProperties
<1>2. CASE RegisterCall(Head(script)[2])
  <2> DEFINE e == <<"register", Head(script)[2], hotkey_id>>
  <2>1. e \in Registrations /\ e[1] = "register" /\ e[3] = hotkey_id
    BY <1>1 DEF IdInv, Registrations
  <2>2. register_queue' = Append(register_queue, e) /\ hotkey_id' = hotkey_id + 1
    BY <1>2 DEF RegisterCall
  <2>3. UNCHANGED <<callback_map, id_map, hooked>>
    BY <1>2 DEF RegisterCall
  <2>4. /\ register_queue' \in Seq(Registrations)
        /\ \A r, i : WaitsAt(r, i)' <=>
             WaitsAt(r, i) \/ (r = Len(register_queue) + 1 /\ i = hotkey_id)
    <3> HIDE DEF e
    <3> QED
      BY <2>1, <2>2, WaitsAfterAppend DEF IdInv
  <2>5. Kept
    <3>1. hotkey_id \in Nat
      BY DEF IdInv
    <3>2. \A r, i : WaitsAt(r, i)' => (\E r2 : WaitsAt(r2, i)) \/ i >= hotkey_id
      BY <2>4, <3>1
    <3> QED
      BY <2>2, <2>3, <3>1, <3>2 DEF Kept
  <2>6. IdInv'
    <3>1. ASSUME NEW r, NEW i, WaitsAt(r, i)'
          PROVE  /\ i \in Nat /\ i < hotkey_id'
                 /\ i \notin DOMAIN callback_map'
                 /\ \A r2 : WaitsAt(r2, i)' => r2 = r
      BY <2>2, <2>3, <2>4, <3>1 DEF IdInv
    <3>2. \A i \in DOMAIN callback_map' : i \in Nat /\ i < hotkey_id'
      BY <2>2, <2>3 DEF IdInv
    <3> QED
      BY <1>1, <2>2, <2>3, <2>4, <3>1, <3>2 DEF IdInv
  <2> QED
    BY <2>5, <2>6
<1>3. CASE UnregisterCall(Head(script)[2])
  <2> DEFINE e == <<"unregister", Head(script)[2]>>
  <2>1. e \in Registrations /\ e[1] = "unregister"
    BY <1>1 DEF Registrations
  <2>2. register_queue' = Append(register_queue, e)
    BY <1>3 DEF UnregisterCall
  <2>3. UNCHANGED <<hotkey_id, callback_map, id_map, hooked>>
    BY <1>3 DEF UnregisterCall, hkMainVars
  <2>4. /\ register_queue' \in Seq(Registrations)
        /\ \A r, i : WaitsAt(r, i)' <=> WaitsAt(r, i)
    <3> HIDE DEF e
    <3> QED
      BY <2>1, <2>2, WaitsAfterAppend DEF IdInv
  <2>5. Kept
    BY <2>3, <2>4 DEF IdInv, Kept
  <2>6. IdInv'
    BY <1>1, <2>3, <2>4 DEF IdInv
  <2> QED
    BY <2>5, <2>6
<1> QED
  BY <1>2, <1>3 DEF MainRegister

LEMMA HKRegisterKeepsIds ==
  ASSUME IdInv, HKRegister, UNCHANGED script
  PROVE  IdInv' /\ Kept
<1>1. PICK k : k = Head(register_queue)[2]
  OBVIOUS
<1>2. PICK i : i = Head(register_queue)[3]
  OBVIOUS
<1>3. /\ callback_map' = Assigned(callback_map, i, k)
      /\ id_map' = Assigned(id_map, k, i)
      /\ hooked' \subseteq hooked \cup {<<i, Codes(k)>>}
      /\ hotkey_id' = hotkey_id
  BY <1>1, <1>2 DEF HKRegister, hkMainVars
<1>4. /\ register_queue' \in Seq(Registrations)
      /\ \A r, j : WaitsAt(r, j)' => r \in Nat /\ WaitsAt(r + 1, j) /\ r # 0
      /\ WaitsAt(1, i)
  BY <1>2, WaitsAfterTail DEF HKRegister, IdInv
<1>5. k \in Keys /\ i \in Nat /\ i < hotkey_id /\ i \notin DOMAIN callback_map
  BY <1>1, <1>4, QueueTyped DEF HKRegister, IdInv
<1>6. /\ DOMAIN callback_map' = DOMAIN callback_map \cup {i}
      /\ callback_map'[i] = k
      /\ \A j \in DOMAIN callback_map : callback_map'[j] = callback_map[j]
      /\ callback_map' \in [DOMAIN callback_map' -> Keys]
  BY <1>3, <1>5 DEF Assigned, IdInv
<1>7. /\ DOMAIN id_map' = DOMAIN id_map \cup {k}
      /\ id_map'[k] = i
      /\ \A l \in DOMAIN id_map : l # k => id_map'[l] = id_map[l]
  BY <1>3 DEF Assigned
<1>8. Kept
  BY <1>3, <1>4, <1>6 DEF Kept, IdInv
<1>9. ASSUME NEW r, NEW j, WaitsAt(r, j)'
      PROVE  /\ j \in Nat /\ j < hotkey_id'
             /\ j \notin DOMAIN callback_map'
             /\ \A r2 : WaitsAt(r2, j)' => r2 = r
  <2>1. r \in Nat /\ WaitsAt(r + 1, j) /\ r # 0
    BY <1>4, <1>9
  <2>2. j \in Nat /\ j < hotkey_id /\ j \notin DOMAIN callback_map
    BY <2>1 DEF IdInv
  <2>3. j # i
    BY <1>4, <2>1 DEF IdInv
  <2>4. ASSUME NEW r2, WaitsAt(r2, j)' PROVE r2 = r
    <3>1. r2 \in Nat /\ WaitsAt(r2 + 1, j)
      BY <1>4, <2>4
    <3>2. r2 + 1 = r + 1
      BY <2>1, <3>1 DEF IdInv
    <3> QED
      BY <2>1, <3>1, <3>2
  <2> QED
    BY <1>3, <1>6, <2>2, <2>3, <2>4
<1>10. ASSUME NEW h \in hooked'
       PROVE  h[1] \in DOMAIN callback_map' /\ h[2] = Codes(callback_map'[h[1]])
  <2>1. CASE h \in hooked
    BY <1>6, <2>1 DEF IdInv
  <2>2. CASE h = <<i, Codes(k)>>
    BY <1>6, <2>2
  <2> QED
    BY <1>3, <2>1, <2>2
<1>11. ASSUME NEW l \in DOMAIN id_map'
       PROVE  id_map'[l] \in DOMAIN callback_map' /\ callback_map'[id_map'[l]] = l
  <2>1. CASE l = k
    BY <1>6, <1>7, <2>1
  <2>2. CASE l # k
    BY <1>6, <1>7, <2>2 DEF IdInv
  <2> QED
    BY <2>1, <2>2
<1>12. \A j \in DOMAIN callback_map' : j \in Nat /\ j < hotkey_id'
  BY <1>3, <1>5, <1>6 DEF IdInv
<1>13. IdInv'
  BY <1>3, <1>4, <1>6, <1>9, <1>10, <1>11, <1>12 DEF IdInv
<1> QED
  BY <1>8, <1>13

LEMMA HKUnregisterKeepsIds ==
  ASSUME IdInv, HKUnregister, UNCHANGED script
  PROVE  IdInv' /\ Kept
<1>1. PICK k : k = Head(register_queue)[2]
  OBVIOUS
<1>2. PICK i : i = id_map[k]
  OBVIOUS
<1>3. /\ k \in DOMAIN id_map /\ i \in DOMAIN callback_map /\ callback_map[i] = k
      /\ hotkey_id' = hotkey_id
      /\ hooked' = {h \in hooked : h[1] # i}
      /\ callback_map' = [j \in DOMAIN callback_map \ {i} |-> callback_map[j]]
      /\ id_map' = [l \in DOMAIN id_map \ {k} |-> id_map[l]]
  BY <1>1, <1>2 DEF HKUnregister, hkMainVars, IdInv, Restrict
<1>4. /\ register_queue' \in Seq(Registrations)
      /\ \A r, j : WaitsAt(r, j)' => r \in Nat /\ WaitsAt(r + 1, j) /\ r # 0
  BY WaitsAfterTail DEF HKUnregister, IdInv
<1>5. Kept
  BY <1>3, <1>4 DEF Kept, IdInv
<1>6. ASSUME NEW r, NEW j, WaitsAt(r, j)'
      PROVE  /\ j \in Nat /\ j < hotkey_id'
             /\ j \notin DOMAIN callback_map'
             /\ \A r2 : WaitsAt(r2, j)' => r2 = r
  <2>1. r \in Nat /\ WaitsAt(r + 1, j)
    BY <1>4, <1>6
  <2>2. j \in Nat /\ j < hotkey_id /\ j \notin DOMAIN callback_map
    BY <2>1 DEF IdInv
  <2>3. ASSUME NEW r2, WaitsAt(r2, j)' PROVE r2 = r
    <3>1. r2 \in Nat /\ WaitsAt(r2 + 1, j)
      BY <1>4, <2>3
    <3>2. r2 + 1 = r + 1
      BY <2>1, <3>1 DEF IdInv
    <3> QED
      BY <2>1, <3>1, <3>2
  <2> QED
    BY <1>3, <2>2, <2>3
<1>7. ASSUME NEW h \in hooked'
      PROVE  h[1] \in DOMAIN callback_map' /\ h[2] = Codes(callback_map'[h[1]])
  BY <1>3 DEF IdInv
\* Another key has another id, for which callback_map has that key.
<1>8. ASSUME NEW l \in DOMAIN id_map'
      PROVE  id_map'[l] \in DOMAIN callback_map' /\ callback_map'[id_map'[l]] = l
  <2>1. l # k /\ id_map'[l] = id_map[l] /\ callback_map[id_map[l]] = l
    BY <1>3 DEF IdInv
  <2>2. id_map[l] # i /\ id_map[l] \in DOMAIN callback_map
    BY <1>3, <2>1 DEF IdInv
  <2> QED
    BY <1>3, <2>1, <2>2
<1>9. /\ callback_map' \in [DOMAIN callback_map' -> Keys]
      /\ \A j \in DOMAIN callback_map' : j \in Nat /\ j < hotkey_id'
  BY <1>3 DEF IdInv
<1>10. IdInv'
  BY <1>3, <1>4, <1>6, <1>7, <1>8, <1>9 DEF IdInv
<1> QED
  BY <1>5, <1>10

LEMMA HKUnregisterThrowsKeepsIds ==
  ASSUME IdInv, HKUnregisterThrows, UNCHANGED script
  PROVE  IdInv' /\ Kept
<1>1. /\ register_queue' \in Seq(Registrations)
      /\ \A r, j : WaitsAt(r, j)' => r \in Nat /\ WaitsAt(r + 1, j) /\ r # 0
  BY WaitsAfterTail DEF HKUnregisterThrows, IdInv
<1>2. UNCHANGED <<script, hotkey_id, callback_map, id_map, hooked>>
  BY DEF HKUnregisterThrows, hkMainVars
<1>3. Kept
  BY <1>1, <1>2 DEF Kept, IdInv
<1>4. ASSUME NEW r, NEW j, WaitsAt(r, j)'
      PROVE  /\ j \in Nat /\ j < hotkey_id
             /\ j \notin DOMAIN callback_map
             /\ \A r2 : WaitsAt(r2, j)' => r2 = r
  <2>1. r \in Nat /\ WaitsAt(r + 1, j)
    BY <1>1, <1>4
  <2>2. \A r2 : WaitsAt(r2, j)' => r2 \in Nat /\ r2 + 1 = r + 1
    BY <1>1, <2>1 DEF IdInv
  <2> QED
    BY <2>1, <2>2 DEF IdInv
<1>5. IdInv'
  BY <1>1, <1>2, <1>4 DEF IdInv
<1> QED
  BY <1>3, <1>5

LEMMA StepKeepsIds ==
  ASSUME IdInv, [Next]_vars
  PROVE  IdInv' /\ Kept
<1>1. CASE MainRegister
  BY <1>1, RegisterKeepsIds
<1>2. CASE MainStep /\ ~MainRegister
  <2>1. UNCHANGED <<script, hotkey_id, register_queue, callback_map, id_map, hooked>>
    <3>1. CASE MainHotkeyInit \/ MainTrayInit \/ MainTrayReady \/ MainPost \/ MainRun
      BY <3>1 DEF MainHotkeyInit, HotkeyInit, MainTrayInit, MainTrayReady, MainPost, Post, MainRun,
         hkVars, hkMainVars, hkMapVars
    <3>2. CASE MainDummy \/ MainEnd \/ MainTrayExit \/ MainTrayFree \/ MainTrayReset
      BY <3>2 DEF MainDummy, MainEnd, MainTrayExit, MainTrayFree, MainTrayReset, hkVars
    <3>3. CASE MainPoolFlag \/ MainPoolLock \/ MainPoolDrop \/ MainPoolCleared
      BY <3>3 DEF MainPoolFlag, MainPoolLock, MainPoolDrop, MainPoolCleared, hkVars, appVars
    <3>4. CASE MainStopListening \/ MainUnregister \/ MainQuit
      BY <3>4 DEF MainStopListening, StopListening, MainUnregister, QueueUnregister, MainQuit, Post,
         hkMainVars, hkMapVars
    <3>5. CASE MainHotkeyReset \/ MainWorkflowEnd
      BY <3>5 DEF MainHotkeyReset, HotkeyReset, MainWorkflowEnd, hkVars, hkMainVars, hkMapVars
    <3> QED
      BY <1>2, <3>1, <3>2, <3>3, <3>4, <3>5 DEF MainStep
  <2> QED
    BY <2>1, MapsUnchanged
<1>3. CASE HotkeyThread
  <2>1. UNCHANGED script
    BY <1>3 DEF HotkeyThread, appVars
  <2>2. CASE HKRegister
    BY <2>1, <2>2, HKRegisterKeepsIds
  <2>3. CASE HKUnregister
    BY <2>1, <2>3, HKUnregisterKeepsIds
  <2>4. CASE HKUnregisterThrows
    BY <2>1, <2>4, HKUnregisterThrowsKeepsIds
  <2>5. CASE HKUnregisterAll
    BY <2>1, <2>5, MapsUnchanged DEF HKUnregisterAll, hkMainVars
  <2>6. CASE HKBegin \/ HKStart \/ HKTest \/ HKEnter \/ HKReceive
    BY <2>1, <2>6, MapsUnchanged DEF HKBegin, HKStart, HKTest, HKEnter, HKReceive,
       hkMainVars, hkMapVars
  <2>7. CASE HKTasksDone \/ HKRefused \/ HKCall \/ HKAccept \/ HKAgain
    BY <2>1, <2>7, MapsUnchanged DEF HKTasksDone, HKRefused, HKCall, HKAccept, HKAgain,
       hkMainVars, hkMapVars
  <2> QED
    BY <1>3, <2>2, <2>3, <2>4, <2>5, <2>6, <2>7 DEF HotkeyThread, HKStep
<1>4. CASE TrayThread \/ JobStep \/ User \/ GetMessageFails \/ Idle \/ UNCHANGED vars
  <2>1. UNCHANGED <<script, hotkey_id, register_queue, callback_map, id_map, hooked>>
    <3>1. CASE TrayThread \/ Idle \/ UNCHANGED vars
      BY <3>1 DEF TrayThread, Idle, vars, hkVars, appVars
    <3>2. CASE JobStep
      BY <3>2 DEF JobStep, JobBegins, ExitEnds, FindCalls, FindAccepted, FindEnds, SearchEnds,
         hkVars, appVars
    <3>3. CASE User
      BY <3>3 DEF User, Press, hkVars, hkMainVars, hkMapVars
    <3>4. CASE GetMessageFails
      BY <3>4 DEF GetMessageFails, HKReceiveError, hkVars, hkMainVars, hkMapVars
    <3> QED
      BY <1>4, <3>1, <3>2, <3>3, <3>4
  <2> QED
    BY <2>1, MapsUnchanged
<1> QED
  BY <1>1, <1>2, <1>3, <1>4 DEF Next

-----------------------------------------------------------------------------
(* The messages and the calls.                                               *)
LEMMA MessageTyped ==
  ASSUME NEW m \in Messages
  PROVE  m[1] = "hotkey" => m[2] \in Nat
BY DEF Messages, Null, Quit

LEMMA OwnMessages ==
  /\ Null \in Messages /\ Quit \in Messages
  /\ Null[1] # "hotkey" /\ Quit[1] # "hotkey"
  /\ \A i \in Nat : <<"hotkey", i>> \in Messages
BY DEF Messages, Null, Quit

LEMMA HookedMeans ==
  ASSUME IdInv, NEW h \in hooked
  PROVE  h[1] \in Nat /\ h[2] \in KeyCodes /\ Means(h[1], h[2])
<1>1. h[1] \in DOMAIN callback_map /\ h[2] = Codes(callback_map[h[1]])
  BY DEF IdInv
<1>2. h[1] \in Nat /\ h[1] < hotkey_id /\ callback_map[h[1]] \in Keys
  BY <1>1 DEF IdInv
<1>3. \A r : ~WaitsAt(r, h[1])
  BY <1>1 DEF IdInv
<1> QED
  BY <1>1, <1>2, <1>3 DEF Means, KeyCodes

\* The parts of MatchInv at a step that has nothing to do with them.
LEMMA QueueStays ==
  ASSUME IdInv, IdInv', Kept, MessageInv, UNCHANGED <<hkMessages, presses>>,
         NEW n, NEW g, QueueMatches(n, g)
  PROVE  QueueMatches(n, g)'
<1>1. ASSUME NEW i \in DOMAIN hkMessages, hkMessages[i][1] = "hotkey"
      PROVE  Means(hkMessages[i][2], presses[g[i]])'
  <2>1. PICK j : j = hkMessages[i][2]
    OBVIOUS
  <2>2. PICK c : c = presses[g[i]]
    OBVIOUS
  <2>3. j \in Nat
    <3>1. hkMessages[i] \in Messages
      BY DEF MessageInv
    <3> QED
      BY <1>1, <2>1, <3>1, MessageTyped
  <2>4. Means(j, c)
    BY <1>1, <2>1, <2>2 DEF QueueMatches
  <2>5. Means(j, c)'
    BY <2>3, <2>4, MeansStays DEF IdInv
  <2> QED
    BY <2>1, <2>2, <2>5
<1> QED
  BY <1>1 DEF QueueMatches

LEMMA MessageStays ==
  ASSUME IdInv, IdInv', Kept, MessageInv, UNCHANGED <<presses, calls>>,
         hkAt' \in {"tasks", "call"} => hkAt \in {"tasks", "call"} /\ hkMsg' = hkMsg,
         NEW n, NEW f, MessageMatches(n, f)
  PROVE  MessageMatches(n, f)'
<1> SUFFICES ASSUME hkAt' \in {"tasks", "call"}, hkMsg[1] = "hotkey"
             PROVE  MessageMatches(n, f)'
  BY DEF MessageMatches
<1>1. PICK j : j = hkMsg[2]
  OBVIOUS
<1>2. PICK c : c = presses[n]
  OBVIOUS
<1>3. j \in Nat
  BY <1>1, MessageTyped DEF MessageInv
<1>4. Means(j, c)
  BY <1>1, <1>2 DEF MessageMatches
<1>5. Means(j, c)'
  BY <1>3, <1>4, MeansStays DEF IdInv
<1> QED
  BY <1>1, <1>2, <1>5 DEF MessageMatches

LEMMA MatchStays ==
  ASSUME IdInv, IdInv', Kept, MessageInv, MatchInv, UNCHANGED <<hkMessages, presses, calls>>,
         hkAt' \in {"tasks", "call"} => hkAt \in {"tasks", "call"} /\ hkMsg' = hkMsg
  PROVE  MatchInv'
<1>1. PICK n \in 0 .. Len(presses) :
        /\ \E f \in [DOMAIN calls -> 1 .. n] : CallsMatch(f) /\ MessageMatches(n, f)
        /\ \E g \in [DOMAIN hkMessages -> 0 .. Len(presses)] : QueueMatches(n, g)
  BY DEF MatchInv
<1>2. PICK f \in [DOMAIN calls -> 1 .. n] : CallsMatch(f) /\ MessageMatches(n, f)
  BY <1>1
<1>3. PICK g \in [DOMAIN hkMessages -> 0 .. Len(presses)] : QueueMatches(n, g)
  BY <1>1
<1>4. CallsMatch(f)' /\ MessageMatches(n, f)'
  BY <1>2, MessageStays DEF CallsMatch
<1>5. QueueMatches(n, g)'
  BY <1>3, QueueStays
<1> QED
  BY <1>4, <1>5 DEF MatchInv

\* A message is queued: g becomes g2.
LEMMA QueueGrows ==
  ASSUME IdInv, IdInv', Kept, MessageInv, NEW n \in 0 .. Len(presses),
         NEW g \in [DOMAIN hkMessages -> 0 .. Len(presses)], QueueMatches(n, g),
         NEW m \in Messages, hkMessages' = Append(hkMessages, m),
         NEW p \in 0 .. Len(presses'), NEW c,
         presses' \in Seq(KeyCodes), Len(presses) <= Len(presses'),
         \A i \in DOMAIN presses : presses'[i] = presses[i],
         m[1] = "hotkey" => Len(presses) < p /\ presses'[p] = c /\ Means(m[2], c)'
  PROVE  \E g2 \in [DOMAIN hkMessages' -> 0 .. Len(presses')] : QueueMatches(n, g2)'
<1> DEFINE g2 == [i \in DOMAIN hkMessages' |-> IF i \in DOMAIN hkMessages THEN g[i] ELSE p]
<1>1. /\ Len(hkMessages) \in Nat /\ DOMAIN hkMessages = 1 .. Len(hkMessages)
      /\ DOMAIN hkMessages' = 1 .. Len(hkMessages) + 1
      /\ \A i \in DOMAIN hkMessages : hkMessages'[i] = hkMessages[i]
      /\ hkMessages'[Len(hkMessages) + 1] = m
  BY AppendProperties DEF MessageInv
<1>2. Len(presses) \in Nat /\ Len(presses') \in Nat /\ DOMAIN presses = 1 .. Len(presses)
  BY DEF MessageInv
<1>3. /\ g2 \in [DOMAIN hkMessages' -> 0 .. Len(presses')]
      /\ \A i \in DOMAIN hkMessages : g2[i] = g[i]
      /\ g2[Len(hkMessages) + 1] = p
  BY <1>1, <1>2
<1> HIDE DEF g2
<1>4. PICK k : k = g2
  OBVIOUS
<1>5. /\ k \in [DOMAIN hkMessages' -> 0 .. Len(presses')]
      /\ \A i \in DOMAIN hkMessages : k[i] = g[i]
      /\ k[Len(hkMessages) + 1] = p
  BY <1>3, <1>4
<1>6. ASSUME NEW i \in DOMAIN hkMessages, hkMessages[i][1] = "hotkey"
      PROVE  /\ n < g[i] /\ g[i] \in DOMAIN presses
             /\ Means(hkMessages[i][2], presses[g[i]])'
  <2>1. n < g[i] /\ g[i] \in DOMAIN presses
    BY <1>2, <1>6 DEF QueueMatches
  <2>2. PICK j : j = hkMessages[i][2]
    OBVIOUS
  <2>3. PICK d : d = presses[g[i]]
    OBVIOUS
  <2>4. j \in Nat
    <3>1. hkMessages[i] \in Messages
      BY DEF MessageInv
    <3> QED
      BY <1>6, <2>2, <3>1, MessageTyped
  <2>5. Means(j, d)
    BY <1>6, <2>2, <2>3 DEF QueueMatches
  <2>6. Means(j, d)'
    BY <2>4, <2>5, MeansStays DEF IdInv
  <2> QED
    BY <1>1, <2>1, <2>2, <2>3, <2>6
<1>7. ASSUME NEW i \in DOMAIN hkMessages', hkMessages'[i][1] = "hotkey"
      PROVE  /\ n < k[i]
             /\ Means(hkMessages[i][2], presses[k[i]])'
             /\ \A j \in DOMAIN hkMessages' :
                  i < j /\ hkMessages'[j][1] = "hotkey" => k[i] < k[j]
  <2>1. CASE i \in DOMAIN hkMessages
    <3>1. hkMessages[i][1] = "hotkey" /\ k[i] = g[i]
      BY <1>1, <1>5, <1>7, <2>1
    <3>2. ASSUME NEW j \in DOMAIN hkMessages', i < j, hkMessages'[j][1] = "hotkey"
          PROVE  k[i] < k[j]
      <4>1. CASE j \in DOMAIN hkMessages
        BY <1>1, <1>5, <2>1, <3>1, <3>2, <4>1 DEF QueueMatches
      <4>2. CASE j = Len(hkMessages) + 1
        BY <1>1, <1>2, <1>5, <1>6, <2>1, <3>1, <3>2, <4>2
      <4> QED
        BY <1>1, <4>1, <4>2
    <3> QED
      BY <1>6, <2>1, <3>1, <3>2
  <2>2. CASE i = Len(hkMessages) + 1
    <3>1. m[1] = "hotkey" /\ k[i] = p
      BY <1>1, <1>5, <1>7, <2>2
    <3>2. hkMessages'[i] = m
      BY <1>1, <2>2
    <3>3. Means(hkMessages[i][2], presses[k[i]])'
      BY <3>1, <3>2
    <3> QED
      BY <1>1, <1>2, <2>2, <3>1, <3>3
  <2> QED
    BY <1>1, <2>1, <2>2
<1>8. QueueMatches(n, k)'
  BY <1>7 DEF QueueMatches
<1> QED
  BY <1>5, <1>8

\* The message at the head is received, or the queue ends with it.
LEMMA QueueShrinks ==
  ASSUME IdInv, IdInv', Kept, MessageInv, NEW n, NEW n2,
         NEW g \in [DOMAIN hkMessages -> 0 .. Len(presses)], QueueMatches(n, g),
         hkMessages # <<>>, hkMessages' = Tail(hkMessages), UNCHANGED presses,
         n2 = IF Head(hkMessages)[1] = "hotkey" THEN g[1] ELSE n
  PROVE  \E g2 \in [DOMAIN hkMessages' -> 0 .. Len(presses')] : QueueMatches(n2, g2)'
<1> DEFINE g2 == [i \in DOMAIN hkMessages' |-> g[i + 1]]
<1>1. /\ Len(hkMessages) \in Nat \ {0} /\ DOMAIN hkMessages = 1 .. Len(hkMessages)
      /\ DOMAIN hkMessages' = 1 .. Len(hkMessages) - 1
      /\ \A i \in DOMAIN hkMessages' : hkMessages'[i] = hkMessages[i + 1]
      /\ Head(hkMessages) = hkMessages[1]
  BY HeadTailProperties DEF MessageInv
<1>2. /\ g2 \in [DOMAIN hkMessages' -> 0 .. Len(presses')]
      /\ \A i \in DOMAIN hkMessages' : g2[i] = g[i + 1]
  BY <1>1
<1> HIDE DEF g2
<1>3. PICK k : k = g2
  OBVIOUS
<1>4. /\ k \in [DOMAIN hkMessages' -> 0 .. Len(presses')]
      /\ \A i \in DOMAIN hkMessages' : k[i] = g[i + 1]
  BY <1>2, <1>3
<1>5. ASSUME NEW i \in DOMAIN hkMessages', hkMessages'[i][1] = "hotkey"
      PROVE  /\ n2 < k[i]
             /\ Means(hkMessages[i][2], presses[k[i]])'
             /\ \A j \in DOMAIN hkMessages' :
                  i < j /\ hkMessages'[j][1] = "hotkey" => k[i] < k[j]
  <2>1. /\ i + 1 \in DOMAIN hkMessages /\ hkMessages[i + 1][1] = "hotkey" /\ k[i] = g[i + 1]
        /\ 1 \in DOMAIN hkMessages /\ 1 < i + 1
    BY <1>1, <1>4, <1>5
  <2>2. n2 < k[i]
    <3>1. CASE Head(hkMessages)[1] = "hotkey"
      BY <1>1, <2>1, <3>1 DEF QueueMatches
    <3>2. CASE Head(hkMessages)[1] # "hotkey"
      BY <2>1, <3>2 DEF QueueMatches
    <3> QED
      BY <3>1, <3>2
  <2>3. ASSUME NEW j \in DOMAIN hkMessages', i < j, hkMessages'[j][1] = "hotkey"
        PROVE  k[i] < k[j]
    <3>1. /\ j + 1 \in DOMAIN hkMessages /\ hkMessages[j + 1][1] = "hotkey"
          /\ k[j] = g[j + 1] /\ i + 1 < j + 1
      BY <1>1, <1>4, <2>3
    <3> QED
      BY <2>1, <3>1 DEF QueueMatches
  <2>4. PICK e : e = hkMessages[i + 1][2]
    OBVIOUS
  <2>5. PICK d : d = presses[g[i + 1]]
    OBVIOUS
  <2>6. e \in Nat
    <3>1. hkMessages[i + 1] \in Messages
      BY <2>1 DEF MessageInv
    <3> QED
      BY <2>1, <2>4, <3>1, MessageTyped
  <2>7. Means(e, d)
    BY <2>1, <2>4, <2>5 DEF QueueMatches
  <2>8. Means(e, d)'
    BY <2>6, <2>7, MeansStays DEF IdInv
  <2>9. Means(hkMessages[i][2], presses[k[i]])'
    BY <1>1, <2>1, <2>4, <2>5, <2>8
  <2> QED
    BY <2>2, <2>3, <2>9
<1>6. QueueMatches(n2, k)'
  BY <1>5 DEF QueueMatches
<1> QED
  BY <1>4, <1>6

LEMMA PostKeepsMatch ==
  ASSUME IdInv, IdInv', Kept, MessageInv, MatchInv, NEW m \in {Null, Quit}, Post(m)
  PROVE  MessageInv' /\ MatchInv'
<1>1. UNCHANGED <<hkAt, hkMsg, presses, calls, callback_map>>
  BY DEF Post, hkMapVars
<1>2. CASE hkMessages' = hkMessages
  <2>1. MatchInv'
    BY <1>1, <1>2, MatchStays
  <2>2. MessageInv'
    BY <1>1, <1>2 DEF MessageInv
  <2> QED
    BY <2>1, <2>2
<1>3. CASE hkMessages' = Append(hkMessages, m)
  <2>1. m \in Messages /\ m[1] # "hotkey"
    BY OwnMessages
  <2>2. MessageInv'
    <3>1. hkMessages' \in Seq(Messages)
      BY <1>3, <2>1, AppendProperties DEF MessageInv
    <3> QED
      BY <1>1, <3>1 DEF MessageInv
  <2>3. PICK n \in 0 .. Len(presses) :
          /\ \E f \in [DOMAIN calls -> 1 .. n] : CallsMatch(f) /\ MessageMatches(n, f)
          /\ \E g \in [DOMAIN hkMessages -> 0 .. Len(presses)] : QueueMatches(n, g)
    BY DEF MatchInv
  <2>4. PICK f \in [DOMAIN calls -> 1 .. n] : CallsMatch(f) /\ MessageMatches(n, f)
    BY <2>3
  <2>5. PICK g \in [DOMAIN hkMessages -> 0 .. Len(presses)] : QueueMatches(n, g)
    BY <2>3
  <2>6. CallsMatch(f)' /\ MessageMatches(n, f)'
    BY <1>1, <2>4, MessageStays DEF CallsMatch
  <2>7. /\ presses' \in Seq(KeyCodes) /\ Len(presses) <= Len(presses') /\ 0 \in 0 .. Len(presses')
        /\ \A i \in DOMAIN presses : presses'[i] = presses[i]
    BY <1>1 DEF MessageInv
  <2>8. \E g2 \in [DOMAIN hkMessages' -> 0 .. Len(presses')] : QueueMatches(n, g2)'
    BY <1>3, <2>1, <2>5, <2>7, QueueGrows
  <2> QED
    BY <1>1, <2>2, <2>6, <2>8 DEF MatchInv
<1> QED
  BY <1>2, <1>3 DEF Post

LEMMA PressKeepsMatch ==
  ASSUME IdInv, IdInv', Kept, MessageInv, MatchInv, Press
  PROVE  MessageInv' /\ MatchInv'
<1>1. UNCHANGED <<hkAt, hkMsg, calls, callback_map>>
  BY DEF Press, hkMapVars
<1>2. PICK h \in hooked :
        /\ hkMessages' = Append(hkMessages, <<"hotkey", h[1]>>)
        /\ presses' = Append(presses, h[2])
  BY DEF Press
<1>3. PICK i : i = h[1]
  OBVIOUS
<1>4. PICK c : c = h[2]
  OBVIOUS
<1>5. PICK m : m = <<"hotkey", i>>
  OBVIOUS
<1>6. i \in Nat /\ c \in KeyCodes /\ Means(i, c)
  BY <1>3, <1>4, HookedMeans
<1>7. m \in Messages /\ m[1] = "hotkey" /\ m[2] = i
  BY <1>5, <1>6, OwnMessages
<1>8. Means(m[2], c)'
  <2>1. Means(i, c)'
    BY <1>6, MeansStays DEF IdInv
  <2> QED
    BY <1>7, <2>1
<1>9. hkMessages' = Append(hkMessages, m) /\ presses' = Append(presses, c)
  BY <1>2, <1>3, <1>4, <1>5
<1>10. /\ presses \in Seq(KeyCodes) /\ presses' \in Seq(KeyCodes)
       /\ Len(presses) \in Nat /\ DOMAIN presses = 1 .. Len(presses)
       /\ Len(presses') = Len(presses) + 1
       /\ \A j \in DOMAIN presses : presses'[j] = presses[j]
       /\ presses'[Len(presses) + 1] = c
  BY <1>6, <1>9, AppendProperties DEF MessageInv
<1>11. MessageInv'
  <2>1. hkMessages' \in Seq(Messages)
    BY <1>7, <1>9, AppendProperties DEF MessageInv
  <2> QED
    BY <1>1, <1>10, <2>1 DEF MessageInv
<1>12. PICK n \in 0 .. Len(presses) :
         /\ \E f \in [DOMAIN calls -> 1 .. n] : CallsMatch(f) /\ MessageMatches(n, f)
         /\ \E g \in [DOMAIN hkMessages -> 0 .. Len(presses)] : QueueMatches(n, g)
  BY DEF MatchInv
<1>13. PICK f \in [DOMAIN calls -> 1 .. n] : CallsMatch(f) /\ MessageMatches(n, f)
  BY <1>12
<1>14. PICK g \in [DOMAIN hkMessages -> 0 .. Len(presses)] : QueueMatches(n, g)
  BY <1>12
<1>15. CallsMatch(f)'
  <2>1. \A j \in DOMAIN calls : f[j] \in DOMAIN presses
    BY <1>10, <1>12, <1>13
  <2> QED
    BY <1>1, <1>10, <1>13, <2>1 DEF CallsMatch
<1>16. MessageMatches(n, f)'
  <2> SUFFICES ASSUME hkAt \in {"tasks", "call"}, hkMsg[1] = "hotkey"
               PROVE  n # 0 /\ Means(hkMsg[2], presses[n])' /\ \A j \in DOMAIN calls : f[j] < n
    BY <1>1 DEF MessageMatches
  <2>1. n # 0 /\ Means(hkMsg[2], presses[n]) /\ \A j \in DOMAIN calls : f[j] < n
    BY <1>13 DEF MessageMatches
  <2>2. PICK e : e = hkMsg[2]
    OBVIOUS
  <2>3. PICK d : d = presses[n]
    OBVIOUS
  <2>4. Means(e, d)'
    <3>1. e \in Nat
      BY <2>2, MessageTyped DEF MessageInv
    <3>2. Means(e, d)
      BY <2>1, <2>2, <2>3
    <3> QED
      BY <3>1, <3>2, MeansStays DEF IdInv
  <2>5. presses'[n] = d
    BY <1>10, <2>1, <2>3
  <2> QED
    BY <1>1, <2>1, <2>2, <2>4, <2>5
<1>17. \E g2 \in [DOMAIN hkMessages' -> 0 .. Len(presses')] : QueueMatches(n, g2)'
  <2>1. Len(presses) + 1 \in 0 .. Len(presses') /\ Len(presses) <= Len(presses')
        /\ Len(presses) < Len(presses) + 1
    BY <1>10
  <2> QED
    BY <1>7, <1>8, <1>9, <1>10, <1>14, <2>1, QueueGrows
<1>18. n \in 0 .. Len(presses') /\ f \in [DOMAIN calls' -> 1 .. n]
  BY <1>1, <1>10
<1> QED
  BY <1>11, <1>15, <1>16, <1>17, <1>18 DEF MatchInv

LEMMA ReceiveKeepsMatch ==
  ASSUME IdInv, IdInv', Kept, MessageInv, MatchInv, HKReceive
  PROVE  MessageInv' /\ MatchInv'
<1>1. /\ hkMessages # <<>> /\ hkMessages' = Tail(hkMessages)
      /\ UNCHANGED <<presses, calls, callback_map>>
      /\ hkAt = "wait"
      /\ IF Head(hkMessages) = Quit THEN hkAt' = "out" /\ hkMsg' = hkMsg
                                    ELSE hkAt' = "tasks" /\ hkMsg' = Head(hkMessages)
  BY DEF HKReceive, Goes, hkMapVars
<1>2. hkMessages' \in Seq(Messages) /\ Head(hkMessages) \in Messages
  BY <1>1, HeadTailProperties DEF MessageInv
<1>3. MessageInv'
  BY <1>1, <1>2 DEF MessageInv
<1>4. PICK n \in 0 .. Len(presses) :
        /\ \E f \in [DOMAIN calls -> 1 .. n] : CallsMatch(f) /\ MessageMatches(n, f)
        /\ \E g \in [DOMAIN hkMessages -> 0 .. Len(presses)] : QueueMatches(n, g)
  BY DEF MatchInv
<1>5. PICK f \in [DOMAIN calls -> 1 .. n] : CallsMatch(f) /\ MessageMatches(n, f)
  BY <1>4
<1>6. PICK g \in [DOMAIN hkMessages -> 0 .. Len(presses)] : QueueMatches(n, g)
  BY <1>4
<1>7. CallsMatch(f)'
  BY <1>1, <1>5 DEF CallsMatch
<1>8. CASE Head(hkMessages)[1] # "hotkey"
  <2>1. MessageMatches(n, f)'
    BY <1>1, <1>8 DEF MessageMatches
  <2>2. \E g2 \in [DOMAIN hkMessages' -> 0 .. Len(presses')] : QueueMatches(n, g2)'
    BY <1>1, <1>6, <1>8, QueueShrinks
  <2> QED
    BY <1>1, <1>3, <1>5, <1>7, <2>1, <2>2 DEF MatchInv
\* The worker is at the press of this message.
<1>9. CASE Head(hkMessages)[1] = "hotkey"
  <2>1. PICK p : p = g[1]
    OBVIOUS
  <2>2. /\ 1 \in DOMAIN hkMessages /\ hkMessages[1] = Head(hkMessages)
        /\ Len(presses) \in Nat
    <3>1. 1 \in DOMAIN hkMessages /\ hkMessages[1] = Head(hkMessages)
      BY <1>1, HeadTailProperties DEF MessageInv
    <3>2. Len(presses) \in Nat
      BY DEF MessageInv
    <3> QED
      BY <3>1, <3>2
  <2>3. p \in 0 .. Len(presses) /\ n < p /\ Means(Head(hkMessages)[2], presses[p])
    BY <1>6, <1>9, <2>1, <2>2 DEF QueueMatches
  <2>4. Head(hkMessages) # Quit
    BY <1>9, OwnMessages
  <2>5. Means(hkMsg[2], presses[p])'
    <3>1. PICK e : e = Head(hkMessages)[2]
      OBVIOUS
    <3>2. PICK d : d = presses[p]
      OBVIOUS
    <3>3. e \in Nat
      BY <1>2, <1>9, <3>1, MessageTyped
    <3>4. Means(e, d)
      BY <2>3, <3>1, <3>2
    <3>5. Means(e, d)'
      BY <3>3, <3>4, MeansStays DEF IdInv
    <3> QED
      BY <1>1, <2>4, <3>1, <3>2, <3>5
  <2>6. f \in [DOMAIN calls -> 1 .. p] /\ \A i \in DOMAIN calls : f[i] < p
    BY <1>5, <2>3
  <2>7. MessageMatches(p, f)'
    BY <1>1, <2>2, <2>3, <2>5, <2>6 DEF MessageMatches
  <2>8. \E g2 \in [DOMAIN hkMessages' -> 0 .. Len(presses')] : QueueMatches(p, g2)'
    BY <1>1, <1>6, <1>9, <2>1, QueueShrinks
  <2> QED
    BY <1>1, <1>3, <1>7, <2>3, <2>6, <2>7, <2>8 DEF MatchInv
<1> QED
  BY <1>8, <1>9

LEMMA CallKeepsMatch ==
  ASSUME IdInv, IdInv', Kept, MessageInv, MatchInv, HKCall
  PROVE  MessageInv' /\ MatchInv'
<1>1. /\ hkAt = "call" /\ hkAt' = "accept"
      /\ calls' = Append(calls, <<hkMsg[2], callback_map[hkMsg[2]]>>)
      /\ UNCHANGED <<hkMsg, hkMessages, presses, callback_map>>
  BY DEF HKCall, Goes, hkMapVars
<1>2. hkMsg[1] = "hotkey" /\ hkMsg[2] \in DOMAIN callback_map /\ hkMsg[2] \in Nat
  BY <1>1, MessageTyped DEF MessageInv
<1>3. PICK k : k = callback_map[hkMsg[2]]
  OBVIOUS
<1>4. PICK e : e = <<hkMsg[2], k>>
  OBVIOUS
<1>5. e \in Nat \X Keys /\ e[2] = k
  BY <1>2, <1>3, <1>4 DEF IdInv
<1>6. calls' = Append(calls, e)
  BY <1>1, <1>3, <1>4
<1>7. /\ calls' \in Seq(Nat \X Keys)
      /\ Len(calls) \in Nat /\ DOMAIN calls = 1 .. Len(calls)
      /\ DOMAIN calls' = 1 .. Len(calls) + 1
      /\ \A i \in DOMAIN calls : calls'[i] = calls[i]
      /\ calls'[Len(calls) + 1] = e
  BY <1>5, <1>6, AppendProperties DEF MessageInv
<1>8. MessageInv'
  BY <1>1, <1>7 DEF MessageInv
<1>9. PICK n \in 0 .. Len(presses) :
        /\ \E f \in [DOMAIN calls -> 1 .. n] : CallsMatch(f) /\ MessageMatches(n, f)
        /\ \E g \in [DOMAIN hkMessages -> 0 .. Len(presses)] : QueueMatches(n, g)
  BY DEF MatchInv
<1>10. PICK f \in [DOMAIN calls -> 1 .. n] : CallsMatch(f) /\ MessageMatches(n, f)
  BY <1>9
<1>11. PICK g \in [DOMAIN hkMessages -> 0 .. Len(presses)] : QueueMatches(n, g)
  BY <1>9
<1>12. /\ n # 0 /\ presses[n] = Codes(k)
       /\ \A i \in DOMAIN calls : f[i] < n
  BY <1>1, <1>2, <1>3, <1>10 DEF MessageMatches, Means
<1>13. Len(presses) \in Nat
  BY DEF MessageInv
\* The call belongs to the n-th press.
<1> DEFINE f2 == [i \in DOMAIN calls' |-> IF i \in DOMAIN calls THEN f[i] ELSE n]
<1>14. PICK fn : fn = f2
  OBVIOUS
<1>15. /\ fn \in [DOMAIN calls' -> 1 .. n]
       /\ \A i \in DOMAIN calls : fn[i] = f[i]
       /\ fn[Len(calls) + 1] = n
  BY <1>7, <1>9, <1>10, <1>12, <1>13, <1>14
<1> HIDE DEF f2
<1>16. ASSUME NEW i \in DOMAIN calls', NEW j \in DOMAIN calls', i < j
       PROVE  fn[i] < fn[j]
  <2>1. i \in DOMAIN calls
    BY <1>7, <1>16
  <2>2. CASE j \in DOMAIN calls
    BY <1>10, <1>15, <1>16, <2>1, <2>2 DEF CallsMatch
  <2>3. CASE j = Len(calls) + 1
    BY <1>12, <1>15, <2>1, <2>3
  <2> QED
    BY <1>7, <2>2, <2>3
<1>17. ASSUME NEW i \in DOMAIN calls'
       PROVE  presses[fn[i]] = Codes(calls'[i][2])
  <2>1. CASE i \in DOMAIN calls
    BY <1>7, <1>10, <1>15, <2>1 DEF CallsMatch
  <2>2. CASE i = Len(calls) + 1
    BY <1>5, <1>7, <1>12, <1>15, <2>2
  <2> QED
    BY <1>7, <2>1, <2>2
<1>18. CallsMatch(fn)'
  BY <1>1, <1>16, <1>17 DEF CallsMatch
<1>19. MessageMatches(n, fn)'
  BY <1>1 DEF MessageMatches
<1>20. QueueMatches(n, g)'
  BY <1>1, <1>11, QueueStays
<1> QED
  BY <1>1, <1>8, <1>9, <1>11, <1>15, <1>18, <1>19, <1>20 DEF MatchInv

LEMMA HotkeyThreadKeepsMatch ==
  ASSUME IdInv, IdInv', Kept, MessageInv, MatchInv, HotkeyThread
  PROVE  MessageInv' /\ MatchInv'
<1>1. CASE HKReceive
  BY <1>1, ReceiveKeepsMatch
<1>2. CASE HKCall
  BY <1>2, CallKeepsMatch
<1>3. CASE HKBegin \/ HKStart \/ HKTest \/ HKEnter \/ HKUnregisterAll
  <2>1. /\ UNCHANGED <<hkMsg, hkMessages, presses, calls, callback_map>>
        /\ hkAt' \in {"test", "out", "enter", "wait"} \/ hkAt' = hkAt
    BY <1>3 DEF HKBegin, HKStart, HKTest, HKEnter, HKUnregisterAll, Goes, hkMapVars
  <2>2. MatchInv'
    BY <2>1, MatchStays
  <2> QED
    BY <2>1, <2>2 DEF MessageInv
<1>4. CASE HKTasksDone
  <2>1. /\ UNCHANGED <<hkMsg, hkMessages, presses, calls, callback_map>>
        /\ hkAt = "tasks" /\ hkAt' = AfterTasks
    BY <1>4 DEF HKTasksDone, Goes, hkMapVars
  <2>2. MatchInv'
    BY <2>1, MatchStays
  <2> QED
    BY <2>1, <2>2 DEF MessageInv, AfterTasks
<1>5. CASE HKRegister \/ HKUnregister
  <2>1. /\ UNCHANGED <<hkMsg, hkMessages, presses, calls>>
        /\ hkAt = "tasks" /\ hkAt' = "tasks"
    BY <1>5 DEF HKRegister, HKUnregister
  <2>2. MatchInv'
    BY <2>1, MatchStays
  <2> QED
    BY <2>1, <2>2 DEF MessageInv
<1>6. CASE HKUnregisterThrows \/ HKRefused \/ HKAccept \/ HKAgain
  <2>1. /\ UNCHANGED <<hkMessages, presses, calls>>
        /\ hkAt' \in {"out", "again"}
        /\ hkMsg' \in {hkMsg, Null}
    BY <1>6 DEF HKUnregisterThrows, HKRefused, HKAccept, HKAgain, Goes
  <2>2. MatchInv'
    BY <2>1, MatchStays
  <2> QED
    BY <2>1, <2>2, OwnMessages DEF MessageInv
<1> QED
  BY <1>1, <1>2, <1>3, <1>4, <1>5, <1>6 DEF HotkeyThread, HKStep

LEMMA StepKeepsMatch ==
  ASSUME IdInv, IdInv', Kept, MessageInv, MatchInv, [Next]_vars
  PROVE  MessageInv' /\ MatchInv'
<1>1. ASSUME UNCHANGED <<hkAt, hkMsg, hkMessages, presses, calls, callback_map>>
      PROVE  MessageInv' /\ MatchInv'
  <2>1. MatchInv'
    BY <1>1, MatchStays
  <2> QED
    BY <1>1, <2>1 DEF MessageInv
<1>2. CASE MainPost \/ MainQuit
  BY <1>2, PostKeepsMatch DEF MainPost, MainQuit
<1>3. CASE MainStep /\ ~MainPost /\ ~MainQuit
  <2>1. CASE MainHotkeyInit \/ MainTrayInit \/ MainTrayReady \/ MainRun
    BY <2>1, <1>1 DEF MainHotkeyInit, HotkeyInit, MainTrayInit, MainTrayReady, MainRun,
       hkVars, hkMapVars
  <2>2. CASE MainRegister
    BY <2>2, <1>1 DEF MainRegister, RegisterCall, UnregisterCall
  <2>3. CASE MainDummy \/ MainEnd \/ MainTrayExit \/ MainTrayFree \/ MainTrayReset
    BY <2>3, <1>1 DEF MainDummy, MainEnd, MainTrayExit, MainTrayFree, MainTrayReset, hkVars
  <2>4. CASE MainPoolFlag \/ MainPoolLock \/ MainPoolDrop \/ MainPoolCleared
    BY <2>4, <1>1 DEF MainPoolFlag, MainPoolLock, MainPoolDrop, MainPoolCleared, hkVars
  <2>5. CASE MainStopListening \/ MainUnregister \/ MainHotkeyReset \/ MainWorkflowEnd
    BY <2>5, <1>1 DEF MainStopListening, StopListening, MainUnregister, QueueUnregister,
       MainHotkeyReset, HotkeyReset, MainWorkflowEnd, hkVars, hkMapVars
  <2> QED
    BY <1>3, <2>1, <2>2, <2>3, <2>4, <2>5 DEF MainStep
<1>4. CASE HotkeyThread
  BY <1>4, HotkeyThreadKeepsMatch
<1>5. CASE User
  <2>1. CASE Press
    BY <2>1, PressKeepsMatch
  <2>2. CASE UNCHANGED hkVars
    BY <2>2, <1>1 DEF hkVars
  <2> QED
    BY <1>5, <2>1, <2>2 DEF User
<1>6. CASE TrayThread \/ JobStep \/ Idle \/ UNCHANGED vars
  BY <1>6, <1>1 DEF TrayThread, JobStep, JobBegins, ExitEnds, FindCalls, FindAccepted, FindEnds,
     SearchEnds, Idle, vars, hkVars
<1>7. CASE GetMessageFails
  <2>1. CASE HKReceiveError
    <3>1. /\ UNCHANGED <<hkMsg, hkMessages, presses, calls, callback_map>>
          /\ hkAt' = "again"
      BY <2>1 DEF HKReceiveError, Goes, hkMapVars
    <3>2. MatchInv'
      BY <3>1, MatchStays
    <3> QED
      BY <3>1, <3>2 DEF MessageInv
  <2>2. CASE UNCHANGED hkVars
    BY <2>2, <1>1 DEF hkVars
  <2> QED
    BY <1>7, <2>1, <2>2 DEF GetMessageFails
<1> QED
  BY <1>2, <1>3, <1>4, <1>5, <1>6, <1>7 DEF Next

LEMMA PressInitInv == Init => PressInv
<1> SUFFICES ASSUME Init PROVE PressInv
  OBVIOUS
<1>1. /\ hotkey_id = 0 /\ register_queue = <<>> /\ callback_map = <<>> /\ id_map = <<>>
      /\ hooked = {} /\ presses = <<>> /\ calls = <<>> /\ hkMessages = <<>>
      /\ hkMsg = Null /\ hkAt = "out" /\ script \in Scripts
  BY DEF Init, HKInit
<1>2. IdInv
  <2>1. script \in Seq({"register", "unregister"} \X Keys)
    BY <1>1, ApplicationAssumption
  <2>2. \A r, i : ~WaitsAt(r, i)
    BY <1>1 DEF WaitsAt
  <2>3. DOMAIN callback_map = {} /\ DOMAIN id_map = {} /\ callback_map \in [{} -> Keys]
    BY <1>1
  <2> QED
    BY <1>1, <2>1, <2>2, <2>3 DEF IdInv
<1>3. MessageInv
  BY <1>1, OwnMessages DEF MessageInv
<1>4. MatchInv
  <2> DEFINE none == [i \in {} |-> 0]
  <2>1. DOMAIN calls = {} /\ DOMAIN hkMessages = {} /\ 0 \in 0 .. Len(presses)
    BY <1>1
  <2>2. none \in [DOMAIN calls -> 1 .. 0] /\ none \in [DOMAIN hkMessages -> 0 .. Len(presses)]
    BY <2>1
  <2>3. CallsMatch(none) /\ MessageMatches(0, none) /\ QueueMatches(0, none)
    BY <1>1, <2>1 DEF CallsMatch, MessageMatches, QueueMatches
  <2> QED
    BY <2>1, <2>2, <2>3 DEF MatchInv
<1> QED
  BY <1>2, <1>3, <1>4 DEF PressInv

\* A pressed key calls what was registered for it (hotkey_windows.hpp:155, :173, :226),
\* once and in the order of the presses, whatever was registered and taken back between.
THEOREM PressesCallTheirKeys == Spec => []PressCallsItsKey
<1>1. PressInv /\ [Next]_vars => PressInv'
  BY StepKeepsIds, StepKeepsMatch DEF PressInv
<1>2. PressInv => PressCallsItsKey
  <2> SUFFICES ASSUME PressInv PROVE PressCallsItsKey
    OBVIOUS
  <2>1. PICK n \in 0 .. Len(presses) :
          \E f \in [DOMAIN calls -> 1 .. n] : CallsMatch(f)
    BY DEF PressInv, MatchInv
  <2>2. PICK f \in [DOMAIN calls -> 1 .. n] : CallsMatch(f)
    BY <2>1
  <2>3. f \in [DOMAIN calls -> DOMAIN presses]
    BY <2>1, <2>2 DEF PressInv, MessageInv
  <2> QED
    BY <2>2, <2>3 DEF PressInv, IdInv, CallsMatch, PressCallsItsKey
<1> QED
  BY <1>1, <1>2, PressInitInv, PTL DEF Spec
=============================================================================
