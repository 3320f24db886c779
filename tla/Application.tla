----------------------------- MODULE Application -----------------------------
(***************************************************************************)
(* The program (src/app_bible_assistant/src/main.cpp): the main thread     *)
(* makes the workflow, the hotkeys, the pool and the tray, registers its   *)
(* hotkeys, runs the main loop until a task of the pool calls exit(), and  *)
(* destroys everything in the opposite order, by the guards that the       *)
(* init() functions returned.                                              *)
(*                                                                         *)
(* The pool is the AbstractPool, the workers of Hotkey and TrayIcon are    *)
(* SerialExecutors; their own modules show that the code implements these. *)
(* The main loop is that of MainLoop, one step per call.  place is what    *)
(* the main thread does next.                                              *)
(***************************************************************************)
EXTENDS Hotkey, TrayIcon, FiniteSets

CONSTANTS
  Scripts,   \* the calls of register_callback and unregister_callback the main
             \* thread may make, one after the other
  MaxInputs  \* how often the user clicks on the icon or presses a hotkey, or GetMessage
             \* fails

ASSUME ApplicationAssumption ==
  /\ MaxInputs \in Nat
  /\ Scripts \subseteq Seq({"register", "unregister"} \X Keys)
  /\ Jobs = {"exit", "find", "search"} \X (1 .. MaxInputs)

VARIABLES
  place,     \* the place of the main thread
  script,    \* the calls it has still to make
  running,   \* main_loop: running_
  dummies,   \* main_loop: the dummy tasks in main_queue_
  workflow,  \* the workflow exists
  exits,     \* history: exit() was called since run() was entered
  quiet,     \* history: main() ends while no message is on its way
  failures   \* history: how often GetMessage has failed

appVars == <<place, script, running, dummies, workflow, exits, quiet, failures>>
vars    == <<poolVars, hkVars, trVars, appVars>>

Init ==
  /\ PoolInit /\ HKInit /\ TRInit
  /\ place = "start"
  /\ script \in Scripts
  /\ running = FALSE /\ dummies = 0
  /\ workflow = FALSE
  /\ exits = FALSE /\ quiet = FALSE /\ failures = 0

-----------------------------------------------------------------------------
(* main().                                                                   *)
To(here, there) == ~undefined /\ place = here /\ place' = there

\* The workflow, and hotkey::init() up to future.get().
MainHotkeyInit ==
  /\ To("start", "hotkey_wait")
  /\ workflow' = TRUE
  /\ HotkeyInit
  /\ UNCHANGED <<poolVars, trVars, script, running, dummies, exits, quiet, failures>>

\* thread_pool::init(), and tray::init() up to future.get().
MainTrayInit ==
  /\ To("hotkey_wait", "tray_wait")
  /\ thread_id
  /\ PoolUp /\ TrayInit
  /\ UNCHANGED <<hkVars, script, running, dummies, workflow, exits, quiet, failures>>

\* future.get() of tray::init().
MainTrayReady ==
  /\ To("tray_wait", "script")
  /\ tray = "built"
  /\ UNCHANGED <<poolVars, hkVars, trVars, script, running, dummies, workflow,
                 exits, quiet, failures>>

MainRegister ==
  /\ To("script", "post")
  /\ script # <<>>
  /\ IF Head(script)[1] = "register" THEN RegisterCall(Head(script)[2])
                                     ELSE UnregisterCall(Head(script)[2])
  /\ script' = Tail(script)
  /\ UNCHANGED <<poolVars, trVars, running, dummies, workflow, exits, quiet, failures>>

\* The second half of register_callback and unregister_callback.
MainPost ==
  /\ To("post", "script")
  /\ Post(Null)
  /\ UNCHANGED <<poolVars, trVars, script, running, dummies, workflow, exits, quiet, failures>>

MainRun ==
  /\ To("script", "loop")
  /\ script = <<>>
  /\ running' = TRUE
  /\ UNCHANGED <<poolVars, hkVars, trVars, script, dummies, workflow, exits, quiet, failures>>

\* main_loop::run() while the flag is set, and when it is not.
MainDummy ==
  /\ ~undefined
  /\ place = "loop" /\ running /\ dummies > 0
  /\ dummies' = dummies - 1
  /\ UNCHANGED <<poolVars, hkVars, trVars, place, script, running, workflow,
                 exits, quiet, failures>>

\* Nothing is under way: no message, no callback of a hotkey.
Quiet ==
  /\ trMessages = <<>> /\ trAt \in {"out", "wait"}
  /\ hkMessages = <<>> /\ hkAt \in {"out", "wait"} /\ hkQueue
  /\ \A n \in 1 .. MaxInputs : job[Find(n)] \in {"none", "over"}

MainEnd ==
  /\ To("loop", "tray_exit")
  /\ ~running
  /\ quiet' = Quiet
  /\ UNCHANGED <<poolVars, hkVars, trVars, script, running, dummies, workflow, exits, failures>>

-----------------------------------------------------------------------------
(* The end of main(): the tray's guard, the pool's, the hotkeys'.            *)
MainTrayExit ==
  /\ To("tray_exit", "tray_free")
  /\ TrayExit
  /\ UNCHANGED <<poolVars, hkVars, script, running, dummies, workflow, exits, quiet, failures>>

MainTrayFree ==
  /\ To("tray_free", "tray_reset")
  /\ TrayFree
  /\ UNCHANGED <<poolVars, hkVars, script, running, dummies, workflow, exits, quiet, failures>>

MainTrayReset ==
  /\ ~undefined
  /\ place = "tray_reset"
  /\ TrayReset
  /\ place' = IF trPhase' = "closed" THEN "pool_flag" ELSE "tray_reset"
  /\ UNCHANGED <<poolVars, hkVars, script, running, dummies, workflow, exits, quiet, failures>>

MainPoolFlag ==
  /\ To("pool_flag", "pool_lock")
  /\ PoolFlag
  /\ UNCHANGED <<hkVars, trVars, script, running, dummies, workflow, exits, quiet, failures>>

MainPoolLock ==
  /\ To("pool_lock", "pool_clear")
  /\ PoolLock
  /\ UNCHANGED <<hkVars, trVars, script, running, dummies, workflow, exits, quiet, failures>>

MainPoolDrop ==
  /\ ~undefined
  /\ place = "pool_clear"
  /\ \E k \in Jobs : Dropped({k})
  /\ UNCHANGED <<hkVars, trVars, appVars>>

MainPoolCleared ==
  /\ To("pool_clear", "listen")
  /\ PoolCleared
  /\ UNCHANGED <<hkVars, trVars, script, running, dummies, workflow, exits, quiet, failures>>

MainStopListening ==
  /\ To("listen", "unregister")
  /\ StopListening
  /\ UNCHANGED <<poolVars, trVars, script, running, dummies, workflow, exits, quiet, failures>>

MainUnregister ==
  /\ To("unregister", "quit")
  /\ QueueUnregister
  /\ UNCHANGED <<poolVars, trVars, script, running, dummies, workflow, exits, quiet, failures>>

MainQuit ==
  /\ To("quit", "hotkey_reset")
  /\ Post(Quit)
  /\ UNCHANGED <<poolVars, trVars, script, running, dummies, workflow, exits, quiet, failures>>

MainHotkeyReset ==
  /\ ~undefined
  /\ place = "hotkey_reset"
  /\ HotkeyReset
  /\ place' = IF hkPhase' = "closed" THEN "workflow_end" ELSE "hotkey_reset"
  /\ UNCHANGED <<poolVars, trVars, script, running, dummies, workflow, exits, quiet, failures>>

MainWorkflowEnd ==
  /\ To("workflow_end", "ended")
  /\ workflow' = FALSE
  /\ UNCHANGED <<poolVars, hkVars, trVars, script, running, dummies, exits, quiet, failures>>

MainStep ==
  \/ MainHotkeyInit \/ MainTrayInit \/ MainTrayReady \/ MainRegister \/ MainPost \/ MainRun
  \/ MainDummy \/ MainEnd \/ MainTrayExit \/ MainTrayFree \/ MainTrayReset
  \/ MainPoolFlag \/ MainPoolLock \/ MainPoolDrop \/ MainPoolCleared
  \/ MainStopListening \/ MainUnregister \/ MainQuit \/ MainHotkeyReset
  \/ MainWorkflowEnd

-----------------------------------------------------------------------------
(* The tasks in the pool: Exit(n) calls main_loop::exit(), Find(n) is the    *)
(* callback of a hotkey, which queues the search on the workflow's strand.   *)
Search(n) == <<"search", n>>

JobBegins ==
  /\ ~undefined
  /\ \E k \in Jobs : Begun(k)
  /\ UNCHANGED <<hkVars, trVars, appVars>>

ExitEnds ==
  /\ ~undefined
  /\ \E n \in 1 .. MaxInputs : Ended(Exit(n))
  /\ running' = FALSE
  /\ dummies' = dummies + 1
  /\ exits' = (exits \/ place = "loop")
  /\ UNCHANGED <<hkVars, trVars, place, script, workflow, quiet, failures>>

FindCalls ==
  /\ ~undefined
  /\ \E n \in 1 .. MaxInputs : job[Find(n)] = "running" /\ Called(Search(n))
  /\ UNCHANGED <<hkVars, trVars, appVars>>

FindAccepted ==
  /\ ~undefined
  /\ \E n \in 1 .. MaxInputs : Accepted(Search(n))
  /\ UNCHANGED <<hkVars, trVars, appVars>>

\* The callback ends when it has queued the search, or was refused.
FindEnds ==
  /\ ~undefined
  /\ \E n \in 1 .. MaxInputs :
       /\ IF job[Search(n)] = "none" THEN phase # "up" ELSE job[Search(n)] # "called"
       /\ Ended(Find(n))
  /\ UNCHANGED <<hkVars, trVars, appVars>>

SearchEnds ==
  /\ ~undefined
  /\ \E n \in 1 .. MaxInputs : Ended(Search(n))
  /\ UNCHANGED <<hkVars, trVars, appVars>>

JobStep ==
  \/ JobBegins \/ ExitEnds \/ FindCalls \/ FindAccepted \/ FindEnds \/ SearchEnds

-----------------------------------------------------------------------------
HotkeyThread == HKStep /\ UNCHANGED <<trVars, appVars>>
TrayThread   == TRStep /\ UNCHANGED <<hkVars, appVars>>

User ==
  /\ clicks + Len(presses) + failures < MaxInputs
  /\ \/ Press /\ UNCHANGED trVars
     \/ Click /\ UNCHANGED hkVars
  /\ quiet' = FALSE
  /\ UNCHANGED <<place, script, running, dummies, workflow, exits, failures>>

\* Windows: GetMessage fails.
GetMessageFails ==
  /\ clicks + Len(presses) + failures < MaxInputs
  /\ \/ HKReceiveError /\ UNCHANGED trVars
     \/ TRReceiveError /\ UNCHANGED hkVars
  /\ quiet' = FALSE
  /\ failures' = failures + 1
  /\ UNCHANGED <<place, script, running, dummies, workflow, exits>>

\* The tray could not be made, and main() waits for it.
TrayMissing == place = "tray_wait" /\ tray = "failed"

\* WM_QUIT was posted before the worker had a message queue: it waits for
\* messages for ever, and main() for it.
QuitLost ==
  /\ place = "hotkey_reset" /\ hkMessages = <<>>
  /\ hkAt = "wait" /\ hkPhase = "closing"

Stopped == place = "ended" \/ undefined \/ TrayMissing \/ QuitLost

\* Nobody has to click, and the main loop waits for exit().
Idle == (Stopped \/ (place = "loop" /\ running)) /\ UNCHANGED vars

Next ==
  \/ MainStep \/ JobStep \/ HotkeyThread \/ TrayThread
  \/ User \/ GetMessageFails \/ Idle

\* The threads of the program go on; the user does not have to do anything, and GetMessage
\* fails finitely often.
Fairness ==
  /\ WF_vars(MainStep) /\ WF_vars(JobStep)
  /\ WF_vars(HotkeyThread) /\ WF_vars(TrayThread)

Spec == Init /\ [][Next]_vars /\ Fairness

-----------------------------------------------------------------------------
\* The callback of a hotkey uses the workflow and its settings by reference:
\* while a callback or a search runs, both exist.  What ensures it is the order
\* in which main() makes its guards.
WorkflowOutlivesSearch ==
  \A n \in 1 .. MaxInputs :
    "running" \in {job[Find(n)], job[Search(n)]} => workflow

\* Pressing a key calls the callback that was registered for that key, each
\* press at most once and in the order of the presses, through whatever
\* registrations and ends of registrations lie between press and message.  What
\* Windows still knows as a hotkey has a callback of its key, also when the key
\* was registered twice; and what unregister_callback finds for a key is an id
\* of that key.
PressCallsItsKey ==
  /\ \E f \in [DOMAIN calls -> DOMAIN presses] :
       /\ \A i, j \in DOMAIN calls : i < j => f[i] < f[j]
       /\ \A i \in DOMAIN calls : presses[f[i]] = Codes(calls[i][2])
  /\ \A h \in hooked : h[1] \in DOMAIN callback_map /\ h[2] = Codes(callback_map[h[1]])
  /\ \A k \in DOMAIN id_map : id_map[k] \in DOMAIN callback_map /\ callback_map[id_map[k]] = k

\* A program that ends while no message is on its way and no hotkey is being
\* served, ends well if from then on no key is pressed and GetMessage does not
\* fail: nothing uses what was destroyed, whatever searches still run.
QuietEndIsClean == quiet => ~undefined

\* A choice of the tray's button while the main loop runs ends the program,
\* wherever its threads are; or it waits for a WM_QUIT that was lost, or the
\* end is not defined.
ExitEndsProgram == exits ~> place = "ended" \/ undefined \/ QuitLost

\* A key that is being registered when a message is on its way to the worker
\* becomes a hotkey, also if its own WM_NULL was lost: one message is enough
\* for all that has been queued.  The end of the program may come first; or the
\* message loop is over and it never becomes one.  While the program listens that
\* is only the doing of an unregister_callback of a key that is not registered,
\* which throws in the loop (hotkey_windows.hpp:178): no other call, message or
\* failure of GetMessage ends it.
RegistrationServed ==
  /\ register_queue # <<>> /\ hkMessages # <<>> ~>
       register_queue = <<>> \/ ~listen \/ undefined \/ LoopOver
  /\ [][~LoopOver /\ LoopOver' /\ listen' =>
         /\ register_queue # <<>> /\ Head(register_queue)[1] = "unregister"
         /\ Head(register_queue)[2] \notin DOMAIN id_map]_vars
=============================================================================
