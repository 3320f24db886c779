------------------------------ MODULE TrayIcon ------------------------------
(***************************************************************************)
(* bibstd::system::tray (src/bibstd/system/tray_windows.hpp) and the part  *)
(* of the tray library it runs (src/libs_external/traypp/tray/src/core/    *)
(* tray.cpp): the icon and its window live on the thread of one            *)
(* active_worker, whose message loop is a task that queues itself again;   *)
(* the guard of init() destroys them from the main thread.                 *)
(*                                                                         *)
(* The worker is a SerialExecutor as in Hotkey.  The menu has one button.  *)
(* A click is a message of the icon; the user then chooses the button in   *)
(* the menu, or leaves the menu.                                           *)
(***************************************************************************)
EXTENDS AbstractPool, Naturals, Sequences

VARIABLES
  trTasks, trTask, trPhase,
  trAt,        \* where the worker stands, else "out"
  trMessages,  \* the messages posted to its window
  tray,        \* tray_: "none", "built", "failed" (its constructor threw), "freed"
  listed,      \* the window is in trayList
  clicks,      \* the clicks so far
  chosen       \* how often the button was chosen

trVars == <<trTasks, trTask, trPhase, trAt, trMessages, tray, listed, clicks,
            chosen>>

trWorkerVars == <<trTasks, trTask, trPhase>>

TR == INSTANCE SerialExecutor WITH
  Tasks <- {"start", "get_message"}, Idle <- "none",
  waiting <- trTasks, current <- trTask, phase <- trPhase

Exit(n) == <<"exit", n>>  \* the job of the n-th choice of the button

TRInit ==
  /\ TR!SEInit
  /\ trAt = "out" /\ trMessages = <<>>
  /\ tray = "none" /\ listed = FALSE /\ clicks = 0 /\ chosen = 0

-----------------------------------------------------------------------------
(* The calls of the main thread.                                             *)

\* init(): the worker is made and its first task queued.
TrayInit ==
  /\ trTasks' = Append(trTasks, "start")
  /\ UNCHANGED <<trTask, trPhase, trAt, trMessages, tray, listed, clicks, chosen>>

\* Variant of TrayExit: the message loop is not told.
TrayExitSilent ==
  /\ listed' = FALSE
  /\ UNCHANGED <<trWorkerVars, trAt, trMessages, tray, clicks, chosen>>

(* The guard of init().  exit() removes icon and menu, posts WM_QUIT to the  *)
(* window, and takes it from trayList.                                       *)
TrayExit ==
  /\ trMessages' = Append(trMessages, "quit")
  /\ listed' = FALSE
  /\ UNCHANGED <<trWorkerVars, trAt, tray, clicks, chosen>>

\* tray_.reset(): the entries and their callbacks are freed.
TrayFree ==
  /\ tray' = "freed"
  /\ UNCHANGED <<trWorkerVars, trAt, trMessages, listed, clicks, chosen>>

\* worker_.reset().
TrayReset ==
  /\ TR!Shutdown \/ TR!Closed
  /\ UNCHANGED <<trAt, trMessages, tray, listed, clicks, chosen>>

\* The user clicks on the icon.
Click ==
  /\ ~undefined
  /\ tray = "built" /\ listed
  /\ clicks' = clicks + 1
  /\ trMessages' = Append(trMessages, "click")
  /\ UNCHANGED <<trWorkerVars, trAt, tray, listed, chosen, poolVars>>

-----------------------------------------------------------------------------
(* The worker's thread.                                                      *)
Moves(here, there) == trAt = here /\ trAt' = there

TRBegin ==
  /\ ~undefined
  /\ TR!Begin
  /\ trAt = "out"
  /\ trAt' = IF Head(trTasks) = "get_message" THEN "wait" ELSE "build"
  /\ UNCHANGED <<trMessages, tray, listed, clicks, chosen, poolVars>>

\* The first task makes the window, the icon and its entries, and then the
\* main thread's future ready.
TRBuild ==
  /\ ~undefined
  /\ Moves("build", "again")
  /\ tray' = "built" /\ listed' = TRUE
  /\ UNCHANGED <<trWorkerVars, trMessages, clicks, chosen, poolVars>>

\* A constructor or update() throws: the worker logs it, and the future is
\* never ready.
TRBuildFails ==
  /\ ~undefined
  /\ Moves("build", "out") /\ TR!End
  /\ tray' = "failed"
  /\ UNCHANGED <<trMessages, listed, clicks, chosen, poolVars>>

\* GetMessage returns: 0 for WM_QUIT, and the loop ends.
TRReceive ==
  /\ ~undefined
  /\ trMessages # <<>>
  /\ trMessages' = Tail(trMessages)
  /\ IF Head(trMessages) = "quit"
     THEN Moves("wait", "out") /\ TR!End
     ELSE Moves("wait", "click") /\ UNCHANGED trWorkerVars
  /\ UNCHANGED <<tray, listed, clicks, chosen, poolVars>>

\* It returns -1, which is logged: no message is taken.
TRReceiveError ==
  /\ ~undefined
  /\ Moves("wait", "again")
  /\ UNCHANGED <<trWorkerVars, trMessages, tray, listed, clicks, chosen, poolVars>>

\* wndProc looks the window up in trayList, for the icon's message and once
\* more for WM_COMMAND; at() throws through the window procedure when it has
\* gone, which is not defined.
Looks(here, there) ==
  /\ Moves(here, there)
  /\ undefined' = ~listed
  /\ UNCHANGED <<trWorkerVars, trMessages, tray, listed, clicks, phase, job>>

TRMenu     == ~undefined /\ Looks("click", "menu") /\ UNCHANGED chosen
TRLeave    == ~undefined /\ Looks("menu", "again") /\ UNCHANGED chosen
TRChoose   == ~undefined /\ Looks("menu", "clicked") /\ chosen' = chosen + 1

\* Button::clicked: the callback, which lives in the tray, queues its task.
\* (The pool is initialized as long as the tray's thread exists.)
TRCall ==
  /\ ~undefined
  /\ tray # "freed"
  /\ Moves("clicked", "accept")
  /\ Called(Exit(chosen))
  /\ UNCHANGED <<trWorkerVars, trMessages, tray, listed, clicks, chosen>>

TRFreed ==
  /\ ~undefined
  /\ tray = "freed" /\ trAt = "clicked"
  /\ undefined' = TRUE
  /\ UNCHANGED <<trVars, phase, job>>

TRAccept ==
  /\ ~undefined
  /\ Moves("accept", "again")
  /\ Accepted(Exit(chosen))
  /\ UNCHANGED <<trWorkerVars, trMessages, tray, listed, clicks, chosen>>

\* get_message queues itself again, through worker_.
TRAgain ==
  /\ ~undefined
  /\ Moves("again", "out")
  /\ IF trPhase = "open"
     THEN trTasks' = Append(trTasks, "get_message") /\ UNCHANGED undefined
     ELSE undefined' = TRUE /\ UNCHANGED trTasks
  /\ trTask' = "none"
  /\ UNCHANGED <<trPhase, trMessages, tray, listed, clicks, chosen, phase, job>>

TRStep ==
  \/ TRBegin \/ TRBuild \/ TRBuildFails \/ TRReceive
  \/ TRMenu \/ TRLeave \/ TRChoose
  \/ TRCall \/ TRFreed \/ TRAccept \/ TRAgain
=============================================================================
