------------------------------- MODULE Hotkey -------------------------------
(***************************************************************************)
(* bibstd::system::hotkey (src/bibstd/system/hotkey_windows.hpp): hotkeys  *)
(* are registered, and their messages received, by the thread of one       *)
(* active_worker, whose message loop is a task that queues itself again.   *)
(*                                                                         *)
(* The worker is taken as the SerialExecutor that ActiveWorker implements: *)
(* hkTasks holds its tasks, hkTask the one it executes, hkPhase its life;  *)
(* worker_ is null when hkPhase is not "open".  Windows is external: a     *)
(* message queue per thread, made by the thread's first GetMessage, and    *)
(* the hotkeys registered with it.                                         *)
(*                                                                         *)
(* The program is modelled as far as it is defined: every action needs     *)
(* ~undefined.                                                             *)
(***************************************************************************)
EXTENDS AbstractPool, ConstBimap, Functions

CONSTANT Keys  \* the pairs of a key and a modifier that hotkeys are made of

VARIABLES
  hkTasks, hkTask, hkPhase,
  hkAt,            \* where the worker stands in get_message, else "out"
  hkMsg,           \* msg, the message it has received
  hkQueue,         \* the worker has a message queue
  hkMessages,      \* the messages posted to it
  thread_id,       \* windows_thread_id_ has a value
  listen,          \* listen_to_msg_
  hotkey_id,       \* hotkey_id_
  register_queue,  \* register_queue_
  callback_map,    \* callback_map_: per id, the key its callback is for
  id_map,          \* id_map_: per key, the id
  hooked,          \* the hotkeys Windows knows: pairs of id and codes
  presses,         \* the WM_HOTKEY messages so far: the codes of the keys pressed
  calls            \* the callbacks queued so far: the message, and the key meant

hkVars == <<hkTasks, hkTask, hkPhase, hkAt, hkMsg, hkQueue, hkMessages,
            thread_id, listen, hotkey_id, register_queue, callback_map,
            id_map, hooked, presses, calls>>

hkWorkerVars == <<hkTasks, hkTask, hkPhase>>
hkMapVars    == <<register_queue, callback_map, id_map, hooked>>
hkMainVars   == <<thread_id, listen, hotkey_id>>

HK == INSTANCE SerialExecutor WITH
  Tasks <- {"start", "get_message", "unregister"}, Idle <- "none",
  waiting <- hkTasks, current <- hkTask, phase <- hkPhase

Null == <<"null">>   \* WM_NULL
Quit == <<"quit">>   \* WM_QUIT
Find(n) == <<"find", n>>   \* the job of the n-th press that is served

HKInit ==
  /\ HK!SEInit
  /\ hkAt = "out" /\ hkMsg = Null
  /\ hkQueue = FALSE /\ hkMessages = <<>>
  /\ thread_id = FALSE /\ listen = TRUE /\ hotkey_id = 0
  /\ register_queue = <<>> /\ callback_map = <<>> /\ id_map = <<>>
  /\ hooked = {} /\ presses = <<>> /\ calls = <<>>

-----------------------------------------------------------------------------
(* The keys, and the codes Windows has for them.                             *)
key == <<
  "vk_left_button", "vk_right_button", "vk_middle_button", "vk_x1_button", "vk_x2_button",
  "vk_backspace", "vk_tab", "vk_clear", "vk_return", "vk_pause", "vk_capital", "vk_escape",
  "vk_space", "vk_page_up", "vk_page_down", "vk_end", "vk_home", "vk_left", "vk_up", "vk_right",
  "vk_down", "vk_insert", "vk_delete",
  "vk_0", "vk_1", "vk_2", "vk_3", "vk_4", "vk_5", "vk_6", "vk_7", "vk_8", "vk_9",
  "vk_a", "vk_b", "vk_c", "vk_d", "vk_e", "vk_f", "vk_g", "vk_h", "vk_i", "vk_j", "vk_k", "vk_l",
  "vk_m", "vk_n", "vk_o", "vk_p", "vk_q", "vk_r", "vk_s", "vk_t", "vk_u", "vk_v", "vk_w", "vk_x",
  "vk_y", "vk_z">>
key_modifier == <<"alt", "control", "shift", "alt_control", "alt_shift", "control_shift">>

\* The buttons of the mouse, the keys with a name, the digits and the letters: the two
\* last have the codes of their characters.
VirtualKeys ==
  <<1, 2, 4, 5, 6, 8, 9, 12, 13, 19, 20, 27, 32, 33, 34, 35, 36, 37, 38, 39, 40, 45, 46>>
  \o [n \in 1 .. 10 |-> 47 + n] \o [n \in 1 .. 26 |-> 64 + n]
Modifier == [alt |-> 1, control |-> 2, shift |-> 4]

key_map == [n \in DOMAIN key |-> <<key[n], VirtualKeys[n]>>]
key_modifier_map == <<
  <<"alt", Modifier.alt>>, <<"control", Modifier.control>>, <<"shift", Modifier.shift>>,
  <<"alt_control", Modifier.alt + Modifier.control>>,
  <<"alt_shift", Modifier.alt + Modifier.shift>>,
  <<"control_shift", Modifier.control + Modifier.shift>> >>

ASSUME KeysAssumption ==
  /\ ~Duplicates(key_map) /\ ~Duplicates(key_modifier_map)
  /\ \A k \in Keys : contains(key_map, k[1]) /\ contains(key_modifier_map, k[2])

\* What RegisterHotKey is called with.
Codes(k) == <<at(key_modifier_map, k[2]), at(key_map, k[1])>>

\* A std::map after map[k] = v.
Assigned(map, k, v) == [x \in DOMAIN map \cup {k} |-> IF x = k THEN v ELSE map[x]]

-----------------------------------------------------------------------------
(* The calls of other threads.                                               *)

\* init(): the worker is made and its first task queued.
HotkeyInit ==
  /\ hkTasks' = Append(hkTasks, "start")
  /\ UNCHANGED <<hkTask, hkPhase, hkAt, hkMsg, hkQueue, hkMessages,
                 hkMainVars, hkMapVars, presses, calls>>

\* Variant of RegisterCall: hotkey_id_ is read and never advanced.
RegisterSameId(k) ==
  /\ register_queue' = Append(register_queue, <<"register", k, hotkey_id>>)
  /\ UNCHANGED <<hkWorkerVars, hkAt, hkMsg, hkQueue, hkMessages, thread_id, listen,
                 hotkey_id, callback_map, id_map, hooked, presses, calls>>

\* register_callback: an id, and a task for the worker's thread.
RegisterCall(k) ==
  /\ hotkey_id' = hotkey_id + 1
  /\ register_queue' = Append(register_queue, <<"register", k, hotkey_id>>)
  /\ UNCHANGED <<hkWorkerVars, hkAt, hkMsg, hkQueue, hkMessages, thread_id,
                 listen, callback_map, id_map, hooked, presses, calls>>

UnregisterCall(k) ==
  /\ register_queue' = Append(register_queue, <<"unregister", k>>)
  /\ UNCHANGED <<hkWorkerVars, hkAt, hkMsg, hkQueue, hkMessages, hkMainVars,
                 callback_map, id_map, hooked, presses, calls>>

\* PostThreadMessage fails while the thread has no message queue, and its
\* result is not looked at.
Post(m) ==
  /\ hkMessages' = IF hkQueue THEN Append(hkMessages, m) ELSE hkMessages
  /\ UNCHANGED <<hkWorkerVars, hkAt, hkMsg, hkQueue, hkMainVars, hkMapVars,
                 presses, calls>>

\* Windows: a hotkey that is registered is pressed.
Press ==
  /\ ~undefined
  /\ \E h \in hooked :
       /\ hkMessages' = Append(hkMessages, <<"hotkey", h[1]>>)
       /\ presses' = Append(presses, h[2])
  /\ UNCHANGED <<hkWorkerVars, hkAt, hkMsg, hkQueue, hkMainVars, hkMapVars,
                 calls, poolVars>>

(* The guard of init(), in four steps; see Application for the order.        *)
StopListening ==
  /\ listen' = FALSE
  /\ UNCHANGED <<hkWorkerVars, hkAt, hkMsg, hkQueue, hkMessages, thread_id,
                 hotkey_id, hkMapVars, presses, calls>>

QueueUnregister ==
  /\ hkTasks' = Append(hkTasks, "unregister")
  /\ UNCHANGED <<hkTask, hkPhase, hkAt, hkMsg, hkQueue, hkMessages,
                 hkMainVars, hkMapVars, presses, calls>>

\* worker_.reset(): worker_ is null, the tasks are dropped, the thread joined.
HotkeyReset ==
  /\ HK!Shutdown \/ HK!Closed
  /\ UNCHANGED <<hkAt, hkMsg, hkQueue, hkMessages, hkMainVars, hkMapVars,
                 presses, calls>>

-----------------------------------------------------------------------------
(* The worker's thread.                                                      *)
Goes(here, there) == hkAt = here /\ hkAt' = there

\* The worker takes its next task; get_message begins with a test.
HKBegin ==
  /\ ~undefined
  /\ HK!Begin
  /\ hkAt = "out"
  /\ hkAt' = IF Head(hkTasks) = "get_message" THEN "test" ELSE "out"
  /\ UNCHANGED <<hkMsg, hkQueue, hkMessages, hkMainVars, hkMapVars, presses,
                 calls, poolVars>>

\* The first task: main's future is ready when it ends.
HKStart ==
  /\ ~undefined
  /\ hkTask = "start"
  /\ thread_id' = TRUE
  /\ hkTasks' = Append(hkTasks, "get_message")
  /\ hkTask' = "none"
  /\ UNCHANGED <<hkPhase, hkAt, hkMsg, hkQueue, hkMessages, listen, hotkey_id,
                 hkMapVars, presses, calls, poolVars>>

HKTest ==
  /\ ~undefined
  /\ hkTask = "get_message"
  /\ IF listen
     THEN Goes("test", "enter") /\ UNCHANGED hkWorkerVars
     ELSE Goes("test", "out") /\ HK!End
  /\ UNCHANGED <<hkMsg, hkQueue, hkMessages, hkMainVars, hkMapVars, presses,
                 calls, poolVars>>

\* GetMessage is entered: from now on the thread has a message queue.
HKEnter ==
  /\ ~undefined
  /\ Goes("enter", "wait")
  /\ hkQueue' = TRUE
  /\ UNCHANGED <<hkWorkerVars, hkMsg, hkMessages, hkMainVars, hkMapVars,
                 presses, calls, poolVars>>

\* Variant of HKReceive: the loop goes on whatever GetMessage returns.
HKReceiveAny ==
  /\ ~undefined
  /\ hkMessages # <<>>
  /\ Goes("wait", IF Head(hkMessages) = Quit THEN "again" ELSE "tasks")
  /\ hkMsg' = Head(hkMessages)
  /\ hkMessages' = Tail(hkMessages)
  /\ UNCHANGED <<hkWorkerVars, hkQueue, hkMainVars, hkMapVars, presses, calls,
                 poolVars>>

\* GetMessage returns: 0 for WM_QUIT, and the loop ends.
HKReceive ==
  /\ ~undefined
  /\ hkMessages # <<>>
  /\ hkMessages' = Tail(hkMessages)
  /\ IF Head(hkMessages) = Quit
     THEN Goes("wait", "out") /\ HK!End /\ UNCHANGED hkMsg
     ELSE Goes("wait", "tasks") /\ hkMsg' = Head(hkMessages) /\ UNCHANGED hkWorkerVars
  /\ UNCHANGED <<hkQueue, hkMainVars, hkMapVars, presses, calls, poolVars>>

\* It returns -1, which is logged: no message is taken.
HKReceiveError ==
  /\ ~undefined
  /\ Goes("wait", "again")
  /\ UNCHANGED <<hkWorkerVars, hkMsg, hkQueue, hkMessages, hkMainVars, hkMapVars,
                 presses, calls, poolVars>>

\* What message_handler makes of the message: a callback that is registered is
\* handed to the pool.
AfterTasks == IF hkMsg[1] = "hotkey" /\ hkMsg[2] \in DOMAIN callback_map
              THEN "call" ELSE "again"

\* register_queue_ is empty.
HKTasksDone ==
  /\ ~undefined
  /\ register_queue = <<>>
  /\ Goes("tasks", AfterTasks)
  /\ UNCHANGED <<hkWorkerVars, hkMsg, hkQueue, hkMessages, hkMainVars,
                 hkMapVars, presses, calls, poolVars>>

\* Variant of HKRegister: one task of register_queue_ is done for a message.
HKRegisterOne ==
  /\ ~undefined
  /\ register_queue # <<>> /\ Head(register_queue)[1] = "register"
  /\ Goes("tasks", AfterTasks)
  /\ LET k == Head(register_queue)[2]
         i == Head(register_queue)[3]
     IN  /\ callback_map' = Assigned(callback_map, i, k)
         /\ id_map' = Assigned(id_map, k, i)
         /\ hooked' = hooked \cup {<<i, Codes(k)>>}
  /\ register_queue' = Tail(register_queue)
  /\ UNCHANGED <<hkWorkerVars, hkMsg, hkQueue, hkMessages, hkMainVars,
                 presses, calls, poolVars>>

\* A task of register_callback.  RegisterHotKey fails, which is only logged,
\* when the key is a hotkey already or another program has it.
HKRegister ==
  /\ ~undefined
  /\ hkAt = "tasks" /\ register_queue # <<>>
  /\ Head(register_queue)[1] = "register"
  /\ LET k == Head(register_queue)[2]
         i == Head(register_queue)[3]
     IN  /\ callback_map' = Assigned(callback_map, i, k)
         /\ id_map' = Assigned(id_map, k, i)
         /\ hooked' \in {hooked} \cup
              (IF \E h \in hooked : h[2] = Codes(k) THEN {} ELSE {hooked \cup {<<i, Codes(k)>>}})
  /\ register_queue' = Tail(register_queue)
  /\ UNCHANGED <<hkWorkerVars, hkAt, hkMsg, hkQueue, hkMessages, hkMainVars,
                 presses, calls, poolVars>>

\* A task of unregister_callback.
HKUnregister ==
  /\ ~undefined
  /\ hkAt = "tasks" /\ register_queue # <<>>
  /\ Head(register_queue)[1] = "unregister"
  /\ Head(register_queue)[2] \in DOMAIN id_map
  /\ LET k == Head(register_queue)[2]
     IN  /\ hooked' = {h \in hooked : h[1] # id_map[k]}
         /\ callback_map' = Restrict(callback_map, DOMAIN callback_map \ {id_map[k]})
         /\ id_map' = Restrict(id_map, DOMAIN id_map \ {k})
  /\ register_queue' = Tail(register_queue)
  /\ UNCHANGED <<hkWorkerVars, hkAt, hkMsg, hkQueue, hkMessages, hkMainVars,
                 presses, calls, poolVars>>

\* id_map_.at() throws for a key that is not registered: the exception leaves
\* get_message, which has not queued itself again, and the loop is over.
HKUnregisterThrows ==
  /\ ~undefined
  /\ register_queue # <<>>
  /\ Head(register_queue)[1] = "unregister"
  /\ Head(register_queue)[2] \notin DOMAIN id_map
  /\ register_queue' = Tail(register_queue)
  /\ Goes("tasks", "out") /\ HK!End /\ hkMsg' = Null
  /\ UNCHANGED <<hkQueue, hkMessages, hkMainVars, callback_map, id_map,
                 hooked, presses, calls, poolVars>>

\* thread_pool::queue_task: refused, or called and accepted in two steps.
HKRefused ==
  /\ ~undefined
  /\ phase # "up"
  /\ Goes("call", "again")
  /\ UNCHANGED <<hkWorkerVars, hkMsg, hkQueue, hkMessages, hkMainVars,
                 hkMapVars, presses, calls, poolVars>>

HKCall ==
  /\ ~undefined
  /\ Goes("call", "accept")
  /\ Called(Find(Len(calls) + 1))
  /\ calls' = Append(calls, <<hkMsg[2], callback_map[hkMsg[2]]>>)
  /\ UNCHANGED <<hkWorkerVars, hkMsg, hkQueue, hkMessages, hkMainVars,
                 hkMapVars, presses>>

HKAccept ==
  /\ ~undefined
  /\ Goes("accept", "again")
  /\ Accepted(Find(Len(calls)))
  /\ UNCHANGED <<hkWorkerVars, hkMsg, hkQueue, hkMessages, hkMainVars,
                 hkMapVars, presses, calls>>

\* get_message queues itself again, through worker_.  (What is left in msg is
\* not read again.)
HKAgain ==
  /\ ~undefined
  /\ Goes("again", "out")
  /\ IF hkPhase = "open"
     THEN hkTasks' = Append(hkTasks, "get_message") /\ UNCHANGED undefined
     ELSE undefined' = TRUE /\ UNCHANGED hkTasks
  /\ hkTask' = "none" /\ hkMsg' = Null
  /\ UNCHANGED <<hkPhase, hkQueue, hkMessages, hkMainVars, hkMapVars,
                 presses, calls, phase, job>>

\* The task the guard queues.
HKUnregisterAll ==
  /\ ~undefined
  /\ hkTask = "unregister" /\ HK!End
  /\ hooked' = {h \in hooked : h[1] \notin DOMAIN callback_map}
  /\ UNCHANGED <<hkAt, hkMsg, hkQueue, hkMessages, hkMainVars, register_queue,
                 callback_map, id_map, presses, calls, poolVars>>

HKStep ==
  \/ HKBegin \/ HKStart \/ HKTest \/ HKEnter \/ HKReceive
  \/ HKTasksDone \/ HKRegister \/ HKUnregister \/ HKUnregisterThrows
  \/ HKRefused \/ HKCall \/ HKAccept \/ HKAgain \/ HKUnregisterAll

\* The message loop has ended, or was never begun.
LoopOver == thread_id /\ hkTask = "none" /\ "get_message" \notin Range(hkTasks)
=============================================================================
