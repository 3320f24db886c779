# A TLA+ verification of bible_assistant

bible_assistant finds the Bible reference under the mouse cursor: a hotkey
starts a search, a part of the screen is captured and recognised, the text is
parsed for references, and those are opened in the browser.  The program lives
in the Windows tray.  This directory holds its TLA+ model, the TLC
configurations that check it, and the TLAPS proofs about it.

## 1. The system

| part | source | state it keeps | operations |
|---|---|---|---|
| task_queue | `app_framework/task_queue` | a FIFO of callables, `shutdown_`, two mutexes, a condition variable | `queue`, `try_do_task`, `do_task_or_wait`, destructor |
| active_worker | `app_framework/active_worker` | one `task_queue`, one thread, its stop token | the worker loop, `queue_task`, `run_task`, `shutdown` |
| thread_pool | `app_framework/thread_pool` | static `initialized_`, `mtx_`, `pool_` of workers with the ids of their tasks and the time of their last use | `init` and its guard, two `queue_task`, the task wrapper, `remove_abandoned_workers` |
| main_loop | `app_framework/main_loop` | static `running_`, `main_queue_` | `run`, `exit`, `queue_task` |
| hotkey | `system/hotkey_windows` | a worker, a queue of registrations, two maps, the flag `listen_to_msg_` | `init` and its guard, `register_callback`, `unregister_callback`, the message loop |
| tray | `system/tray_windows`, the vendored tray library | a worker, the tray object with its menu | `init` and its guard, the message loop, the menu |
| application | `app_bible_assistant/src/main.cpp` | the guards, in the order of their construction | start and end |
| bible | `bible/reference`, `reference_range`, `common` | book, chapter, verse and two cached counts | `create`, `++`, `--`, `size` |
| core_bible_reference | `core/core_bible_reference`, `txt` | none (pure) | `parse`: book, numbers, passages, ranges |
| OCR core | `core/core_bible_reference_ocr`, `core_tesseract`, `data/pix` | the tesseract handle, the image | capture areas, recognition, choices, safety margin |
| workflow | `workflow/workflow_bible_reference_ocr` | the settings in use, a strand id | `find_references` |
| settings | `core/core_settings`, `util/property_tree`, `util/property` | a static map of settings, a shared tree per file | `create_setting`, property get and set, load and save |
| lookup | `core/core_bibleserver_lookup`, `util/const_bimap` | a table of translations | `open` |
| book names | `bible/common`, `book_name_variants_de`, `reference_formatter` | constant tables | the printed form of a range |
| helpers | `util/scoped_counter`, `scoped_guard`, `enum`, `signals`, `math`, `meta`, `txt` | a counter; a callback | increments, assignments, scopes, arithmetic |

How they interact.  `task_queue` is the only means by which threads hand work
to one another: `active_worker` runs one on a thread of its own, `main_loop`
runs one on the main thread, `hotkey` uses one for its registrations.
`thread_pool` owns a growing vector of `active_worker`s.  Hotkey and tray each
own an `active_worker` whose task queues itself again (a message loop); their
callbacks become tasks of `thread_pool`, and `find_references` queues its work
there on a strand.  The tray's Exit entry calls `main_loop::exit` from a pool
thread; `main` then destroys the tray guard, the pool guard and the hotkey
guard, in this order.  The settings are shared by all cores of the process,
through one tree per file.

What is hard in it.  Interleavings of the threads at the two mutexes and the
condition variable; destruction while another thread is inside (four classes do
it); tests of an atomic flag before a lock is taken; tasks that queue tasks and
tasks that throw; joining a worker with a mutex held that the worker may need;
the order of the tasks of a strand while the pool changes under it; messages
posted to a thread that cannot receive them yet; a file that is read while
another thread writes it; state carried from one part of a text to the next.
The list, each at its line and with the properties that cover it, is `hazards`
in `PROJECT.json`.

What makes each part correct, in a sentence:

* task_queue: nothing is lost, run twice or run concurrently, nobody sleeps
  while there is work, and the destructor ends.
* active_worker: it is a serial executor, and when it is gone nothing runs.
* thread_pool: strands run in order, independent tasks do not wait for one
  another, every accepted task runs, no worker with work is reaped, and the
  pool shuts down.
* main_loop: `exit` ends it, soon.
* hotkey, tray: their message loops live until the guard ends them; a press
  calls the callback of its key.
* application: nothing is used after it was destroyed, and Exit ends the
  program.
* bible: `++` walks all references in order, the cached counts follow, and
  `size` is the number of references in the range.
* core_bible_reference: it finds the whole name under the cursor, and what it
  reads is what the whole text after the name means.
* settings: a setting is what its tree says, and what was set is in the file
  once the program has ended, unless the file cannot be read or written.

## 2. The modules

| module | models | extends |
|---|---|---|
| `TaskQueue` | task_queue, every lock, unlock, wait and notify a step | |
| `SerialExecutor` | what an active_worker promises (abstract) | |
| `ActiveWorker` | active_worker, composed with its queue | `TaskQueue`; refines `SerialExecutor` |
| `MainLoop` | main_loop, composed with its queue | `TaskQueue` |
| `AbstractPool` | what thread_pool promises to those who queue tasks (abstract) | |
| `ThreadPool` | thread_pool, over workers that are serial executors | refines `AbstractPool` |
| `Hotkey` | the hotkeys, their thread and Windows' part in it | `AbstractPool`, `ConstBimap`; its worker is a `SerialExecutor` |
| `TrayIcon` | the icon, its thread, its window's messages and its destruction | `AbstractPool`; its worker is a `SerialExecutor` |
| `Application` | `main()` over hotkeys, tray, main loop and pool | `Hotkey`, `TrayIcon` |
| `Settings` | the settings, their tree and its file, over several runs of the program | |
| `BibleTable` | the table of verses, and what references and ranges are made of | |
| `BibleReference` | the operations of reference and reference_range | `BibleTable` |
| `BookNames` | the search for a book's name, the numbers and the template after it | |
| `CoreBibleReference` | `parse` of core_bible_reference | `BibleTable`, `BookNames` |
| `CaptureArea` | the rectangles of core_bible_reference_ocr: the areas, and when one is valid | |
| `FindReferences` | a search of workflow_bible_reference_ocr | `CaptureArea` |
| `Arithmetic`, `Geometry` | math::arithmetic; value_range and rect over it | |
| `Characters`, `Choices` | txt::chars; the names read from tesseract's choices | |
| `ConstBimap`, `Lookup` | util::const_bimap; the pages core_bibleserver_lookup opens | `BibleTable` |
| `Picture` | the way of a picture's bytes from the screen to tesseract and to a file | |
| `Enumerations` | util::enum and the part of magic_enum it calls | `Arithmetic` |
| `ScopedCounter` | util::scoped_counter | |
| `TrayMenu` | the entries of the tray's menu and their ids | |
| `BibleData` | the real tables of books, verses and names, and reference_formatter | |
| `Library` | calls each function of the modules above, from `Arithmetic` on, with many arguments | all of them |
| `ThreadPoolProofs`, `ApplicationProofs`, `BibleReferenceProofs`, `CoreBibleReferenceProofs`, `SettingsProofs`, `FindReferencesProofs`, `LibraryProofs` | theorems about the module of that name | it, `TLAPS` |
| `LoopProofs` | theorems about `TaskQueue`, `ActiveWorker` and `MainLoop` | all three, `TLAPS` |
| `MC*` | the small instance of the module TLC checks | the module |

**TaskQueue.**  `at[t]` says where in a member function thread `t` stands, so
that every interleaving of the steps between two synchronisation operations is
a behaviour.  A step is named after the function and the statement: `QueueLock`,
`QueueEmplace`, `QueueNotify` are the three statements of `queue()`.  What the
C++ standard leaves open is a choice: `try_lock` may fail without a holder
(`TryLock`), a wait may return for no reason (`SpuriousWake`), `notify_one` wakes
any waiter.  `std::scoped_lock` takes both mutexes or none (`DtorLock`).  A
waiter that is woken has to take the mutex again (`d_woken`, `WaitLock`), which
is where notifying outside the lock could go wrong.  `Hollow` are the
`move_only_function`s without a target, which `if(task)` passes over.  The
object has a lifetime: a step of a thread inside a destroyed queue is recorded
in `fault`, after which nothing happens.

**ActiveWorker.**  Extends TaskQueue by the loop of the worker (`WorkerTest`
reads the stop token, `WorkerDeref` the pointer) and by `shutdown()`
(`ShutdownStop`, `ShutdownReset`, `ShutdownJoin`).  `unique_ptr::reset` makes the
pointer null before it destroys the queue: `IsNull`.  A task that throws behaves
like one that returns, because both catch clauses only log.  Clients finish
their calls before the owner destroys the object: that is the rule of C++ for
any object.  Tasks on the worker call `queue_task` whenever they like.
`Abstract` is the refinement mapping.

**SerialExecutor.**  Waiting tasks, the current one, and a phase.  `Drop` in the
phase "closing" is what a shutdown may do to the waiting tasks: forget all of
them, or all but the one already taken.

**ThreadPool.**  A pool element is its number in the order of creation, which
is its position order in the vector too.  Its worker is taken as the serial
executor of the previous paragraph: a queue, and the place in the wrapper that
`create_task_wrapper` makes (`pre_lock`, body, `post_lock`).  `queue_task` is
split at the points where other threads can see a difference: `CallQueueTask`
reads `initialized_`, `Enqueue` holds `mtx_` and chooses the element, `Reap` and
`JoinReaped` are `remove_abandoned_workers`, which joins workers with `mtx_`
held.  Tasks call `queue_task` from their bodies.  The clock is not modelled:
any element without ids may have been idle for a minute.  `pool_.clear()`
destroys the elements one by one (`GuardClose` drops a queue, `GuardJoin` joins
the worker).  The first call to use the pool while it is being cleared, or
after, sets `race`, and the model stops, the rest being undefined.

**AbstractPool.**  A job is "called", "queued", "running" and "over".  It
leaves out workers, ids, strands and locks; what it keeps is what a client can
rely on, and what it must avoid: `Accepted` while the pool is being cleared sets
`undefined`.  `Contract` in ThreadPool is the mapping (`JobState`: `Calling`,
`Waiting`, `Working`).

**MainLoop.**  Extends TaskQueue by `run`'s loop, and by `exit` and `queue_task`
in two steps each: the access to `running_`, then the call of `queue` (`todo`
holds the task between the two).  Each `exit` queues a dummy of its own.

**Hotkey.**  The worker is an instance of SerialExecutor with three tasks: the
first one, the message loop, and the one the guard queues.  `hkAt` is the place
in `get_message`: `HKTest` reads `listen_to_msg_`, `HKEnter` enters `GetMessage`,
`HKReceive` leaves it with a message and `HKReceiveError` with -1, which is only
logged, `HKRegister`, `HKUnregister` and `HKUnregisterThrows` do one
task of `register_queue_` each and `HKTasksDone` finds none, `HKRefused` or
`HKCall` and `HKAccept` hand the callback to the pool, `HKAgain` queues the loop
again through `worker_`.  `LoopOver` says that nobody will.  Windows is external: a thread has no message queue
before its first `GetMessage`, a message posted until then is lost (`Post`); a
hotkey is registered once only, and registering it may fail at any time.
`key_map` and `key_modifier_map` are the tables of the code, so that the codes a
press is made of are the real ones.  `presses` and `calls` are history.

**TrayIcon, TrayMenu.**  TrayIcon is the tray's thread in the same manner, with
the part of the vendored library that runs on it: the constructor, which may
throw (`TRBuildFails`, and then nobody makes `main`'s future ready), the window
procedure, which looks the window up twice (`TRMenu`, `TRChoose`), the button's
callback; and `TRReceiveError` is a `GetMessage` that fails.  `TrayExit`, `TrayFree` and `TrayReset` are what the guard does in the main
thread meanwhile.  TrayMenu is the data: the entries and those of the submenus at
their places `<<i, j>>`, the items made of them with ids that count on from
`construct` to `construct`, and the entry an id stands for; `update_failed` is the
exception of an `update` that Windows refuses, after which nothing is said.

**Application.**  `place` is what the main thread does next, in the order of
`main.cpp` and of the destructors of its guards.  The pool is AbstractPool, with
three kinds of jobs: `exit` (the tray's button), `find` (the callback of a
hotkey) and `search` (what it queues on the strand).  `Scripts` are the calls of
`register_callback` and `unregister_callback` before `run()`: the program
registers one key; the interface allows more, and the hazards are there.  The
first use of something destroyed sets `undefined` and ends the behaviour.

**Settings.**  Each thread has a core.  `Create` and `Read` make the tree under
`trees_mtx_`; `Share` finds the one there is and `Shared` takes it, unless its
last owner has gone in between (`SharedNull`, `SharedGone`: `create` locks the
weak pointer anew in each stage of its view; a temporary pointer that outlives
the last owner destroys the tree in the thread that looks for it, which does the
same to the file).  `Drop`, `DtorOpen` and `DtorClose` destroy the tree, the file
being torn in between.  Each use of the file may fail, which the code only logs:
`ReadFails` leaves an empty tree, `DtorOpenFails` and `EndFails` the old file,
`DtorCloseFails` and `ClosedFails` a torn one.  `CreateProperty`,
`PropertyCreated` and `Emplaced` are `create_setting`, with `Throw` for a size in
the file that no container can have, which ends the program, `SetValue` and `Updated`
the setting of a value: it is there before the tree knows it.  `Start`, `End`,
`Closed` and `Crash` are the life of the program, `Edit` the user's editor.  The
file says of each node a text that can be read, one that cannot, a number, a
number that is too large, or nothing; `read` and `write` are `property_parser`'s
for scalars and lists.  Two accesses to the tree or the map at the same time
without a common lock set `undefined`, as does a null pointer that is followed.  A
tree created while its predecessor is being destroyed sets `torn`.

**BibleReference.**  The state is one reference, with the two counts it caches,
and the use it is put to: a client calls `++` and `--` in any order, starting
at `begin()` of a range, or `size()` steps it as its local variable.  Each
branch of `increment` and `decrement` is an action (`NextVerse`, `NextChapter`,
`NextBook`, `AtEnd`, and `PrevVerse` to `AtBegin`, with `PrevThrows` for the
`value()` of an empty optional), written with the counts the code uses, the
wrong ones of `--` included.  `Places`, `Before` and `IsReference` are the
reference the code is measured with; they do not use the caches.  Widths do not
matter: no number exceeds the table's.

**BookNames, CoreBibleReference.**  One behaviour is one call of `parse`.
`find_book`, the numbers after a name and the template are operators on sequences
of characters (BookNames, used by Library with the real table too); the reading
of the template is a state machine, one section a step, because `current_level`
and `current_chapter` are carried from one section to the next and a failing
section takes back what those before it have put into the map.  There is an
action for each shape of a section and each level.  `Readable(t, b, c)` and
`Meaning(t, b, c)` say what a whole template `t` means of book `b`, with `c` between
chapter and verse, without going through it; `RoundTrip` compares with what was
written.  Characters are one byte long.  A number is `UintMax` at most:
one that is larger ends the template, as `from_chars` does.  What the code relies
on in its table of names is the assumption `NamesAssumption`: no name overlaps
itself, and of two names of which one is in the other, with nothing after it but
letters that may follow a number, the longer is later in the list.  The real table
is one that fits: `library` has TLC evaluate it.  `CharactersAssumption` is about the
characters: a letter is no blank, the signs of a citation are neither, a digit is
worth 0 to 9, and what may follow a number begins with a letter.  What `RoundTrip`
writes are the `Citations`: `CitationsAssumption` says that each is a range, or two
ranges within a chapter that do not end at the last verse of the bible, of one book,
with numbers that fit into 32 bits and for which there is a numeral.

**CaptureArea, FindReferences.**  One behaviour is one search, a task on its strand.
The screen shows a text of `Rows` lines; a character is a name, a number or
anything else, which is all that matters of `parse` here (`Citation`); it is a
number, counted line by line, and what is seen, read or cited a set of them.
`GenerateAreas` makes the list of areas; then `Capture` or `CaptureFails`, and
`NothingRecognized` or `Recognized`, for one area after the other.  The search
itself is in `Kept` and `Stops`, the judgement of an area in
`is_valid_capture_area`, with the names of the code, also where `top` is the
lower border.  Tesseract is external and is taken to be good: characters that
are whole in the image are recognised in their order, but recognition may
fail, and the name under the cursor may be misread, in which case one of the
choices may have it.  A character is five pixels high, so that the margins are one
and ten pixels.  `LayoutAssumption` is about the pages such margins fit: the text is in
the window, its lines are apart, and a character is at most twice as wide as it is
high, as print is; the horizontal margin is two heights of a character and is to leave
room for the next one.

**Library** and what it calls are the parts without a state of their own: every
function is an operator, and one behaviour calls one function with one list of
arguments, or goes through the life of counters or a menu.  A counter may end at
any time (`EndCounter`): it has no destructor that would ask for its incrementors,
and `dangled` is one that goes to a counter after that, after which nothing is
said.  The properties
compare what is returned with what it is to be: sums of any width with the exact
sums (`Arithmetic`), rectangles with their sets of points (`Geometry`), a name
found with the choices that spell it (`Characters`, `Choices`), pages with the
verses of the range (`Lookup`), a picture with the one on the screen (`Picture`),
an enumerator with its name (`Enumerations`), a printed range with what
`find_book` reads in it (`BibleData`, whose tables are those of the code: the
books, their chapters, and the names they are looked for with).

A definition whose comment says "Variant of" (in TaskQueue: those under "Faulty
variants") is a plausible bug of the step it names.  No behaviour uses it; put in
the step's place it makes the property `PROJECT.json` names for it fail.

## 3. The runs

| run | instance | distinct states | what it shows |
|---|---|---|---|
| `task_queue` | 3 threads, 3 tasks (one hollow) | 73 494 | `NoLostWakeup`, `NobodySleepsOnDestroyed`, `DtorEnds` |
| `active_worker` | worker, owner, 2 clients, 3 tasks | 4 410 | the refinement `ImplementsSerialExecutor`; `EveryTaskServed`, `ShutdownReturns` |
| `active_worker_destruction` | the same | | violated: `DestructionWellDefined` |
| `thread_pool` | 1 caller, 4 tasks: 2 of a strand, one of which may throw, 2 plain | 174 183 | the refinement `ImplementsPool`; `StrandInOrder`, `IdsTellWork`, `Independent`, `AcceptedTaskRuns`, `ShutdownEnds` |
| `main_loop` | main, 2 threads, 2 tasks, 2 calls of `exit` | 50 416 | `OneTaskAfterExit`, `ExitEndsLoop` |
| `application` | 4 scripts of registrations of 2 keys, 2 clicks, presses or failures | 369 033 | `WorkflowOutlivesSearch`, `PressCallsItsKey`, `QuietEndIsClean`, `ExitEndsProgram`, `RegistrationServed` |
| `settings` | 2 threads, a scalar and a list of at most 2, 2 trees, 2 runs of the program, 2 changes | 1 635 839 | `TreeHoldsSettings`, `OneTreePerFile`, `ValueSurvives` |
| `bible` | 4 books, 24 verses: every range and every start; 3 names: every text of up to 4 characters of 9, every name with up to 5 numbers, two names with numbers, citations of a book | 147 153 | of references `Coherent`, `IncrementIsNext`, `SizeInside`; of `parse` `ReadsAsMeant`, `SmallestReading`, `RoundTrip`, `NamesWhole` |
| `find_references` | 3 lines of 10 characters, a reference of 2 to 6 anywhere | 190 959 | `FoundUnderCursor`, `ValidIsWhole`, `WholeFound` |
| `find_references_lines` | the same | | violated: `NextLineSeen` |
| `library` | each function with all arguments of a small set; the real tables of the bible | 179 797 | `ArithmeticProtected`, `RectAgrees`, `WholeNameFirst`, `PagesCoverRange`, `PictureUpright`, `PrintedIsFound`, `NeverUndercounts`, `MenuCallsChosen` |
| `picture_rows` | the same | | violated: `BottomLineFirst` |

*Bounds.*  In the runs of threads the only bounds are the numbers of threads and
tasks, each task being queued once.  Three threads on one queue are
the fewest in which a notified waiter, a thread that overtakes it and a thread
that queues meet, and any of the three may be in the destructor.  Three tasks
allow one running, one taken and one queued.  Four tasks in the pool allow a
strand whose first task has thrown, a second task of it, and plain tasks that
force a new element and make an old one free; the tasks of the bodies are
callers too, so that up to five threads are inside `queue_task`.

In `application` the user acts, or `GetMessage` fails, `MaxInputs` = 2 times in all,
by clicks, presses and failures in any mixture: two are the fewest with which a press
is under way when the program
ends, or two keys are pressed in an order.  The scripts are two keys, one key
twice, a key registered and taken back, and a key taken back that was never
registered, with another one registered behind it: the throw of the first leaves the
second in the queue.

In `settings` two trees are the one that dies and its successor, and two runs the
one that writes and the one that reads; the two changes (`MaxOps`) are values set
by a thread or edits of the file, of which two of different settings may meet.  The two threads are interchangeable,
which TLC uses as a symmetry: the run checks invariants only.

The bible of `bible` has chapters that are longer and shorter than the one
before, books with more and fewer chapters than the one before, and a book of
one verse: with fewer, the stale counts `--` leaves behind would be right by
accident.  `total_verse_count` is one less than the number of verses, as in the
code (31102, where the table has 31103, which `library` counts); the assumption
says "one less at most".

A text of three lines has one between two others; a line is longer than the first
areas, shorter than the last, and inside the window by more than the margin, so
that areas cut it on either side, or not at all.  Two lines are eight pixels apart,
where the areas are 6, 12, 18 and 24 pixels high: each line can be whole, cut, or
outside.  References stand everywhere, across the end of a line too.

The names of `bible`, of its last two books, are the hard cases of the real table: one that
begins another ("J", "Jo"), one that is the end of another and lacks its digit
("J", "1J"), and letters that may follow a number ("f", "a").  Four numbers are
the longest section, and five the fewest of which the last three go on from a
verse to another chapter.  A chapter of twelve verses has citations with numbers of two
digits.  The numbers reach past the chapters and verses of both books, so that
every reading fails somewhere.  `MCBible` puts the two modules side by side: a
behaviour is one of references or one call of `parse`, and the other module rests.

`library` takes integers of three to five bits, signed and unsigned, with all
their values; rectangles in a square of three points a side; lists of up to three
characters with up to two choices each, of confidence 0 too, in every order the sort
allows; pictures of up to five pixels a side,
with three and four bytes for a pixel, so that rows are padded and are not;
two counters, which end, and three objects that hold them; menus of four entries;
translations with a name, without one, and of both.  The ranges it prints
are, of the real bible, of every book its whole, its first chapter and its last
verse, and ranges to other books.

*Deadlock* is checked in every run but `bible` and those of `FindReferences` and
`Library`, where nothing is left to do once the call has returned, and `Settings`, where everything may be used up (`MaxRuns`,
`MaxOps`) or undefined: `TQDone`, `AWDone`, `Done`, `MLDone` and `Idle` are
the only states the other systems may stop in.

*Fairness.*  Every thread that is inside a call is scheduled again and again,
and a thread that waits for a mutex which is released again and again gets it:
strong fairness per thread in TaskQueue, ActiveWorker and MainLoop, which is
what `std::mutex` gives in practice on Windows; in ThreadPool the calls are
finitely many and weak fairness is enough.  In Application the main thread, the
jobs of the pool, the hotkeys' and the tray's thread go on (weak fairness of
each); `GetMessage` returns when there is a message, and fails finitely often
(`failures` counts with the inputs), so that weak fairness is enough here too.  Bodies of tasks end.  Nothing
obliges anybody to call `queue`, `exit` or the destructor, to throw, to wake
spuriously, to click or to press a key.

*Findings.*  The three violations are real:

1. `active_worker::shutdown` resets `worker_queue_` before it joins.  A worker
   that has just tested its stop token dereferences null, and one that was
   woken by the destructor takes a mutex that is gone.  `task_queue.cpp:18`
   ("wait until lock is freed") is there to prevent the second and does not:
   the worker need not have tried to take the lock yet.
2. `is_valid_capture_area` takes y to grow upwards where it grows downwards: the
   line before the cursor's is compared with the lower border of the image, and
   the next with the upper one.  A search may stop with half a reference whose
   other half is on a line that is cut off.
3. `screen::capture` saves the upper line of the screen first.  Its documentation
   (screen_windows.hpp:56-58) promises an origin on the bottom left corner and the
   bottom line first, and the comment in it (158-159) the same of tesseract.  It is
   the words that are wrong: leptonica has the first line for the upper one, and
   `save_as_bitmap` reverses the lines once more for a file that begins with the
   lower one, so that `PictureUpright` holds.

What else the models show and a reader of the code might not expect.  The models
do what the code does; the properties say what survives.

* `thread_pool::queue_task` reads `initialized_` before it locks, and the guard
  clears `pool_` without the lock (`PoolNotUsedWhenCleared` of ThreadPool, which
  TLC refutes).  In the program it takes a hotkey's callback that is under
  way when it ends: `QuietEndIsClean` is about ends without one.
* `main_loop::exit` before `main_loop::run` has no effect (`EveryExitEndsLoop`,
  refuted); a click on Exit between `tray::init` and `run` is lost.
* A message posted before the hotkeys' thread waits for one is lost.  A
  registration is then served with the next message (`RegistrationServed`), but
  a WM_QUIT that is lost leaves the worker waiting and `main` waiting for it
  (`QuitLost`).  `main` also waits for ever when the tray's constructor throws
  (`TrayMissing`).
* `unregister_callback` of a key that is not registered ends the message loop of
  the hotkeys, and no registration behind it is served; nothing else ends the loop
  while the program listens (`RegistrationServed`).  A key registered twice keeps its first callback, under an id
  that `unregister_callback` no longer finds.
* The guard of the tray frees it, and makes `worker_` null, while the tray's
  thread may be in the window procedure or about to queue itself again.
* The map of the settings is shared by all cores and locked by each with a lock
  of its own, and a property writes the tree without the tree's lock: "this core
  is thread safe" (core_settings.hpp:16, `ThreadSafe`) is refuted by TLC for two
  threads.  The program uses its settings from one thread at a time mostly.
* `reference_range::size` of a range that ends at the last verse of the bible
  is 31103, because `++` does not move there and only the bound of the loop
  ends it (`SizeCorrect`, refuted).  `core_bible_reference` adds these sizes up
  to choose a reading, and a reading that ends at the last verse loses against
  any other; `SmallestReading` is stated up to that.
* `--` at the first verse of a chapter takes the counts of the chapter or book it
  leaves, and never enters the first book; nothing in the program calls it.
  `crossed` records it: `Coherent` holds until then, `NewBookRepairs` after.
* The fewest verses are not always what was meant ("2,1;3,1-5,2" is read with ";"
  between chapter and verse, since that has fewer verses), so that `RoundTrip`
  speaks of lists of ranges within a chapter and of single ranges of any kind;
  numbers with only white space or letters between them become one number; a name
  without a number that is left after the digit of the next book has been given
  back is its book's first verse.
* The formatter prints "Hoheslied", which is not among the names that are looked
  for, and a range to the first letter of John as "... 1 - Johannes ...", where
  the parser finds 1 John (`PrintedIsFound` excepts both).
* "In this case no larger area is captured" (workflow_bible_reference_ocr.cpp:124)
  is about a valid area without a reference; the flag of such an area is dropped
  with its empty list, and the search goes on.  And a reference that a small area
  shows where there is none (a name at its right border, and on the next line a
  number) is kept although the larger areas are read well and have none;
  `WholeFound` is about the references there are.
* `multiply` lets a product pass that is too large by less than a factor, and
  refuses one next to the lower limit (`NextToLimit`).  The test for an underflow adds
  one to the absolute value of the first factor, which wraps around when that is the
  largest value: INT_MAX * -3 passes (`IncrementWraps`).
* The constructor of `rect` puts an end that is no value of its type at 0.  Mostly the
  area gives it away; when it does not there is another rectangle, from the origin to 0
  (`MadeAsAsked`), and when it does, and is itself a value, the message of the exception
  is made of the `error()` of an `expected` that has none, which is undefined
  (`Undefined`).  Neither happens to an area on a screen.
* The enumerator that shares its value with BEGIN is printed as "BEGIN", and its
  own name is not read back from a settings file; `valid(END)` is true.
* The names found in the choices are sorted by confidence alone, and the order of equal
  ones is left to the sort: a longer name, of which all that it has more is read with
  confidence 0, may be tried after the shorter one (`Doubtful`).
* A picture reaches leptonica with green and blue swapped and alpha as red; on a
  display with 24 bits for a pixel its rows are askew.
* Assigning to a `scoped_incrementor` that counts leaves its count behind, so that who
  waits for 0 waits for ever.  And a counter may end before its incrementors, which then
  write to what is gone: `NeverUndercounts` says that none does if the counters end at 0.
* The pages of a range within one book are opened up to the first that fails; of a range
  over several books only one page with its first verse is (`PagesCoverRange`).

`ImplementsSerialExecutor`, `ImplementsPool` and the other properties of
`ActiveWorker`, `ThreadPool` and `Application` are stated up to these races, as
their comments say; a behaviour stops where the first of them strikes.

## 4. The proofs

### TaskQueue

`LoopProofs` proves for any finite set of threads and any set of tasks, of
any size:

| theorem | states |
|---|---|
| `TypeCorrect` | `TQSpec => []TypeOK` |
| `TasksExclude` | `TQSpec => []TaskExclusion` |
| `TasksNotCopied` | `TQSpec => []OneCopy` |
| `WakeupsNotLost` | `TQSpec => []NoLostWakeup` |
| `NobodySleeps` | `TQSpec => []NobodySleepsOnDestroyed` |

from the assumptions `TaskQueueAssumption` (the two null values are no thread
and no task) and `ThreadsFinite`, which only `WakeupsNotLost` needs: it counts
threads.

The argument.  Who holds a mutex follows from where it stands in the code;
`LockInv` says so for both mutexes, and with it exclusion is a property of a
single variable.  `HandInv` ties the task in a thread's hand, and the argument
of its call, to its place.  `LifeInv` says that there is one destructor, that
`shutdown` is set from `x_notify` on, and that from then on nobody goes to
sleep, and nobody sleeps at all once all were notified.  These and `TypeOK` are
the inductive `IInv`.  `OneCopy` is inductive together with `SubmittedInv`
(whatever is anywhere was submitted, so that a new task is nowhere yet), as
`CopyStep` shows step by step.
`NoLostWakeup` is inductive relative to `IInv`: the proof is by the number of
threads in `OnTheWay`, to which each step adds at most one and from which it
removes at most one (`MoreOnTheWay`), and a thread leaves `OnTheWay` only after
it found the queue empty, took a task, or woke another thread.

### ActiveWorker and MainLoop

| theorem | states |
|---|---|
| `WorkerTypeCorrect` | `AWSpec => []AWTypeOK` |
| `WorkerIsSerialExecutor` | `AWSpec => ImplementsSerialExecutor` |
| `LoopTypeCorrect` | `MLSpec => []MLTypeOK` |
| `LoopStopsSoon` | `MLSpec => []OneTaskAfterExit` |

Both modules extend TaskQueue, and their invariants extend its `IInv`: the
lemma `InvStep` about a step of the queue is cited for every action that is one.
For the refinement, `PlaceInv` says that only the worker takes tasks, so that
the task in its hand, or the one it runs, is `Current`; `ShutdownInv` orders the
owner's steps (stop, reset, join), so that the phase of the executor never goes
back.  With them `Init` maps to `SEInit`, and each action to the action of
`SerialExecutor` with the same meaning or to a stutter.  In MainLoop `MainOnly`
says that only the main thread takes tasks, and `ExitInv` that a task begun after
`exit` is the last: it leaves the main thread where it takes no other before it
has read the cleared flag.

### ThreadPool

| theorem | states |
|---|---|
| `PoolTypeCorrect` | `Spec => []TPTypeOK` |
| `StrandsRunInOrder` | `Spec => []StrandInOrder` |
| `IdsTellTheWork` | `Spec => []IdsTellWork` |
| `StrandsAreIndependent` | `Spec => []Independent` |
| `PoolIsAbstract` | `Spec => ImplementsPool` |

for any set of callers, any finite set of tasks and any strands, from
`ThreadPoolAssumption` (the null values are none of the others, and element
numbers are no callers).  The invariant is a conjunction of what a reader of the
code would say: `LockInv` (who holds `mtx_`), `CallInv` (a task is passed to
`queue_task` once), `GuardInv` (what the guard excludes, up to the race),
`CreatedInv` (an element is made for a task), `RunInv` and `WorkInv` (the
place of a worker, its task and the ids agree), `IdsInv` and `StrandInv` (an id,
and a strand, is in one element), `WhereInv` (until the pool is cleared no task
is lost), and `OrderInv`.  `StrandInOrder` needs them all: a task of a strand
that is not over keeps its id, so that the next task of the strand is sent to
the same element (`EnqueueEffect`) and is behind it in the queue; and the element
is not reaped, because it has an id (`ReapKeepsQueues`).  There is one lemma for
each conjunct, with one step for each action.

The refinement uses the same invariant, and `ClearedInv` (when the guard has
returned there are no elements).  A task is in at most one of three places, a
call, a queue or a body (`InCall`, `InQueue`, `InBody`), and `JobState` follows
from which; each action moves one task from one place to the next, and there is a
lemma for each action of AbstractPool that says which steps of the pool are that
action.  `Enqueue`, with which a call takes the lock, is `Accepted`; `Reap` is a
stutter because an element without ids has no task; `GuardClose` is `Dropped` of
the whole queue.

### Application

| theorem | states |
|---|---|
| `WorkflowOutlives` | `Spec => []WorkflowOutlivesSearch` |
| `QuietEnd` | `Spec => []QuietEndIsClean` |
| `PressesCallTheirKeys` | `Spec => []PressCallsItsKey` |

for any set of keys, any scripts and any `MaxInputs`.  The invariant of the first
is `AppInv`: `PlaceInv` ties the phase of the pool, and the workflow, to the place
of the main thread, and `JobInv` says that no job runs before the pool is up or
after it was cleared.  The other threads do what `PoolWork` says: they change
jobs, and neither phase nor place.  With `PoolIsAbstract` it covers the pool as it
is.

A quiet end needs three more: `TrayInv` (the tray's thread is started once, and
waits for messages from then on), `SearchInv` (the callback of a hotkey is not over
before its search was accepted), and `QuietInv` itself: once the end is quiet
neither thread has a message but WM_QUIT, none is in a place from which it reaches
the pool, and no callback is under way, so that nothing is left that could use
what `main` destroys.

A press is matched with its call through the message it became.  `IdInv` says that
an id is given once: it waits in `register_queue`, then it is in `callback_map`, then
gone, and whatever Windows, `callback_map` or `id_map` have for it is one key.
`callback_map` and `id_map` need not be inverse to each other, since a key may be
registered twice.  `MessageInv` has the types of the messages.  `MatchInv` states
that there are two increasing maps, from the calls and from the messages that
still wait to the presses, with all calls before all messages: each step extends
or restricts them.

### Settings

| theorem | states |
|---|---|
| `TreesAreOne` | `Spec => []OneTreePerFile` |
| `SettingsInTree` | `Spec => []TreeHoldsSettings` |
| `ValuesSurvive` | `Spec => []ValueSurvives` |

for any sets of threads, scalars, lists and elements, any number of trees, runs
and changes, from `SettingsAssumption` (the marks are no texts, and the values of
a setting are sequences that fit it).  `TreeInv` is about who has a tree: who
makes one holds `trees_mtx_` (`ReadInv`), cores and settings keep it alive
(`KeepInv`), who uses it has it (`UseInv`), and one thread destroys it (`DieInv`).
`HoldInv` says what the tree says of a setting: the setting's value, or what a
thread that holds the property's mutex is about to write, or what a thread has
read and will put into the map.  Survival needs two more: `PhaseInv` (what there
is while the program is not up, and who holds the mutex of a property), and
`KnownInv`: what is known of a setting is in one place, the tree that will be
written into the file, or the file when there is none.  What is known changes to
what the file has when the file cannot be read or written, and when the program
crashes: the theorem does not say that a value is never lost, but that nothing
else loses one, and that all values are then those of one run.  They rest on three facts
about the parser: what is written is read again (`ReadOfWritten`), nothing else
is changed by it (`ReadOfOther`), and at most one value is read (`ReadOne`).

### BibleReference

| theorem | states |
|---|---|
| `ReferenceTypeCorrect` | `BRSpec => []BRTypeOK` |
| `ReferenceCoherent` | `BRSpec => []Coherent` |
| `IncrementGoesOn` | `BRSpec => IncrementIsNext` |
| `NewBookInOrder` | `BRSpec => NewBookRepairs` |
| `SizeCounts` | `BRSpec => []SizeInside` |

for any number of books and any table, from `BibleAssumption`: no book and no
chapter is empty, the verses are finitely many, and at most one more than
`total_verse_count`.  `ChapterInv` is the fact about stale counts that keeps `++`
from looking up a chapter that does not exist.  `CountInv` is the invariant of
the loop of `size()`: the counter is the number of verses passed, and the loop
has gone one verse past the end at most; its bound never ends it before that,
because the verse it stands on has not been counted.

### CoreBibleReference

| theorem | states |
|---|---|
| `WholeNames` | `Spec => []NamesWhole` |
| `ReadingsAsMeant` | `Spec => []ReadsAsMeant` |
| `SmallestIsRead` | `Spec => []SmallestReading` |
| `CitationsAreFound` | `Spec => []RoundTrip` |

for any texts, of any length, any cursor, any table of verses (`BibleAssumption`) and
any table of names that fits (`NamesAssumption`, `TableAssumption`); `InputsAssumption`
is that a text is a sequence.  What a filter keeps is `InOrder` of a set of positions:
it has all of them, in their order, one for each rank (`InOrderCorrect`,
`InOrderGrows`), which takes the place of an induction over the text.

A name.  `find_book` takes the last entry of the list that fits; a longer name that
would do as well is later, for its rest could follow a number (`PartIsEarlier`).  The
numbers end at the first letter that may not follow one, and the digit before it is
given back if a name begins with it, so they end before the next name
(`EndBeforeNext`).

A reading.  `ReadInv` says where the loop over the characters and the one over the
sections are: the characters that have been tried are `Done`, and of the one that is
being tried the parts before the section have been read (`Current`), with
`current_level` and `current_chapter` what the template up to here carries over
(`Carried`: the last chapter before the section, if there is one).  A section is what
lies between two cuts (`SectionIs`, `PartIs`), and so its shape tells which of its
numbers are chapters (`ShapePlaces`).  There is one lemma for each shape and level,
`ReadVerseToVerse` to `ReadChapter`: what the action matches is what the part means.  A
part of any other shape has two chapters in a row, or three points, and cannot be read
(`OtherUnreadable`).  `MatchRight` and `FailRight` go on to the next section or the
next character.

The result.  Sizes are numbers, and so are sums of them (`SumIsNumber`), so that
there is a least one; each character of a template is one that may be between two
numbers (`TemplateChars`), so that of readings of equal size there is a first one.
`Choose` takes it (`ChosenInv`), and the readings it takes it from are all there are
(`ReadInv`).

A citation, of any verses of any table, with numbers of any number of digits
(`CharactersAssumption`, `CitationsAssumption`).  `Plan` says where in a text the
numbers stand and which character follows each; a text `Spells` numbers and characters
if there is a plan of it.  A numeral spells its number (`OneNumber`, and `ValueIs` for
the value of its digits), two texts with a sign between them spell the numbers of both
(`JoinSpells`), and so does each citation (`CitationSpells`, `TwoSpell`).  Nothing in
such a text is taken out of it (`NothingNormalized`), the first places of its numbers
are counted (`CountPlaces`), and so the template of it is what it spells
(`TemplateOfSpelled`).  After a name all of it is taken as the numbers of that name,
and no other name is found there, for it would be part of the first and so earlier in
the list (`NameIsFound`); `TakenInv` says that the template in the state is that one.
With "," between chapter and verse it is read as it was written (`OneReads`,
`TwoRead`).  Of a single range there is no other reading.  Two ranges can be read with
";" too: then they are a whole chapter, which has at least the verses of the first
range (`ChapterIsLarger`), something in between, and a range of another chapter that
has as many verses as the second one (`AsManyVerses`).  That is at least one verse
more (`CommaIsSmaller`), so that `Choose` takes the other reading.

The recursive functions in this (`normalize_passage_text`, the sum of the community
modules) are shown to exist, and to have values of their kind, by a least
counterexample (`PassageIsSequence`, `SumIsNumber`, `SumRecurs`).

### FindReferences

| theorem | states |
|---|---|
| `ReferenceUnderCursor` | `Spec => []FoundUnderCursor` |
| `ValidAreaIsWhole` | `Spec => []ValidIsWhole` |
| `WholeReferenceFound` | `Spec => []WholeFound` |
| `SearchTypeCorrect` | `Spec => []FRTypeOK` |
| `AreasShowMore` | `Spec => []AreasGrow` |

for a page of any size, characters of any size and distance, any window and any
cursor in it, from `PageAssumption`, the second and third also from `LayoutAssumption`.  `FRInv` says that the image that is parsed is
the one of the first area that is left.  A character under the cursor is nearer
to it than any other (`NearestOfAll`, from `CenterNearest` along each axis); it is
whole in the image if the paragraph of those that are contains the cursor
(`UnderCursorSeen`: the hull of boxes in rows and columns has no partial ones),
so that `data.index` is this character (`ReadAtCursor`), and a citation contains
the character it was looked up at (`CitedThere`).  A cursor on the left border of
a character is as far from its center as from that of the one before, and
`min_distance_index` takes the first: `OnCharacter` excepts it.

What a valid area cites is what the page cites (`ValidCitation`).  The margins that
`is_valid_capture_area` asks for put the neighbours of each cited character into the
image, and the first character of the next line if the citation is not over before
it (`ValidMargins`).  A citation with its neighbours seen is the same in all of the
text (`CitationSame`; two citations do not overlap, `CitedOnce`, so that it does not
matter which are seen besides it).  And the seen character that is nearest to the
cursor is the nearest of all, if the line of the cursor is seen and this character
has neighbours (`NearestInText`).  The last area is the window, which shows all
of the text (`WindowShowsAll`); so a search in which nothing goes wrong and no area is
valid ends with the whole citation.  `WholeInv` says so of the areas that are left.

`AreasInv` is about the list of areas: each part of the window around the cursor
contains the one before, since a common part with a larger rectangle is larger
(`CommonPart`, `AroundGrows`, `AreasNest`).

### Library

| theorem | states |
|---|---|
| `CountersCount` | `Spec => []NeverUndercounts` |
| `LookupShowsRange` | `Spec => []PagesCoverRange` |
| `MenuCallsEntries` | `Spec => []MenuCallsChosen` |
| `OperationsProtected` | `Spec => []ArithmeticProtected` |
| `RectanglesAreTheirPoints` | `Spec => []RectAgrees` |
| `PicturesUpright` | `Spec => []PictureUpright` |
| `NamesAreWhole` | `Spec => []WholeNameFirst` |

The counters, for any counters and any finite set of objects (`CounterAssumption`):
`CounterInv` says that a counter tells enough, with the types of the variables; a step
changes one object or two, and `TallyAfter` says by how much the number of holders
changes then.  `EndInv` is about their ends: a counter that tells 0 is held by nobody
(`ZeroIsFree`), nobody gets hold of it later (`StillFree`), and so the first object
that uses a counter after its end uses one that did not end at 0 (`UseOfHeld`).

The pages of a lookup, for any table of verses, any ranges in it
(`RangesAssumption`), any lists of translations (`TranslationsAssumption`) and any
failures: `PagesInOrder`, `PagesInRange` and `PagesShowAll` are the three things a list
of pages is to be, `TriedPages` says that the first failure ends it, and `NamesInTurn`
that the names in a page are those of the translations that have one, in their turn.  The menu, of any size:
`MenuInv` says that it is what `construct` makes of the entries as they are, from
some first id; ids of a `construct` differ since places are visited in an order
(`NumbersDiffer`), and a toggle is as its callback was told last.

Arithmetic, for integers of every width, where TLC has up to five bits: a result
`Fits` if it is the exact one, or the error that says where it would be.  Sums,
differences and quotients do (`AddFits`, `DivideFits`), and so do products but for those
`NextToLimit` and `IncrementWraps` name (`UnsignedFits`, `SignedFits`, from `Multiples`: a factor is not above a
quotient if its product is not above the dividend); what fits can be undone
(`FitsUndone`, `QuotientOfProduct`).  `TypesAssumption` is that a width is positive and that
2^n is the double of 2^(n-1), which is true of every n, but would take induction.

Rectangles, for integers of every width: what the constructor makes has the sides it was
asked for, an end that is no value being at 0 (`RectSides`), and as many points; and where
the ends are values it makes what has an area (`RectMade`; it multiplies width and height again, and since what `multiply()`
lets through by mistake has wrapped around, it is not the area, `AreaComputed`); the
points of a rectangle are counted (`NumberOfPoints`), common and contained points are
compared with `overlap()` and `contains()` (`OverlapAgrees`, `ContainsAgrees`), and a
rectangle is found again in a picture (`MovedInside`).  Where two of them are compared,
`CoordinatesAssumption` is that they are so far from the limits of a signed type that
distances and areas fit.

Pictures, of every size (`PicturesAssumption`: of one pixel at least, with a byte for each
colour at least), where the rows of the device are not padded: `RowOf` and `AtPlace` say
that a place in a row of equal parts is the only one, so `ByteOfPixel` finds the byte of a
colour in the buffer, `CaptureShows` the pixel in the picture, upper line first, and `SeenUpright` and
`FileShows` what tesseract and the file have of it.

Names, for all lists of characters and of names (`CharactersAssumption`: no character of a
list begins another one; `NamesAssumption`) and whatever tesseract found (`ListsAssumption`:
symbols that do not begin inside a character, confidences that are not negative).  What a
search for a name does with the characters, one after the other, is a run of steps, which
exists (`StepsExist`, `MatchRuns`); `ReadBy` is what it leaves of each character: its symbol
and the rest of the name.  So the symbols spell the name (`MatchSpelled`), and two matches
that agree on the places of the shorter one are read from the same beginning, and the
longer one has the confidence of the shorter one and of what it has more (`PartIsLater`).
A symbol has the characters that stand in the text, because no other one begins inside
them and the next symbol does not continue the last one (`SameCharInfo`, `CharsOfPart`,
`CharsAreKept`); and a byte before the nearest one that belongs to the same character would
be as near (`CursorAtCharacter`).  Sequences are flattened step by step (`FlattenIs`), and
what would be an induction over a text goes up or down its places (`UpTo`, `DownTo`,
from the least counterexample).

`TypeOK`, `AWTypeOK`, `MLTypeOK`, `TPTypeOK`, `BRTypeOK`, `FRTypeOK`, `AreasGrow`,
`TaskExclusion`, `OneCopy` and `NewBookRepairs` are stated by theorems only; no run
repeats them.

*Model-checked only*: `PrintedIsFound` of Library, which is about what is printed and
cited with the real tables, whose names are characters the provers would have to
compare one by one; and all liveness, since fairness and ENABLED are out of the prover's
reach (`DtorEnds`, `EveryTaskServed`, `ShutdownReturns`, `AcceptedTaskRuns`,
`ShutdownEnds`, `ExitEndsLoop`, `ExitEndsProgram`, `RegistrationServed`).

## 5. What is not modelled

`PROJECT.json` lists every component with its status.

* The recognition of characters is tesseract's, the image library leptonica's,
  the icon, windows and messages are Windows'; they appear as what they may
  return.  Of the tray library and magic_enum the parts the program runs are
  modelled, of the other vendored libraries nothing.
* `log` is output through spdlog under one mutex, and no state depends on it.
* `meta` is computed by the compiler and leaves no state.
* Floating-point arithmetic: TLC has none, and no caller of `math` uses it.
* `txt/indexed_strings`, which maps lines to positions, and the text of a URL or
  a message.
* `signals`, a wrapper of boost connections, and `scoped_guard`, whose
  call is the step of Application it stands for.
* The queueing of a search is in ThreadPool and Application, the search itself in
  FindReferences; the settings a search reads are in Settings.  No module
  composes the three: a search reads its settings once and is alone on its
  strand, which is what `StrandInOrder` says.

The memory order of the atomics is sequentially consistent in the
code, and in the model.

## 6. What could come next

1. Strands in AbstractPool, so that FindReferences can be composed with the
   program, and two searches of one cursor compared.
