------------------------------ MODULE TrayMenu ------------------------------
(***************************************************************************)
(* The menu of the tray: tray::init (src/bibstd/system/tray_windows.hpp)   *)
(* adds its entries one by one, and the tray library (src/libs_external/   *)
(* traypp/tray/) makes the menu anew each time, with new ids, and again    *)
(* when a toggle was chosen.  All of it is done by the tray's own thread;  *)
(* see TrayIcon for the messages.                                          *)
(*                                                                         *)
(* Windows is external: it shows the menu, tells the id of the item the    *)
(* user chooses, and finds an item by its id.                              *)
(***************************************************************************)
EXTENDS Naturals, Sequences, FiniteSets, FiniteSetsExt

CONSTANTS MaxEntries, MaxChoices   \* bounds of a run

ASSUME MenuAssumption == MaxEntries \in Nat /\ MaxChoices \in Nat

VARIABLES
  entries,        \* the entries, a submenu with its own
  menu,           \* the items of the menu and its submenus
  last_id,        \* id, which is static
  update_failed,  \* an update() has thrown
  callbacks       \* what was called so far, and which entry the user meant

menu_vars == <<entries, menu, last_id, update_failed, callbacks>>

Kinds == {"button", "label", "separator", "toggle"}
Entry(kind, state) == [kind |-> kind, toggled |-> state, initial |-> state, entries |-> << >>]

\* The places of the entries: <<i, 0>> is that of an entry of the menu, and <<i, j>> that of
\* an entry of the submenu <<i, 0>>.
PlacesOf(list) == UNION {{i} \X (0 .. Len(list[i].entries)) : i \in DOMAIN list}
EntryAt(list, place) ==
  IF place[2] = 0 THEN list[place[1]] ELSE list[place[1]].entries[place[2]]

\* The entries are visited in their order, those of a submenu after the submenu.
Visited(p, q) == p[1] < q[1] \/ (p[1] = q[1] /\ p[2] <= q[2])
Number(list, place) == Cardinality({p \in PlacesOf(list) : Visited(p, place)})

Item(id, place, entry) ==
  [id |-> id, place |-> place, kind |-> entry.kind,
   checked |-> entry.kind = "toggle" /\ entry.toggled,
   disabled |-> entry.kind = "label"]

\* Variant of construct: a submenu has the ids of the menu it is in.
ConstructEachFromOne(list, id) ==
  {Item(id + (IF place[2] = 0 THEN place[1] ELSE place[2]), place, EntryAt(list, place)) :
     place \in PlacesOf(list)}

\* The ids go on where those of the menu before ended.
construct(list, id) ==
  {Item(id + Number(list, place), place, EntryAt(list, place)) : place \in PlacesOf(list)}

\* The entries change, and the menu is made anew; then Windows may refuse the change, and
\* update() throws.  Thrown out of init() the exception ends the task that would read the
\* messages, and main() waits for it for ever; thrown out of wndProc it passes through
\* Windows, which is not defined.  Either way nothing more is said here.
update(list) ==
  /\ ~update_failed
  /\ entries' = list
  /\ menu' = construct(list, last_id)
  /\ last_id' = last_id + Cardinality(PlacesOf(list))
  /\ update_failed' \in BOOLEAN

MenuInit == entries = << >> /\ menu = {} /\ last_id = 0 /\ update_failed = FALSE /\ callbacks = << >>

AddEntry ==
  /\ callbacks = << >> /\ Cardinality(PlacesOf(entries)) < MaxEntries
  /\ \E kind \in Kinds \cup {"submenu"}, state \in BOOLEAN :
       /\ state => kind = "toggle"
       /\ update(Append(entries, Entry(kind, state)))
  /\ UNCHANGED callbacks

\* An entry of the submenu that was added last.
AddSubmenuEntry ==
  /\ callbacks = << >> /\ Cardinality(PlacesOf(entries)) < MaxEntries
  /\ entries # << >> /\ entries[Len(entries)].kind = "submenu"
  /\ \E kind \in Kinds, state \in BOOLEAN :
       /\ state => kind = "toggle"
       /\ update([entries EXCEPT ![Len(entries)].entries = Append(@, Entry(kind, state))])
  /\ UNCHANGED callbacks

\* GetMenuItemInfo: the items that have an id.
ItemsOf(id) == {item \in menu : item.id = id}

\* What the user can choose.
Choosable(item) == ~item.disabled /\ item.kind \notin {"separator", "submenu"}

\* onToggled(): the state of the toggle at a place is turned.
Turned(list, place) ==
  IF place[2] = 0 THEN [list EXCEPT ![place[1]].toggled = ~@]
  ELSE [list EXCEPT ![place[1]].entries[place[2]].toggled = ~@]

\* clicked() or onToggled(): the callback of the entry an id stands for is called, and
\* hands a task to the pool.
ClickItem ==
  /\ Len(callbacks) < MaxChoices
  /\ \E item \in menu : \E found \in ItemsOf(item.id) :
       LET entry == EntryAt(entries, found.place)
           call(flag) == Append(callbacks, [meant |-> item.place, called |-> found.place, flag |-> flag])
       IN  /\ Choosable(item)
           /\ \/ /\ entry.kind = "button"
                 /\ callbacks' = call(FALSE)
                 /\ ~update_failed /\ UNCHANGED <<entries, menu, last_id, update_failed>>
              \/ /\ entry.kind = "toggle"
                 /\ callbacks' = call(~entry.toggled)
                 /\ update(Turned(entries, found.place))

MenuNext == AddEntry \/ AddSubmenuEntry \/ ClickItem

-----------------------------------------------------------------------------
\* The calls of the callback of the entry at a place.
CallsOf(place) == {n \in DOMAIN callbacks : callbacks[n].called = place}

\* The entry that is called is the one the user meant, however often the menu was made
\* anew; and a toggle is shown with a mark if and only if its callback was told so last,
\* or was never called and it began with one.
MenuCallsChosen ==
  /\ \A n \in DOMAIN callbacks : callbacks[n].called = callbacks[n].meant
  /\ \A item \in menu : item.kind = "toggle" =>
       item.checked = IF CallsOf(item.place) = {} THEN EntryAt(entries, item.place).initial
                      ELSE callbacks[Max(CallsOf(item.place))].flag
=============================================================================
