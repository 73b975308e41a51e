---------------------------- MODULE ConsoleStore ----------------------------
(***************************************************************************)
(* The store of a console (src/src/apps/console_store.c) as operators on   *)
(* its state: a ring of entries, the order in which they are displayed,    *)
(* the queue of changes for incremental redraw, and the users' prompts.    *)
(* notify() also calls the subscribed views; that part is ConsoleViews'.   *)
(***************************************************************************)
EXTENDS LogootPos, FiniteSets

CONSTANTS
  BufLines,     \* CON_BUF_LINES
  KeepLast,     \* CON_SNAPSHOT_KEEP_LAST
  MinDrop,      \* CON_SNAPSHOT_MIN_DROP
  ChangesMax,   \* CON_STORE_CHANGES_MAX
  MaxLine,      \* CON_MAX_LINE - 1, what a prompt holds
  Users         \* ids of the users, 0 .. CON_MAX_USERS - 1

ASSUME StoreAssumption ==
  /\ BufLines \in Nat \ {0}
  /\ KeepLast \in Nat \ {0}
  /\ MinDrop \in Nat \ {0}
  /\ ChangesMax \in Nat \ {0}
  /\ MaxLine \in Nat

(* An item id is actor << 32 | number; a store's own ids have no actor.    *)
NoId == <<0, 0>>
IdLess(i, j) == i[1] < j[1] \/ (i[1] = j[1] /\ i[2] < j[2])

Slots == 0 .. BufLines - 1

(* val: the value of a widget, the dropped_count of a snapshot.            *)
Free == [type |-> "free", id |-> NoId, pos |-> <<>>, val |-> 0]
Entry(type, id, pos, val) == [type |-> type, id |-> id, pos |-> pos, val |-> val]

(* con_store_create *)
EmptyStore ==
  [entries |-> [s \in Slots |-> Free],
   head    |-> 0,
   count   |-> 0,
   order   |-> [s \in Slots |-> 0],
   valid   |-> FALSE,
   nextId  |-> 1,
   changes |-> <<>>,
   all     |-> FALSE,
   prompts |-> [u \in Users |-> [len |-> 0, edits |-> 0, nonempty |-> FALSE]]]

-----------------------------------------------------------------------------
(* The ring and its order *)

Slot(st, i) == (st.head + i) % BufLines
Live(st) == {Slot(st, i) : i \in 0 .. st.count - 1}

(* Mutant: the scan misses the oldest entry. *)
HasIdBehindHead(st, id) == \E s \in Live(st) \ {st.head} : st.entries[s].id = id

(* has_id *)
HasId(st, id) == \E s \in Live(st) : st.entries[s].id = id

(* find_phys_by_id, for the position of an entry; absent without the id *)
PosOf(st, id, absent) ==
  IF id # NoId /\ HasId(st, id)
  THEN st.entries[CHOOSE s \in Live(st) : st.entries[s].id = id].pos
  ELSE absent

(* cmp_order_by_pos_id *)
Before(st, s, t) ==
  LET e == st.entries[s]
      f == st.entries[t]
  IN  PosLess(e.pos, f.pos) \/ (e.pos = f.pos /\ IdLess(e.id, f.id))

(* rebuild_order, its qsort as an insertion sort: with distinct ids there  *)
(* is one result.  The slots of order beyond count keep what they had.     *)
Rebuilt(st) ==
  LET sorted[n \in 0 .. st.count] ==
        IF n = 0 THEN <<>>
        ELSE LET s == Slot(st, n - 1)
                 rest == sorted[n - 1]
                 p == Cardinality({i \in 1 .. n - 1 : Before(st, rest[i], s)})
             IN  SubSeq(rest, 1, p) \o <<s>> \o SubSeq(rest, p + 1, n - 1)
      order == sorted[st.count]
  IN  [st EXCEPT !.order = [i \in Slots |-> IF i < st.count THEN order[i + 1] ELSE @[i]],
                 !.valid = TRUE]

(* Every getter of an existing entry rebuilds an order that is not valid.  *)
Fresh(st) == IF st.valid \/ st.count = 0 THEN st ELSE Rebuilt(st)

(* The entry displayed at index i, as the getters of a fresh store give it *)
Shown(st, i) == st.entries[st.order[i]]

(* con_store_last_id of a fresh store *)
LastId(st) == IF st.count = 0 THEN NoId ELSE Shown(st, st.count - 1).id

(* con_store_gen_between *)
GenBetween(st, left, right, actor) ==
  Between(PosOf(st, left, Leftmost), PosOf(st, right, Rightmost), actor)

-----------------------------------------------------------------------------
(* Changes for incremental redraw *)

(* changes_mark_all *)
MarkAll(st) == [st EXCEPT !.all = TRUE]

(* changes_push *)
ChangesPush(st, id) ==
  IF st.all THEN st
  ELSE IF Len(st.changes) < ChangesMax
  THEN [st EXCEPT !.changes = Append(@, id)]
  ELSE MarkAll(st)

(* con_store_drain_changes leaves an empty queue *)
Drained(st) == [st EXCEPT !.changes = <<>>, !.all = FALSE]

-----------------------------------------------------------------------------
(* Adding entries *)

NextSlot(st) == Slot(st, st.count)

(* Mutant: a full ring forgets to move its head. *)
GrownInPlace(st) ==
  IF st.count < BufLines THEN [st EXCEPT !.count = @ + 1] ELSE st

(* A full ring gives up its head. *)
Grown(st) ==
  IF st.count < BufLines THEN [st EXCEPT !.count = @ + 1]
  ELSE [st EXCEPT !.head = (@ + 1) % BufLines]

(* An entry of the store's own at the tail.  The slot is freed and gets    *)
(* its id before the last entry is looked up, and in a full ring the slot  *)
(* is the head: it is still counted, with an empty position.               *)
AtTail(st, type, val) ==
  LET slot == NextSlot(st)
      own == <<0, st.nextId>>
      seen == Fresh([st EXCEPT !.entries[slot] = Entry(type, own, <<>>, val),
                               !.nextId = @ + 1])
  IN  Grown([seen EXCEPT
               !.entries[slot].pos = GenBetween(seen, LastId(seen), NoId, 0)])

(* How many entries maybe_compact_tail drops from the head *)
Dropped(st) ==
  LET Stops(d) == \/ st.count - d <= KeepLast
                  \/ st.entries[Slot(st, d)].type = "widget"
  IN  CHOOSE d \in 0 .. st.count : Stops(d) /\ \A e \in 0 .. d - 1 : ~Stops(e)

(* maybe_compact_tail; the order is not invalidated, and it is rebuilt     *)
(* for the snapshot's position only when it was not valid before.          *)
Compacted(st) ==
  LET drop == Dropped(st)
      gone == {Slot(st, i) : i \in 0 .. drop - 1}
      cut == [st EXCEPT
                !.entries = [s \in Slots |-> IF s \in gone THEN Free ELSE @[s]],
                !.head = Slot(st, drop),
                !.count = @ - drop]
  IN  IF st.count < BufLines - 2 THEN st
      ELSE IF drop < MinDrop THEN cut
      ELSE MarkAll(AtTail(cut, "snapshot", drop))

(* append_line_internal *)
LineAppended(st) == MarkAll(AtTail(st, "text", 0))

(* con_store_insert_text_at and con_store_insert_widget_at up to notify()  *)
Inserted(st, type, id, pos, val) ==
  MarkAll(Grown([st EXCEPT !.entries[NextSlot(st)] = Entry(type, id, pos, val)]))

(* A widget that took a message, or the user's mouse: con_store_widget_    *)
(* message up to notify().                                                 *)
WidgetSet(st, id, val) ==
  LET s == CHOOSE t \in Live(st) : st.entries[t].id = id
  IN  [st EXCEPT !.entries[s].val = val]

-----------------------------------------------------------------------------
(* Prompts, up to notify() *)

(* con_store_prompt_insert of one character *)
PromptInserted(st, u) ==
  LET n == IF st.prompts[u].len < MaxLine THEN st.prompts[u].len + 1
           ELSE st.prompts[u].len
  IN  [st EXCEPT !.prompts[u] =
         [len |-> n, edits |-> @.edits + 1, nonempty |-> n > 0]]

(* con_store_prompt_backspace *)
PromptErased(st, u) ==
  LET n == IF st.prompts[u].len > 0 THEN st.prompts[u].len - 1 ELSE 0
  IN  [st EXCEPT !.prompts[u] =
         [len |-> n, edits |-> @.edits + 1, nonempty |-> n > 0]]

(* con_store_prompt_take *)
PromptTaken(st, u) ==
  [st EXCEPT !.prompts[u].len = 0, !.prompts[u].nonempty = FALSE]

(* con_store_prompt_apply_meta *)
PromptMeta(st, u, nonempty) ==
  [st EXCEPT !.prompts[u].edits = @ + 1, !.prompts[u].nonempty = nonempty]
=============================================================================
