---------------------------- MODULE ConsoleViews ----------------------------
(***************************************************************************)
(* A console in one process: its store (ConsoleStore), the windows that    *)
(* show it (win_console.c) and the composition of frames (platform_sdl.c). *)
(* What users and the network do changes the store; notify() lets every    *)
(* view, in the order of subscription, mark what it has to redraw; a frame *)
(* redraws the caches of the windows and copies the damaged part of them   *)
(* to the screen.                                                          *)
(***************************************************************************)
EXTENDS ConsoleStore

CONSTANTS
  Views,      \* number of views; view v has the prompt of user v
  Rows,       \* history_rows of a view
  MaxDamage,  \* MAX_DAMAGE, how many rectangles one frame can hold
  Here,       \* actor_id of this process's sink
  There,      \* actor_id of a sink elsewhere
  MaxOps      \* MaxOps[kind]: bound on what happens, by kind

ASSUME ViewsAssumption ==
  /\ Views \in Nat \ {0} /\ 1 .. Views \subseteq Users
  /\ Rows \in Nat \ {0}
  /\ MaxDamage \in Nat \ {0}
  /\ {Here, There} \subseteq Nat \ {0} /\ Here # There

VARIABLES
  store,   \* the ConsoleStore
  view,    \* view[v]: what the ConsoleViewState of v knows of its redraw
  cache,   \* cache[v][row]: what is drawn in the cache of v's window
  screen,  \* screen[v][row]: what the user sees of it
  damage,  \* the cells of the frame's damage list, and its length
  log,     \* the entries ever added, in that order
  spent    \* spent[kind]: how much of MaxOps has happened

vars == <<store, view, cache, screen, damage, log, spent>>

RowSet == 0 .. Rows - 1
Strip == Rows                 \* the band of the prompt, below the rows
Cells == RowSet \cup {Strip}
ViewSet == 1 .. Views
Kinds == {"local", "remote", "answer", "redelivery", "message", "prompt"}

Frame(v) == {v} \X Cells
Blank == [id |-> NoId, type |-> "free", val |-> 0]

Init ==
  /\ store = EmptyStore
  /\ view = [v \in ViewSet |->
       [laidOut |-> FALSE, rowIds |-> [r \in RowSet |-> NoId], mask |-> {},
        full |-> TRUE, invalid |-> TRUE]]
  /\ cache = [v \in ViewSet |-> [c \in Cells |-> Blank]]
  /\ screen = [v \in ViewSet |-> [c \in Cells |-> Blank]]
  /\ damage = [cells |-> UNION {Frame(v) : v \in ViewSet}, n |-> 1]
  /\ log = <<>>
  /\ spent = [k \in Kinds |-> 0]

-----------------------------------------------------------------------------
(* What a view shows *)

(* layout_compute: the last Rows entries *)
StartIndex(st) == IF st.count > Rows THEN st.count - Rows ELSE 0

(* s_draw_history_row over a fresh store *)
RowOf(st, row) ==
  LET i == StartIndex(st) + row
  IN  IF i < st.count
      THEN [id |-> Shown(st, i).id, type |-> Shown(st, i).type, val |-> Shown(st, i).val]
      ELSE Blank

(* The prompt of v and who else is typing *)
StripOf(st, v) ==
  [own |-> st.prompts[v].len,
   others |-> [u \in Users \ {v} |->
                 IF st.prompts[u].nonempty THEN st.prompts[u].edits ELSE 0]]

Content(st, v) ==
  LET fresh == Fresh(st)
  IN  [c \in Cells |-> IF c = Strip THEN StripOf(st, v) ELSE RowOf(fresh, c)]

-----------------------------------------------------------------------------
(* w is what a handler works on: the store st, the views and the damage.   *)

(* Mutant: a full list takes one more. *)
DamagedPastEnd(w, cells) ==
  IF w.damage.n <= MaxDamage
  THEN [w EXCEPT !.damage = [cells |-> @.cells \cup cells, n |-> @.n + 1]]
  ELSE w

(* damage_add of one rectangle; a full list drops it *)
Damaged(w, cells) ==
  IF w.damage.n < MaxDamage
  THEN [w EXCEPT !.damage = [cells |-> @.cells \cup cells, n |-> @.n + 1]]
  ELSE w

(* wm_window_invalidate *)
Invalidated(w, v, cells) == Damaged([w EXCEPT !.view[v].invalid = TRUE], cells)

(* ensure_layout with layout_rebuild_cache *)
LaidOut(w, v) ==
  LET st == Fresh(w.st)
  IN  IF w.view[v].laidOut /\ ~w.view[v].full THEN w
      ELSE [w EXCEPT
              !.st = st,
              !.view[v].laidOut = TRUE,
              !.view[v].full = FALSE,
              !.view[v].rowIds = [r \in RowSet |-> RowOf(st, r).id]]

(* cached_find_row_by_id *)
RowsWith(w, v, id) ==
  LET rows == {r \in RowSet : w.view[v].rowIds[r] = id}
  IN  IF rows = {} THEN {} ELSE {Least(rows)}

(* mark_row_dirty *)
Marked(w, v, rows) ==
  IF rows = {} THEN w
  ELSE Invalidated([w EXCEPT !.view[v].mask = @ \cup rows], v, {v} \X rows)

(* on_store_changed of view v *)
Seen(w, v) ==
  LET ids == w.st.changes
      drained == [w EXCEPT !.st = Drained(@)]
      marked[n \in 0 .. Len(ids)] ==
        IF n = 0 THEN LaidOut(drained, v)
        ELSE Marked(marked[n - 1], v, RowsWith(marked[n - 1], v, ids[n]))
  IN  IF w.st.all
      THEN Invalidated([drained EXCEPT !.view[v].laidOut = FALSE,
                                       !.view[v].mask = {},
                                       !.view[v].full = TRUE], v, Frame(v))
      ELSE IF ids = <<>> THEN Invalidated(drained, v, {<<v, Strip>>})
      ELSE marked[Len(ids)]

(* Mutant: only the first subscriber is called. *)
NotifyFirst(w) == Seen([w EXCEPT !.st.valid = FALSE], 1)

(* notify: the views in the order of their subscription *)
Notify(w) ==
  LET seen[v \in 0 .. Views] ==
        IF v = 0 THEN [w EXCEPT !.st.valid = FALSE] ELSE Seen(seen[v - 1], v)
  IN  seen[Views]

On(w, st) == [w EXCEPT !.st = st]

-----------------------------------------------------------------------------
(* Operations of the store, with their notify() where the code has it *)

(* con_store_append_line *)
AppendLine(w) ==
  LET told == Notify(On(w, Compacted(LineAppended(w.st))))
  IN  On(told, MarkAll(told.st))

(* con_store_insert_text_at, con_store_insert_widget_at: an id that is     *)
(* there is left alone; the compaction comes after notify().               *)
InsertAt(w, type, id, pos, val) ==
  LET told == Notify(On(w, Inserted(w.st, type, id, pos, val)))
  IN  IF HasId(w.st, id) THEN w ELSE On(told, Compacted(told.st))

(* con_store_widget_message that changes the widget *)
WidgetMessage(w, id, val) ==
  Notify(On(w, ChangesPush(WidgetSet(w.st, id, val), id)))

(* con_sink_insert_text_tail, con_sink_insert_widget_color: the position   *)
(* is behind the last entry.                                               *)
TailPos(st) == GenBetween(st, LastId(Fresh(st)), NoId, Here)

InsertTail(w, type, id, val) ==
  InsertAt(On(w, Fresh(w.st)), type, id, TailPos(w.st), val)

(* The event came through the window of v: the mouse raised the window, or *)
(* its handler left it invalid (input_route_mouse, input_route_text).      *)
Routed(w, v) == Invalidated(w, v, Frame(v))

-----------------------------------------------------------------------------
World == [st |-> store, view |-> view, damage |-> damage]

Become(w) ==
  /\ store' = w.st
  /\ view' = w.view
  /\ damage' = w.damage
  /\ UNCHANGED <<cache, screen>>

Spend(kind) ==
  /\ spent[kind] < MaxOps[kind]
  /\ spent' = [spent EXCEPT ![kind] = @ + 1]

Logged(type, id, pos) == Append(log, [type |-> type, id |-> id, pos |-> pos])
NewId(actor) == <<actor, Len(log) + 1>>

(* A key in the prompt of v *)
Type(v) ==
  /\ Spend("prompt")
  /\ \E st \in {PromptInserted(store, v), PromptErased(store, v)} :
       Become(Routed(Notify(On(World, st)), v))
  /\ UNCHANGED log

(* Enter in the prompt of v: con_sink_commit.  The answers of the          *)
(* processor to the line are AppendAnswer.                                 *)
Commit(v) ==
  /\ Spend("local")
  /\ LET id == NewId(Here)
         taken == Notify(On(World, PromptTaken(store, v)))
     IN  IF store.prompts[v].len = 0
         THEN Become(Routed(taken, v)) /\ UNCHANGED log
         ELSE /\ Become(Routed(InsertTail(taken, "text", id, 0), v))
              /\ log' = Logged("text", id, TailPos(taken.st))

(* A square dropped on v, con_sink_insert_widget_color, or a line, con_    *)
(* sink_commit_text_command, which leaves the window invalid               *)
Drop(v, type) ==
  /\ Spend("local")
  /\ LET id == NewId(Here)
         done == InsertTail(World, type, id, 0)
     IN  Become([done EXCEPT !.view[v].invalid = @ \/ type = "text"])
  /\ log' = Logged(type, NewId(Here), TailPos(store))

(* An insertion from another process, whose store may lack the latest      *)
(* entries of this one                                                     *)
RemoteInsert(type) ==
  /\ Spend("remote")
  /\ \E last \in {NoId} \cup {store.entries[s].id : s \in Live(store)} :
       LET id == NewId(There)
           pos == GenBetween(store, last, NoId, There)
       IN  /\ Become(InsertAt(World, type, id, pos, 0))
           /\ log' = Logged(type, id, pos)

(* An insertion that arrives again after the sink forgot that it had it    *)
Redeliver ==
  /\ Spend("redelivery")
  /\ \E i \in DOMAIN log :
       /\ log[i].id[1] # 0
       /\ Become(InsertAt(World, log[i].type, log[i].id, log[i].pos, 0))
       /\ log' = IF HasId(store, log[i].id) THEN log ELSE Append(log, log[i])

(* A line without a position: an answer of the processor, here or there    *)
AppendAnswer ==
  /\ Spend("answer")
  /\ Become(AppendLine(World))
  /\ log' = Logged("text", <<0, store.nextId>>, <<>>)

(* A delta for a widget arrives and wins. *)
RemoteMessage ==
  /\ Spend("message")
  /\ \E s \in Live(store) :
       /\ store.entries[s].type = "widget"
       /\ Become(WidgetMessage(World, store.entries[s].id, store.entries[s].val + 1))
  /\ UNCHANGED log

(* The user of v moves the slider in a row of v: on_event changes the      *)
(* widget, console_on_event notifies and damages the row.  The delta it    *)
(* publishes finds the value already set.                                  *)
Slide(v) ==
  /\ Spend("message")
  /\ \E row \in RowSet :
       LET st == Fresh(store)
           shown == RowOf(st, row)
           set == WidgetSet(st, shown.id, shown.val + 1)
       IN  /\ shown.type = "widget"
           /\ HasId(st, shown.id)
           /\ Become(Routed(Invalidated(Notify(On(World, set)), v, {<<v, row>>}), v))
  /\ UNCHANGED log

(* The prompt of a user of another process; it may have the id of one here *)
RemoteMeta ==
  /\ Spend("prompt")
  /\ \E u \in Users, nonempty \in BOOLEAN :
       Become(Notify(On(World, PromptMeta(store, u, nonempty))))
  /\ UNCHANGED log

-----------------------------------------------------------------------------
(* Frames *)

(* Mutant: a partial redraw forgets the prompt. *)
DrawnRowsOnly(st, v) ==
  LET now == Content(st, v)
      dirty == IF view[v].mask = {} THEN Cells ELSE view[v].mask
  IN  [c \in Cells |-> IF c \in dirty THEN now[c] ELSE cache[v][c]]

(* console_draw of v: every row, or those of dirty_rows_mask; a partial    *)
(* redraw leaves rows behind the last entry alone.                         *)
Drawn(st, v) ==
  LET now == Content(st, v)
      dirty == IF view[v].mask = {} THEN Cells
               ELSE {Strip} \cup
                    {r \in view[v].mask : StartIndex(st) + r < st.count}
  IN  [c \in Cells |-> IF c \in dirty THEN now[c] ELSE cache[v][c]]

(* Mutant: a frame without damage copies nothing. *)
CopiedDamage == damage.cells

(* What a frame copies to the screen.  The squares in the background never *)
(* stop moving, so a frame without damage shows the whole screen.          *)
Copied == IF damage.n = 0 THEN UNION {Frame(v) : v \in ViewSet} ELSE damage.cells

(* The windows a frame redraws first: invalid, and in what it copies *)
Redrawn == {v \in ViewSet : view[v].invalid /\ Frame(v) \cap Copied # {}}

(* plat_compose_and_present *)
Compose ==
  /\ \E fresh \in {Fresh(store)} :
       /\ store' = IF Redrawn = {} THEN store ELSE fresh
       /\ view' = [v \in ViewSet |->
            IF v \in Redrawn
            THEN [LaidOut(On(World, fresh), v).view[v] EXCEPT !.invalid = FALSE, !.mask = {}]
            ELSE view[v]]
       /\ cache' = [v \in ViewSet |-> IF v \in Redrawn THEN Drawn(fresh, v) ELSE cache[v]]
  /\ screen' = [v \in ViewSet |-> [c \in Cells |->
       IF <<v, c>> \in Copied THEN cache'[v][c] ELSE screen[v][c]]]
  /\ damage' = [cells |-> {}, n |-> 0]
  /\ UNCHANGED <<log, spent>>

-----------------------------------------------------------------------------
Next ==
  \/ \E v \in ViewSet : Type(v) \/ Commit(v) \/ Slide(v)
  \/ \E v \in ViewSet, type \in {"text", "widget"} : Drop(v, type)
  \/ \E type \in {"text", "widget"} : RemoteInsert(type)
  \/ Redeliver
  \/ AppendAnswer
  \/ RemoteMessage
  \/ RemoteMeta
  \/ Compose

(* Main's loop composes a frame again and again. *)
Spec == Init /\ [][Next]_vars /\ WF_vars(Compose)

-----------------------------------------------------------------------------
(* Properties *)

(* Every part of the state has its form: the ring stays within its bounds, *)
(* and a view knows an item id for each of its rows.                       *)
TypeOK ==
  /\ store.head \in Slots /\ store.count \in 0 .. BufLines
  /\ \A s \in Slots : store.order[s] \in Slots
  /\ Len(store.changes) <= ChangesMax
  /\ \A s \in Live(store) : store.entries[s].type # "free"
  /\ \A u \in Users : store.prompts[u].len \in 0 .. MaxLine
  /\ \A v \in ViewSet : view[v].mask \subseteq RowSet
  /\ damage.n \in 0 .. MaxDamage

Ids(seq) == [i \in DOMAIN seq |-> seq[i].id]

(* The ring without its snapshots, oldest entry first *)
Ring ==
  LET kept[n \in 0 .. store.count] ==
        IF n = 0 THEN <<>>
        ELSE LET e == store.entries[Slot(store, n - 1)]
             IN  IF e.type = "snapshot" THEN kept[n - 1] ELSE Append(kept[n - 1], e)
  IN  kept[store.count]

(* What the store still holds is what was added last, in the order of      *)
(* arrival: neither the compaction nor a full ring loses an entry while an *)
(* older one stays.                                                        *)
NewestStay ==
  LET n == Len(Ring)
      k == Len(log)
  IN  n <= k /\ Ids(Ring) = Ids(SubSeq(log, k - n + 1, k))

(* No entry is in the store twice, whatever is delivered again.            *)
NoTwins ==
  \A s, t \in Live(store) : store.entries[s].id = store.entries[t].id => s = t

(* Entry s is displayed behind all entries of st but snapshots.            *)
Hindmost(st, s) ==
  \A t \in Live(st) \ {s} : st.entries[t].type = "snapshot" \/ Before(st, t, s)

(* A line, an answer or a widget was put at the tail of the store.         *)
PutAtTail ==
  /\ Len(log') = Len(log) + 1
  /\ log'[Len(log')].id[1] # There
  /\ spent'["redelivery"] = spent["redelivery"]

LandsLast ==
  \A s \in Live(store)' : store'.entries[s].id = log'[Len(log')].id => Hindmost(store', s)

(* The order of st is its true order whenever it counts as valid.          *)
OrderKnown(st) ==
  st.valid => \A i \in 1 .. st.count - 1 : Before(st, st.order[i - 1], st.order[i])

(* What is put at the tail is displayed last, as long as a compaction left  *)
(* no stale order, there is room behind the last position and the ring is  *)
(* not full.                                                               *)
TailIsLastWithRoom ==
  [][/\ PutAtTail
     /\ OrderKnown(store)
     /\ store.count < BufLines
     /\ Room(PosOf(store, LastId(Rebuilt(store)), Leftmost), Rightmost) # {}
     => LandsLast]_vars

(* A window that is not to be redrawn has its prompt, and who else is      *)
(* typing, as they are.                                                    *)
StripFresh ==
  \A v \in ViewSet : ~view[v].invalid => cache[v][Strip] = StripOf(store, v)

(* A view behind the first subscriber never hears what changed, and is     *)
(* redrawn as a whole.                                                     *)
LaterViewsFresh ==
  \A v \in ViewSet \ {1} : ~view[v].invalid => cache[v] = Content(store, v)

(* The screen comes to show the later views as they are, and the cache of  *)
(* the first one: frames without damage make good what the views did not   *)
(* damage and what a full damage list dropped.                             *)
ScreenCatchesUp ==
  <>[](\A v \in ViewSet : /\ screen[v] = cache[v]
                          /\ v # 1 => screen[v] = Content(store, v))
=============================================================================
