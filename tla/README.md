# A TLA+ model of Cross WM's replicated console

Cross WM (`src/`, C, SDL) is a small window manager whose windows show a
*console*: a log of lines and widgets that several processes share. A process
is single-threaded; `main.c` runs one loop (SDL events, animations,
composition, `loop_hook_run_end_of_frame`, which ticks the network poller).
What is hard in it is therefore not threads. It is callbacks that call back
into the component that is calling them, sockets that are ready for half a
packet, several processes that talk at once, and tables that are full.

This directory holds TLA+ modules for the parts where that matters, TLC
configurations that check them on small instances, and proofs of the theorems
that hold on every instance. `PROJECT.json` maps every definition to the lines
it models, and lists the hazards of the code with the properties that guard
against them.

## The system and its parts

| Part | State | Operations | Talks to |
|---|---|---|---|
| Console window, prompt (`apps/win_console.c`, `console_prompt.c`) | edit state, layout cache, view | key and mouse input, redraw, drain of changes | sink, store |
| Console processor (`apps/console_processor*.c`) | indices of backends, echo component | a command line: answers, widgets, hub and network commands | sink, hub, backends |
| Console sink (`apps/console_sink.c`) | pending and applied operation ids, clock, cached blobs | speculative application, publication, confirmation | store, processor, hub |
| Console store (`apps/console_store.c`) | entries with positions, queue of changes, prompts | append, insert between, compaction, widget messages | views (callbacks), widgets |
| Colour widget (`apps/widget_color.c`) | value, clock and actor of the last write | message, mouse event | sink |
| Replication hub (`replication/hub.c`) | one route per topic: backend, callback, policy, buffer of a switch | publish, set/unset listener, requirements, pin, soft switch | backends, sink (callback), type registry |
| Policy (`replication/repl_policy_default.c`) | none | choice of a backend | hub |
| Local loop (`backends/local_loop.c`) | listeners | publish = call the listeners | hub |
| TCP leader (`backends/leader_tcp.c`) | listeners, table of clients, handshakes | accept, handshake, retransmit, publish | framing, poller |
| TCP client (`backends/client_tcp.c`) | connection state, buffer of publications | connect, handshake, publish, disconnect | framing, poller |
| CRDT mesh (`backends/crdt_mesh.c`) | peers, deduplication table, topics | dial, accept, flood | framing, poller, type registry |
| COW1 framing (`net/wire_tcp.c`, `conop_wire.c`) | output queue, partial frame | send, readiness callback | poller, backends (callback) |
| Poller (`net/net_posix.c`) | descriptors, deferred changes | add, mod, del, tick | everything on a socket |
| Type registry (`replication/type_registry.c`) | snapshot functions per type | register, look up | hub, mesh |
| Window manager (`core/wm.c`, `input.c`, `damage.h`, `loop_hooks.c`) | stacking order, focus, drag, damaged rectangles, hooks | add, raise, focus, drag, resize | windows |
| Echo component (`apps/echo_component.c`) | echo connections, unsent bytes | connect, echo | poller, sink |

An operation travels like this. A view gives a line to the sink. The sink
applies it to the store at once, remembers its id as pending and publishes it
to the hub. The hub chooses a backend for the topic and hands the operation
over. `local_loop`, the leader and the mesh call the listeners inside
`publish()`; the client sends the operation to its leader and calls them when
the leader's copy comes back. The listener is the hub's `hub_on_confirm`, which
calls the sink's `on_confirm`: an echo ends the speculation, a foreign
operation is applied, and a foreign command is run by the processor, whose
answer is published before the callback returns.

## What makes each part correct

* hub: a topic is heard on the backend of its route, through one entry, and
  nowhere else; what a soft switch buffers is handed over at most once and in
  order, and no buffer is left behind (`HandedOverOnce`, `BufferDrained`); a pin
  holds; the policy's scan returns the one best backend.
* TCP star: what is sent is what is heard, in order, whole and once, whatever
  the sockets do to packets; handshakes end; the echo of what was published
  comes back; every process hears one log.
* mesh: an operation reaches every connected process once and stops; the two
  ends of a connection agree on what was said since it came up.
* sink: own operations are applied once, foreign ones once per replica, echoes
  never; no foreign operation is taken for an echo; windows of remembered ids
  are long enough or the effect is known; a speculation ends.
* colour: replicas with the same deltas keep the same version, in whatever order
  they came and however the clocks go.
* store: a new position lies strictly between its neighbours, the newest
  entries stay and none is there twice, what is put at the tail is shown last.
* views: what the store has ends up on the screen in every view, whichever
  changes, redraws and frames come in between and however full the lists are.
* window manager: what is seen is what is hit, there is a window everywhere, a
  gesture belongs to the raised window and ends with its press, what a step
  uncovers is in the list of damage for the next frame unless that list is full.
* poller and echo component: behind all deferred changes the table is what the
  connections need, no callback is called for what is freed, and what is gone
  is freed.

## Modules

| Module | Models | Kind |
|---|---|---|
| `ReplPolicy` | the policy's scan as a recursive function, and its meaning without the loop | operators |
| `ReplHub` | `hub.c` over the listener arrays of its backends | component |
| `MCReplHub` | instance of the hub | model checking |
| `ReplHubProofs` | theorems about the policy and the hub: types, buffer, pins, listeners, and the operations that pass through it | proofs |
| `Cow1Tcp` | framing and interest of one endpoint | operators |
| `TcpStar` | leader and clients over sockets; composes `Cow1Tcp` | component |
| `CastLog` | what the star promises: one log read in order | abstract specification |
| `MCTcpStar` | instances of the star | model checking |
| `TcpStarProofs` | theorems about the star's records and the way down | proofs |
| `TcpStarOrderProofs` | theorems about what the star carries, its order and the refinement | proofs |
| `CrdtMesh` | `crdt_mesh.c`: peers and flooding | component |
| `MCCrdtMesh` | instance of the mesh | model checking |
| `CrdtMeshProofs` | theorems about the mesh and its table | proofs |
| `DedupTable` | the mesh's table of seen operations, as open addressing | algorithm |
| `MCDedupTable` | instance of the table | model checking |
| `ColorRegister` | `widget_color.c`: the slider's value and its version | operators |
| `ConsoleCommands` | `console_processor*.c`: which entry takes a line, and how it answers | operators |
| `ConsoleStar` | `console_sink.c` behind the hub, over the operations of the star; composes `ColorRegister` and `ConsoleCommands` | component |
| `MCConsoleStar` | instances of the sinks | model checking |
| `ConsoleStarProofs` | theorems about colours, hearing and applying once | proofs |
| `LogootPos` | positions of entries and how one is made between two others | operators |
| `ConsoleStore` | `console_store.c`: ring, order of display, compaction, changes, prompts; uses `LogootPos` | operators |
| `ConsoleViews` | the store with its views, the damage list and the frames; composes `ConsoleStore` | component |
| `ConsoleViewsProofs` | theorems about positions, the store and what the views show | proofs |
| `MCConsoleViews` | instances of store and views | model checking |
| `Wm` | `wm.c`, `window.c`, `input.c`, and the gestures of `win_square.c` and `win_console.c` | component |
| `MCWm` | instance of the window manager | model checking |
| `WmProofs` | theorems about the window manager | proofs |
| `Poller` | `net_posix.c`: the table and its deferred changes | operators |
| `EchoNet` | `echo_component.c` on the poller, with descriptors; composes `Poller` | component |
| `MCEchoNet` | instance of the echo component | model checking |
| `EchoNetProofs` | theorems about the poller's table and the echo component | proofs |

### `ReplHub`

`routes[t]` is the `TopicRoute` of topic `t` (`have`, `bidx`, `cb`, `blocked`,
`q`, `caps`, `pin` are its fields `have`, `bidx`, `cb`, `blocked`, `q`,
`required_caps`, `forced_bidx`). `slots[b]` is the listener array of backend
`b`; an entry is known to the backend by its `inst_id` only. `up` is what
`health()` says. `sw` is the call of `replhub_switch_backend` in progress. The
rest is history: `ops` (published operations), `log` (hand-overs to
backends), `inflight`, `confirms`.

Every call is one action, but for the soft switch: the snapshot and the
buffered operations it hands over run the consumer's callback, and the callback
publishes, so `SwitchBegin`, `SwitchRewire`, `SwitchFlush` and `SwitchEnd` are
separate and publications happen between them when `sw.window` is set.

Decisions:

* From inside a switch the callback publishes and does nothing else. A nested
  switch or pin would free the buffer that the outer loop is reading
  (`hub.c:399-404`), but as built nothing gets there: no type yields a snapshot,
  so nothing is buffered when the flush runs.
* The registered console type never yields a snapshot in the program as built:
  `con_processor_get_store` is a stub that returns no store
  (`console_processor_ext_stubs.c:11-14`), so `con_processor_snapshot` makes no
  blob. `SnapshotTopics` is a constant, so the machinery of the switch is
  checked for types that do.
* The order of the entries of a listener array is not modelled: all of them
  call the same function with the same argument. `inst_id` 0, a wildcard, is
  excluded: no caller uses it.
* One sink per topic, as the program creates them. A second `set_listener` on
  the same backend would add a second entry and every operation would be
  confirmed twice; `ConfirmedOnce` counts on the protocol, not on the hub.

### `Cow1Tcp`, `TcpStar`

`net[k]` is connection `k`, `cli[c]` a `CliImpl`, `slot[k]` the leader's
`Client` for connection `k`. A packet is `Parts` units and a read or write moves
one, so packets are cut at every unit boundary; a tick that moves more is
several actions. `heard`, `cast` and `ops` are history. The console behind the
listener answers a foreign command from inside the callback, which is where the
leader's order goes wrong.

The poller defers changes of its table to the end of a tick and calls a
descriptor at most once per tick, so a callback's changes are part of its
action. A callback that only changes the interest, as `on_connect_cb` does,
keeps being called: that is the action `OnConnect` taken again.

Decisions: a failed `send()` between poll and send, `SIGPIPE` and failing
allocations are left out; the listen backlog (64) is not bounded; the leader's
array of clients is a function of the connection (closing one moves the others
in the array, and the framing objects keep pointers to the old places, but only
the field `owner`, the same in all of them, is read through such a pointer); a
console command that drops the connection from inside the stream's own callback
is left out (listed as a hazard: the framing object is freed under its caller).
Between two connections of one client there is no order: the leader may still
read the old one after the new one.

### `CastLog`

The leader appends to a log; a joined client hears the log from a place that is
no earlier than what it has heard; the leader hears operations as they come,
and an answer it gives is in the log before the command it answers. `TcpStar`
implements it (`KeepsLog`), with the place of a client computed from where the
leader's handshake ended and what the client has heard since.

### `CrdtMesh`, `DedupTable`

`link[k]` is connection `k` with who dialled whom; `end[e]` is one end of it, a
`Peer` of its process from `on_connect`, `dial_seed` or accept on. `wire` holds
the frames an end has sent and `got` how many of its opposite's it has read, so
what is on its way is a part of the history and `LinkAgree` can relate the
tables of two processes to it. `seen[n]` is the table of seen operations, as
the sequence in which they were seen; `DedupTable` shows that the open
addressing table is that set (`TableIsSet`) while it grows.

The listener runs inside `on_peer_op` after the operation was remembered and
before it is sent on, so the answer to a command leaves first, and it is sent
to the peer the command came from, too: `PeerOp` does all of it in one step, as
one callback does. A new peer is sent a snapshot of every topic the mesh knows
if the topic's type yields one; the console's does not (see `ReplHub`), so
nothing is sent. So it does not matter here that a snapshot has no `op_id`, is not
remembered and is sent on by everybody who gets it.

Decisions: framing is what `TcpStar` checks, so a frame is one message; a peer
is never removed, as in the code (`peer_destroy` has no caller), a connection
that is gone leaves an end nobody reads; one topic, one listener; a dial made
by a command from inside the listener is not nested in `PeerOp`, it is a step
of its own.

### `ColorRegister`, `ConsoleCommands`, `ConsoleStar`

`sink[p]` holds the two windows of a `ConsoleSink`; `done[p]` is the set of
operations whose effect was applied at `p`, whatever the effect is, and `again`
what was applied a second time. `up`, `late` and `down` are what `TcpStar` shows
a connection to be: a queue of whole operations, of which `late` is what a
client left behind when it disconnected and the leader may still read. A
client's hub publishes to the leader while it is connected and to `local_loop`
otherwise, and moves the listener only when something is published (`ReplHub`),
which `onstar` keeps: between connecting and its first publication a console is
deaf. `local_loop` and the leader confirm inside `publish()`, so there a
speculation ends at once (`Confirmed`).

`Commit` is `con_sink_commit`: prompt, then the command applied and run, its
answers published before it. Every replica runs every command it hears and
publishes its own answers; that is what the code does and what `AppliedOnce` has
to survive. How many answers a line gets is read off `ConsoleCommands`, the
table of the processor's entries in the order in which the code asks them, with
what each one calls. Lines are words there, as in the code: `starts_with` asks
for the end of the word behind the keyword, too, so `colorful` is not `color`.

`slider[p]` is a colour slider at `p`: a value and the stamp of the delta that
set it (`ColorRegister`). `Drag` is a press or a move with the button held: the
event changes the value and leaves the stamp alone (`Moved`), the delta made of
it is stamped with the sink's clock, merged here like any other (`Merged`) and
published. `clock[p]` is `last_hlc`; a clock is the time since its process
started and takes no notice of the clocks it receives, so `Drag` takes any stamp
above the process's last one. A value is named by the drag that chose it.

Decisions: one sink per process, as `main.c` creates it (both windows share
it); the lines that are typed are some that only answer (`ConsoleAssumption`):
what the others call is an action of the module that has it; the slider was put
in while all consoles listened; the leader does not quit (`TcpStar` has that); a
connection the leader has dropped without the client's knowledge is among the
things seen below. Identifiers are unique, which the code makes likely and not
certain: an actor id is an address xored with milliseconds
(`console_sink.c:213`).

### `LogootPos`, `ConsoleStore`, `ConsoleViews`

A position is a path of components, a digit and the actor that chose it.
`Between` is `pos_between_impl`: it halves the gap at the first depth that has
one, and without any presses the left neighbour to the right.

`store` is the `ConsoleStore`: the ring (`entries`, `head`, `count`), the
cached order of display and whether it counts as valid (`order`, `valid`), the
queue of changes with its overflow flag (`changes`, `all`) and the prompts.
`view[v]` is what a `ConsoleViewState` knows of its redraw, `cache[v]` the cells
of its window's surface, `screen[v]` what was copied of them, `damage` the list
of rectangles of the frame. A cell is a row of the history or the strip of the
prompt below it. The helpers of `ConsoleViews` work on a record of store, views
and damage, as the handlers do: each action is one handler with its `notify()`,
which lets every view look at the changes before the next statement runs.
`Compose` is `plat_compose_and_present`. `log` and `spent` are history.

What the code does and the model keeps: `notify()` drains the one queue of
changes inside the first subscriber, so a later view finds an empty queue and is
redrawn as a whole (`LaterViewsFresh`), but damages only its strip; a mask of no
dirty rows stands for all of them; a full ring takes the slot of its head, a
widget as well, before the last entry is looked up; a compaction does not
invalidate the order, so its own snapshot is placed by a stale one; a batch of
fewer than `MIN_DROP` lines is dropped with no snapshot.

Decisions: texts are not modelled, an entry is its type, id, position and
value; lines are as long as a row; the two views have the same size and do not
overlap; `con_store_append_widget` and `con_store_insert_text_between` have no
caller.

### `Wm`

`order` is `wm->win`, `z` the zindexes, `frame` the frames; `focus`, `drag` are
per user. `square[w]` and `console[w]` are the gesture state of a square
(`drag_arm`, `w->drag`) and of a console view (`drag_arm` and what goes with it).
`held` and `active` are the platform's mouse button and `active_uid`. `damage` is
`wm->damage` from one frame to the next: how many rectangles it holds and which
places are in them. `Added` is `damage_add`, which drops a rectangle without a
word once there are `MaxDamage` (`MAX_DAMAGE`, 64 in `damage.h`) of them; every
handler adds as many as the code does, in its order, repetitions included, since
it is their number that fills the list.

`Press`, `Move`, `Release`, `Other`, `Resize` and `Expose` are the events of
`plat_poll_events_and_dispatch` with all that `input_route_mouse` makes of them;
`Compose` is a frame, which empties the list. What it copies is the subject of
`ConsoleViews`.

What is in a window is left open. `Content` is what keys, texts, widgets and
messages do here: they damage a window or one of its rows. Which rows hold
widgets, which of these are active (`active_for_user`) and which window is
`invalid_all` already is a choice, so a press on a row of a lazy console may arm
a placeholder or may go to an active widget or a line, and a routed event may or
may not add the frame of its window (`add_damage_if_needed`). The overlay of a
drag is there as the two rectangles that `wm_drag_update_pos` adds; it is one
place high, and where the first of them lies is left open: the code adds the
place before the last one there.

The screen has one dimension, the vertical one; which user a press belongs to
depends on the horizontal place and is left open. SDL is assumed to deliver the
release of the button wherever it happens. What a drop
does to the store is not part of `Wm`; `wm_remove` has no caller.

### `Poller`, `EchoNet`

`np` is the `NetPoller`: table, deferred changes, whether a tick is calling, and
the positions still to be called. A tick is `Tick` (the deferred changes made
and `poll()`), a `Call` for each ready position in order, `EndTick`; the kernel,
the other ends and, from another process, commands go on between them. `conn[c]`
is an `EchoConn`, `sock[c]` the kernel's side of its socket. A connection that
is closed gives its descriptor back at once, and `socket()` and `accept()` take
the lowest one that is free, so the same number has an old entry and a new
connection within one tick: that is what the deferred changes have to survive.
`undef` becomes true when a callback is called for what was freed; nothing
happens after it.

Decisions: bytes come in units and are counted; `EINTR`, failing allocations
and `POLLNVAL` are left out; a failed start leaves the component created
(`StartFails`).

## What the runs show

| Run | Question | Bounds |
|---|---|---|
| `hub` | does any order of calls misplace a listener, lose or double an operation, or break a pin? | 3 topics for 2 routes, 3 backends with `main.c`'s priorities, 2 operations; `t2`, `t3` symmetric |
| `star` | is what is sent what is heard, does the star implement the log? | 2 clients, 3 connections, packets of 2 units, 1 command and its answers |
| `star_live` | do handshakes end and echoes arrive? | 2 clients, one of another console, 2 connections, 1 place, 1 line |
| `star_connect` | does a connection attempt end? (no: finding) | as `star_live` |
| `mesh` | does a flood reach everybody, once, and end? | 3 processes in a chain, the middle one may dial itself, move its listener and end; 2 connections, 2 places for peers, 1 command and its answers |
| `dedup` | is the table the set of what was put in? | 4 keys, all hash values 0 to 6, capacity from 2 to 8 |
| `sink` | is every effect applied once, is no operation lost to a console that listens, do colours agree? | 2 clients, one of which may leave and come back, and the leader; 1 line and 1 command from anybody, or 2 drags with clocks up to 3; the leader's actor between the clients'; pending window 5, applied window 2 |
| `color_drags` | do consoles with the same deltas show the same colour? (no: finding) | 2 clients that stay, 2 drags with clocks up to 3 |
| `store` | do the newest entries stay, once each, and is the tail shown last? | ring of 5, compaction from 3 on (`KEEP_LAST` 1, `MIN_DROP` 2), digits 0 to 16 and depth 2, 2 insertions from here, 2 from elsewhere, 2 answers, 1 delivered again |
| `views` | does every view come to show the store? | the same ring, 2 views of 2 rows, 3 rectangles of damage, 2 pending changes, 1 of each kind of change |
| `wm` | is what is seen what is hit, does a gesture end, is damage enough? | background, square and lazy console on a screen of 3 or 4 places, 2 users, 6 rectangles of damage, unbounded events |
| `echo` | does the table follow the connections, is anything called after it was freed, is what is gone freed? | 2 connections and a listener over 3 descriptors, 2 starts, buffers of 1 unit, budgets 1, 2, 2 |

Why the bounds are enough. A hub misplaces a listener between two backends and
for two topics that share an array; the third backend and topic make room for a
third party, and one operation is buffered while another is flushed. The route
table is full with two of three topics. In the star the third connection lets
one client come back while the other stays, a packet of two units can be cut,
one command gives two answers besides the command itself, so three operations
are in flight in both directions. Larger instances of both were run while the
models were written and showed nothing new. In the mesh a self-connection is
the smallest cycle (an operation comes back to the process that sent it by
another end), the chain makes one process relay, and with the self-connection
and a neighbour that process has no place for a third end. A triangle of three
connections was run with one line; with a command it is too large, and the
theorems cover it. A table of
capacity 2 grows twice under four keys, and seven hash values put them in every
order of collision modulo 2, 4 and 8. In `sink` the pending window is as large
as what one client can have on its way, which 128 is meant to be, and the
applied window is smaller than the number of operations, so it does forget.
Users edit and command, or they drag (`Budgets`): edits and commands leave the
slider alone, and to the windows a delta is an operation like any other. Two drags and three stamps give equal, rising and falling
clocks.
In `store` seven entries go through a ring of five: it is compacted, it is
full behind a widget that compaction may not pass, and it overwrites its head;
a base of 16 has room for the insertions at every depth that they reach. In
`views` the log is longer than the rows, three rectangles are fewer than one
handler's damage to two views and a prompt, and two pending changes overflow.
In `wm` three windows overlap in every order, each can cover another wholly or
in part, and the screen shrinks below a window; a press adds two rectangles and
a motion of a square up to five, so of six both one event fits and the next
overflows. In `echo` three descriptors for
three users let any of them be given out again inside the tick that closed it;
a buffer of one unit is full at once.

Runs of the star, the mesh, the sinks, the store and the views do not check deadlock: once the
bounded operations and connections are used up (and the leader is gone), a
process that waits is what the program does; `echo` stops after a call to
something freed.

### Fairness

`star_live` and `star_connect` use `FairSpec`: weak fairness for the callback
of each descriptor (`net_poller_tick` polls every descriptor in every frame and
calls all that are ready, `net_posix.c:117-142`; `s_on_fd` reads before it
writes and reads until nothing is left, so reading and writing are fair each
for itself) and for the end of a connection attempt, which is the kernel's. No
fairness is assumed of users. `mesh` assumes the same of its descriptors;
`sink` of reading at the leader and at a client, not of connections. `echo`
assumes that ticks go on (`main.c` ticks the poller in every frame, from
`loop_hook_run_end_of_frame`), with a `Call` for each ready descriptor. `views`
assumes frames (`Compose`): `main.c` composes one in every turn of its loop. The
squares never stop animating, so a frame without damage shows the whole screen
(`platform_sdl.c`), which is what makes good the damage that was dropped.

## What is proved

`ReplHubProofs`, from `HubAssumption` only unless said otherwise, for every
number of topics, backends, places and operations:

* `TypeCorrect`: `Spec => []TypeOK`, inductive as it stands.
* `BufferIsDrained`: `Spec => []BufferDrained`. Inductive together with
  `TypeOK`: each call changes `blocked`, `q` and the phase of the switch
  together.
* `PinAlwaysHolds`: `Spec => PinHolds`, an action property that follows from
  `TypeOK` and the definition of the choice.
* `ListenersPlaced`: assuming `DistinctInsts` (topics have distinct `inst_id`s)
  and `SlotsSuffice` (an array has a place for every topic),
  `Spec => []ListenerPlacement`. Every re-selection is the same rewiring; the
  lemma `MoveListenerPlaces` shows that it takes a placed listener to a placed
  listener, and a counting lemma that there is a free place when one is needed.

* `EachHandedOverOnce`: `Spec => []HandedOverOnce`, without further assumptions.
  The invariant (`OnceInv`) says that a buffer holds operations of its topic in
  the order of publication, that of these only the beginning the switch has sent
  is in the log, and that the rest is later than what came out of the buffer. It
  sorts the steps into four kinds (`StepKinds`): an operation is buffered, passed
  on, or taken from the buffer, and any other step leaves operations alone. That
  only the topic of the switch has a buffer is `BufferIsDrained`.
* `EachConfirmedOnce`: `Spec => []ConfirmedOnce`, assuming `DistinctInsts` and
  `SlotsSuffice`. The invariant (`ConfirmInv`) adds that an operation whose
  confirmation is awaited reached nobody yet and waits at one place. It rests on
  both results above: an operation that is handed over is new, and a consumer
  has one entry at the backend that confirms (`ListenersPlaced`).
* `ScanPicksBest`: the loop of `repl_policy_default_choose`, a recursive
  function, returns the best backend there is, the first of equal ones, and a
  backend that is lost without being chosen moves no choice; for every number of
  backends, whatever they offer. The claim at `n` says that the
  scan of the first `n` is the best of these. `HubScans`: so the model's choice is
  the code's. `ScanStaysBest`: this holds of every hub's own backends in all of
  its states, for every requirement. `PolicyScanIsBest`, which TLC checks, tries
  it on fresh hubs with every assignment of two priorities and two masks.

`TcpStarProofs` and `TcpStarOrderProofs`, from `TcpStar`'s assumptions on its
constants only, for every number of clients, connections, places and operations
and every number of parts a packet is cut in:

* `StreamsStayWhole`: `Spec => []StreamsWhole`.
* `StaysInOrder`: `Spec => []SenderOrder`.
* `StarImplementsLog`: `Spec => KeepsLog`: initial states map to initial states
  of `CastLog`, and every step to a step of the log or a stutter.
* `StarKeepsOrder`: `Spec => []Log!ClientsAgree`: two clients never hear two
  operations in different orders. It is shown of the log (`CastLog`) and carried
  to the star by `StarImplementsLog`. The invariant of the log adds that it has no operation
  twice, that everything a joined client heard lies before its place in the log,
  and that what was heard earlier lies earlier.
* `StaysTyped`: `Spec => []TypeOK`.

`StreamsWhole`, `SenderOrder` and `TypeOK` are not inductive, and the refinement
needs more than the types. The invariant grows in layers, each inductive
with those before it, and each a theorem of its own:

1. `Good` (`StaysGood`): records without the bounds on what they carry, and the
   wiring: a connection in use has one client, which has it or has closed it, and
   the leader's end says how far that connection came. No buffer holds more than
   one incomplete packet.
2. `Downs` (`StaysDown`): for a client on a connection, what it has of the next
   message, what is on its way and a rest that the leader has ready are together
   the frames of the log from the place the client has reached. In the handshake
   that is the Welcome and then the log from `base`. The rest is existential:
   while the leader has the packet half written it is what is left to write.
   Cutting a packet anywhere moves a unit between the three and changes nothing.
3. `Carried` (`StaysCarried`): there is an assignment of operations to
   connections (`car`) such that the same holds of the way up (`Ups`), and
   (`Order`) the connections of a client follow each other in its order of
   publication with its buffer behind them, and what a connection has still to
   bring is not in the log. The assignment is a history the code does not keep,
   hence the quantifier; a step extends it by at most one operation.
4. `Hearing` (`StaysHearing`): what a client has heard are distinct operations
   from before its place in the log.
5. `Counted` (`StaysCounted`): publications stay within their bounds and answers
   map to commands one to one: a command is taken from a connection once. This
   gives a step that appends a command and its answer the shape `CastAnswered`
   of the log, and with `AllKnown` (units stand for operations that exist) and
   `Room` (places and buffers) the types.

What goes wrong without a layer is a step and not a state: a second connection
of a client may bring what the first one still has on its way unless `Order`
says they follow each other, and a client that comes back would hear the log
again unless `Hearing` keeps its new place behind what it heard.

`ConsoleViewsProofs` has two parts. On positions, for every base, depth, actor
and pair of positions:

* `BetweenFits`: while some depth has room between two positions, the new one
  lies strictly between them, is no deeper than `CON_POS_MAX_DEPTH` and is
  again a position of the store. Behind a path that ends in the digit 0 nothing
  fits, so the form of the path is part of the claim.
* `TailFits`: the same for the tail, which is the assumption under which
  `TailIsLastWithRoom` holds.

On the store and its views, for every size of the ring, of the compaction's two
thresholds, of the queue of changes, of prompts, windows and damage list, every
number of views and users, and whatever `MaxOps` allows:

* `StaysTyped`: `Spec => []TypeOK`.
* `NoneIsTwin`: `Spec => []NoTwins`.
* `NewestAlwaysStay`: `Spec => []NewestStay`.
* `StripStaysFresh`: `Spec => []StripFresh`.
* `LaterViewsStayFresh`: `Spec => []LaterViewsFresh`.

All follow from one inductive invariant, `Sound` (`StaysSound`), with four parts:

1. The types of store, views and damage (`Worlds`), and that no change is left in
   the queue between two actions: `notify()` has always drained it.
2. `RingOK`: ids in the ring are distinct and were given out, by the store's
   counter or for an entry of the log (`Given`). That makes the next id a new one:
   the store's own ids have no actor, and a compaction's snapshot takes one too.
3. `RingOK`, `Follows`: there is a function from the places of the ring to the
   log, which goes up by one behind an entry and stays behind a snapshot, and
   ends at the end of the log. `NewestStay` passes over the snapshots and is not
   inductive: a snapshot takes a place, so a ring can be full of them. The
   function survives the three things that happen to a ring (`Grows`, `Cuts`,
   `Compacts`).
4. `StripFresh`, `LaterViewsFresh`, and that the mask of a later view is empty.
   The first subscriber drains the queue, so a view behind it finds no changes and
   is redrawn as a whole; a mask would make `console_draw` leave rows out.

Every handler is shown once, on the state it works on (`Sounds`), and an action is
one handler or two (`BecomeKeeps`). `notify()` and `on_store_changed` are loops
over views and changes, recursive functions in the model, and `Told`, `Heeds` and
`Marks` say what they come to. The order is abstracted to its slots: sorting
never matters to these properties, only that it moves nothing in the ring.

`CrdtMeshProofs`, for every number of processes, connections, places for peers
and operations, every set of seeds and so every shape of the mesh, and whatever
ends, breaks or moves its listener:

* `ListenersHearOnce`: `Spec => []HeardOnce`.
* `FloodEnds`: `Spec => []CrossesOnce`: a finite number of publications is a
  finite flood.
* `NeighboursAgree`: `Spec => []LinkAgree`.
* `StaysTyped`: `Spec => []TypeOK`. A step makes at most one end a peer, of a
  process that has room (`StepPeers`), and who made a connection stays
  (`PairsStay`); the rest follows from the invariant below.

The inductive invariant is the three together with the types, `EndsFit` (an end
that is no peer has sent and read nothing, nothing is read that was not sent)
and `Known` (what was heard or sent at a process is in its table, and what is in
a table was published). `Known` is why remembering comes before hearing and
sending in `on_peer_op` and `cm_publish`: a new operation is in no wire of a
process that does not have it in its table, so sending it adds nothing twice.
`ShapeStep` covers the steps that make and break connections, `FlowStep` those
that move operations. TLC checked the invariant on the instance of `mesh`.

The same module proves the mesh's table (`DedupTable`), for every finite set of
keys, every capacity it starts with and every hash function:

* `StaysASet`: `TableSpec => []TableIsSet`.

The invariant (`TableInv`, `StaysMade`) is that of open addressing: the taken
entries hold keys that were put; from where its hash value points, a key is
reached before a free place is (`Reached`); and `count` is no less than the
number of taken places. `d_insert` grows a table in time, so there is a free place
whenever a key is put: the probe for a key that is not there ends at one, and not at
the index 0 that `d_probe_find` gives when it finds none. Putting a key takes a
free place, which was on no other key's way, so every other key stays reached
(`PutHolds`). Growing forgets all places and puts the keys of the old table one
after the other into a new one; the claim about the first `m` places, carried by
induction along the loop (`GrowIs`), is that the new table holds the keys of
these.

`ConsoleStarProofs`, for every number of consoles, drags and typed lines, all
clocks, and whatever is lost, late or forgotten by the windows:

* `VersionsAgree`: `Spec => []ColoursAgree`. The inductive invariant says that a
  process stamps its drags with rising clocks, so that no two deltas have one
  stamp (actors differ), and that a slider keeps the stamp of the newest delta
  applied at its console, with that delta's value or the value of an own drag
  that is older (`Shown`). It needs no uniqueness of application: merging is
  idempotent, so it holds where `AppliedOnce` depends on the windows. TLC checked
  it on the instance of `sink`.
* `StaysTyped`: `Spec => []TypeOK`: windows keep to their sizes, and what they,
  the queues and the cast hold are operations that were made.
* `ListenersHearAll`: `Spec => []HearsAll`. The sink drops an operation only if a
  window has it, so the invariant says that what a window holds was applied at
  its console (`SinksKnow`). It holds for all sizes of the windows.
* `AppliesOnce`: `Spec /\ []HasRoom => []AppliedOnce`. `HasRoom` says that no
  client's pending window is full, which TLC finds true in every state of `sink`
  and which cannot be left out (with windows of two, effects are applied twice).
  The invariant: an operation is at most once on its way to or from a client
  (`Distinct`), on its way to the leader from one client only and neither on its
  way down nor applied at the leader (`Apart`), and what is still to come at a
  client and was applied there is pending there (`Awaited`). The last part is
  what a full window breaks: it throws out an operation whose echo is still to
  come. The applied window never decides, and its size does not matter. TLC
  checked the invariant on the instance of `sink`.

`WmProofs`, for every number of windows, squares, consoles and users, every
placement and every set of sizes of the screen; of the constants it is assumed,
as `main.c:201` has it, that one background fills the screen at the start, and
that the zindexes at the start are distinct:

* `StaysTyped`: `Spec => []TypeOK`.
* `HitStaysSeen`: `Spec => []SeenIsHit`.
* `ScreenStaysCovered`: `Spec => []ScreenIsCovered`.
* `GestureStaysOne`: `Spec => []OneGesture`.
* `DamageIsEnough`: `Spec => DamageCovers`.

The stack (`StackOK`) is inductive by itself: zindexes are distinct, and the
array has every window once, in their order. That there is such an array at all
is a lemma (`StackExists`, by the rank of a window), as is that raising a window
keeps the order of the others while all are renumbered (`RaiseStack`). The
composition takes the last window of the array at a place and `wm_topmost_at`
the greatest zindex; both are the window that is `Seen` there, and
`DamageCovers` is shown through `Seen` too, in three parts: a list that
is not full has lost nothing of what was added (`AddedIs`, `AddedTwice`,
`MovedDamageIs`), each handler adds the frames it changes (`PressCovers`,
`MoveSquareCovers`, `TouchedCovers`), and elsewhere the same is seen
(`SameDrawn`), whatever the length of the list. The rest is inductive together:
`Typed`, `Backed` (a background is as high as the screen; it is no square, so
nobody moves it) and `Gripped`, which is `OneGesture` with what its proof needs:
while the button is down the window on top has the focus, and a square is either
armed or being moved.

`EchoNetProofs`, from `EchoAssumption` only, for every number of connections,
descriptors and starts, all buffers and budgets:

* `EchoTyped`: `Spec => []TypeOK`.
* `TableAlwaysMatches`: `Spec => []TableMatches`.
* `CallsStayLive`: `Spec => []CallsLive`.

All three follow from one inductive invariant, `IInv`:

1. The poller as a set. A table has a descriptor at most once, so it is the set
   of its entries; `After` says without the loop what deferred changes make of
   such a set (for each descriptor the last one counts; the component only adds
   and removes), and `SettledIs` that `s_apply_ops`, a recursive function, comes
   to that. `Table(np)` is the set with its changes made.
2. `Table(np) = Expected`: it is what the connections and the listener need.
   Every handler changes both sides alike. The order of the changes matters: a
   connection's `del` comes before the `add` of what `accept()` gives the same
   descriptor to.
3. `Fits` and `CalledOnce`: while a tick calls, the table is that of its start.
   An entry is of a connection that has since gone on or was freed, never of one
   that has its place, each connection has one entry at most, and no place is
   called twice. So a callback that frees its connection frees nobody else's
   (`CallsLive`), although its descriptor is given out again in the same tick.
4. A component that is not there has no listener: without this a start could
   find the old one in the table.

Loops of the code are recursive functions or folds in the model. That there are
such functions, and what they come to, is shown by induction on the set of the
numbers at which a claim holds, which needs no theorem with an operator for a
parameter: three lemmas (`NatMin`, `Climbs`, `CountedUp`) that stand at the head
of every module of proofs with such a loop, so that each can be checked by itself.

Only model-checked:

* Liveness, which is outside the prover's reach: `ScreenCatchesUp`,
  `GoneIsFreed` and those of star, mesh and sinks.
* `TailIsLastWithRoom`. `BetweenFits` and `TailFits` give the position; what is
  missing is that the last entry in the order is the greatest. The order is not
  invalidated by a compaction, and the snapshot is then missing in an order that
  still counts as valid, so that the last slot may be that of a dropped entry:
  `OrderKnown` in the property excludes this in a state, and an invariant would
  have to say when it comes and goes.
* `AppliedOnce` is proved while the pending windows have room.

## Findings

Two disagreements between the code and what the repository says have runs:

* `star_connect`: after a connection that was in progress the client never
  writes its Hello.
* `color_drags`: a drag changes the value at once, and its delta is then refused,
  here and everywhere, if the console has merged one with a newer stamp from a
  process that started earlier. Consoles with the same deltas show different
  colours for good; `console/delta.h:5` says the newer delta wins.

Also seen while modelling, without a run:

* hub: an active route is moved by the next publication;
  `docs/replicator.org` §11 says that is left to `replhub_switch_backend()`. A
  soft switch to a backend of lower priority lasts until the next publication,
  unless the topic is pinned.
* star: a client stays healthy after its leader has closed the connection; the
  leader hears a command before its own answer, all clients after it; a leader
  gives no slot back, and neither does the framing.
* snapshots: `docs/replicator.org` §6 promises a new peer the state of all
  topics, and `replhub_switch_backend` a new backend; as built the console's
  type makes none, because the processor has no store
  (`console_processor_ext_stubs.c:11-14`), and `con_processor_snapshot` would
  return 1 for success where `type_registry.h` asks for 0.
* processor: `color set` (`console_processor.c:150`), which the help offers, is
  never reached: the test for `color` (`:141`) comes first and inserts a slider.
* mesh: `crdt_mesh.h:19` speaks of active connections, but a peer is never
  removed, so `health()` counts those that are gone.
* sink: an operation thrown out of a full pending window is applied a second
  time when its echo arrives.
* store: behind 128 lines put at the tail, positions run out of depth and new
  lines sort before the last one (`console_store.c:50`); a stale order places a
  snapshot; a full ring overwrites a widget at its head; batches smaller than
  `MIN_DROP` are dropped without a snapshot.
* views: the first view may keep rows that changed, because a mask of no rows
  stands for all of them and for none (`win_console.c:400`), until it is next
  redrawn.
* windows: a release over the history neither activates nor disarms a lazy widget,
  because a row that is hit returns before (`win_console.c:560`; lines 566-592 are
  never reached), although the comments at `win_console.c:495` and `:509` have it
  activated there. A later press and release in the
  prompt activates it; activation is read off the code, not modelled.
  `damage_add` drops what a full list has no room for, about a dozen motions of a
  square within one frame.
  A click on the background raises it over everything. On a smaller screen a
  square that fills it is taken for the background.
* echo: after a partial send new bytes are appended at `out_len` and not behind
  the unsent ones (`echo_component.c:125-127`); a `net stop` that another
  process sends through the console runs inside a tick and frees connections
  that the tick still calls.

## Plan

1. Hub and policy: modelled, checked, proved.
2. TCP star and its log: modelled, checked, proved, the refinement included.
3. Console sink over a star of replicas, with commands and the colour register:
   modelled, checked, proved.
4. CRDT mesh and its table: modelled, checked, proved.
5. Console store, views and frames: modelled, checked, proved but for the tail.
6. Window manager: modelled, checked, proved.
7. Poller and echo component: modelled, checked, proved but for liveness.
8. To do, proofs: `TailIsLastWithRoom`.
9. To do, models: the bytes of the echo component's buffer.
