--------------------------------- MODULE Wm ---------------------------------
(***************************************************************************)
(* The window manager (core/wm.c, window.c, damage.h), the routing of the  *)
(* mouse (core/input.c), what the windows make of it: the squares that can *)
(* be moved and dragged (win_square.c), the console views whose rows can   *)
(* be clicked and dragged (win_console.c), the background (win_paint.c),   *)
(* and the list of damage from one frame to the next (platform_sdl.c).     *)
(*                                                                         *)
(* The screen has one dimension, the vertical one, along which the rows of *)
(* a console and its prompt lie; the horizontal one only decides which of  *)
(* the users a press belongs to and is left open.  All users share one     *)
(* pointer.  What is in a window is left open: which rows hold widgets,    *)
(* which of these are active, and when the content changes.  What a frame  *)
(* makes of the list of damage is ConsoleViews' subject.                   *)
(***************************************************************************)
EXTENDS Integers, Sequences, FiniteSets, FiniteSetsExt

CONSTANTS
  Windows,  \* the windows, all visible, none ever removed
  Kind,     \* Kind[w] \in Kinds
  Z0,       \* Z0[w]: the zindex w is created with
  Frame0,   \* Frame0[w]: the frame w is created with
  Lazy,     \* Lazy[w]: the lazy_mode of console w
  Users,    \* user ids, 0 among them
  Heights,  \* the heights the screen may have
  Height0,  \* and the one it starts with
  Side,     \* the length of the coloured part of a square
  Step,     \* how far the pointer moves before a drag starts
  MaxDamage, \* MAX_DAMAGE, how many rectangles the list of damage holds
  None      \* NULL

Kinds == {"paint", "square", "console"}
Squares == {w \in Windows : Kind[w] = "square"}
Consoles == {w \in Windows : Kind[w] = "console"}
Top == Max(Heights)

ASSUME WmAssumption ==
  /\ IsFiniteSet(Windows) /\ None \notin Windows
  /\ Kind \in [Windows -> Kinds]
  /\ Z0 \in [Windows -> Nat]
  /\ \A v, w \in Windows : Z0[v] = Z0[w] => v = w
  /\ Frame0 \in [Windows -> [y : Nat, h : Nat \ {0}]]
  /\ \E w \in Windows : Kind[w] = "paint" /\ Frame0[w] = [y |-> 0, h |-> Height0]
  /\ Lazy \in [Consoles -> {"off", "click", "text"}]
  /\ Users \subseteq Nat /\ 0 \in Users
  /\ Heights \subseteq Nat \ {0} /\ Height0 \in Heights
  /\ {Side, Step, MaxDamage} \subseteq Nat \ {0}

VARIABLES
  order,   \* wm->win
  z,       \* z[w]: the zindex
  frame,   \* frame[w]: y and h of the frame
  height,  \* screen_h
  active,  \* active_uid of the platform
  held,    \* whether the left button is down
  focus,   \* focus[u]: the window with the focus of u
  drag,    \* drag[u]: the WMDrag of u
  square,  \* square[w]: the gesture on a square (at and dy are 0 when not used)
  console, \* console[w]: the gesture on a console view
  damage   \* wm->damage: how many rectangles, and the places in them

gesture == <<square, console>>
stack == <<order, z>>
routing == <<active, held, focus, drag>>
vars == <<stack, frame, height, routing, gesture, damage>>

NoDrag == [on |-> FALSE, source |-> None, hover |-> None]
NoGrip == [arm |-> FALSE, at |-> 0, moving |-> FALSE, dy |-> 0]
NoDamage == [places |-> {}, n |-> 0]
NoClick == [arm |-> FALSE, at |-> 0, placeholder |-> FALSE, pending |-> FALSE]

(* sort_by_z: from the bottom to the top; no two zindexes are equal *)
SortedBy(zs) ==
  CHOOSE s \in [1 .. Cardinality(Windows) -> Windows] :
    \A i, j \in DOMAIN s : i < j => zs[s[i]] < zs[s[j]]

Span(f) == f.y .. f.y + f.h - 1
Screen == 0 .. height - 1

(* What a composition, which goes through the stack from the bottom, leaves *)
(* to see: which window, and which part of it                               *)
DrawnAt(y) ==
  LET hit == {i \in DOMAIN order : y \in Span(frame[order[i]])}
  IN IF hit = {} THEN <<None, 0>>
     ELSE LET w == order[Max(hit)] IN <<w, y - frame[w].y>>

(* Main has composed the first frame, of the whole screen. *)
Init ==
  /\ order = SortedBy(Z0)
  /\ z = Z0
  /\ frame = Frame0
  /\ height = Height0
  /\ active = 0
  /\ held = FALSE
  /\ focus = [u \in Users |-> None]
  /\ drag = [u \in Users |-> NoDrag]
  /\ square = [w \in Squares |-> NoGrip]
  /\ console = [w \in Consoles |-> NoClick]
  /\ damage = NoDamage

-----------------------------------------------------------------------------
(* The stack *)

(* wm_topmost_at: the greatest zindex, the later one of equals *)
TopmostAt(y) ==
  LET hit == {i \in DOMAIN order : y \in Span(frame[order[i]])}
      best == {i \in hit : \A j \in hit : z[order[j]] <= z[order[i]]}
  IN IF hit = {} THEN None ELSE order[Max(best)]

(* Where w is in an array *)
Place(w, s) == CHOOSE i \in DOMAIN s : s[i] = w

(* wm_bring_to_front: a zindex above all, then zindexes 0, 1, 2 .. again.   *)
(* The mutants: the array is not sorted again, the zindexes start too low.  *)
RaiseUnsorted(w) ==
  /\ z' = [z EXCEPT ![w] = Max({z[v] : v \in Windows}) + 1]
  /\ UNCHANGED order
RaiseTooLow(w) ==
  LET above == [z EXCEPT ![w] = Max({z[v] : v \in Windows}) + 1]
      sorted == SortedBy(above)
  IN /\ order' = sorted
     /\ z' = [v \in Windows |-> Place(v, sorted) - 2]
Raise(w) ==
  LET above == [z EXCEPT ![w] = Max({z[v] : v \in Windows}) + 1]
      sorted == SortedBy(above)
  IN /\ order' = sorted
     /\ z' = [v \in Windows |-> Place(v, sorted) - 1]

-----------------------------------------------------------------------------
(* The list of damage *)

(* Mutant: a full list starts again with the rectangle. *)
AddedRound(d, rect) ==
  IF d.n < MaxDamage THEN [places |-> d.places \cup rect, n |-> d.n + 1]
  ELSE [places |-> rect, n |-> 1]

(* damage_add: a full list drops the rectangle without a word. *)
Added(d, rect) ==
  IF d.n < MaxDamage THEN [places |-> d.places \cup rect, n |-> d.n + 1] ELSE d

(* Only what is on the screen of a rectangle is ever copied; a resize adds  *)
(* the whole of the new screen.                                             *)
OnScreen(f) == Span(f) \cap Screen

(* A window is raised; it is invalid then, so input_route_mouse adds its    *)
(* frame again.                                                             *)
RaisedDamage(d, f) == Added(Added(d, OnScreen(f)), OnScreen(f))

(* A window has moved: wm_window_set_frame adds where it was and where it   *)
(* is, input_route_mouse adds both again, and the frame of what is invalid. *)
MovedDamage(d, old, new) ==
  LET set == Added(Added(d, OnScreen(old)), OnScreen(new))
      routed == Added(Added(set, OnScreen(old)), OnScreen(new))
  IN Added(routed, OnScreen(new))

(* wm_drag_update_pos: what is dragged is drawn over the windows, one place *)
(* high, at the pointer.  Where it was before is left open.                 *)
Overlaid(u, y) ==
  IF drag[u].on
  THEN {Added(Added(damage, {old} \cap Screen), {y} \cap Screen) :
          old \in 0 .. Top}
  ELSE {damage}

(* add_damage_if_needed: only what is left open tells whether w is invalid. *)
IfNeeded(d, w) == {d, Added(d, OnScreen(frame[w]))}

-----------------------------------------------------------------------------
(* Where events go *)

(* The window an event of user u at place y is for: the one with the focus, *)
(* or with none the one a drag is over                                      *)
Target(u, y) ==
  IF focus[u] # None THEN focus[u]
  ELSE IF drag[u].on THEN TopmostAt(y) ELSE None

(* on_drag_leave, on_drag_enter and on_drag_over, which keep no state, while *)
(* a drag goes on                                                            *)
Hovered(d, w) == IF d.on THEN [d EXCEPT !.hover = w] ELSE d

(* wm_focus_set *)
Focused(u, w) == [focus EXCEPT ![u] = w]

(* wm_start_drag: nobody has been entered; a drag that is on is replaced    *)
Started(w) == [on |-> TRUE, source |-> w, hover |-> None]

(* A row of the history is under place y of console w.  A row is one place  *)
(* high, the prompt is the last place; the division rounds to zero, so the  *)
(* place above the window is in its first row.                              *)
InHistory(w, y) ==
  LET row == y - frame[w].y
      rows == Max({frame[w].h - 1, 1})
  IN row \in -1 .. rows - 1 /\ row # frame[w].h - 1

Far(y, at) == y - at >= Step \/ at - y >= Step
Pointed == IF held THEN -1 .. height ELSE Screen

-----------------------------------------------------------------------------
(* What the windows make of the left button *)

PressSquare(w, y) ==
  LET f == frame[w]
      left == (f.h - Side) \div 2
  IN /\ square' = [square EXCEPT ![w] =
          IF y - f.y \in left .. left + Side - 1
          THEN [@ EXCEPT !.arm = TRUE, !.at = y]
          ELSE [@ EXCEPT !.moving = TRUE, !.dy = y - f.y]]
     /\ UNCHANGED console

(* A row that is hit takes the event whatever it holds: a line of text is   *)
(* never armed, a widget is if it is to be seen as a line of text.          *)
PressConsole(w, y) ==
  \E placeholder \in BOOLEAN :
    /\ placeholder => InHistory(w, y) /\ Lazy[w] # "off"
    /\ console' = IF placeholder
                  THEN [console EXCEPT ![w] =
                          [arm |-> TRUE, at |-> y, placeholder |-> TRUE,
                           pending |-> Lazy[w] = "click"]]
                  ELSE console
    /\ UNCHANGED square

(* The coloured part is dragged, the rest moves the window; d is the drag   *)
(* and l the list of damage so far.  A window that keeps its place here may *)
(* have moved sideways.                                                     *)
MoveSquare(w, u, y, d, l) ==
  LET g == square[w]
      f == frame[w]
  IN \/ /\ g.arm /\ Far(y, g.at)
        /\ drag' = [drag EXCEPT ![u] = Started(w)]
        /\ square' = [square EXCEPT ![w] = [@ EXCEPT !.arm = FALSE, !.at = 0]]
        /\ damage' \in IfNeeded(l, w)
        /\ UNCHANGED <<frame, console>>
     \/ /\ ~g.arm /\ g.moving
        /\ frame' = [frame EXCEPT ![w].y = y - g.dy]
        /\ \/ damage' = MovedDamage(l, f, frame'[w])
           \/ frame' = frame /\ damage' \in IfNeeded(l, w)
        /\ drag' = [drag EXCEPT ![u] = d]
        /\ UNCHANGED gesture
     \/ /\ IF g.arm THEN ~Far(y, g.at) ELSE ~g.moving
        /\ damage' \in IfNeeded(l, w)
        /\ drag' = [drag EXCEPT ![u] = d]
        /\ UNCHANGED <<frame, gesture>>

(* A drag of text starts outside the history, with the placeholder's text   *)
(* or with the line, if there is one, that is now where the press was.  The *)
(* view stays armed.                                                        *)
MoveConsole(w, u, y, d, l) ==
  LET c == console[w]
  IN /\ \/ /\ c.arm /\ Far(y, c.at) /\ ~InHistory(w, y)
           /\ \E line \in BOOLEAN :
                drag' = [drag EXCEPT ![u] =
                           IF c.placeholder \/ line THEN Started(w) ELSE d]
           /\ console' = [console EXCEPT
                ![w] = [@ EXCEPT !.placeholder = FALSE, !.pending = FALSE]]
        \/ /\ ~c.arm \/ ~Far(y, c.at) \/ InHistory(w, y)
           /\ drag' = [drag EXCEPT ![u] = d]
           /\ UNCHANGED console
     /\ damage' \in IfNeeded(l, w)
     /\ UNCHANGED <<frame, square>>

(* Mutant: the window goes on being moved *)
ReleaseArmOnly(w) ==
  /\ square' = [square EXCEPT ![w].arm = FALSE, ![w].at = 0]
  /\ UNCHANGED console
ReleaseSquare(w) ==
  /\ square' = [square EXCEPT ![w] = NoGrip]
  /\ UNCHANGED console

(* Over the history nothing is activated and nothing disarmed. *)
ReleaseConsole(w, y) ==
  /\ console' = IF InHistory(w, y) THEN console
                ELSE [console EXCEPT ![w] = NoClick]
  /\ UNCHANGED square

-----------------------------------------------------------------------------
(* input_route_mouse *)

Press(u, y) ==
  LET top == TopmostAt(y) IN
  /\ ~held /\ y \in Screen /\ top # None
  /\ held' = TRUE
  /\ active' = u
  /\ Raise(top)
  /\ focus' = Focused(u, top)
  /\ drag' = [drag EXCEPT ![u] = Hovered(@, top)]
  /\ \E l \in Overlaid(u, y) : damage' = RaisedDamage(l, frame[top])
  /\ CASE Kind[top] = "square" -> PressSquare(top, y)
       [] Kind[top] = "console" -> PressConsole(top, y)
       [] OTHER -> UNCHANGED gesture
  /\ UNCHANGED <<frame, height>>

(* The pointer moves while the left button is down. *)
Move(y) ==
  LET t == Target(active, y)
      d == Hovered(drag[active], TopmostAt(y)) IN
  /\ held /\ y \in Pointed /\ t # None
  /\ \E l \in Overlaid(active, y) :
       CASE Kind[t] = "square" -> MoveSquare(t, active, y, d, l)
         [] Kind[t] = "console" -> MoveConsole(t, active, y, d, l)
         [] OTHER -> /\ drag' = [drag EXCEPT ![active] = d]
                     /\ damage' \in IfNeeded(l, t)
                     /\ UNCHANGED <<frame, gesture>>
  /\ UNCHANGED <<stack, height, active, held, focus>>

(* The end of a drag is not an event for the window that has the focus.     *)
(* What a drop brings to the window below is not modelled here.             *)
Release(y) ==
  LET t == Target(active, y) IN
  /\ held /\ y \in Pointed /\ t # None
  /\ held' = FALSE
  /\ IF drag[active].on
     THEN /\ drag' = [drag EXCEPT ![active] = NoDrag]
          /\ damage' \in Overlaid(active, y)
          /\ UNCHANGED gesture
     ELSE /\ CASE Kind[t] = "square" -> ReleaseSquare(t)
               [] Kind[t] = "console" -> ReleaseConsole(t, y)
               [] OTHER -> UNCHANGED gesture
          /\ damage' \in IfNeeded(damage, t)
          /\ UNCHANGED drag
  /\ UNCHANGED <<stack, frame, height, active, focus>>

(* The wheel, whose place is always 0, the other buttons, and the pointer   *)
(* while the left button is up                                              *)
Other(y) ==
  LET t == Target(active, y) IN
  /\ y \in Pointed /\ t # None
  /\ drag' = [drag EXCEPT ![active] = Hovered(@, TopmostAt(y))]
  /\ \E l \in Overlaid(active, y) : damage' \in IfNeeded(l, t)
  /\ UNCHANGED <<stack, frame, height, active, held, focus, gesture>>

-----------------------------------------------------------------------------
(* Content, the size of the screen, and frames *)

(* The content of w has changed: a key, a text, a widget, a message adds its *)
(* frame or one of its rows.                                                 *)
Content(w) ==
  /\ \E part \in {frame[w]}
          \cup {[y |-> y, h |-> 1] : y \in IF w \in Consoles THEN Span(frame[w])
                                           ELSE {}} :
       damage' = Added(damage, OnScreen(part))
  /\ UNCHANGED <<stack, frame, height, routing, gesture>>

(* What was as high as the screen stays so, the rest is moved inside. *)
Inside(f, old, new) ==
  [f EXCEPT !.y = IF @ + f.h > new THEN Max({new - f.h, 0}) ELSE Max({@, 0})]
Resized(f, old, new) ==
  IF f = [y |-> 0, h |-> old] THEN [y |-> 0, h |-> new]
  ELSE Inside(f, old, new)

(* wm_resize adds the new screen, then where each window is or where it was *)
(* and where it is; the platform adds the screen again.                     *)
Resize(h) ==
  /\ h \in Heights \ {height}
  /\ height' = h
  /\ frame' = [w \in Windows |-> Resized(frame[w], height, h)]
  /\ \E k \in Cardinality(Windows) .. 2 * Cardinality(Windows) :
       damage' = [Added(damage, 0 .. h - 1) EXCEPT
                    !.n = Min({damage.n + 2 + k, MaxDamage})]
  /\ UNCHANGED <<stack, routing, gesture>>

(* The system has uncovered the screen. *)
Expose ==
  /\ damage' = Added(damage, Screen)
  /\ UNCHANGED <<stack, frame, height, routing, gesture>>

(* plat_compose_and_present *)
Compose ==
  /\ damage.n # 0
  /\ damage' = NoDamage
  /\ UNCHANGED <<stack, frame, height, routing, gesture>>

Next ==
  \/ \E u \in Users, y \in 0 .. Top : Press(u, y)
  \/ \E y \in -1 .. Top : Move(y) \/ Release(y) \/ Other(y)
  \/ \E w \in Windows : Content(w)
  \/ \E h \in Heights : Resize(h)
  \/ Expose \/ Compose

Spec == Init /\ [][Next]_vars

-----------------------------------------------------------------------------
(* Properties *)

(* The types; zindexes are distinct and every window has one place in the   *)
(* array                                                                    *)
TypeOK ==
  /\ order \in [1 .. Cardinality(Windows) -> Windows]
  /\ z \in [Windows -> Nat]
  /\ \A v, w \in Windows : z[v] = z[w] => v = w
  /\ \A i, j \in DOMAIN order : order[i] = order[j] => i = j
  /\ frame \in [Windows -> [y : Int, h : Nat \ {0}]]
  /\ height \in Heights
  /\ active \in Users /\ held \in BOOLEAN
  /\ focus \in [Users -> Windows \cup {None}]
  /\ drag \in [Users -> [on : BOOLEAN, source : Windows \cup {None},
                         hover : Windows \cup {None}]]
  /\ square \in [Squares -> [arm : BOOLEAN, at : Int, moving : BOOLEAN,
                             dy : Int]]
  /\ console \in [Consoles -> [arm : BOOLEAN, at : Int,
                               placeholder : BOOLEAN, pending : BOOLEAN]]
  /\ damage \in [places : SUBSET Int, n : 0 .. MaxDamage]

(* What the user sees at a place is what a click there goes to: the         *)
(* composition goes through wm->win, wm_topmost_at compares zindexes.       *)
SeenIsHit ==
  \A y \in Screen : DrawnAt(y)[1] = TopmostAt(y)

(* There is a window at every place of the screen, whatever it was resized  *)
(* to: input_route_mouse reads the frame of the window that was pressed.    *)
ScreenIsCovered ==
  \A y \in Screen : TopmostAt(y) # None

(* A gesture ends with the press it began with and belongs to the window    *)
(* that press raised: that window has the keyboard of the active user and   *)
(* is on top, only it is gripped or the source of a drag, a drag takes the  *)
(* place of the grip, and what is dragged is not going to be a click.       *)
OneGesture ==
  LET top == order[Len(order)] IN
  /\ focus[active] \in {None, top}
  /\ \A u \in Users : drag[u].on =>
       /\ held /\ u = active /\ drag[u].source = top
       /\ top \in Consoles => ~console[top].pending
  /\ \A w \in Squares : square[w].arm \/ square[w].moving =>
       held /\ w = focus[active] /\ ~drag[active].on

(* A place where after a step another window, or another part of one, is to *)
(* be seen, or any if the screen was resized, is in the list of damage for  *)
(* the next frame, unless that list is full: damage_add drops without a     *)
(* word what comes when there are MAX_DAMAGE rectangles (damage.h:16), so   *)
(* windows that are raised, moved or resized leave nothing behind as long   *)
(* as there is room.                                                        *)
DamageCovers ==
  [][damage'.n < MaxDamage =>
       \A y \in (0 .. height' - 1) \ damage'.places :
         height' = height /\ DrawnAt(y)' = DrawnAt(y)]_vars
=============================================================================
