--------------------------- MODULE ColorRegister ----------------------------
(***************************************************************************)
(* The colour slider (src/src/apps/widget_color.c): a value with the stamp *)
(* of the delta that set it.  Deltas are merged by their stamps, an hlc    *)
(* and the actor that took it; a drag changes the value at once and leaves *)
(* the stamp as it is.  Values are named by the drag that chose them.      *)
(***************************************************************************)
EXTENDS Integers

Unset == [hlc |-> 0, actor |-> 0]

(* widget_color_create *)
NewSlider == [val |-> 0, ver |-> Unset]

(* Mutant: of equal clocks none is newer. *)
NewerByClock(s, t) == s.hlc > t.hlc

(* By the clock, and of equal clocks by the actor. *)
Newer(s, t) == s.hlc > t.hlc \/ (s.hlc = t.hlc /\ s.actor > t.actor)

(* color_on_message for "cw.delta": an older or repeated delta is ignored. *)
Merged(slider, delta) ==
  IF Newer(delta.ver, slider.ver) THEN delta ELSE slider

(* color_on_event: a press or a move with the button held. *)
Moved(slider, val) == [slider EXCEPT !.val = val]
=============================================================================
