------------------------------- MODULE Poller -------------------------------
(***************************************************************************)
(* The network poller (net/net_posix.c), as operators on its record:       *)
(*   entries   the table, one entry per descriptor, in order               *)
(*   ops       the changes asked for while a tick is calling               *)
(*   inTick    whether it is                                               *)
(*   calls     the positions that poll() found ready and that are still    *)
(*             to be called, with the descriptor polled and its events     *)
(* An entry is [fd, mask, cb, user].  While a tick calls, changes are      *)
(* deferred: the table is walked by position.                              *)
(***************************************************************************)
EXTENDS Integers, Sequences

Empty == [entries |-> <<>>, ops |-> <<>>, inTick |-> FALSE, calls |-> <<>>]

Elems(seq) == {seq[i] : i \in DOMAIN seq}

(* The elements of seq that are in S, in their order *)
Only(seq, S) ==
  LET kept[n \in 0 .. Len(seq)] ==
        IF n = 0 THEN <<>>
        ELSE IF seq[n] \in S THEN Append(kept[n - 1], seq[n]) ELSE kept[n - 1]
  IN  kept[Len(seq)]

Others(entries, fd) == Only(entries, {e \in Elems(entries) : e.fd # fd})

(* Mutant: a descriptor that is known keeps its old callback and mask *)
AddedIfNew(entries, new) ==
  IF Others(entries, new.fd) = entries THEN Append(entries, new) ELSE entries

(* OP_ADD *)
Added(entries, new) ==
  IF Others(entries, new.fd) = entries THEN Append(entries, new)
  ELSE [i \in DOMAIN entries |->
          IF entries[i].fd = new.fd THEN new ELSE entries[i]]

(* s_apply_ops, one change *)
Applied(entries, op) ==
  CASE op.kind = "add" -> Added(entries, op.entry)
    [] op.kind = "mod" -> [i \in DOMAIN entries |->
         IF entries[i].fd = op.entry.fd
         THEN [entries[i] EXCEPT !.mask = op.entry.mask] ELSE entries[i]]
    [] OTHER -> Others(entries, op.entry.fd)

(* s_apply_ops. The table before a change is bound as the element of a    *)
(* set, so that TLC evaluates it once.                                    *)
AllApplied(entries, ops) ==
  LET table[n \in 0 .. Len(ops)] ==
        IF n = 0 THEN entries
        ELSE CHOOSE after \in {Applied(before, ops[n]) : before \in {table[n - 1]}} : TRUE
  IN  table[Len(ops)]

(* The table with all changes made *)
Settled(np) == AllApplied(np.entries, np.ops)

(* Mutant: a change is made at once, in a tick as well *)
AskedAtOnce(np, ops) ==
  [np EXCEPT !.entries = AllApplied(@, ops)]

(* net_poller_add, _mod, _del *)
Asked(np, ops) ==
  LET later == [np EXCEPT !.ops = @ \o ops]
  IN IF np.inTick THEN later
     ELSE [later EXCEPT !.entries = Settled(later), !.ops = <<>>]

Add(fd, mask, cb, user) ==
  [kind |-> "add",
   entry |-> [fd |-> fd, mask |-> mask, cb |-> cb, user |-> user]]
Del(fd) ==
  [kind |-> "del", entry |-> [fd |-> fd]]

(* net_poller_tick up to the calls.  events[fd] is what holds for fd;       *)
(* errors are reported whatever was asked for.                              *)
Ticked(np, events) ==
  LET entries == Settled(np)
      found == [i \in DOMAIN entries |->
                  [at |-> i, fd |-> entries[i].fd,
                   ev |-> events[entries[i].fd]
                            \cap (entries[i].mask \cup {"ERR"})]]
  IN [entries |-> entries, ops |-> <<>>, inTick |-> entries # <<>>,
      calls |-> Only(found, {f \in Elems(found) : f.ev # {}})]

(* and after them *)
Finished(np) == [np EXCEPT !.entries = Settled(np), !.ops = <<>>,
                           !.inTick = FALSE]
=============================================================================
