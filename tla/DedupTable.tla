----------------------------- MODULE DedupTable -----------------------------
(***************************************************************************)
(* The table in which the mesh backend remembers the operations it has     *)
(* seen (src/src/replication/backends/crdt_mesh.c): open addressing with   *)
(* linear probing, grown when it is half full.  A key is a pair            *)
(* (console_id, op_id); Empty stands for (0, 0), which is also what marks  *)
(* a free entry.  h[key] is the 64-bit value mix64 gives for the key, of   *)
(* which a table takes the remainder by its capacity.                      *)
(***************************************************************************)
EXTENDS Integers, FiniteSets, FiniteSetsExt

CONSTANTS
  Keys,       \* keys, without (0, 0)
  Empty,      \* the key (0, 0)
  DedupCap,   \* CRDT_DEDUP_CAP
  MaxHash     \* bound on the values of mix64

ASSUME DedupAssumption ==
  /\ IsFiniteSet(Keys)
  /\ Empty \notin Keys
  /\ DedupCap \in Nat \ {0}
  /\ MaxHash \in Nat

VARIABLES
  hash,   \* what mix64 gives for each key
  table,  \* dcap, dcount and the entries
  put     \* the keys handed to d_insert so far

tableVars == <<hash, table, put>>

AllKeys == Keys \cup {Empty}

NoTable == [cap |-> 0, count |-> 0, ent |-> [i \in {} |-> Empty]]

(* The entry looked at in step s of a probe. *)
Place(tab, h, key, s) == (h[key] + s) % tab.cap

(* d_probe_find: the first entry that is free or holds the key; with no    *)
(* such entry, and with no table, the index is 0.                          *)
ProbeFind(tab, h, key) ==
  LET stops == {s \in 0 .. tab.cap - 1 :
                  tab.ent[Place(tab, h, key, s)] \in {Empty, key}}
      at == Place(tab, h, key, Min(stops))
  IN  IF stops = {} THEN [found |-> FALSE, idx |-> 0]
      ELSE [found |-> tab.ent[at] # Empty, idx |-> at]

Put(tab, idx, key) ==
  [tab EXCEPT !.ent[idx] = key, !.count = @ + 1]

(* Mutant: entries keep the place the old capacity gave them. *)
GrowInPlace(tab, h, ncap) ==
  [cap |-> ncap, count |-> tab.count,
   ent |-> [i \in 0 .. ncap - 1 |-> IF i < tab.cap THEN tab.ent[i] ELSE Empty]]

(* d_grow: the entries are put, in the order of the old table, into the    *)
(* first free place of a new one.                                          *)
Grow(tab, h, ncap) ==
  LET new == [cap |-> ncap, count |-> 0, ent |-> [i \in 0 .. ncap - 1 |-> Empty]]
      moved[i \in 0 .. tab.cap] ==
        IF i = 0 THEN new
        ELSE LET key == tab.ent[i - 1]
                 t   == moved[i - 1]
             IN  IF key = Empty THEN t ELSE Put(t, ProbeFind(t, h, key).idx, key)
  IN  moved[tab.cap]

(* d_insert *)
Insert(tab, h, key) ==
  LET some  == IF tab.cap = 0 THEN Grow(tab, h, DedupCap) ELSE tab
      roomy == IF some.count * 2 >= some.cap THEN Grow(some, h, some.cap * 2) ELSE some
      p     == ProbeFind(roomy, h, key)
  IN  IF p.found THEN roomy ELSE Put(roomy, p.idx, key)

(* d_seen *)
Seen(tab, h, key) == ProbeFind(tab, h, key).found

-----------------------------------------------------------------------------
TableInit ==
  /\ hash \in [AllKeys -> 0 .. MaxHash]
  /\ table = NoTable
  /\ put = {}

Add(key) ==
  /\ table' = Insert(table, hash, key)
  /\ put' = put \cup {key}
  /\ UNCHANGED hash

(* No sink gives an operation the op_id 0. *)
TableNext == \E key \in Keys : Add(key)

TableSpec == TableInit /\ [][TableNext]_tableVars

-----------------------------------------------------------------------------
(* Properties *)

(* The table is the set of the keys put into it, whatever the hash values: *)
(* no key is lost when the table grows, and none is found that was not put *)
(* in (crdt_mesh.c:94-143).                                                *)
TableIsSet ==
  \A key \in AllKeys : Seen(table, hash, key) <=> key \in put

=============================================================================
