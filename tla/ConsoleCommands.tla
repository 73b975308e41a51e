-------------------------- MODULE ConsoleCommands ---------------------------
(***************************************************************************)
(* What the processor makes of a line (src/src/apps/console_processor.c    *)
(* and console_processor_ext.c): a line is its words, and the first entry  *)
(* whose words it starts with, and for which it is long enough, takes it.  *)
(* The entries are in the order in which the code asks; those for the hub, *)
(* the client and the mesh come first.                                     *)
(*                                                                         *)
(* An entry calls another part, or only answers, with so many lines.       *)
(***************************************************************************)
EXTENDS Integers, Sequences

(* main.c gives the hub its leader, local_loop, client and mesh. *)
Backends == 4

(* split_tokens: words beyond the eighth are not looked at. *)
MaxWords == 8
AtLeast(n) == n .. MaxWords

Entry(words, argc, call, says) ==
  [words |-> words, argc |-> argc, call |-> call, says |-> says]
Only == "only answers"

(* con_processor_ext_try_handle *)
ExtEntries == <<
  Entry(<<"help", "repl">>, {2}, Only, 11),
  Entry(<<"hub", "backends">>, AtLeast(2), Only, 1 + Backends),
  Entry(<<"hub", "route">>, AtLeast(2), Only, 1),
  Entry(<<"hub", "force">>, AtLeast(3), "replhub_force_backend", 1),
  Entry(<<"hub", "require">>, AtLeast(3), "replhub_set_topic_caps", 1),
  Entry(<<"hub", "switch">>, AtLeast(2), "replhub_switch_backend", 1),
  Entry(<<"net", "client", "connect">>, AtLeast(5), "repl_client_tcp_connect", 1),
  Entry(<<"net", "client", "disconnect">>, AtLeast(3), "repl_client_tcp_disconnect", 1),
  Entry(<<"net", "client", "stat">>, AtLeast(3), Only, 1),
  Entry(<<"mesh", "seed", "add">>, AtLeast(4), "repl_crdt_mesh_seed_add", 1),
  Entry(<<"mesh", "stat">>, AtLeast(2), Only, 1) >>

(* con_processor_on_command: what is put in by "color" is the answer, and  *)
(* a line that starts with "color set" starts with "color", too.           *)
OwnEntries == <<
  Entry(<<"help">>, AtLeast(1), Only, 3),
  Entry(<<"echo">>, AtLeast(1), Only, 1),
  Entry(<<"time">>, AtLeast(1), Only, 1),
  Entry(<<"color">>, AtLeast(1), Only, 1),
  Entry(<<"widgets">>, AtLeast(1), "con_store_get_widget", 1),
  Entry(<<"color", "set">>, AtLeast(2), "con_sink_widget_message", 0),
  Entry(<<"net", "leader">>, AtLeast(2), "echo_start_leader", 1),
  Entry(<<"net", "client">>, AtLeast(2), "echo_start_client", 1),
  Entry(<<"net", "stop">>, AtLeast(2), "echo_destroy", 1),
  Entry(<<"net">>, AtLeast(1), Only, 1),
  Entry(<<>>, {0}, Only, 0),
  Entry(<<>>, AtLeast(1), Only, 1) >>

Entries == ExtEntries \o OwnEntries

Takes(entry, line) ==
  LET n == Len(line) IN
  /\ (IF n > MaxWords THEN MaxWords ELSE n) \in entry.argc
  /\ SubSeq(line, 1, Len(entry.words)) = entry.words

Taken(line) ==
  Entries[CHOOSE i \in DOMAIN Entries :
            /\ Takes(Entries[i], line)
            /\ \A j \in 1 .. i - 1 : ~Takes(Entries[j], line)]

(* How many operations a line is answered with. *)
Answers(line) == Taken(line).says
OnlyAnswers(line) == Taken(line).call = Only
=============================================================================
