----------------------------- MODULE MCPgStore -----------------------------
(* Two workers and the row of one run: the first creates, drives and       *)
(* signals it, the second takes over and deletes it.                       *)
EXTENDS PgStore

Plain(w, op)  == [op |-> op, by |-> w, set |-> {}, drop |-> {}, at |-> 0]
Tags(w, s, d) == [Plain(w, "tag") EXCEPT !.set = s, !.drop = d]

MCWorkers == {"w1", "w2"}
MCNumbers == 0..16
MCKeys == {"a", "b", "c"}
MCCall ==
  << [Plain("w1", "create") EXCEPT !.set = {"a"}],
     Tags("w1", {"b"}, {}),
     Plain("w1", "signal"),
     Plain("w1", "append"),
     Tags("w2", {"c"}, {"a"}),
     Plain("w2", "signal"),
     Plain("w2", "acquire"),
     Plain("w2", "delete") >>
=============================================================================
