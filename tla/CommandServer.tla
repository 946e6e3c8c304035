---------------------------- MODULE CommandServer ----------------------------
(***************************************************************************)
(* What svc.service promises: commands are executed one by one in the      *)
(* order in which they were published, each once, and whoever asked for    *)
(* the result of a command gets one reply, after it was executed.  When    *)
(* the service stops it gives up whatever it has not begun.                *)
(***************************************************************************)
EXTENDS Integers, Sequences

CONSTANT Cli

VARIABLES
  wantsReply,  \* the commands that do
  up,          \* the service takes commands
  todo,        \* the commands to execute, the first of which may have begun
  owed         \* executed, and the reply is to come

vars == <<wantsReply, up, todo, owed>>

Init ==
  /\ wantsReply \subseteq Cli
  /\ up = TRUE
  /\ todo = << >>
  /\ owed = {}

Ask(c) ==
  /\ up
  /\ todo' = Append(todo, c)
  /\ UNCHANGED <<wantsReply, up, owed>>

Execute ==
  /\ todo # << >>
  /\ todo' = Tail(todo)
  /\ owed' = owed \cup ({Head(todo)} \cap wantsReply)
  /\ UNCHANGED <<wantsReply, up>>

Reply(c) ==
  /\ c \in owed
  /\ owed' = owed \ {c}
  /\ UNCHANGED <<wantsReply, up, todo>>

Stop ==
  /\ up
  /\ up' = FALSE
  /\ \E n \in {0, 1} : n <= Len(todo) /\ todo' = SubSeq(todo, 1, n)
  /\ UNCHANGED <<wantsReply, owed>>

(* The end of the process: no command ends and no reply is sent any more. *)
End ==
  /\ ~up
  /\ todo' = << >> /\ owed' = {}
  /\ UNCHANGED <<wantsReply, up>>

Next ==
  \/ \E c \in Cli : Ask(c) \/ Reply(c)
  \/ Execute \/ Stop \/ End

Spec == Init /\ [][Next]_vars
=============================================================================
