--------------------------- MODULE MCCommandChannel ---------------------------
(* The command channel with one command and one caller that waits for it. *)
EXTENDS CommandChannel

CONSTANTS c1, general, w1

OneCommand == {c1}
OneQueue == {general}
OneWaiter == {w1}
AllGeneral == [c \in Commands |-> general]
WaitsFirst == [w \in Waiters |-> c1]
=============================================================================
