------------------------------ MODULE MCStream ------------------------------
(***************************************************************************)
(* Two components that hand work on and must not forget any: the event     *)
(* stream of the jobs and the agent's command queues.  They share no state,*)
(* so one run checks them side by side: a behaviour is a behaviour of the  *)
(* component in focus, and the other one stays as it began.                *)
(***************************************************************************)
EXTENDS JobEvents, CommandChannel, TLC

CONSTANTS r1, j1, j2,          \* a reader and the jobs it follows
          k1, k2, general      \* commands and their queue

VARIABLE focus

OneReader == {r1}
TwoJobs == {j1, j2}
TwoCommands == {k1, k2}
OneQueue == {general}
AllGeneral == [c \in Commands |-> general]
NobodyWaits == [w \in Waiters |-> k1]

StreamInit == focus \in {"events", "channel"} /\ EventsInit /\ ChannelInit

\* The command queues may come to rest, the stream never does.
StreamNext ==
  /\ UNCHANGED focus
  /\ \/ focus = "events" /\ EventsNext /\ UNCHANGED channelVars
     \/ focus = "channel" /\ ChannelNext /\ UNCHANGED eventVars
     \/ focus = "channel" /\ UNCHANGED <<eventVars, channelVars>>

\* Nothing a component is obliged to do is enabled in its initial state, so the
\* fairness of one that stays there asks for nothing.
StreamSpec ==
  /\ StreamInit /\ [][StreamNext]_<<eventVars, channelVars, focus>>
  /\ EventsFairness /\ ChannelFairness

\* The type of every variable of both components, as their declarations say.
StreamTypeOK == EventsTypeOK /\ ChannelTypeOK
=============================================================================
