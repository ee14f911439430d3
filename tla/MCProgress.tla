----------------------------- MODULE MCProgress -----------------------------
(***************************************************************************)
(* The two waits of the control plane that must come to an end: a caller's *)
(* wait for a room and a client's wait for a job.  They share no state, so *)
(* one run checks them side by side: a behaviour is a behaviour of the     *)
(* component in focus, and the other one stays as it began.                *)
(***************************************************************************)
EXTENDS RoomOps, Jobs, TLC

CONSTANTS c1, c2, e1, e2,      \* callers and the addresses of lock entries
          j1, t1, t2           \* a job and its targets

VARIABLE focus

TwoCallers == {c1, c2}
TwoRooms == {1, 2}
\* As many addresses as rooms: a dropped entry's address is free for the next
\* one only when nobody points to it any more.
TwoEntries == {e1, e2}

OneJob == {j1}
TwoTargets == {t1, t2}

ProgressInit == focus \in {"rooms", "jobs"} /\ Init /\ JobsInit

\* The job service may come to rest, the room locks never do.
ProgressNext ==
  /\ UNCHANGED focus
  /\ \/ focus = "rooms" /\ Next /\ UNCHANGED jobsVars
     \/ focus = "jobs" /\ JobsNext /\ UNCHANGED vars
     \/ focus = "jobs" /\ UNCHANGED <<vars, jobsVars>>

\* Nothing a component is obliged to do is enabled in its initial state, so the
\* fairness of one that stays there asks for nothing.
ProgressSpec ==
  /\ ProgressInit /\ [][ProgressNext]_<<vars, jobsVars, focus>>
  /\ Fairness /\ JobsFairness
=============================================================================
