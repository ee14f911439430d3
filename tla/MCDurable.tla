------------------------------ MODULE MCDurable ------------------------------
(***************************************************************************)
(* The two records of work that outlive a process: the operation journal   *)
(* of an agent and the job table of the control plane.  They share no      *)
(* state, so one run checks them side by side: a behaviour is a behaviour  *)
(* of the component in focus, and the other one stays as it began.         *)
(***************************************************************************)
EXTENDS AgentJournal, Jobs, TLC

CONSTANTS w1, w2, start, stop, send, master, room, b1, b2, l1, l2,  \* the journal
          j1, j2, t1                                                \* the jobs

VARIABLE focus

TwoWorkers == {w1, w2}
WorkerSymmetry == Permutations(TwoWorkers)

\* A start and a stop of one shard, and a Runtime operation of the room.
AllOps == {start, stop, send}
Shards == {start, stop}
Launches == {start}
AllLocks == {master, room}
LockTable == start :> master @@ stop :> master @@ send :> room

R(op, body, token, lease) == [op |-> op, body |-> body, token |-> token, lease |-> lease]

\* The start is retried under a newer lease and once with another body; token 1
\* is also used by a second lease, as after a restored control-plane database.
Arrivals ==
    { R(start, b1, 1, l1), R(start, b1, 2, l2), R(start, b2, 1, l1),
      R(stop, b1, 1, l2), R(stop, b1, 2, l2),
      R(send, b1, 1, l1), R(send, b1, 2, l2) }

TwoJobs == {j1, j2}
OneTarget == {t1}

DurableInit == focus \in {"journal", "jobs"} /\ JournalInit /\ JobsInit

\* The job service may come to rest, the agent never does.
DurableNext ==
  /\ UNCHANGED focus
  /\ \/ focus = "journal" /\ JournalNext /\ UNCHANGED jobsVars
     \/ focus = "jobs" /\ JobsNext /\ UNCHANGED journalVars
     \/ focus = "jobs" /\ UNCHANGED <<journalVars, jobsVars>>

DurableSpec == DurableInit /\ [][DurableNext]_<<journalVars, jobsVars, focus>>
=============================================================================
