------------------------------ MODULE MCFencing ------------------------------
(***************************************************************************)
(* The room operation leases and the callers that wait for a command's     *)
(* answer.  They share no state, so one run checks them side by side: a    *)
(* behaviour is a behaviour of the component in focus, and the other one   *)
(* stays as it began.                                                      *)
(***************************************************************************)
EXTENDS OperationLease, CommandChannel, TLC

CONSTANTS c1, c2, c3, k1, k2,       \* operations and their keys
          d1, general, w1, w2       \* a command, its queue and its waiters

VARIABLE focus

ThreeCallers == {c1, c2, c3}
AllKeys == {k1, k2}
\* Two operations under one key, as concurrent console sends to one world, and
\* one with a key of its own (uuid.NewString, as in most callers).
SharedKey == c1 :> k1 @@ c2 :> k1 @@ c3 :> k2
SharerSymmetry == Permutations({c1, c2})

OneCommand == {d1}
OneQueue == {general}
AllGeneral == [d \in Commands |-> general]
\* Two callers wait for the same command.
TwoWaiters == {w1, w2}
BothFirst == [w \in Waiters |-> d1]

FencingInit == focus \in {"leases", "waiters"} /\ LeaseInit /\ ChannelInit

FencingNext ==
  /\ UNCHANGED focus
  /\ \/ focus = "leases" /\ LeaseNext /\ UNCHANGED channelVars
     \/ focus = "waiters" /\ ChannelNext /\ UNCHANGED leaseVars

FencingSpec == FencingInit /\ [][FencingNext]_<<leaseVars, channelVars, focus>>
=============================================================================
