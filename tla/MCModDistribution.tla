-------------------------- MODULE MCModDistribution --------------------------
(* The release journal of one installation with two releases, the second of  *)
(* which asks for what the first one has left.                               *)
EXTENDS ModDistribution

RepeatedWants == <<<<1, 1>>, <<1, 1>>>>
FirstMod == {1}
NoModYet == <<Absent, Base>>
=============================================================================
