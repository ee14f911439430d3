----------------------------- MODULE MCReleases -----------------------------
(***************************************************************************)
(* Game files, mods and saves on several machines: the game release        *)
(* coordinator, the mod publication coordinator, the release journal of    *)
(* one installation, on which the latter's calls are executed, and the     *)
(* backup coordinator.  One run checks them side by side: a behaviour is a *)
(* behaviour of the component in focus, and the others stay as they began. *)
(***************************************************************************)
EXTENDS GameRelease, ModDistribution, ModPublication, BackupRestore

VARIABLE focus

\* Two installations, each with one world of the same room.
EachItsOwn == <<1, 2>>
OneRoom == <<1, 1>>
BothPolicies == {<<TRUE, TRUE>>, <<FALSE, FALSE>>}

\* The second release changes one target of the first, the third the other one.
ThreeWants == <<<<1, 1>>, <<1, 2>>, <<3, 2>>>>
FirstMod == {1}
NoModYet == <<Absent, Base>>

\* Worlds out of focus are down; those of a room that is backed up run.
ReleasesInit ==
    /\ focus \in {"game", "installation", "mods", "backup"}
    /\ RelInit /\ DistInit /\ ModInit /\ BackupInit
    /\ focus # "game" => \A w \in Worlds : ~Up(w)
    /\ \A w \in Parts : Running(w) = (focus = "backup")

ReleasesNext ==
    /\ UNCHANGED focus
    /\ \/ focus = "game" /\ RelNext /\ UNCHANGED <<distVars, modVars, backupVars>>
       \/ focus = "installation" /\ DistNext /\ UNCHANGED <<relVars, modVars, backupVars>>
       \/ focus = "mods" /\ ModNext /\ UNCHANGED <<relVars, distVars, backupVars>>
       \/ focus = "backup" /\ BackupNext /\ UNCHANGED <<relVars, distVars, modVars>>

ReleasesSpec ==
    ReleasesInit /\ [][ReleasesNext]_<<relVars, distVars, modVars, backupVars, focus>>

\* The type of every variable of the component in focus, as its declarations say.
ReleasesTypeOK ==
    CASE focus = "game" -> RelTypeOK
      [] focus = "installation" -> DistTypeOK
      [] focus = "mods" -> ModTypeOK
      [] focus = "backup" -> BackupTypeOK
=============================================================================
