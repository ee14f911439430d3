---------------------------- MODULE MCRoomChanges ----------------------------
(***************************************************************************)
(* The operations that change a room's files on several machines: the      *)
(* publication of a configuration, the migration of a world and the        *)
(* provisioning of the room.  They hold the room's lease, so they exclude  *)
(* one another; one run checks them side by side: a behaviour is a         *)
(* behaviour of the operation in focus, and the others stay as they began. *)
(***************************************************************************)
EXTENDS ConfigPublication, PlacementMigration, RoomProvision

VARIABLE focus

\* The second file is new; the second publication saves one target only.
SecondMissing == {2}
BothThenOne == <<{1, 2}, {1}>>

\* The first world stays, the others move to a machine each.
AllButFirst == {2, 3}

\* Worlds out of focus are down; of the room that is provisioned the third may be.
ChangesInit ==
    /\ focus \in {"configuration", "placement", "provision"}
    /\ PubInit /\ MigInit /\ ProvInit
    /\ focus # "placement" => \A h \in Homes : ~runs[h]
    /\ \A w \in {1, 2} : atHome[w] = (focus = "provision")
    /\ focus # "provision" => ~atHome[3]

ChangesNext ==
    /\ UNCHANGED focus
    /\ \/ focus = "configuration" /\ PubNext /\ UNCHANGED <<migVars, provVars>>
       \/ focus = "placement" /\ MigNext /\ UNCHANGED <<pubVars, provVars>>
       \/ focus = "provision" /\ ProvNext /\ UNCHANGED <<pubVars, migVars>>

ChangesSpec == ChangesInit /\ [][ChangesNext]_<<pubVars, migVars, provVars, focus>>

\* The type of every variable of the components, as their declarations say.
ChangesTypeOK == PubTypeOK /\ MigTypeOK /\ ProvTypeOK
=============================================================================
