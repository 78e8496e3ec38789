---------------------------- MODULE MCTransfers -----------------------------
(* Small instances, side by side, of what a file transfer runs through: a       *)
(* behaviour is one of the worker and the carrier ("jobs") or one of the        *)
(* redirected drive ("drive"); the parts share no state, so their graphs add up. *)
EXTENDS Transfers, RedirectedDrive

\* A file of the bundle, a name in the share, and names that leave the share.
SmallWirePaths ==
    {<<>>, <<"bundle">>, <<"bundle", "cua">>, <<"bundle", "..", "cua">>,
     <<"..", "x">>, <<"..", "share", "x">>, <<"..">>, <<"C:", "x">>}
SmallBundle == <<"bridge", "cua">>
SmallStaging == <<"1.part", "2.part">>

VARIABLE part

movingVars == <<part, transferVars, driveVars>>

MovingInit == part \in {"jobs", "drive"} /\ TransfersInit /\ DriveInit

MovingNext ==
    /\ UNCHANGED part
    /\ \/ part = "jobs" /\ TransfersNext /\ UNCHANGED driveVars
       \/ part = "drive" /\ DriveNext /\ UNCHANGED transferVars

MovingSpec == MovingInit /\ [][MovingNext]_movingVars

MovingFair == MovingSpec /\ TransfersJustice
=============================================================================
