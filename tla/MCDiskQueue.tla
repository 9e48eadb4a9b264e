---------------------------- MODULE MCDiskQueue ----------------------------
(* Model-checking instances of DiskQueue and DQueue; the bounds are in the   *)
(* .cfg files.                                                               *)
EXTENDS DQueue

On(copy, mayCrash) == [copy |-> copy, mayCrash |-> mayCrash]

\* Both copies without a crash, and both with one.
AllSetups == {On(q, crash) : q \in {"diskqueue", "dqueue"}, crash \in BOOLEAN}

CrashSetup == {On("diskqueue", TRUE)}
=============================================================================
