--------------------------- MODULE MCBackupBarrier ---------------------------
(***************************************************************************)
(* An instance of BackupBarrier for TLC: the application with two tasks and *)
(* the command line with one.                                               *)
(***************************************************************************)
EXTENDS BackupBarrier, TLC

CONSTANTS app, cli, t1, t2, c1

TwoAndOne == (t1 :> app) @@ (t2 :> app) @@ (c1 :> cli)
=============================================================================
