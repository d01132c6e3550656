--------------------------- MODULE MCStatusPipe ---------------------------
(***************************************************************************)
(* A small instance of StatusPipe for TLC: stages Namespace (the number   *)
(* of SetupFailed) and Exec; exit codes 0 and 255 (whose second byte is    *)
(* the tag) and SIGKILL.                                                   *)
(***************************************************************************)
EXTENDS StatusPipe

SomeStages == {1, 10}
SomeStatuses == {0, 9, 255 * 256}
============================================================================
