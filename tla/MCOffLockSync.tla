--------------------------- MODULE MCOffLockSync ---------------------------
(***************************************************************************)
(* OffLockSync for TLC.                                                    *)
(***************************************************************************)
EXTENDS OffLockSync
=============================================================================
