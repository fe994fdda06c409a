---------------------------- MODULE MCTaskFolder ----------------------------
(* Instances of TaskFolder for TLC.                                        *)
EXTENDS TaskFolder

=============================================================================
