----------------------------- MODULE MCIdsFile -----------------------------
(* Small instances of IdsFile for TLC.                                     *)
EXTENDS IdsFile
=============================================================================
