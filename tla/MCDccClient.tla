----------------------------- MODULE MCDccClient -----------------------------
(* Small instances of DccClient for TLC.                                   *)
EXTENDS DccClient

=============================================================================
