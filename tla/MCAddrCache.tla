---------------------------- MODULE MCAddrCache ----------------------------
(* Small instances of AddrCache for TLC.                                   *)
EXTENDS AddrCache
=============================================================================
