------------------------- MODULE MCBtpsTransporter -------------------------
(***************************************************************************)
(* Small instances of BtpsTransporter for TLC: every call, client and      *)
(* receiver is a model value.                                              *)
(***************************************************************************)
EXTENDS BtpsTransporter
=============================================================================
