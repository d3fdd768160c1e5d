---------------------------- MODULE MCGroupPanels ----------------------------
(***************************************************************************)
(* Small instances of GroupPanels for TLC.                                 *)
(***************************************************************************)
EXTENDS GroupPanels, TLC
=============================================================================
