--------------------------- MODULE MCSharedAccount ---------------------------
(***************************************************************************)
(* SharedAccount on the blocks of MCBridgeSystem.                          *)
(***************************************************************************)
EXTENDS MCBridgeSystem, SharedAccount
=============================================================================
