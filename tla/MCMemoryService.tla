--------------------------- MODULE MCMemoryService ---------------------------
(***************************************************************************)
(* MemoryService for TLC: the default namespace and two tenants.           *)
(***************************************************************************)
EXTENDS MemoryService

MCNamespaces == {"default", "acme", "zeta"}
MCDefault    == "default"
MCBothModes  == {"path", "store"}
MCStoreMode  == {"store"}
=============================================================================
