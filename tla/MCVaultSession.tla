--------------------------- MODULE MCVaultSession ---------------------------
(* The vault session for TLC: timeouts of one tick and of no end.          *)
EXTENDS VaultSession

NoTimeout == Never
=============================================================================
