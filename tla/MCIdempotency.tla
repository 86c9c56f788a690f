--------------------------- MODULE MCIdempotency ---------------------------
(***************************************************************************)
(* TLC instance of Idempotency: all its constants are given by the cfg.     *)
(***************************************************************************)
EXTENDS Idempotency

=============================================================================
