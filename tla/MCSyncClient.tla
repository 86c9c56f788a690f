---------------------------- MODULE MCSyncClient ----------------------------
(* Small instances of SyncClient. *)
EXTENDS SyncClient, TLC

CONSTANTS v1, v2

TwoVaults == 1 :> v1 @@ 2 :> v2

=============================================================================
