---------------------------- MODULE MC_OrderHistory ----------------------------
(* The session bounds of MC_Session: two emails, three LoginPage mounts,   *)
(* two reloads and two armed login redirects.                              *)
EXTENDS OrderHistory
=============================================================================
