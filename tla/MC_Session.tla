------------------------------ MODULE MC_Session ------------------------------
(* Two emails (one stands for the demo account: the code fabricates a user *)
(* from any email, so they differ only in identity), three LoginPage      *)
(* mounts, two reloads and two armed redirects at a time.                  *)
EXTENDS Session
=============================================================================
