----------------------------- MODULE MC_AppShell -----------------------------
(* The three sample products, each line driven up to quantity 3.           *)
EXTENDS AppShell
=============================================================================
