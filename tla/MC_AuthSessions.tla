--------------------------- MODULE MC_AuthSessions ---------------------------
(* Two tabs, opened in one browser or in two. *)
EXTENDS AuthSessions
=============================================================================
