--------------------------- MODULE MCAuthSessions ---------------------------
(***************************************************************************)
(* Instances of AuthSessions for TLC: a few tokens, two requests at once.  *)
(***************************************************************************)
EXTENDS AuthSessions
=============================================================================
