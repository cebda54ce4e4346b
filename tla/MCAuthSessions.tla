--------------------------- MODULE MCAuthSessions ---------------------------
(* Small instances of AuthSessions for TLC.                                *)
EXTENDS AuthSessions, TLC

Symmetry == Permutations(Careful) \cup Permutations(Requests \ Careful)
=============================================================================
