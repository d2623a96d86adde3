---------------------------- MODULE MCUnixSocket ----------------------------
(* Small instances of UnixSocket. *)
EXTENDS UnixSocket

CONSTANTS robot, user, c1, c2
=============================================================================
