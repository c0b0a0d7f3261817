----------------------------- MODULE MCLaunch ------------------------------
(* Small instance of Launch: clients of an old and of a new build. *)
EXTENDS Launch

CONSTANTS c1, c2, c3

MCBuild == [c \in Clients |-> IF c = c1 THEN "old" ELSE "new"]
=============================================================================
