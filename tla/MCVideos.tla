------------------------------ MODULE MCVideos ------------------------------
(* Videos for TLC: two videos of one user, the first with a sound that is
   not allowed. *)
EXTENDS Videos

CONSTANTS u1, w1, w2

AuthorOf == [v \in Videos |-> u1]
FlawsOf == [v \in Videos |-> IF v = 1 THEN {"SOUND"} ELSE {}]
=============================================================================
