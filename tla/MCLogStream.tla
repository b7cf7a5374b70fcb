---------------------------- MODULE MCLogStream ----------------------------
(* A small instance of LogStream for TLC. *)
EXTENDS LogStream

CONSTANTS l1, l2, l3, c1

(* Two logs of one instant are written in either order of their ids. *)
RankOf == [l \in Logs |-> CASE l = l1 -> 1 [] l = l2 -> 2 [] OTHER -> 3]
=============================================================================
