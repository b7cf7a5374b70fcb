--------------------------- MODULE MCReviewLedger ---------------------------
(* Instances of ReviewLedger for TLC. *)
EXTENDS ReviewLedger

CONSTANTS g1, g2, h1, h2, h3

(* h1 and h2 are goroutines of one gateway, h3 of another. *)
HomeOf == [h \in Handlers |-> IF h = h3 THEN g2 ELSE g1]
=============================================================================
