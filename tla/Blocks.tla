------------------------------- MODULE Blocks -------------------------------
(* The blocks that may arrive; a block is identified with its uniqueId.      *)
CONSTANTS Block, None

ASSUME NoneIsNoBlock == None \notin Block
=============================================================================
