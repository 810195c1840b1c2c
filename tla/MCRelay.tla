-------------------------------- MODULE MCRelay --------------------------------
(* Three nodes in a ring: each broadcast gets to one node only and has to be  *)
(* passed on to come round.  alice writes the opening post and changes her    *)
(* profile; bob, who gets the post first, replies to it and reacts to it, so  *)
(* that carol may hear of either before she has the post.                     *)
EXTENDS Relay

CONSTANTS alice, bob, carol, op, reply

MCReach == [n \in Node |-> CASE n = alice -> {bob}
                             [] n = bob -> {carol}
                             [] n = carol -> {alice}]

MCParents == [p \in Post |-> IF p = op THEN {} ELSE {op}]

MCAuthor == [p \in Post |-> IF p = op THEN alice ELSE bob]
=============================================================================
