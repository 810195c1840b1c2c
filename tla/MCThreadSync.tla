---------------------------- MODULE MCThreadSync ----------------------------
(* Instances of ThreadSync: alice creates the thread, bob is the one whose  *)
(* user downloads it, and posts are named by who writes them.               *)
EXTENDS ThreadSync, TLC

CONSTANTS alice, bob, carol, op, a1, b1

MCAuthor == [p \in Post |-> IF p = b1 THEN bob ELSE alice]

\* b1 replies to the opening post; bob's clock is behind, so it sorts first.
SkewedParents == [p \in Post |-> IF p = op THEN {} ELSE {op}]
SkewedRank == [e \in Entry |-> IF e = op THEN 1 ELSE 0]

\* b1 replies to the placeholder, a1 to b1; the clocks agree.
ChainParents ==
    [p \in Post |-> CASE p = op -> {} [] p = b1 -> {Preview} [] p = a1 -> {b1}]
ChainRank ==
    [e \in Entry |-> CASE e \in {op, Preview} -> 0 [] e = b1 -> 1 [] e = a1 -> 2]

\* a1 replies to the opening post; nobody else writes.
ReplyParents == [p \in Post |-> IF p = op THEN {} ELSE {op}]
ReplyRank == [e \in Entry |-> IF e \in {op, Preview} THEN 0 ELSE 1]

BobDownloads == [n \in Node |-> IF n = bob THEN 1 ELSE 0]
AllDownload == [n \in Node |-> 1]
=============================================================================
