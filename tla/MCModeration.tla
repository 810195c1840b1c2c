----------------------------- MODULE MCModeration -----------------------------
(* One author with an address in his friend code and another one that others *)
(* see; one maintainer of a list; an exact rule and a range that covers both *)
(* addresses.                                                                *)
EXTENDS Moderation

CONSTANTS author, keeper, home, away, narrow, wide

MCCovers == [r \in Rule |-> IF r = narrow THEN {home} ELSE {home, away}]

MCAuthorOf == [x \in Post |-> author]

MCCodeIps == [p \in Peer |-> IF p = author THEN {home} ELSE {}]

MCMaintainerOf == [l \in List |-> keeper]

MCAction == [by : {keeper}, of : {author}, undo : BOOLEAN]
=============================================================================
