----------------------------- MODULE PostExchange -----------------------------
(***************************************************************************)
(* What the replication of a thread promises, without hashes, tickets,     *)
(* snapshots or placeholders: posts are made once, shared, and learnt.  A  *)
(* node learns only posts that were shared, and what it holds only grows,  *)
(* unless its own user throws the thread away.                             *)
(***************************************************************************)
CONSTANTS
    Node,
    Post,
    Author,    \* Author[p]: the node on which p is made
    Forgetters \* the nodes whose user may throw the thread away

VARIABLES
    made,   \* the posts made so far
    shared, \* the posts that were put on the network
    held    \* held[n]: the posts that node n holds

vars == <<made, shared, held>>

Init ==
    /\ made = {}
    /\ shared = {}
    /\ held = [n \in Node |-> {}]

Make(p) ==
    /\ p \notin made
    /\ made' = made \union {p}
    /\ held' = [held EXCEPT ![Author[p]] = @ \union {p}]
    /\ UNCHANGED shared

Share(S) ==
    /\ S \subseteq made
    /\ shared' = shared \union S
    /\ UNCHANGED <<made, held>>

Learn(n, S) ==
    /\ S \subseteq shared
    /\ held' = [held EXCEPT ![n] = @ \union S]
    /\ UNCHANGED <<made, shared>>

Forget(n) ==
    /\ n \in Forgetters
    /\ held' = [held EXCEPT ![n] = {}]
    /\ UNCHANGED <<made, shared>>

Next ==
    \/ \E p \in Post : Make(p)
    \/ \E S \in SUBSET Post : Share(S)
    \/ \E n \in Node : (\E S \in SUBSET Post : Learn(n, S)) \/ Forget(n)

Spec == Init /\ [][Next]_vars
=============================================================================
