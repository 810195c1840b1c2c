------------------------------ MODULE Moderation ------------------------------
(***************************************************************************)
(* What one node does about unwanted peers and addresses: the rows of      *)
(* ip_blocks, peer_ips, blocked_peers and blocklist_subscriptions, the     *)
(* cache of the IpBlockChecker that the ingest loop holds, and the gossip  *)
(* handlers that use them: post updates, which become stubs when they come *)
(* from a blocked address, and block actions of the lists that the user    *)
(* follows.                                                                *)
(*                                                                         *)
(* Abstractions.  A rule is one row of ip_blocks with its id, which is     *)
(* never used again; Covers says which addresses it matches.  Of the time  *)
(* stamps in peer_ips only the order counts: last[p] are the addresses     *)
(* that share the newest one.  Of hit_count it is kept whether it is zero. *)
(* The rows of blocklist_entries are left out: nothing ever adds one.      *)
(* A closure of with_repositories is one step.                             *)
(***************************************************************************)
EXTENDS FiniteSets

CONSTANTS
    Peer,         \* the other peers
    Ip,           \* addresses
    Rule,         \* bound: the rows that are ever added to ip_blocks
    Exact,        \* the rules of type "exact"
    Covers,       \* Covers[r]: the addresses that rule r matches
    Post,         \* the posts of one thread
    AuthorOf,     \* AuthorOf[x]: the author of post x
    CodeIps,      \* CodeIps[p]: the addresses in the friend code of p
    List,         \* shared blocklists
    MaintainerOf, \* MaintainerOf[l]: the peer that maintains list l
    Action,       \* the block actions that may be received
    Neighbour,    \* bound: the peers that deliver messages directly
    Restarts      \* whether the node may restart

ASSUME ModerationAssumption ==
    /\ Exact \subseteq Rule
    /\ Covers \in [Rule -> SUBSET Ip]
    /\ AuthorOf \in [Post -> Peer]
    /\ CodeIps \in [Peer -> SUBSET Ip]
    /\ MaintainerOf \in [List -> Peer]
    /\ Action \subseteq [by : Peer, of : Peer, undo : BOOLEAN]
    /\ Neighbour \subseteq Peer
    /\ Restarts \in BOOLEAN

VARIABLES
    known,    \* the peers that have a row in table peers
    ips,      \* ips[p]: the addresses of p in peer_ips
    last,     \* last[p]: those with the newest time stamp
    rule,     \* rule[r]: the state of row r of ip_blocks
    cache,    \* the rules in the cache of the ingest loop's checker
    clearing, \* the rules that a request to clear all has still to remove
    thread,   \* whether the thread has a row
    post,     \* post[x]: what is stored of post x
    blocked,  \* table blocked_peers
    subs,     \* subs[l]: the subscription to list l
    seen,     \* the block actions in the cache of seen messages (not full)
    task,     \* what the ingest loop is working on
    shown,    \* history: the posts that the handler stored in full since the
              \* start, after it had found an address of the author
    overruled \* history: the block actions of this process that were through
              \* when the user made a decision of his own about their peer

blocks == <<rule, cache, clearing>>
peers == <<known, ips, last>>
content == <<thread, post, shown>>
lists == <<blocked, subs, seen, overruled>>
vars == <<blocks, peers, content, lists, task>>

\* An optional value is the set of its value: {} is None, {v} is Some(v).
Option(S) == {{}} \union {{v} : v \in S}

\* The steps of the handlers of PostUpdate and BlockAction.
Task ==
    [step : {"capture", "look"}, post : Post]
        \union [step : {"hit"}, post : Post, rule : Rule]
        \union [step : {"stub"}, post : Post]
        \union [step : {"store"}, post : Post, found : Option(Ip)]
        \union [step : {"apply"}, action : Action]

TypeOK ==
    /\ known \subseteq Peer
    /\ ips \in [Peer -> SUBSET Ip]
    /\ last \in [Peer -> SUBSET Ip]
    /\ rule \in [Rule -> {"unused", "quiet", "hit", "removed"}]
    /\ cache \subseteq Rule
    /\ clearing \in Option(SUBSET Rule)
    /\ thread \in BOOLEAN
    /\ post \in [Post -> {"none", "stub", "full"}]
    /\ blocked \subseteq Peer
    /\ subs \in [List -> {"none", "manual", "auto"}]
    /\ seen \subseteq Action
    /\ task \in Option(Task)
    /\ shown \subseteq Post
    /\ overruled \subseteq Action

Init ==
    /\ known = {}
    /\ ips = [p \in Peer |-> {}]
    /\ last = [p \in Peer |-> {}]
    /\ rule = [r \in Rule |-> "unused"]
    /\ cache = {}
    /\ clearing = {}
    /\ thread = FALSE
    /\ post = [x \in Post |-> "none"]
    /\ blocked = {}
    /\ subs = [l \in List |-> "none"]
    /\ seen = {}
    /\ task = {}
    /\ shown = {}
    /\ overruled = {}

\* IpBlockRepository::list_active; no code ever clears the active flag.
Active == {r \in Rule : rule[r] \in {"quiet", "hit"}}

Matching(R, i) == {r \in R : i \in Covers[r]}

\* PeerIpRepository::update for each address of S, with one time stamp, which
\* may be the one of the newest rows (seconds).
RecordIps(p, S) ==
    /\ ips' = [ips EXCEPT ![p] = @ \union S]
    /\ \/ last' = [last EXCEPT ![p] = IF S = {} THEN @ ELSE S]
       \/ last' = [last EXCEPT ![p] = @ \union S]

-----------------------------------------------------------------------------
(* Peers.                                                                  *)

\* register_friendcode; peers are also learnt from snapshots and profiles,
\* which bring no addresses.
LearnPeer(p) ==
    /\ known' = known \union {p}
    /\ RecordIps(p, CodeIps[p]) \/ UNCHANGED <<ips, last>>
    /\ UNCHANGED <<blocks, content, lists, task>>

\* Rows of peer_ips, blocked_peers, blocklist_subscriptions and posts name p.
Referenced(p) ==
    \/ ips[p] # {}
    \/ p \in blocked
    \/ \E l \in List : subs[l] # "none" /\ MaintainerOf[l] = p
    \/ \E x \in Post : post[x] # "none" /\ AuthorOf[x] = p

\* A foreign key without a cascade makes the request fail.
Unfollow(p) ==
    /\ p \in known
    /\ ~Referenced(p)
    /\ known' = known \ {p}
    /\ UNCHANGED <<ips, last, blocks, content, lists, task>>

-----------------------------------------------------------------------------
(* The API of the address blocks.  Every handler makes a checker of its    *)
(* own, loads the cache of that one and drops it: the cache of the ingest  *)
(* loop does not change.                                                   *)

AddRule(r) ==
    /\ rule[r] = "unused"
    /\ rule' = [rule EXCEPT ![r] = "quiet"]
    /\ UNCHANGED <<cache, clearing, peers, content, lists, task>>

RemoveRule(r) ==
    /\ r \in Active
    /\ rule' = [rule EXCEPT ![r] = "removed"]
    /\ UNCHANGED <<cache, clearing, peers, content, lists, task>>

\* Mutant: the list of rules is taken for a single one.
ListOne ==
    /\ clearing = {}
    /\ clearing' = Active
    /\ UNCHANGED <<rule, cache, peers, content, lists, task>>

\* One request at a time (bound).
ListToClear ==
    /\ clearing = {}
    /\ clearing' = {Active}
    /\ UNCHANGED <<rule, cache, peers, content, lists, task>>

\* A closure for each row that was listed; an id that is gone is no error.
ClearNext ==
    \E R \in clearing :
        \/ /\ R = {}
           /\ clearing' = {}
           /\ rule' = rule
        \/ \E r \in R :
             /\ clearing' = {R \ {r}}
             /\ rule' = [rule EXCEPT ![r] = "removed"]
    /\ UNCHANGED <<cache, peers, content, lists, task>>

-----------------------------------------------------------------------------
(* The API of the peer blocks and the lists: BlockChecker.                 *)

\* History: the user decides about p.
Overrule(p) ==
    overruled' = overruled \union
        {a \in seen : a.of = p /\ task # {[step |-> "apply", action |-> a]}}

BlockPeer(p) ==
    /\ p \in known
    /\ blocked' = blocked \union {p}
    /\ Overrule(p)
    /\ UNCHANGED <<blocks, peers, content, subs, seen, task>>

UnblockPeer(p) ==
    /\ p \in blocked
    /\ blocked' = blocked \ {p}
    /\ Overrule(p)
    /\ UNCHANGED <<blocks, peers, content, subs, seen, task>>

Subscribe(l, mode) ==
    /\ MaintainerOf[l] \in known
    /\ subs' = [subs EXCEPT ![l] = mode]
    /\ UNCHANGED <<blocks, peers, content, blocked, seen, overruled, task>>

\* The blocks that came from the list stay.
Unsubscribe(l) ==
    /\ subs[l] # "none"
    /\ subs' = [subs EXCEPT ![l] = "none"]
    /\ UNCHANGED <<blocks, peers, content, blocked, seen, overruled, task>>

-----------------------------------------------------------------------------
(* Post updates.                                                           *)

ReceivePost(x) ==
    /\ task = {}
    /\ task' = {[step |-> "capture", post |-> x]}
    /\ UNCHANGED <<blocks, peers, content, lists>>

\* capture_peer_ip: the address of the neighbour that delivered the message,
\* if there is a direct connection and the neighbour has a row.
CaptureIp(x) ==
    /\ task = {[step |-> "capture", post |-> x]}
    /\ \/ \E p \in Neighbour \intersect known, i \in Ip : RecordIps(p, {i})
       \/ UNCHANGED <<ips, last>>
    /\ task' = {[step |-> "look", post |-> x]}
    /\ UNCHANGED <<known, blocks, content, lists>>

\* Mutant: only exact rules are looked at.
LookExact(x) ==
    /\ task = {[step |-> "look", post |-> x]}
    /\ \/ \E i \in last[AuthorOf[x]] :
            task' = IF Matching(cache \intersect Exact, i) = {}
                    THEN {[step |-> "store", post |-> x, found |-> {i}]}
                    ELSE {[step |-> "stub", post |-> x]}
       \/ /\ last[AuthorOf[x]] = {}
          /\ task' = {[step |-> "store", post |-> x, found |-> {}]}
    /\ UNCHANGED <<blocks, peers, content, lists>>

\* Mutant: the blocks do not have to match the address.
LookAtAll(x) ==
    /\ task = {[step |-> "look", post |-> x]}
    /\ IF cache # {} THEN task' = {[step |-> "stub", post |-> x]}
       ELSE task' = {[step |-> "store", post |-> x, found |-> {}]}
    /\ UNCHANGED <<blocks, peers, content, lists>>

\* is_peer_blocked: the newest row of peer_ips, one of them if several are
\* equally new, against the cache, where exact rules come first.
LookUpAuthor(x) ==
    /\ task = {[step |-> "look", post |-> x]}
    /\ \/ \E i \in last[AuthorOf[x]] :
            LET found == Matching(cache, i)
                exact == found \intersect Exact IN
            IF found = {}
            THEN task' = {[step |-> "store", post |-> x, found |-> {i}]}
            ELSE \E r \in IF exact # {} THEN exact ELSE found :
                     task' = {[step |-> "hit", post |-> x, rule |-> r]}
       \/ /\ last[AuthorOf[x]] = {}
          /\ task' = {[step |-> "store", post |-> x, found |-> {}]}
    /\ UNCHANGED <<blocks, peers, content, lists>>

\* record_hit: nothing is updated if the rule has been removed meanwhile.
RecordHit ==
    \E t \in task :
        /\ t.step = "hit"
        /\ rule' = IF t.rule \in Active THEN [rule EXCEPT ![t.rule] = "hit"]
                   ELSE rule
        /\ task' = {[step |-> "stub", post |-> t.post]}
        /\ UNCHANGED <<cache, clearing, peers, content, lists>>

\* create_stub_post_for_blocked_ip: the stub replaces what is stored of the
\* post; the foreign key fails if the thread is not there.
StoreStub ==
    \E t \in task :
        /\ t.step = "stub"
        /\ IF thread
           THEN /\ post' = [post EXCEPT ![t.post] = "stub"]
                /\ shown' = shown \ {t.post}
           ELSE UNCHANGED <<post, shown>>
        /\ task' = {}
        /\ UNCHANGED <<thread, blocks, peers, lists>>

\* The other closure of apply_post_update.  The addresses in the friend code
\* of the author are recorded before his row: those of an unknown author are
\* refused by the foreign key.
StoreFull ==
    \E t \in task :
        /\ t.step = "store"
        /\ IF thread
           THEN LET a == AuthorOf[t.post] IN
                /\ known' = known \union {a}
                /\ \/ a \in known /\ RecordIps(a, CodeIps[a])
                   \/ UNCHANGED <<ips, last>>
                /\ post' = [post EXCEPT ![t.post] = "full"]
                /\ shown' = IF t.found # {} THEN shown \union {t.post}
                            ELSE shown \ {t.post}
           ELSE UNCHANGED <<peers, post, shown>>
        /\ task' = {}
        /\ UNCHANGED <<thread, blocks, lists>>

\* A snapshot brings the thread and any of its posts in full, unchecked; it is
\* applied by the ingest loop or by a download: ThreadSync has the detail.
ApplySnapshot(X) ==
    /\ thread' = TRUE
    /\ post' = [x \in Post |-> IF x \in X THEN "full" ELSE post[x]]
    /\ known' = known \union {AuthorOf[x] : x \in X}
    /\ shown' = shown \ X
    /\ UNCHANGED <<ips, last, blocks, lists, task>>

DeleteThread ==
    /\ thread
    /\ thread' = FALSE
    /\ post' = [x \in Post |-> "none"]
    /\ shown' = {}
    /\ UNCHANGED <<blocks, peers, lists, task>>

-----------------------------------------------------------------------------
(* Block actions of others.                                                *)

\* Mutant: an action that was seen before is handled again.
ReceiveAgain(a) ==
    /\ task = {}
    /\ seen' = seen \union {a}
    /\ task' = IF \E l \in List : MaintainerOf[l] = a.by /\ subs[l] = "auto"
               THEN {[step |-> "apply", action |-> a]} ELSE {}
    /\ UNCHANGED <<blocks, peers, content, blocked, subs, overruled>>

\* The subscriptions are listed in one closure ...
ReceiveAction(a) ==
    /\ task = {}
    /\ a \notin seen
    /\ seen' = seen \union {a}
    /\ task' = IF \E l \in List : MaintainerOf[l] = a.by /\ subs[l] = "auto"
               THEN {[step |-> "apply", action |-> a]} ELSE {}
    /\ UNCHANGED <<blocks, peers, content, blocked, subs, overruled>>

\* Mutant: the peer need not be known.
ApplyBlindly ==
    \E t \in task :
        /\ t.step = "apply"
        /\ blocked' = IF t.action.undo THEN blocked \ {t.action.of}
                      ELSE blocked \union {t.action.of}
        /\ task' = {}
        /\ UNCHANGED <<blocks, peers, content, subs, seen, overruled>>

\* ... and the peer is blocked or unblocked in another: an unblock takes away
\* a block of the user's own as well, and a peer without a row is skipped.
ApplyAction ==
    \E t \in task :
        /\ t.step = "apply"
        /\ blocked' =
               IF t.action.undo THEN blocked \ {t.action.of}
               ELSE blocked \union ({t.action.of} \intersect known)
        /\ task' = {}
        /\ UNCHANGED <<blocks, peers, content, subs, seen, overruled>>

-----------------------------------------------------------------------------
(* Restart, and the specification.                                         *)

\* NetworkHandle::start makes the ingest loop's checker and loads its cache.
Restart ==
    /\ Restarts
    /\ cache' = Active
    /\ clearing' = {}
    /\ seen' = {}
    /\ task' = {}
    /\ shown' = {}
    /\ overruled' = {}
    /\ UNCHANGED <<rule, peers, thread, post, blocked, subs>>

Handle ==
    \/ \E x \in Post : CaptureIp(x) \/ LookUpAuthor(x)
    \/ RecordHit
    \/ StoreStub
    \/ StoreFull
    \/ ApplyAction

Api ==
    \/ \E p \in Peer :
          LearnPeer(p) \/ Unfollow(p) \/ BlockPeer(p) \/ UnblockPeer(p)
    \/ \E r \in Rule : AddRule(r) \/ RemoveRule(r)
    \/ ListToClear
    \/ ClearNext
    \/ \E l \in List, mode \in {"manual", "auto"} : Subscribe(l, mode)
    \/ \E l \in List : Unsubscribe(l)
    \/ DeleteThread

Next ==
    \/ \E x \in Post : ReceivePost(x)
    \/ \E a \in Action : ReceiveAction(a)
    \/ \E X \in SUBSET Post : ApplySnapshot(X)
    \/ Handle
    \/ Api
    \/ Restart

Spec == Init /\ [][Next]_vars

-----------------------------------------------------------------------------
(* Properties.                                                             *)

\* Every block, subscription and recorded address names a peer that has a
\* row, although the handler of a block action looks at the subscriptions in
\* one closure and blocks in another, addresses arrive with messages of peers
\* nobody knows, and the user may unfollow in between.
ReferencesHold ==
    /\ blocked \subseteq known
    /\ \A l \in List : subs[l] # "none" => MaintainerOf[l] \in known
    /\ \A p \in Peer : ips[p] # {} => p \in known
    /\ \A x \in Post : post[x] # "none" => AuthorOf[x] \in known

\* The rules that were in force when the process started keep out who is under
\* them: a post that was let through after an address of its author was found
\* has an author with an address that none of those rules covers, whatever
\* addresses are recorded and rules come and go while it is handled.  Of rules
\* that were added since the start it says nothing: see BlocksTakeEffect.
RulesOfTheStartHold ==
    \A x \in shown :
        \E i \in ips[AuthorOf[x]] : Matching(cache, i) = {}

\* No post is replaced by a stub without a cause: its author has used an
\* address that some rule, even if it is removed by now, matches.
StubsHaveCause ==
    \A x \in Post : post[x] = "stub" =>
        \E i \in ips[AuthorOf[x]], r \in Rule :
            rule[r] # "unused" /\ i \in Covers[r]

\* The user has the last word on a peer: a block action of a list that came
\* before the decision is never applied after it, however often it is
\* delivered again, until the node restarts.  (One that is being handled at
\* that moment may still be, and a later one of the list wins.)
OverruledActionsRest ==
    \A t \in task : t.step = "apply" => t.action \notin overruled

-----------------------------------------------------------------------------
(* What a comment of the source claims and the code breaks.                *)

\* "Reload cache to include new block": a rule that was added before an author
\* is looked up, and not removed, is heeded by that check, so that no post is
\* let through from an address that a rule in table ip_blocks covers.
BlocksTakeEffect ==
    [][\A t \in task' \ task :
          t.step = "store" => \A i \in t.found : Matching(Active, i) = {}]_vars
=============================================================================
