-------------------------- MODULE ModerationProofs --------------------------
(***************************************************************************)
(* Proofs about Moderation for any peers, addresses, rules, posts, lists   *)
(* and block actions.                                                      *)
(***************************************************************************)
EXTENDS Moderation, TLAPS

\* What keeps the properties true from step to step: the newest addresses are
\* among those recorded; rules are loaded after they were added; what the
\* handler is about to do has the cause that it found earlier; and only
\* actions that were seen are overruled.

NewestAreRecorded == \A p \in Peer : last[p] \subseteq ips[p]

LoadedRulesExist == \A r \in cache : rule[r] # "unused"

Cause(x) == \E i \in ips[AuthorOf[x]], r \in Rule :
                rule[r] # "unused" /\ i \in Covers[r]

StubsToComeHaveCause ==
    \A t \in task : t.step \in {"hit", "stub"} => Cause(t.post)

FoundPassed ==
    \A t \in task : t.step = "store" =>
        \A i \in t.found : i \in ips[AuthorOf[t.post]] /\ Matching(cache, i) = {}

OverruledWereSeen == overruled \subseteq seen

IInv ==
    /\ TypeOK
    /\ ReferencesHold
    /\ RulesOfTheStartHold
    /\ StubsHaveCause
    /\ OverruledActionsRest
    /\ NewestAreRecorded
    /\ LoadedRulesExist
    /\ StubsToComeHaveCause
    /\ FoundPassed
    /\ OverruledWereSeen

-----------------------------------------------------------------------------
(* Type correctness.                                                       *)

LEMMA RecordIpsFacts ==
    ASSUME TypeOK, NEW p \in Peer, NEW S \in SUBSET Ip, RecordIps(p, S)
    PROVE  /\ ips' \in [Peer -> SUBSET Ip]
           /\ last' \in [Peer -> SUBSET Ip]
           /\ ips'[p] = ips[p] \union S
           /\ last'[p] \subseteq last[p] \union S
           /\ \A q \in Peer \ {p} : ips'[q] = ips[q] /\ last'[q] = last[q]
BY DEF TypeOK, RecordIps

LEMMA TaskTypes ==
    /\ \A x \in Post : /\ [step |-> "capture", post |-> x] \in Task
                       /\ [step |-> "look", post |-> x] \in Task
                       /\ [step |-> "stub", post |-> x] \in Task
    /\ \A x \in Post, r \in Rule : [step |-> "hit", post |-> x, rule |-> r] \in Task
    /\ \A x \in Post : [step |-> "store", post |-> x, found |-> {}] \in Task
    /\ \A x \in Post, i \in Ip : [step |-> "store", post |-> x, found |-> {i}] \in Task
    /\ \A a \in Action : [step |-> "apply", action |-> a] \in Task
BY DEF Task, Option

LEMMA TaskFields ==
    ASSUME NEW t \in Task
    PROVE  /\ t.step \in {"capture", "look", "hit", "stub", "store", "apply"}
           /\ t.step # "apply" => t.post \in Post
           /\ t.step = "hit" => t.rule \in Rule
           /\ t.step = "store" => t.found \in Option(Ip)
           /\ t.step = "apply" => t.action \in Action
<1> DEFINE Looking == [step : {"capture", "look"}, post : Post]
           Hitting == [step : {"hit"}, post : Post, rule : Rule]
           Stubbing == [step : {"stub"}, post : Post]
           Storing == [step : {"store"}, post : Post, found : Option(Ip)]
           Applying == [step : {"apply"}, action : Action]
<1>1. t \in Looking \/ t \in Hitting \/ t \in Stubbing \/ t \in Storing \/ t \in Applying
    BY DEF Task
<1>2. CASE t \in Looking
    BY <1>2
<1>3. CASE t \in Hitting
    BY <1>3
<1>4. CASE t \in Stubbing
    BY <1>4
<1>5. CASE t \in Storing
    BY <1>5
<1>6. CASE t \in Applying
    BY <1>6
<1>7. QED
    BY <1>1, <1>2, <1>3, <1>4, <1>5, <1>6

\* What is being handled is nothing or one task.
LEMMA OneTask ==
    /\ {} \in Option(Task)
    /\ \A t \in Task : {t} \in Option(Task)
BY DEF Option

LEMMA InitType == Init => TypeOK
BY OneTask DEF Init, TypeOK, Option

LEMMA ApiType == TypeOK /\ Api => TypeOK'
<1> SUFFICES ASSUME TypeOK, Api PROVE TypeOK'
    OBVIOUS
<1> USE DEF blocks, peers, content, lists
<1>1. ASSUME NEW p \in Peer, LearnPeer(p) PROVE TypeOK'
    <2>1. CodeIps[p] \in SUBSET Ip
        BY ModerationAssumption DEF ModerationAssumption
    <2>2. ips' \in [Peer -> SUBSET Ip] /\ last' \in [Peer -> SUBSET Ip]
        <3>1. CASE RecordIps(p, CodeIps[p])
            BY <2>1, <3>1, RecordIpsFacts
        <3>2. CASE UNCHANGED <<ips, last>>
            BY <3>2 DEF TypeOK
        <3>3. QED
            BY <1>1, <3>1, <3>2 DEF LearnPeer
    <2>3. QED
        BY <1>1, <2>2 DEF LearnPeer, TypeOK
<1>2. ASSUME NEW p \in Peer, Unfollow(p) PROVE TypeOK'
    BY <1>2 DEF Unfollow, TypeOK
<1>3. ASSUME NEW p \in Peer, BlockPeer(p) \/ UnblockPeer(p) PROVE TypeOK'
    BY <1>3 DEF BlockPeer, UnblockPeer, Overrule, TypeOK
<1>4. ASSUME NEW r \in Rule, AddRule(r) \/ RemoveRule(r) PROVE TypeOK'
    BY <1>4 DEF AddRule, RemoveRule, TypeOK
<1>5. ASSUME ListToClear PROVE TypeOK'
    <2>1. clearing' \in Option(SUBSET Rule)
        BY <1>5 DEF ListToClear, Active, Option
    <2>2. QED
        BY <1>5, <2>1 DEF ListToClear, TypeOK
<1>6. ASSUME ClearNext PROVE TypeOK'
    <2>1. PICK R \in clearing :
              \/ R = {} /\ clearing' = {} /\ rule' = rule
              \/ \E r \in R : /\ clearing' = {R \ {r}}
                              /\ rule' = [rule EXCEPT ![r] = "removed"]
        BY <1>6 DEF ClearNext
    <2>2. R \in SUBSET Rule
        BY <2>1 DEF TypeOK, Option
    <2>3. clearing' \in Option(SUBSET Rule)
        BY <2>1, <2>2 DEF Option
    <2>4. rule' \in [Rule -> {"unused", "quiet", "hit", "removed"}]
        BY <2>1, <2>2 DEF TypeOK
    <2>5. QED
        BY <1>6, <2>3, <2>4 DEF ClearNext, TypeOK
<1>7. ASSUME NEW l \in List, NEW mode \in {"manual", "auto"}, Subscribe(l, mode)
      PROVE  TypeOK'
    BY <1>7 DEF Subscribe, TypeOK
<1>8. ASSUME NEW l \in List, Unsubscribe(l) PROVE TypeOK'
    BY <1>8 DEF Unsubscribe, TypeOK
<1>9. ASSUME DeleteThread PROVE TypeOK'
    BY <1>9 DEF DeleteThread, TypeOK
<1>10. QED
    BY <1>1, <1>2, <1>3, <1>4, <1>5, <1>6, <1>7, <1>8, <1>9 DEF Api

LEMMA HandleType == TypeOK /\ Handle => TypeOK'
<1> SUFFICES ASSUME TypeOK, Handle PROVE TypeOK'
    OBVIOUS
<1> USE DEF blocks, peers, content, lists
<1>1. ASSUME NEW x \in Post, CaptureIp(x) PROVE TypeOK'
    <2>1. task' \in Option(Task)
        BY <1>1, OneTask, TaskTypes DEF CaptureIp
    <2>2. ips' \in [Peer -> SUBSET Ip] /\ last' \in [Peer -> SUBSET Ip]
        <3>1. ASSUME NEW p \in Peer, NEW i \in Ip, RecordIps(p, {i})
              PROVE  ips' \in [Peer -> SUBSET Ip] /\ last' \in [Peer -> SUBSET Ip]
            <4>1. {i} \in SUBSET Ip
                OBVIOUS
            <4>2. QED
                BY <3>1, <4>1, RecordIpsFacts
        <3>2. CASE UNCHANGED <<ips, last>>
            BY <3>2 DEF TypeOK
        <3>3. Neighbour \subseteq Peer
            BY ModerationAssumption DEF ModerationAssumption
        <3>4. QED
            BY <1>1, <3>1, <3>2, <3>3 DEF CaptureIp
    <2>3. QED
        BY <1>1, <2>1, <2>2 DEF CaptureIp, TypeOK
<1>2. ASSUME NEW x \in Post, LookUpAuthor(x) PROVE TypeOK'
    <2>1. AuthorOf[x] \in Peer
        BY ModerationAssumption DEF ModerationAssumption
    <2>2. last[AuthorOf[x]] \subseteq Ip
        BY <2>1 DEF TypeOK
    <2>3. cache \subseteq Rule
        BY DEF TypeOK
    <2>4. task' \in Option(Task)
        <3>1. CASE task' = {[step |-> "store", post |-> x, found |-> {}]}
            BY <3>1, OneTask, TaskTypes
        <3>2. ASSUME NEW i \in last[AuthorOf[x]],
                     task' = {[step |-> "store", post |-> x, found |-> {i}]}
              PROVE  task' \in Option(Task)
            BY <2>2, <3>2, OneTask, TaskTypes
        <3>3. ASSUME NEW i \in last[AuthorOf[x]], NEW r \in Matching(cache, i),
                     task' = {[step |-> "hit", post |-> x, rule |-> r]}
              PROVE  task' \in Option(Task)
            <4>1. r \in Rule
                BY <2>3 DEF Matching
            <4>2. QED
                BY <3>3, <4>1, OneTask, TaskTypes
        <3>4. QED
            BY <1>2, <3>1, <3>2, <3>3 DEF LookUpAuthor
    <2>5. QED
        BY <1>2, <2>4 DEF LookUpAuthor, TypeOK
<1>3. task \subseteq Task
    BY DEF TypeOK, Option
<1>4. ASSUME RecordHit PROVE TypeOK'
    <2>1. PICK t \in task :
              /\ t.step = "hit"
              /\ rule' = IF t.rule \in Active
                         THEN [rule EXCEPT ![t.rule] = "hit"] ELSE rule
              /\ task' = {[step |-> "stub", post |-> t.post]}
              /\ UNCHANGED <<cache, clearing, peers, content, lists>>
        BY <1>4 DEF RecordHit
    <2>2. t.post \in Post
        BY <1>3, <2>1, TaskFields
    <2>3. task' \in Option(Task)
        BY <2>1, <2>2, OneTask, TaskTypes
    <2>4. rule' \in [Rule -> {"unused", "quiet", "hit", "removed"}]
        BY <2>1 DEF TypeOK
    <2>5. QED
        BY <2>1, <2>3, <2>4 DEF TypeOK
<1>5. ASSUME StoreStub PROVE TypeOK'
    BY <1>3, <1>5, OneTask DEF StoreStub, TypeOK
<1>6. ASSUME StoreFull PROVE TypeOK'
    <2>1. PICK t \in task :
              /\ t.step = "store"
              /\ IF thread
                 THEN LET a == AuthorOf[t.post] IN
                      /\ known' = known \union {a}
                      /\ \/ a \in known /\ RecordIps(a, CodeIps[a])
                         \/ UNCHANGED <<ips, last>>
                      /\ post' = [post EXCEPT ![t.post] = "full"]
                      /\ shown' = IF t.found # {} THEN shown \union {t.post}
                                  ELSE shown \ {t.post}
                 ELSE UNCHANGED <<peers, post, shown>>
              /\ task' = {}
              /\ UNCHANGED <<thread, blocks, lists>>
        BY <1>6 DEF StoreFull
    <2>2. t.post \in Post
        BY <1>3, <2>1, TaskFields
    <2> DEFINE a == AuthorOf[t.post]
    <2>3. a \in Peer /\ CodeIps[a] \in SUBSET Ip
        BY <2>2, ModerationAssumption DEF ModerationAssumption
    <2>4. ips' \in [Peer -> SUBSET Ip] /\ last' \in [Peer -> SUBSET Ip]
        <3>1. CASE RecordIps(a, CodeIps[a])
            BY <2>3, <3>1, RecordIpsFacts
        <3>2. CASE UNCHANGED <<ips, last>>
            BY <3>2 DEF TypeOK
        <3>3. QED
            BY <2>1, <3>1, <3>2
    <2>5. /\ known' \subseteq Peer
          /\ post' \in [Post -> {"none", "stub", "full"}]
          /\ shown' \subseteq Post
        BY <2>1, <2>2, <2>3 DEF TypeOK
    <2>6. QED
        BY <2>1, <2>4, <2>5, OneTask DEF TypeOK
<1>7. ASSUME ApplyAction PROVE TypeOK'
    <2>1. PICK t \in task :
              /\ t.step = "apply"
              /\ blocked' = IF t.action.undo THEN blocked \ {t.action.of}
                            ELSE blocked \union ({t.action.of} \intersect known)
              /\ task' = {}
              /\ UNCHANGED <<blocks, peers, content, subs, seen, overruled>>
        BY <1>7 DEF ApplyAction
    <2>2. blocked' \subseteq Peer
        BY <2>1 DEF TypeOK
    <2>3. QED
        BY <2>1, <2>2, OneTask DEF TypeOK
<1>8. QED
    BY <1>1, <1>2, <1>4, <1>5, <1>6, <1>7 DEF Handle

LEMMA NextType == TypeOK /\ [Next]_vars => TypeOK'
<1> SUFFICES ASSUME TypeOK, [Next]_vars PROVE TypeOK'
    OBVIOUS
<1> USE DEF blocks, peers, content, lists
<1>1. ASSUME NEW x \in Post, ReceivePost(x) PROVE TypeOK'
    BY <1>1, OneTask, TaskTypes DEF ReceivePost, TypeOK
<1>2. ASSUME NEW a \in Action, ReceiveAction(a) PROVE TypeOK'
    <2>1. task' \in Option(Task)
        BY <1>2, OneTask, TaskTypes DEF ReceiveAction
    <2>2. QED
        BY <1>2, <2>1 DEF ReceiveAction, TypeOK
<1>3. ASSUME NEW X \in SUBSET Post, ApplySnapshot(X) PROVE TypeOK'
    <2>1. known' \subseteq Peer
        BY <1>3, ModerationAssumption DEF ApplySnapshot, ModerationAssumption, TypeOK
    <2>2. QED
        BY <1>3, <2>1 DEF ApplySnapshot, TypeOK
<1>4. CASE Restart
    <2>1. cache' \subseteq Rule /\ clearing' \in Option(SUBSET Rule)
        BY <1>4 DEF Restart, Active, Option
    <2>2. QED
        BY <1>4, <2>1, OneTask DEF Restart, TypeOK
<1>5. CASE UNCHANGED vars
    BY <1>5 DEF vars, TypeOK
<1>6. QED
    BY <1>1, <1>2, <1>3, <1>4, <1>5, ApiType, HandleType DEF Next

\* Every variable keeps its type.
THEOREM TypeCorrect == Spec => []TypeOK
<1>1. QED
    BY InitType, NextType, PTL DEF Spec

-----------------------------------------------------------------------------
(* Addresses and rules only become more.                                   *)

LEMMA AddressSteps ==
    ASSUME TypeOK, [Next]_vars
    PROVE  \/ UNCHANGED <<ips, last>>
           \/ \E p \in Peer, S \in SUBSET Ip : p \in known' /\ RecordIps(p, S)
<1> USE DEF blocks, peers, content, lists
<1>1. ASSUME NEW p \in Peer, LearnPeer(p), ~UNCHANGED <<ips, last>>
      PROVE  p \in known' /\ RecordIps(p, CodeIps[p]) /\ CodeIps[p] \in SUBSET Ip
    BY <1>1, ModerationAssumption DEF LearnPeer, ModerationAssumption
<1>2. ASSUME NEW x \in Post, CaptureIp(x), ~UNCHANGED <<ips, last>>
      PROVE  \E p \in Peer, S \in SUBSET Ip : p \in known' /\ RecordIps(p, S)
    <2>1. PICK p \in Neighbour \intersect known, i \in Ip : RecordIps(p, {i})
        BY <1>2 DEF CaptureIp
    <2>2. p \in Peer /\ p \in known' /\ {i} \in SUBSET Ip
        BY <1>2, <2>1, ModerationAssumption DEF CaptureIp, ModerationAssumption
    <2>3. QED
        BY <2>1, <2>2
<1>3. ASSUME StoreFull, ~UNCHANGED <<ips, last>>
      PROVE  \E p \in Peer, S \in SUBSET Ip : p \in known' /\ RecordIps(p, S)
    <2>1. PICK t \in task :
              /\ t.step = "store"
              /\ AuthorOf[t.post] \in known'
              /\ RecordIps(AuthorOf[t.post], CodeIps[AuthorOf[t.post]])
        BY <1>3 DEF StoreFull
    <2>2. t \in Task
        BY DEF TypeOK, Option
    <2>3. AuthorOf[t.post] \in Peer /\ CodeIps[AuthorOf[t.post]] \in SUBSET Ip
        BY <2>1, <2>2, TaskFields, ModerationAssumption DEF ModerationAssumption
    <2>4. QED
        BY <2>1, <2>3
<1>4. CASE UNCHANGED vars
    BY <1>4 DEF vars
<1>5. ASSUME Next PROVE \/ \E p \in Peer : LearnPeer(p)
                        \/ \E x \in Post : CaptureIp(x)
                        \/ StoreFull
                        \/ UNCHANGED <<ips, last>>
    BY <1>5 DEF Next, Handle, Api, ReceivePost, ReceiveAction, ApplySnapshot,
       Restart, LookUpAuthor, RecordHit, StoreStub, ApplyAction, Unfollow,
       BlockPeer, UnblockPeer, AddRule, RemoveRule, ListToClear, ClearNext,
       Subscribe, Unsubscribe, DeleteThread
<1>6. QED
    BY <1>1, <1>2, <1>3, <1>4, <1>5

LEMMA Addresses ==
    ASSUME TypeOK, NewestAreRecorded, [Next]_vars
    PROVE  /\ \A p \in Peer : ips[p] \subseteq ips'[p]
           /\ NewestAreRecorded'
<1>1. CASE UNCHANGED <<ips, last>>
    BY <1>1 DEF NewestAreRecorded
<1>2. ASSUME NEW p \in Peer, NEW S \in SUBSET Ip, RecordIps(p, S)
      PROVE  /\ \A q \in Peer : ips[q] \subseteq ips'[q]
             /\ NewestAreRecorded'
    BY <1>2, RecordIpsFacts DEF NewestAreRecorded
<1>3. QED
    BY <1>1, <1>2, AddressSteps

LEMMA Rules ==
    ASSUME TypeOK, LoadedRulesExist, [Next]_vars
    PROVE  /\ \A r \in Rule : rule[r] # "unused" => rule'[r] # "unused"
           /\ LoadedRulesExist'
           /\ cache' = cache \/ Restart
<1> USE DEF blocks, peers, content, lists
<1>1. CASE Restart
    BY <1>1 DEF Restart, Active, LoadedRulesExist, TypeOK
<1>2. ASSUME rule' = rule, cache' = cache
      PROVE  /\ \A r \in Rule : rule[r] # "unused" => rule'[r] # "unused"
             /\ LoadedRulesExist'
    BY <1>2 DEF LoadedRulesExist
<1>3. ASSUME NEW r \in Rule, NEW s \in {"quiet", "hit", "removed"},
             rule' = [rule EXCEPT ![r] = s], cache' = cache
      PROVE  /\ \A q \in Rule : rule[q] # "unused" => rule'[q] # "unused"
             /\ LoadedRulesExist'
    BY <1>3 DEF LoadedRulesExist, TypeOK
<1>4. ASSUME RecordHit
      PROVE  /\ cache' = cache
             /\ \/ rule' = rule
                \/ \E r \in Rule : rule' = [rule EXCEPT ![r] = "hit"]
    BY <1>4 DEF RecordHit, Active
<1>5. ASSUME ClearNext
      PROVE  /\ cache' = cache
             /\ \/ rule' = rule
                \/ \E r \in Rule : rule' = [rule EXCEPT ![r] = "removed"]
    <2>1. \A R \in clearing : R \subseteq Rule
        BY DEF TypeOK, Option
    <2>2. QED
        BY <1>5, <2>1 DEF ClearNext
<1>6. ASSUME NEW r \in Rule, AddRule(r) \/ RemoveRule(r)
      PROVE  /\ cache' = cache
             /\ \E s \in {"quiet", "removed"} : rule' = [rule EXCEPT ![r] = s]
    BY <1>6 DEF AddRule, RemoveRule
<1>7. ASSUME Next PROVE \/ Restart \/ RecordHit \/ ClearNext
                        \/ \E r \in Rule : AddRule(r) \/ RemoveRule(r)
                        \/ rule' = rule /\ cache' = cache
    BY <1>7 DEF Next, Handle, Api, ReceivePost, ReceiveAction, ApplySnapshot,
       CaptureIp, LookUpAuthor, StoreStub, StoreFull, ApplyAction, LearnPeer,
       Unfollow, BlockPeer, UnblockPeer, ListToClear, Subscribe, Unsubscribe,
       DeleteThread
<1>8. CASE UNCHANGED vars
    BY <1>2, <1>8 DEF vars
<1>9. ASSUME Next
       PROVE  /\ \A r \in Rule : rule[r] # "unused" => rule'[r] # "unused"
              /\ LoadedRulesExist'
              /\ cache' = cache \/ Restart
    <2>1. CASE Restart
        BY <1>1, <2>1
    <2>2. CASE RecordHit
        BY <1>2, <1>3, <1>4, <2>2
    <2>3. CASE ClearNext
        BY <1>2, <1>3, <1>5, <2>3
    <2>4. CASE \E r \in Rule : AddRule(r) \/ RemoveRule(r)
        BY <1>3, <1>6, <2>4
    <2>5. CASE rule' = rule /\ cache' = cache
        BY <1>2, <2>5
    <2>6. QED
        BY <1>7, <1>9, <2>1, <2>2, <2>3, <2>4, <2>5
<1>10. QED
    BY <1>8, <1>9 DEF vars

LEMMA CausesStay ==
    ASSUME TypeOK, NewestAreRecorded, LoadedRulesExist, [Next]_vars,
           NEW x \in Post, Cause(x)
    PROVE  Cause(x)'
<1>1. AuthorOf[x] \in Peer
    BY ModerationAssumption DEF ModerationAssumption
<1>2. QED
    BY <1>1, Addresses, Rules DEF Cause

-----------------------------------------------------------------------------
(* Every reference names a peer that has a row.                            *)

\* What a row refers to is not forgotten.
LEMMA ReferencedStay ==
    ASSUME TypeOK, [Next]_vars, NEW p \in known, Referenced(p)
    PROVE  p \in known'
<1> USE DEF blocks, peers, content, lists
<1>1. ASSUME NEW q \in Peer, Unfollow(q) PROVE p \in known'
    BY <1>1 DEF Unfollow
<1>2. CASE StoreFull
    BY <1>2 DEF StoreFull
<1>3. CASE UNCHANGED vars
    BY <1>3 DEF vars
<1>4. QED
    BY <1>1, <1>2, <1>3 DEF Next, Handle, Api, ReceivePost, ReceiveAction,
       ApplySnapshot, CaptureIp, LookUpAuthor, RecordHit, StoreStub,
       ApplyAction, LearnPeer, BlockPeer, UnblockPeer, AddRule, RemoveRule,
       ListToClear, ClearNext, Subscribe, Unsubscribe, DeleteThread, Restart

LEMMA NewBlocks ==
    ASSUME [Next]_vars, NEW p \in blocked'
    PROVE  p \in blocked \/ p \in known'
<1> USE DEF blocks, peers, content, lists
<1>1. CASE ApplyAction
    BY <1>1 DEF ApplyAction
<1>2. ASSUME NEW q \in Peer, BlockPeer(q) \/ UnblockPeer(q)
      PROVE  p \in blocked \/ p \in known'
    BY <1>2 DEF BlockPeer, UnblockPeer
<1>3. CASE UNCHANGED vars
    BY <1>3 DEF vars
<1>4. QED
    BY <1>1, <1>2, <1>3 DEF Next, Handle, Api, ReceivePost, ReceiveAction,
       ApplySnapshot, CaptureIp, LookUpAuthor, RecordHit, StoreStub, StoreFull,
       LearnPeer, Unfollow, AddRule, RemoveRule, ListToClear, ClearNext,
       Subscribe, Unsubscribe, DeleteThread, Restart

LEMMA NewSubscriptions ==
    ASSUME TypeOK, [Next]_vars, NEW l \in List, subs'[l] # "none"
    PROVE  subs[l] # "none" \/ MaintainerOf[l] \in known'
<1> USE DEF blocks, peers, content, lists
<1>1. ASSUME NEW k \in List, NEW mode \in {"manual", "auto"}, Subscribe(k, mode)
      PROVE  subs[l] # "none" \/ MaintainerOf[l] \in known'
    BY <1>1 DEF Subscribe, TypeOK
<1>2. ASSUME NEW k \in List, Unsubscribe(k) PROVE subs[l] # "none"
    BY <1>2 DEF Unsubscribe, TypeOK
<1>3. CASE UNCHANGED vars
    BY <1>3 DEF vars
<1>4. QED
    BY <1>1, <1>2, <1>3 DEF Next, Handle, Api, ReceivePost, ReceiveAction,
       ApplySnapshot, CaptureIp, LookUpAuthor, RecordHit, StoreStub, StoreFull,
       ApplyAction, LearnPeer, Unfollow, BlockPeer, UnblockPeer, AddRule,
       RemoveRule, ListToClear, ClearNext, DeleteThread, Restart

\* A post that changes is a stub that was to come, or brings its author.
LEMMA NewPosts ==
    ASSUME TypeOK, [Next]_vars, NEW x \in Post, post'[x] \notin {post[x], "none"}
    PROVE  \/ post'[x] = "full" /\ AuthorOf[x] \in known'
           \/ /\ post'[x] = "stub"
              /\ known' = known
              /\ \E t \in task : t.step = "stub" /\ t.post = x
<1> USE DEF blocks, peers, content, lists
<1>1. CASE StoreFull
    BY <1>1 DEF StoreFull, TypeOK
<1>2. CASE StoreStub
    BY <1>2 DEF StoreStub, TypeOK
<1>3. ASSUME NEW X \in SUBSET Post, ApplySnapshot(X)
      PROVE  post'[x] = "full" /\ AuthorOf[x] \in known'
    BY <1>3 DEF ApplySnapshot, TypeOK
<1>4. CASE UNCHANGED vars
    BY <1>4 DEF vars
<1>5. CASE DeleteThread
    BY <1>5 DEF DeleteThread
<1>6. QED
    BY <1>1, <1>2, <1>3, <1>4, <1>5 DEF Next, Handle, Api, ReceivePost,
       ReceiveAction, CaptureIp, LookUpAuthor, RecordHit, ApplyAction,
       LearnPeer, Unfollow, BlockPeer, UnblockPeer, AddRule, RemoveRule,
       ListToClear, ClearNext, Subscribe, Unsubscribe, Restart

\* Nobody has a cause without a recorded address, and with it a row.
LEMMA CauseKnown ==
    ASSUME ReferencesHold, NEW x \in Post, Cause(x)
    PROVE  AuthorOf[x] \in known
BY ModerationAssumption DEF ModerationAssumption, ReferencesHold, Cause

LEMMA ReferencesStep ==
    ASSUME TypeOK, ReferencesHold, StubsToComeHaveCause, [Next]_vars
    PROVE  ReferencesHold'
<1>1. blocked' \subseteq known'
    BY NewBlocks, ReferencedStay DEF ReferencesHold, Referenced
<1>2. ASSUME NEW l \in List, subs'[l] # "none" PROVE MaintainerOf[l] \in known'
    BY <1>2, NewSubscriptions, ReferencedStay DEF ReferencesHold, Referenced
<1>3. ASSUME NEW p \in Peer, ips'[p] # {} PROVE p \in known'
    <2>1. CASE ips[p] # {}
        BY <2>1, ReferencedStay DEF ReferencesHold, Referenced
    <2>2. ASSUME NEW q \in Peer, NEW S \in SUBSET Ip, q \in known', RecordIps(q, S),
                 ips[p] = {}
          PROVE  p \in known'
        BY <1>3, <2>2, RecordIpsFacts
    <2>3. QED
        BY <1>3, <2>1, <2>2, AddressSteps
<1>4. ASSUME NEW x \in Post, post'[x] # "none" PROVE AuthorOf[x] \in known'
    <2>1. CASE post'[x] = post[x]
        BY <1>4, <2>1, ReferencedStay DEF ReferencesHold, Referenced
    <2>2. CASE post'[x] # post[x]
        BY <1>4, <2>2, NewPosts, CauseKnown DEF StubsToComeHaveCause
    <2>3. QED
        BY <2>1, <2>2
<1>5. QED
    BY <1>1, <1>2, <1>3, <1>4 DEF ReferencesHold

-----------------------------------------------------------------------------
(* Stubs have a cause, and the posts that are shown have passed.           *)

\* Where a task of the handler comes from.
LEMMA NewTasks ==
    ASSUME TypeOK, [Next]_vars, NEW t \in task',
           t \notin task, t.step \in {"hit", "stub", "store"}
    PROVE  /\ t.post \in Post
           /\ cache' = cache
           /\ \/ /\ t.step = "hit"
                 /\ \E i \in last[AuthorOf[t.post]] : Matching(cache, i) # {}
              \/ /\ t.step = "stub"
                 /\ \E h \in task : h.step = "hit" /\ h.post = t.post
              \/ /\ t.step = "store"
                 /\ \A i \in t.found : /\ i \in last[AuthorOf[t.post]]
                                       /\ Matching(cache, i) = {}
<1> USE DEF blocks, peers, content, lists
<1> DEFINE Goal ==
        /\ t.post \in Post
        /\ cache' = cache
        /\ \/ /\ t.step = "hit"
              /\ \E i \in last[AuthorOf[t.post]] : Matching(cache, i) # {}
           \/ /\ t.step = "stub"
              /\ \E h \in task : h.step = "hit" /\ h.post = t.post
           \/ /\ t.step = "store"
              /\ \A i \in t.found : /\ i \in last[AuthorOf[t.post]]
                                    /\ Matching(cache, i) = {}
<1>1. ASSUME NEW x \in Post, LookUpAuthor(x) PROVE Goal
    <2>1. ASSUME NEW i \in last[AuthorOf[x]], Matching(cache, i) = {},
                 task' = {[step |-> "store", post |-> x, found |-> {i}]}
          PROVE  Goal
        BY <1>1, <2>1 DEF LookUpAuthor
    <2>2. ASSUME NEW i \in last[AuthorOf[x]], NEW r \in Matching(cache, i),
                 task' = {[step |-> "hit", post |-> x, rule |-> r]}
          PROVE  Goal
        BY <1>1, <2>2 DEF LookUpAuthor
    <2>3. ASSUME task' = {[step |-> "store", post |-> x, found |-> {}]}
          PROVE  Goal
        BY <1>1, <2>3 DEF LookUpAuthor
    <2>4. QED
        BY <1>1, <2>1, <2>2, <2>3 DEF LookUpAuthor
<1>2. ASSUME RecordHit PROVE Goal
    <2>1. PICK h \in task : /\ h.step = "hit"
                            /\ task' = {[step |-> "stub", post |-> h.post]}
        BY <1>2 DEF RecordHit
    <2>2. h.post \in Post
        BY <2>1, TaskFields DEF TypeOK, Option
    <2>3. QED
        BY <1>2, <2>1, <2>2 DEF RecordHit
<1>3. ASSUME NEW x \in Post, ReceivePost(x) \/ CaptureIp(x) PROVE Goal
    BY <1>3 DEF ReceivePost, CaptureIp
<1>4. ASSUME NEW a \in Action, ReceiveAction(a) PROVE Goal
    BY <1>4 DEF ReceiveAction
<1>5. ASSUME StoreStub \/ StoreFull \/ ApplyAction \/ Restart PROVE Goal
    BY <1>5 DEF StoreStub, StoreFull, ApplyAction, Restart
<1>6. CASE UNCHANGED vars
    BY <1>6 DEF vars
<1>7. CASE task' = task
    BY <1>7
<1>8. CASE Next
    <2>1. \/ \E x \in Post : LookUpAuthor(x) \/ ReceivePost(x) \/ CaptureIp(x)
          \/ RecordHit
          \/ \E a \in Action : ReceiveAction(a)
          \/ StoreStub \/ StoreFull \/ ApplyAction \/ Restart
          \/ task' = task
        BY <1>8 DEF Next, Handle, Api, ApplySnapshot, LearnPeer, Unfollow,
           BlockPeer, UnblockPeer, AddRule, RemoveRule, ListToClear, ClearNext,
           Subscribe, Unsubscribe, DeleteThread
    <2>2. QED
        BY <1>1, <1>2, <1>3, <1>4, <1>5, <1>7, <2>1
<1>9. QED
    BY <1>6, <1>8

\* While the handler is at work, the loaded rules do not change.
LEMMA CacheStays ==
    ASSUME TypeOK, LoadedRulesExist, [Next]_vars, NEW t \in task'
    PROVE  cache' = cache
BY Rules DEF Restart

LEMMA StubsToComeStep ==
    ASSUME TypeOK, NewestAreRecorded, LoadedRulesExist, StubsToComeHaveCause,
           [Next]_vars
    PROVE  StubsToComeHaveCause'
<1> SUFFICES ASSUME NEW t \in task', t.step \in {"hit", "stub"}
             PROVE  Cause(t.post)'
    BY DEF StubsToComeHaveCause
<1>1. CASE t \in task
    <2>1. t.post \in Post
        BY <1>1, TaskFields DEF TypeOK, Option
    <2>2. QED
        BY <1>1, <2>1, CausesStay DEF StubsToComeHaveCause
<1>2. CASE t \notin task
    <2>1. t.post \in Post
        BY <1>2, NewTasks
    <2>2. CASE t.step = "hit"
        <3>1. PICK i \in last[AuthorOf[t.post]] : Matching(cache, i) # {}
            BY <1>2, <2>2, NewTasks
        <3>2. PICK r \in cache : i \in Covers[r]
            BY <3>1 DEF Matching
        <3>3. AuthorOf[t.post] \in Peer
            BY <2>1, ModerationAssumption DEF ModerationAssumption
        <3>4. i \in ips[AuthorOf[t.post]] /\ r \in Rule /\ rule[r] # "unused"
            BY <3>3 DEF NewestAreRecorded, LoadedRulesExist, TypeOK
        <3>5. Cause(t.post)
            BY <3>2, <3>4 DEF Cause
        <3>6. QED
            BY <2>1, <3>5, CausesStay
    <2>3. CASE t.step = "stub"
        BY <1>2, <2>1, <2>3, NewTasks, CausesStay DEF StubsToComeHaveCause
    <2>4. QED
        BY <2>2, <2>3
<1>3. QED
    BY <1>1, <1>2

LEMMA StubsStep ==
    ASSUME TypeOK, NewestAreRecorded, LoadedRulesExist, StubsToComeHaveCause,
           StubsHaveCause, [Next]_vars
    PROVE  StubsHaveCause'
<1> SUFFICES ASSUME NEW x \in Post, post'[x] = "stub" PROVE Cause(x)'
    BY DEF StubsHaveCause, Cause
<1>1. Cause(x)
    BY NewPosts DEF StubsToComeHaveCause, StubsHaveCause, Cause
<1>2. QED
    BY <1>1, CausesStay

LEMMA FoundStep ==
    ASSUME TypeOK, NewestAreRecorded, LoadedRulesExist, FoundPassed, [Next]_vars
    PROVE  FoundPassed'
<1> SUFFICES ASSUME NEW t \in task', t.step = "store", NEW i \in t.found
             PROVE  i \in ips'[AuthorOf[t.post]] /\ Matching(cache', i) = {}
    BY DEF FoundPassed, Matching
<1>1. cache' = cache
    BY CacheStays
<1>2. t.post \in Post
    BY NewTasks, TaskFields DEF TypeOK, Option
<1>3. AuthorOf[t.post] \in Peer
    BY <1>2, ModerationAssumption DEF ModerationAssumption
<1>4. i \in ips[AuthorOf[t.post]] /\ Matching(cache, i) = {}
    BY <1>3, NewTasks DEF FoundPassed, NewestAreRecorded
<1>5. QED
    BY <1>1, <1>3, <1>4, Addresses

\* Where a post that is shown comes from.
LEMMA NewShown ==
    ASSUME [Next]_vars, NEW x \in shown'
    PROVE  \/ x \in shown
           \/ \E t \in task : /\ t.step = "store"
                              /\ t.post = x
                              /\ t.found # {}
                              /\ cache' = cache
<1> USE DEF blocks, peers, content, lists
<1>1. CASE StoreFull
    BY <1>1 DEF StoreFull
<1>2. CASE StoreStub
    BY <1>2 DEF StoreStub
<1>3. CASE UNCHANGED vars
    BY <1>3 DEF vars
<1>4. QED
    BY <1>1, <1>2, <1>3 DEF Next, Handle, Api, ReceivePost, ReceiveAction,
       ApplySnapshot, CaptureIp, LookUpAuthor, RecordHit, ApplyAction,
       LearnPeer, Unfollow, BlockPeer, UnblockPeer, AddRule, RemoveRule,
       ListToClear, ClearNext, Subscribe, Unsubscribe, DeleteThread, Restart

LEMMA ShownStep ==
    ASSUME TypeOK, NewestAreRecorded, LoadedRulesExist, FoundPassed,
           RulesOfTheStartHold, [Next]_vars
    PROVE  RulesOfTheStartHold'
<1> SUFFICES ASSUME NEW x \in shown'
             PROVE  \E i \in ips'[AuthorOf[x]] : Matching(cache', i) = {}
    BY DEF RulesOfTheStartHold, Matching
<1>1. \E i \in ips[AuthorOf[x]] : Matching(cache, i) = {}
    BY NewShown DEF FoundPassed, RulesOfTheStartHold
<1>2. cache' = cache
    BY Rules DEF Restart
<1>3. x \in Post
    BY NextType DEF TypeOK
<1>4. AuthorOf[x] \in Peer
    BY <1>3, ModerationAssumption DEF ModerationAssumption
<1>5. QED
    BY <1>1, <1>2, <1>4, Addresses

-----------------------------------------------------------------------------
(* The user has the last word.                                             *)

LEMMA OverruledStep ==
    ASSUME TypeOK, OverruledWereSeen, OverruledActionsRest, [Next]_vars
    PROVE  OverruledWereSeen' /\ OverruledActionsRest'
<1> USE DEF blocks, peers, content, lists
<1> DEFINE Goal == OverruledWereSeen' /\ OverruledActionsRest'
<1>1. ASSUME NEW p \in Peer, BlockPeer(p) \/ UnblockPeer(p) PROVE Goal
    <2>1. overruled' = overruled \union
              {a \in seen : a.of = p /\ task # {[step |-> "apply", action |-> a]}}
          /\ seen' = seen /\ task' = task
        BY <1>1 DEF BlockPeer, UnblockPeer, Overrule
    <2>2. ASSUME NEW t \in task, t.step = "apply"
          PROVE  t.action \notin overruled'
        <3>1. t \in Task /\ task = {t}
            BY DEF TypeOK, Option
        <3>2. t = [step |-> "apply", action |-> t.action]
            BY <2>2, <3>1 DEF Task
        <3>3. t.action \notin overruled
            BY <2>2 DEF OverruledActionsRest
        <3>4. QED
            BY <2>1, <3>1, <3>2, <3>3
    <2>3. QED
        BY <2>1, <2>2 DEF OverruledWereSeen, OverruledActionsRest
<1>2. ASSUME NEW a \in Action, ReceiveAction(a) PROVE Goal
    BY <1>2 DEF ReceiveAction, OverruledWereSeen, OverruledActionsRest
<1>3. ASSUME NEW x \in Post, ReceivePost(x) \/ CaptureIp(x) \/ LookUpAuthor(x)
      PROVE  Goal
    <2>1. overruled' = overruled /\ seen' = seen
        BY <1>3 DEF ReceivePost, CaptureIp, LookUpAuthor
    <2>2. \A t \in task' : t.step # "apply"
        BY <1>3 DEF ReceivePost, CaptureIp, LookUpAuthor
    <2>3. QED
        BY <2>1, <2>2 DEF OverruledWereSeen, OverruledActionsRest
<1>4. ASSUME RecordHit \/ StoreStub \/ StoreFull \/ ApplyAction PROVE Goal
    BY <1>4 DEF RecordHit, StoreStub, StoreFull, ApplyAction,
       OverruledWereSeen, OverruledActionsRest
<1>5. CASE Restart
    BY <1>5 DEF Restart, OverruledWereSeen, OverruledActionsRest
<1>6. ASSUME UNCHANGED <<task, seen, overruled>> PROVE Goal
    BY <1>6 DEF OverruledWereSeen, OverruledActionsRest
<1>7. CASE UNCHANGED vars
    BY <1>6, <1>7 DEF vars
<1>8. CASE Next
    <2>1. \/ \E p \in Peer : BlockPeer(p) \/ UnblockPeer(p)
          \/ \E a \in Action : ReceiveAction(a)
          \/ \E x \in Post : ReceivePost(x) \/ CaptureIp(x) \/ LookUpAuthor(x)
          \/ RecordHit \/ StoreStub \/ StoreFull \/ ApplyAction
          \/ Restart
          \/ UNCHANGED <<task, seen, overruled>>
        BY <1>8 DEF Next, Handle, Api, ApplySnapshot, LearnPeer, Unfollow,
           AddRule, RemoveRule, ListToClear, ClearNext, Subscribe,
           Unsubscribe, DeleteThread
    <2>2. QED
        BY <1>1, <1>2, <1>3, <1>4, <1>5, <1>6, <2>1
<1>9. QED
    BY <1>7, <1>8

-----------------------------------------------------------------------------
(* The theorems.                                                           *)

LEMMA InitInvariant == Init => IInv
<1> SUFFICES ASSUME Init PROVE IInv
    OBVIOUS
<1>1. TypeOK
    BY InitType
<1>2. ReferencesHold
    BY DEF Init, ReferencesHold
<1>3. RulesOfTheStartHold /\ StubsHaveCause /\ OverruledActionsRest
    BY DEF Init, RulesOfTheStartHold, StubsHaveCause, OverruledActionsRest
<1>4. QED
    BY <1>1, <1>2, <1>3 DEF Init, IInv, NewestAreRecorded, LoadedRulesExist,
       StubsToComeHaveCause, FoundPassed, OverruledWereSeen

LEMMA NextInvariant == IInv /\ [Next]_vars => IInv'
BY NextType, ReferencesStep, ShownStep, StubsStep, OverruledStep, Addresses,
   Rules, StubsToComeStep, FoundStep DEF IInv

\* Everything above holds at all times.
THEOREM Invariance == Spec => []IInv
<1>1. QED
    BY InitInvariant, NextInvariant, PTL DEF Spec

\* No block, subscription, recorded address or post names a peer without a
\* row, although blocks of lists are applied in two closures.
THEOREM ReferencesAlwaysHold == Spec => []ReferencesHold
<1>1. IInv => ReferencesHold
    BY DEF IInv
<1>2. QED
    BY <1>1, Invariance, PTL

\* A post that was let through the check has an author with an address that
\* no rule in force at the start of the process covers; rules that were added
\* later are not in the cache and are not meant.
THEOREM RulesOfTheStartAlwaysHold == Spec => []RulesOfTheStartHold
<1>1. IInv => RulesOfTheStartHold
    BY DEF IInv
<1>2. QED
    BY <1>1, Invariance, PTL

\* No post is withheld without a rule that matches an address of its author.
THEOREM StubsAlwaysHaveCause == Spec => []StubsHaveCause
<1>1. IInv => StubsHaveCause
    BY DEF IInv
<1>2. QED
    BY <1>1, Invariance, PTL

\* What the user decided about a peer is not undone by an older block action.
THEOREM OverruledActionsAlwaysRest == Spec => []OverruledActionsRest
<1>1. IInv => OverruledActionsRest
    BY DEF IInv
<1>2. QED
    BY <1>1, Invariance, PTL
=============================================================================
