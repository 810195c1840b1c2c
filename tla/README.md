# Starchan, specified in TLA+

Starchan (`graphchan_backend`) is a peer-to-peer discussion board: every node
keeps its own SQLite database, gossips what it writes over iroh-gossip topics,
fetches threads and files as blobs, and serves a web interface over HTTP. There
is no server and no leader, so whatever the nodes agree on, they agree on
because of how the gossip handlers, the background tasks and the API handlers of
each node interleave. That is what this directory specifies.

Contents: [the system](#the-system) · [how the models relate to the
code](#how-the-models-relate-to-the-code) · [ThreadSync](#threadsync) ·
[DirectMessages](#directmessages) · [FileTransfer](#filetransfer) ·
[Moderation](#moderation) · [Relay](#relay) · [Importer](#importer) ·
[runs](#runs) · [proofs](#proofs) ·
[where code and comments disagree](#where-code-and-comments-disagree) ·
[what is not covered](#what-is-not-covered) · [plan](#plan)

File names without a directory are relative to `graphchan_backend/src/`.

## The system

One process per user. Its concurrent parts are

- the **HTTP handlers** (`api/*.rs`), one task per request;
- the **ingest loop** (`network/ingest/mod.rs`, `run_ingest_loop`), one task
  that handles the inbound gossip messages strictly one after the other;
- the **event worker** (`network/events.rs`, `run_event_loop`) that broadcasts
  what handlers put in a channel;
- **spawned tasks**: automatic thread re-syncs, file downloads, retries of
  pending mail, relaying of messages, one forwarder per topic subscription, one
  discovery loop per user topic.

They share the database, behind one mutex (`Database::with_repositories`), the
blob store, the files on disk, the LRU cache of seen messages (ingest loop only)
and the map of subscribed topics. The mutex is held for one closure at a time; a
handler is a sequence of closures with `await`s between them and, since no
closure opens a transaction, each SQL statement commits by itself.

| Component | State | Operations | Hard part | What makes it correct |
|---|---|---|---|---|
| Thread replication (`threading.rs`, `api/threads.rs`, `network/ingest/`) | tables `threads`, `posts`, `post_relationships`, `thread_tickets`; downloads and re-syncs in flight | create a thread or post, announce, receive an announcement or an update, download, re-sync, delete, restart | messages in any order; a download in several closures beside the ingest loop; snapshots applied halfway | foreign keys hold, no post is lost, recorded hashes are real, announced threads can be and get downloaded |
| Direct messages (`dms.rs`, `conversations.rs`, `direct_messages.rs`) | tables `direct_messages`, `conversations`, the keys in `peers`; retries in flight | receive, send, retry, read, open | mail before its key; counting and storing in separate closures; redelivery after a restart | references hold, unread mail shows, mail is neither lost nor undone, pending mail is resolved |
| Gossip relay (`network/ingest/mod.rs`) | seen cache | mark, apply, relay | marked before it is applied; identifiers that two messages share | fresh news reaches every node, no storm |
| File transfer (`network/ingest/files.rs`, `files.rs`, `api/files.rs`) | table `files`, blob store, disk | upload, announce, download automatically or by hand | three stores, two kinds of download, crashes | a shared file has its blob, a wanted file arrives |
| Reactions (`network/ingest/reactions.rs`, `api/reactions.rs`) | table `reactions` | add, remove | additions and removals reordered | only reactions that were made are shown |
| Peer blocks and shared lists (`blocking.rs`, `api/blocking.rs`) | `blocked_peers`, `blocklist_*` | block, unblock, subscribe, apply | repeated actions, unknown peers | references hold, a late action does not undo the user's decision |
| IP blocks (`blocking.rs`) | `ip_blocks`, `peer_ips`, a cache per checker | add, remove, check | a cache that another instance never refreshes | rules keep out who is under them, what is hidden has a cause |
| Peers and profiles (`peers.rs`, `api/peers.rs`) | table `peers` | register, update, unfollow, merge from snapshots | older views overwrite newer ones | a peer keeps its key |
| Topics (`network/topics.rs`, `network.rs`) | `user_topics`, `thread_topics`, map of senders | subscribe, broadcast | names hashed in two places, repeated subscriptions | subscribers hear broadcasts |
| Rendezvous (`network/schelling.rs`) | records in DHT slots of one minute | publish, query | clocks, slot boundaries | two nodes on a topic meet |
| Importer (`importer.rs`) | `import_post_map` | import, refresh | crash between post and mapping, concurrent refreshes | every external post stored once, linked and announced |
| Database (`database/`), search, cryptography, identity, configuration, interface | — | — | sequential or pure | see [below](#what-is-not-covered) |

Interactions: the thread API writes rows and puts events in the channel; the
event worker broadcasts them on the peer topic of the announcer, the topic of
the thread, or the global topic; the forwarders of other nodes pass them to the
ingest loop, which writes rows, may spawn a re-sync, and may relay the message
on its own topics. A profile update starts a retry of the mail that waited for
its key. A thread snapshot carries posts, the list of their files, reactions and
the views of the peers involved. Deleting a row cascades along foreign keys, or
is refused by them.

## How the models relate to the code

- **Steps.** One `with_repositories` closure is one action, with every write it
  makes, its early returns and its foreign-key errors. What a handler remembers
  from one closure to the next is a variable (`stage`, `downloads`, `resyncs`,
  `handling`, `retry`, `outbox`), so every other actor may step in between.
- **Rows.** A nullable column is the set of its value: `{}` is NULL.
- **Foreign keys.** They are enforced (`PRAGMA foreign_keys`). A deletion
  cascades inside its step. An insert that breaks one leaves what earlier
  statements of the closure wrote, for lack of a transaction: this is why a
  reply without its parent leaves a post row without edges.
- **Network.** Messages are a growing set that is never emptied: any of them may
  arrive late, twice, in any order, after a restart, or never.
- **Restart.** The database survives; caches, tasks and handlers do not.
- **Mutants.** A definition whose comment starts with "Mutant:" is a wrong
  variant of the one below it. It is used by no specification; substituting it
  breaks a property, which shows that the property depends on that piece of code.

## ThreadSync

`ThreadSync.tla` models one thread on all nodes. (Threads share no state but
peer rows, so one thread is enough.)

| Variable | Code |
|---|---|
| `thread` | `threads.sync_status`, `threads.thread_hash` |
| `posts`, `linked` | rows of `posts`; replies whose edges are in `post_relationships` |
| `ticket` | row of `thread_tickets` |
| `subscribed` | whether the topic `thread-{id}` is subscribed |
| `due` | the updates a subscribed node is owed; used for fairness only |
| `stage` | progress of the API handlers `create_thread`, `create_post` |
| `downloads`, `resyncs` | `download_thread` requests; spawned `download_thread_snapshot_blob` |
| `announced`, `updates` | the broadcast `ThreadAnnouncement`s and `PostUpdate`s |

| Action | Code |
|---|---|
| `CreateThread`, `AnnounceThread` | `ThreadService::create_thread`, then the broadcast in `api/threads.rs` |
| `CreatePost`, `PublishUpdate`, `Reannounce` | the three closures of a post: insert, hash and broadcast, announce the new snapshot |
| `ReceiveAnnouncement` = in sync / `NoteNewVersion` / `StoreAnnouncement` | the three outcomes of `apply_thread_announcement` |
| `ReceiveUpdate` | `apply_post_update` with `upsert_post`, and the re-sync it may spawn |
| `StartDownload`, `ApplyDownload`, `FinishDownload`, `FailDownload` | `download_thread`: read the ticket; fetch and apply; delete the ticket |
| `RunResync`, `FailResync` | the re-sync task |
| `ApplySnapshot` | `apply_thread_snapshot`, including the post order by `created_at` and the stop at the first broken foreign key |
| `DeleteThread`, `Restart` | `delete_thread` with its cascades; start-up subscriptions |

Data abstractions. Posts never change, so a hash, which digests a list of posts,
is the set of those posts, and a ticket, which addresses a snapshot by content,
is the snapshot. `Rank` gives the place of a post in the `created_at` order:
another author's clock may place a reply before its parent. Posts of equal rank
are taken in parent-first order.

`PostExchange.tla` is the abstract specification, of four actions: posts are
made, shared, learnt and forgotten. A node learns only what was shared, only
made posts are shared, and a node forgets only if its own user deletes the
thread. `ThreadSync` implements it under `made <- Made`, `shared <- Shared`,
`held <- Held` (the posts without the placeholder).

Safety: `ForeignKeysHold`, `HashWasAnnounced`, `AnnouncedIsDownloadable` (where
nobody deletes), the action property `NothingIsForgotten`, and the refinement
`ImplementsExchange`. Liveness: `UpdateIsStored`, `AnnouncedIsDownloaded`.

Fairness (`LiveSpec`), and why the code justifies it:

- `Delivery`, weak: gossip delivers a broadcast to the nodes that are subscribed
  at that moment and stay up. `due` holds exactly those; a restart empties it,
  because gossip keeps nothing for later, and the property then claims nothing.
- `Retrying`: the user of a node repeats the request while the thread is only
  announced (weak on `StartDownload`, since the ticket stays), and the provider
  is not unreachable at every attempt (strong on `ApplyDownload`, since failures
  and restarts take the request away time and again). Nothing else is fair: no
  post has to be written, no announcement has to arrive.

## DirectMessages

`DirectMessages.tla` models one node that receives and sends mail.

| Variable | Code |
|---|---|
| `known`, `key` | rows of `peers`, column `x25519_pubkey` |
| `mail`, `read` | `direct_messages.decrypt_status`, `read_at` |
| `unread` | row and `unread_count` of `conversations` |
| `seen` | the `dm:{id}` entries of the seen cache |
| `handling` | what `ingest_dm` found out about the message in hand |
| `retry` | the running `retry_pending_for_sender` tasks |
| `outbox` | the messages that `send_dm` encrypted and has yet to store |

| Action | Code |
|---|---|
| `ReceiveMail` | deduplication, then the key look-up and decryption of `receive_dm` |
| `CountMail`, `StoreDecrypted` | the two closures for mail that could be read |
| `StorePending`, `StoreFailed` | the branches of `ingest_dm` for a missing key and for failed decryption |
| `ReceiveProfile` | `ProfileUpdate`: set the key of a known peer, spawn a retry |
| `ListPending`, `LookAgain`, `CountAgain`, `Settle`, `EndRetry` | the steps of a retry, on a blocking thread beside the ingest loop |
| `LearnPeer`, `Unfollow` | the upserts of peer rows by friend codes and snapshots; `unfollow_peer`, which a reference to the row makes fail |
| `PrepareSend`, `StoreSent` | the two closures of `send_dm` |
| `MarkRead`, `OpenConversation` | `mark_as_read`, `mark_conversation_read` |
| `Restart` | everything but the tables is lost |

Data abstractions. A message has a sender, an addressee and the sender's key it
was encrypted with; its addressee can decrypt it with exactly that key. Corrupt
mail is mail encrypted with a key nobody ever publishes. Bodies, previews and
`last_message_at` are left out, so a retry may take its messages in any order.
The code only resets the counter and compares it with zero, so it may saturate
at `MaxUnread`. The cache of 65,536 entries loses messages by a restart only.
`From[m]` and `To[m]` may both be others: friends share the topic of the
addressee, which delivers their mail here too.

`Mailbox.tla` is the abstract specification: what the user of the store sees,
without keys, peer rows, retries, caches or restarts. Its variables are the
status of each message, what was read, the conversations with a badge, and the
messages that were announced by a badge and are about to be shown. Locked mail
appears together with its badge; mail of others is shown in clear only if it is
addressed to the user and was announced; only opening a conversation takes its
badge away; nothing that is stored disappears, becomes unread or becomes locked
again. `DirectMessages` implements it under `status <- mail`, `badge <- Badges`
(the conversations whose counter is not zero) and `noticed <- Noticed` (what the
handler or a retry has counted and not stored yet).

Safety: `ReferencesHold`, `PendingMailIsSurfaced`, and the refinement
`ImplementsMailbox`, from which `OnlyMyMailIsDecrypted` and `StoredMailIsStable`
follow (theorem `MailboxSuffices`), so they have no run of their own. Liveness:
`PendingIsResolved`: pending mail is decrypted or marked as failed, once the
sender's key is there to stay.

Fairness (`LiveSpec`): the ingest loop goes on with the message in hand (weak:
nothing disables it but a restart, after which there is nothing to finish); peers
announce their profile repeatedly, at every start and every change (strong, as
the handler is busy in between); and a retry gets on unless the node is restarted
at the same point of every retry (strong, since a restart disables the step).

## FileTransfer

`FileTransfer.tla` models the attached files of one thread on one node. Three
stores have to agree: the rows, the files on disk and the blobs.

| Variable | Code |
|---|---|
| `posts`, `row` | rows of `posts`; of `files`: the directory in `path`, `download_status`, whether there is a ticket |
| `disk`, `blobs` | `files/uploads` and `files/downloads`; the iroh blob store |
| `upload` | how far `upload_post_file` has come |
| `handling` | the announcement in `apply_file_announcement` |
| `todo`, `listed` | the posts and files that `apply_thread_snapshot` has yet to look at |
| `task` | automatic (`download_blob`) and requested (`trigger_file_download`) downloads |
| `deleting` | the request in `delete_thread` |
| `stranded` | history: files whose handling a restart, a failed export or a late cleanup cut short |

| Action | Code |
|---|---|
| `CheckUpload`, `WriteUpload`, `StoreBlob`, `AttachUpload`, `PersistTicket` | `save_post_file`, closure by closure and await by await |
| `ReceiveAnnouncement`, `RecordAnnounced`, `StartAnnounced` | the check of the disk, the upsert, the decision to download |
| `ApplySnapshot`, `ListFiles`, `CheckListed` | the rows of a snapshot, as the other node had them; then a look at each file |
| `RequestDownload`, `WriteBack` | the row is read in one closure and written back, changed, in the next |
| `LookForBlob`, `MarkDownloading`, `Fetch`, `FailFetch`, `BeginExport`, `EndExport`, `FailExport`, `FinishDownload` | a download; an export opens the target first and fills it later |
| `ListDoomed`, `DeleteThread`, `RemoveFiles` | `delete_thread`; the files are removed after the rows |
| `Restart` | the rows, files and blobs stay, and nothing looks at them at start-up |

Data abstractions. A file has one content, so `file_needs_download`, which
compares size and checksum, is true exactly if the file on disk is not whole.
The MIME type, the original name and the byte counts are left out.

Safety: `SharedFilesHaveBlobs`, `NoFileIsForgotten` (a small file with a ticket
is where its row says, or failed, or something is at work on it). An announcement
that comes before its post is lost in `RecordAnnounced`, as in the code, and the
file has no row that these properties could speak of. `MCOffers` leaves out the
row that an uploader's snapshot carries between `AttachUpload` and
`PersistTicket`, which has no ticket: with it, `NoFileIsForgotten` fails, as the
hypothesis of its theorem says ([proofs](#proofs)). Liveness: `WantedFileArrives`. Both of the latter leave out files that are
`stranded`: the code promises nothing for what a restart interrupts.

Fairness: `WF_vars(Work)`, that is, while some started handler or task can go
on, one of them does. Transfers end, well or badly, since iroh's requests time
out; no user and no other node has to do anything. `WantedFileArrives` assumes
that announcements, snapshots and requests stop some day, because as long as
they keep coming two downloads of a file can take turns in overwriting it.

## Moderation

`Moderation.tla` models what one node does about unwanted peers and addresses.

| Variable | Code |
|---|---|
| `known`, `ips`, `last` | rows of `peers` and `peer_ips`; the addresses with the newest time stamp |
| `rule`, `cache` | rows of `ip_blocks`, with `hit_count` zero or not; the cache of the checker that the ingest loop holds |
| `clearing` | the request in `clear_all_ip_blocks_handler` |
| `thread`, `post` | the rows of a thread and its posts: none, a stub or full |
| `blocked`, `subs`, `seen` | `blocked_peers`, `blocklist_subscriptions`, the `block` entries of the seen cache |
| `task` | the post update or block action in the ingest loop |
| `shown`, `overruled` | history: posts that were checked and let through; actions that the user has since overruled |

| Action | Code |
|---|---|
| `ReceivePost`, `CaptureIp`, `LookUpAuthor`, `RecordHit`, `StoreStub`, `StoreFull` | the closures of a post update: `capture_peer_ip`, `is_peer_blocked`, the hit counter, the stub or the post |
| `AddRule`, `RemoveRule`, `ListToClear`, `ClearNext` | the API of IP blocks; clearing removes row by row |
| `BlockPeer`, `UnblockPeer`, `Subscribe`, `Unsubscribe` | `BlockChecker` |
| `ReceiveAction`, `ApplyAction` | a `BlockAction`: look for a subscription, then block or unblock |
| `LearnPeer`, `Unfollow` | a friend code with addresses; a deletion that references make fail |
| `ApplySnapshot`, `DeleteThread` | as they bear on the posts; snapshots are not checked |
| `Restart` | the new checker loads the rules |

Data abstractions. A rule covers a set of addresses, exact or a range; exact
rules are found first. Of time stamps only "newest" is kept, with ties, as they
count whole seconds.

Safety: `ReferencesHold`, `RulesOfTheStartHold` (what was checked and let through
has an author with an address that none of the rules covers which were in force
when the process started; of rules added since it says nothing, and
`BlocksTakeEffect`, which would, is violated), `StubsHaveCause` (a
stub goes back to a recorded address and a rule that covers it),
`OverruledActionsRest` (an action handled before the user's own decision about
that peer is not applied after it; that a third change of mind of the list is
dropped as seen is outside it). The module states no fairness, since all its
properties are safety.

## Relay

`Relay.tla` composes several nodes: how posts, reactions and profile updates
travel, as each node applies what it receives and passes it on once.

| Variable | Code |
|---|---|
| `posts`, `linked`, `reaction`, `profile` | each node's `posts`, `post_relationships`, row of `reactions`, profile |
| `seen` | the LRU cache of `mark_seen`, by message id |
| `outbox`, `net` | the event channel; what gossip has yet to deliver |
| `news`, `log`, `relays`, `restarts` | bounds and history |

| Action | Code |
|---|---|
| `CreatePost`, `React`, `UpdateProfile` | the API handlers: rows first, then an event |
| `Broadcast` | `run_event_loop` with `broadcast_to_topic` |
| `Receive` | `handle_message`: mark as seen, apply, and relay if the message was new and could be applied |
| `Restart` | empties the cache, the channel and the tasks |

Data abstractions. An id is what the code hashes: the post; the reactor, post
and direction; the peer. It leaves out the time of a reaction and the contents
of a profile, and `Id` shows which messages share one. An API handler writes its
rows and puts its event in the channel in one step: the event depends on nothing
that another task changes in between, the outbox is unordered, and a restart right
after it leaves the rows without the event. Signatures are taken as valid (the code does
not check them, see [below](#where-code-and-comments-disagree)), so nobody forges
a reaction. `Reach[n]` stands for the
topology: who gets a broadcast of `n` directly.

Safety: `ReactionsAreGenuine`, `RelayedOnce`, and `NewsGotRound`: when nothing is
in an outbox or on its way and no node has restarted, the posts without parents
that a node stores, and the removals of the reaction that it has heard of, have
reached all that it reaches, over however many others. It says nothing of
profiles, whose updates share one id. Liveness: `StormsEnd`, and `NewsSpreads`:
if no node has heard of their id and the restarts are over, a post without
parents and the reaction come to all nodes, and with an update of the profile, if
no other is under way, all nodes end up with it or a later one and stay there. A
second update that follows it stops at the nodes next to the owner.

Fairness: `WF_vars(Work)`: the two loops of a node and the gossip layer do not
stop while there is something to do. It is weak and for all nodes together,
which lets one message wait for very long; that it does not wait for ever
follows from `StormsEnd`.

## Importer

`Importer.tla` models a thread that is imported from 4chan or Reddit, and the
refreshes that follow.

| Variable | Code |
|---|---|
| `platform`, `source`, `latest` | the thread as the platform serves it, where posts are written and removed |
| `thread`, `posts`, `edges`, `map` | rows of `threads` (with or without its source), `posts`, `post_relationships`, `import_post_map` |
| `task` | what each running handler remembers: the answer, `id_map`, the post just stored, `new_posts`, the details to announce |
| `announced` | the posts that an announcement has offered |
| `overlapped`, `torn`, `dropped` | history: whether handlers overlapped, a kill hit the gap between post and map, a handler was cut off |

| Action | Code |
|---|---|
| `StartImport`, `StartRefresh`, `Fetch` | the API handlers and the request to the platform |
| `CreateThread`, `SetSource` | `create_thread`, `set_source_info` |
| `ReadMap` | the map of a refresh, read once, and the opening post on Reddit |
| `CreatePost`, `Record`, `MissThread` | a new post, its row in the map (which a Reddit import never writes), and the error when the thread is gone |
| `Load`, `Announce` | the thread is read once more and announced |
| `Write`, `Remove` | the platform |
| `DeleteThread`, `Cancel`, `Kill` | the cascades; a client that hangs up at an await; the end of the process |

Data abstractions. Posts are numbered in the order they are written; copies of
post `e` are `<<e, 1>>`, `<<e, 2>>`, .... Images are left out but for the awaits
they bring, where a handler can be dropped. Announcing succeeds: a failing blob
store is only logged and is not part of the model. `ReadMap` takes the two closures
of a Reddit refresh that read the map and the opening post as one step.

Safety: `EachImportedOnce` (of what the import records, that is all on 4chan and
the opening post on Reddit; `OnlyNewPostsAreAdded` asks it of the comments too and
is violated), `AnswerIsStored`, `StoredIsAnnounced` (when no
handler runs and none was cut off, all that is stored was announced, although a
refresh announces only if it added something itself), and the action property
`RepliesAreLinked`. Liveness: `NewPostsAreAnnounced`.

Fairness: `WF_vars(Proceed(w))` for each handler: once started, a request is run
to its end by the runtime, unless it is dropped, or the process is killed, both
of which disable it. The request to the platform may fail.

## Runs

The modules `MC*.tla` give the constants their values.

| Run | Configuration | Question | Distinct states |
|---|---|---|---|
| `threadsync_faults` | `ThreadSyncFaults.cfg` | Do the safety properties and the refinement hold with three nodes, skewed clocks, a reader who deletes and restarts? | 519,398 |
| `threadsync_live` | `ThreadSyncLive.cfg` | Are updates stored and announced threads downloaded when both nodes restart and download, with replies to the placeholder? | 60,614 |
| `threadsync_stale` | `ThreadSyncStale.cfg` | Can a thread that missed a version fetch it? (violated) | — |
| `dm_store` | `DirectMessages.cfg` | Do the safety properties and the refinement hold, and is pending mail resolved, with mail and a reply, two keys, two retries at once, unfollowing, reading and restarts? | 33,750 |
| `dm_recount` | `DmRecount.cfg` | Is a message counted once? (violated) | — |
| `dm_stranger` | `DmStranger.cfg` | Is handled mail always stored? (violated) | — |
| `file_transfer` | `FileTransfer.cfg` | Do shared files have blobs, is no file forgotten, and do wanted files arrive, with uploads, announcements, foreign snapshots, two kinds of download, deletion, failed exports and restarts? | 899,546 |
| `moderation` | `Moderation.cfg` | Do references hold, and do checks mean what they say, while rules, addresses, lists and peers change? | 1,870,134 |
| `moderation_blocks` | `ModerationBlocks.cfg` | Does a rule added while the node runs act on the posts that come in? (violated) | — |
| `relay` | `Relay.cfg` | Is every message relayed once, does every storm end, do posts and removals leave nobody out, and does fresh news come round a ring of three nodes with a restart? | 139,543 |
| `importer` | `Importer.cfg` | Are posts of either platform added once, linked and announced, with two handlers at once, hang-ups and kills? | 766,435 |
| `importer_reddit` | `ImporterReddit.cfg` | Does a refresh add only what the import did not bring? (violated) | — |

Bounds, and why they are enough:

- *ThreadSync.* The interactions involve an author, a reader and someone who
  relays: three nodes for safety, two for liveness. Two posts give a reply that
  overtakes its parent; in `threadsync_live` the parent is the placeholder, the
  only row that is ever deleted. Three snapshots (opening post, with a
  placeholder, with a reply) give the newer and the older announcement. One
  request in flight per node (`MaxDownloads`): two would add the order of two
  applications of snapshots, which re-syncs already give.
- *DirectMessages.* `hello` (to us) and `reply` (ours) with one friend who has two
  keys, which makes a key that is wrong, missing or right. `Worker = {w1, w2}`: two
  retries of the same sender, as after two profile updates; they are not declared
  symmetric, which would not be sound for `PendingIsResolved`. `MaxUnread = 2` lets
  a counter go to two and back to zero. Mail between two other peers is not in the
  instance; the proofs cover any sender and addressee.
- *FileTransfer.* Files share nothing but their posts and the request that
  deletes them, so one is enough; the initial state chooses who uploads it. One
  automatic and one requested download overlap in every way that two tasks can.
  Snapshots bring the row of the uploader and of a node that is still
  downloading. A large file is never fetched without being asked for, and no
  run has one; the proofs cover any set of them.
- *Moderation.* An author with the address of his friend code and another that
  neighbours see; an exact rule and a range, so that either may be found; one
  maintainer whose list can block and unblock. `moderation_blocks` needs one post
  and one rule only.
- *Relay.* In a ring of three, each broadcast reaches one node only, so that all
  news depends on relaying and comes back to where it was made. Three
  publications allow a post, a reaction and its removal, or a profile changed
  twice; one restart empties a cache in the middle of a storm.
- *Importer.* Three posts give the answer of an answer and a post with two
  parents. Two handlers overlap, and two refreshes can follow an import, so that
  the second finds what the first left behind. `importer_reddit` has one handler
  at a time, so that nothing but the missing entries of the map can be the cause.

`relay` and `importer` have `CHECK_DEADLOCK FALSE`: publications, restarts and
refreshes are bounded, and after the last one nobody has to do anything. The
other runs check for deadlock, and there is none.

## Proofs

TLAPS proves the following for every value of the constants that satisfies the
modules' assumptions: any number of nodes, posts, clocks and reply structures;
any number of peers, messages, keys and retries.

`ThreadSyncProofs.tla`

| Theorem | Establishes |
|---|---|
| `TypeCorrect` | `TypeOK` |
| `InductiveInvariant` | `IInv` |
| `ForeignKeys` | `ForeignKeysHold` |
| `RecordedHash` | `HashWasAnnounced` |
| `NothingForgotten` | `NothingIsForgotten` |
| `AnnouncedDownloadable` | `AnnouncedIsDownloadable`, if no user deletes the thread |
| `Implements` | `ImplementsExchange`: initial states and steps map to those of `PostExchange` |
| `DueDeliverable` | what was broadcast to a subscribed node would be accepted by it until it is stored |

`ForeignKeysHold` is not inductive: a snapshot is applied node by node from
tickets and tasks, so one must know that every announced snapshot is closed
under replies (`SnapshotsAreClosed`) and that tickets and tasks hold announced
snapshots only (`TicketsWereAnnounced`). The refinement needs that whatever is
stored or sent was made (`OnlyMadePosts`), and the first announcement needs that
nothing happens before the thread exists (`NothingBeforeCreation`). `IInv` is
their conjunction. `AnnouncedDownloadable` needs one more fact, local to the
proof: a request that has applied its snapshot finds the thread downloaded and
with a hash, so no announcement makes it "announced" again before the request
deletes the ticket. A deletion in between would break this; hence the assumption.

`DirectMessagesProofs.tla`

| Theorem | Establishes |
|---|---|
| `MailInvariant` | `IInv` |
| `MailTypeCorrect` | `TypeOK` |
| `References` | `ReferencesHold` |
| `PendingSurfaced` | `PendingMailIsSurfaced` |
| `MineDecrypted` | `OnlyMyMailIsDecrypted` |
| `StoredStable` | `StoredMailIsStable` |
| `MailboxKept` | `ImplementsMailbox`: initial states and steps map to those of `Mailbox` |
| `MailboxSuffices` | `Mailbox` alone implies `PendingMailIsSurfaced`, `OnlyMyMailIsDecrypted` and `StoredMailIsStable` |
| `RetriesDropNothing` | a retry lets go of mail only when it is settled or its key is missing again |
| `RetriesWearOut` | each step of a retry brings it closer to its end, and nothing sets it back |

Here the strengthening is about what the handler and the retries remember
(`TasksAreSound`): mail that was counted is addressed to us and is not our own,
a retry works on stored mail of others, and only others' mail is ever pending
(`OnlyIncomingIsPending`, or opening a conversation would reset the counter of
mail that it does not mark as read). The remembered facts are stable, because
stored mail is never removed; that the key or the peer row may change in between
is why nothing about them is remembered.

The refinement has one lemma per action. The interesting steps are those of two
actors on one message: a retry that settles mail which the handler, after a
restart, has counted once more reveals it and leaves it announced; a handler that was
too late stores nothing, and what it announced is forgotten. That a retry works
on others' mail only is what makes `Settle` a `Fail` or a `Reveal` of `Mailbox`
and never a change of the user's own mail. `MailboxSuffices` does not mention
`Spec`: it shows that the abstract specification is strong enough to be worth
implementing. `RetriesDropNothing` rests on `ReferencesHold`: an error in
`record_incoming_message` would end the whole retry with the rest of its list,
but the message that is retried refers to its sender, so `unfollow_peer` fails
and the foreign key holds. `RetriesWearOut` orders the work of a retry by what
it has listed, then by the message in hand (`Left`).

`FileTransferProofs.tla`

| Theorem | Establishes |
|---|---|
| `TypeCorrect` | `TypeOK` |
| `RowsAlwaysHavePosts` | a stored row has its post (`RowsHavePosts`; the foreign key gives it, so no run checks it) |
| `SharedFilesAlwaysHaveBlobs` | `SharedFilesHaveBlobs` |
| `NoFileIsEverForgotten` | `NoFileIsForgotten`, if the rows in snapshots carry tickets |
| `TransfersWearOut` | while nothing new comes in, each step uses up some of the work under way |

There are two invariants. `StoreInv` says what the steps of an upload and of a
download have left behind so far (`UploadsHaveBlobs`, `ExportsHaveBlobs`), and
that nobody knows of a file before it is attached (`UploadsAreUnknown`). `CareInv`
sharpens "something is at work on it" to "something will look at the path that
the row has now" (`AllAreCared`): an announcement that is about to decide looks
at the download directory, a listed file at the path it was listed with, and
only a running download or a snapshot may change the path behind its back. A
finished export may be overwritten only by another one that is still running
(`ExportsStay`). The hypothesis `OffersHaveTickets` is needed: a snapshot without
the ticket, made between the two closures of the uploader, leaves a row that
nothing may fetch, and the ticket may then come without a check of the file.
`TransfersWearOut` orders the work lexicographically: the posts of the snapshot
that are still to be looked at, the files listed, the announcement in hand, the
steps that each download has left (`StepsLeft`).

`ModerationProofs.tla`

| Theorem | Establishes |
|---|---|
| `TypeCorrect` | `TypeOK` |
| `ReferencesAlwaysHold` | `ReferencesHold` |
| `RulesOfTheStartAlwaysHold` | `RulesOfTheStartHold`: of the rules loaded at the start, not of later ones |
| `StubsAlwaysHaveCause` | `StubsHaveCause` |
| `OverruledActionsAlwaysRest` | `OverruledActionsRest` |

The strengthening carries what `LookUpAuthor` found to the closure that acts on
it: addresses and rules are only ever added to the record (`NewestAreRecorded`,
`LoadedRulesExist`), so a cause that was found remains one
(`StubsToComeHaveCause`), and the cache changes only at a restart, which drops
the task (`FoundPassed`).

`RelayProofs.tla`

| Theorem | Establishes |
|---|---|
| `TypeCorrect` | `TypeOK` |
| `ReactionsAreAlwaysGenuine` | `ReactionsAreGenuine` |
| `AlwaysRelayedOnce` | `RelayedOnce` |
| `NewsAlwaysGetsRound` | `NewsGotRound`, for any topology: posts without parents and removals, not profiles |
| `WorkWearsOut` | each broadcast and each reception makes what is left of the flood smaller |

For the first, whatever is in an outbox or on its way was made by the user
(`SentReactionsAreGenuine`); for the second, whatever a node has relayed is in
its cache (`RelayedIsSeen`), which is where marking before applying matters.
`NewsGotRound` needs to know what a flood that is not over looks like: what a
node knows is known to each direct neighbour, or on its way there, or in the
outbox from which it will be broadcast (`NewsKeepsMoving`), and what is marked
as seen was applied (`SeenIsKnown`, which is true of unconditional news only:
an id that stands for one message, which every node can apply).
In a silent network nothing is on its way, so knowledge is closed under one hop;
`Reachable` is the least set closed under hops, and no induction over paths is
needed. `WorkWearsOut` orders the ids that a node has not seen, then what is in
outboxes, then what is on the network: a reception that adds to an outbox takes
an id from the first, a broadcast adds to the network and empties the second.

`ImporterProofs.tla`

| Theorem | Establishes |
|---|---|
| `ImporterInvariant` | `IInv` |
| `ImporterTypeCorrect` | `TypeOK` |
| `AnswersAreStored` | `AnswerIsStored` |
| `ImportedOnce` | `EachImportedOnce`: not of comments on Reddit |
| `Links` | `RepliesAreLinked` |
| `StoredIsAlwaysAnnounced` | `StoredIsAnnounced` |
| `HandlersWearOut` | each step of a handler brings it closer to its end, and nothing sets it back |

`AnswerIsStored` needs more than its own words: that a handler with nothing due
has nothing to do (`TodoIsDue`). The lowest number that is to do is due: on
4chan by definition, on Reddit because the comment it answers is part of the same
answer (`AnswersHaveParents`) and, having a lower number, is already known. `ImportedOnce` counts copies
(`CopiesAreCounted`): a post that has no row in the map, and none to come, has
room for one more copy, and what a handler does not know of is such a post
(`UnknownIsUnrecorded`). Both facts hold only while no handlers overlapped and
nothing was torn, which are the cases the property excludes. `StoredIsAnnounced`
follows from the pledge that for each stored post that is not announced some
handler is at work which will load it again and announce it (`StoredIsPledged`);
that the snapshot is loaded at the end, and not put together from what the
handler remembers, is what makes one handler's announcement cover another's
posts.

Model-checked only: liveness, which rests on fairness and `ENABLED`, and the
violations, each of which is a single counterexample. What is proved of the
liveness properties is their safety core. Something decreases in an order
without infinite descent (on finite instances; that there is no infinite descent
is an induction over data and is not proved) or cannot be lost:

| Liveness property | Safety core proved | Left to TLC |
|---|---|---|
| `StormsEnd`, `NewsSpreads` | `WorkWearsOut`, `NewsAlwaysGetsRound` | that some work is done while there is some; the cases with restarts, and those of the reaction |
| `NewPostsAreAnnounced` | `HandlersWearOut`, `StoredIsAlwaysAnnounced` | that a handler proceeds |
| `WantedFileArrives` | `TransfersWearOut`, `NoFileIsEverForgotten` | that the node works on, that a failed row is the end |
| `UpdateIsStored` | `DueDeliverable`, `NothingForgotten` | that the update is delivered |
| `AnnouncedIsDownloaded` | `AnnouncedDownloadable` | that the user asks again and the provider answers |
| `PendingIsResolved` | `RetriesWearOut`, `RetriesDropNothing`, `MailboxKept` (never pending again) | that retries come and go on |

## Where code and comments disagree

These are runs that TLC answers with a counterexample.

- `threadsync_stale`, `network/ingest/mod.rs:606`. A newer version of a known
  thread is recorded as a hash and a ticket, to be fetched when the user looks.
  If it arrives while a download of the older version is between applying the
  snapshot and deleting the ticket, its ticket is deleted. The hash stays, so the
  same announcement counts as already in sync when it comes again.
- `dm_recount`, `dms.rs:296`. A retry counts its mail as unread a second time.
- `dm_stranger`, `dms.rs:242`. Mail of a sender without a peer row cannot be
  stored as pending, as its foreign key fails. It is dropped, and so is a second
  delivery of it.
- `moderation_blocks`, `api/blocking.rs:228` ("Reload cache to include new
  block"; `blocking.rs:337` says the same). The handlers reload the cache of a
  checker of their own; an IP block that is added or removed acts on incoming
  posts after the next start only.
- `importer_reddit`, `importer.rs:524`, against `importer.rs:620` ("Only adds new
  posts that weren't present during the initial import") and `importer.md:51-52`.
  `import_reddit_thread` writes nothing to `import_post_map`, so the first refresh
  adds all its comments once more.

These have no run of their own. The models take the same steps as the code, and
no property of a passing run says what the comment says.

- `threading.rs:186` ("Will be calculated after posts are added") and `:189`
  ("Locally created thread"). The row of a locally created thread has no hash, and
  nothing writes one. An announcement that a friend relays back is taken for that
  of a thread that is out of sync: the creator's thread becomes "announced" and
  gains a placeholder and a ticket to itself (`StoreAnnouncement`).
- `threading.rs:319`, `threading.md:38` ("validates parent_post_ids exist"). A
  post with an unknown parent is refused after its row was written. It stays in
  the thread and is not broadcast.
- `network/ingest/files.rs:70` ("Always persist the file record, even if post
  doesn't exist yet"), the log line at `:82`, and `ingest.md:32` and `:81` ("Store
  file record, defer download until post exists"). The foreign key refuses the
  record, and the announcement is lost (`RecordAnnounced`).
- `network/ingest/mod.rs:446` ("only if first time seeing this update") and
  `ingest.md:37` (an id with the time stamp). The id of a profile update is its
  peer's (`mod.rs:368`), so only the first one after a start is passed on, and
  later ones reach the direct neighbours of their owner (`Id`, `Receive`).
- `ingest.md:40-41` ("with signature verification"). `apply_reaction_update`
  stores the signature and checks nothing; the model has no forged reactions.
- `blocking.md:83` ("Direct blocks … highest priority"). An unblock that comes
  from a list removes the block that the user made himself. No code of the
  ingest loop consults `blocked_peers`.
- `importer.rs:767`. A refresh announces only if it added posts itself: what one
  that was cut off had stored is not announced by the next.

## What is not covered

Inside the modelled components: threads on the ignore list, peer rows created as
stubs, several threads and their topics at once, a crash in the middle of a
closure, previews and times of conversations, the order of posts with equal time
stamps in a thread hash; the eviction of the seen cache, whose 65,536 entries are
out of reach of a small instance (a restart, which forgets all of them, is
modelled); the entries of shared lists and redacted posts, which nothing in the
code writes; the parsing of addresses and ranges; avatars; the reactions that
snapshots bring and the signatures of reactions; and the images of imported posts.

The modules are composed through what they assume of each other, not in one
state space: FileTransfer and Moderation let a snapshot arrive at any time with
any posts, which is more than ThreadSync sends; DirectMessages lets keys come and
go; ThreadSync's network repeats and reorders announcements, which covers their
relaying.

Whole components: the rendezvous over the DHT (`network/schelling.rs`) is not
modelled yet. Search, the interface, configuration and output are left out
because they keep no state that could diverge; the ciphers, signatures and codecs
because they are functions over bytes; migrations because they run alone, once,
before everything else; iroh, its gossip and blobs, SQLite and the DHT are
external and appear by their effects.

## Plan

Done: **ThreadSync** with **PostExchange**, **DirectMessages** with **Mailbox**,
**FileTransfer**, **Moderation**, **Relay** and **Importer**, each with its
instance, its runs and the proofs of its safety properties and of both
refinements. Left, in this order:

1. **Rendezvous** and **Topics**: which names hash to which topic, forwarders per
   subscription, minute slots with skewed clocks. Property: two nodes whose clocks
   differ by less than a slot find each other.
2. **Peers**: the merging of profiles, friend codes and peer views from snapshots,
   composed with DirectMessages through the key. Property: a node never loses the
   key of a peer it follows.
3. **Proofs**: abstract specifications of the importer (each post of the platform
   is absent, stored or announced) and of file transfer, and the proof that they
   are implemented; the reaction in
   `NewsGotRound`, which is unconditional only among nodes that store the post.
