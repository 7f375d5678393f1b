# ProtoFS: a TLA+ model of the file system over Telegram

ProtoFS keeps a tree of folders and files in a Telegram channel.  A file is a
document with a caption; the tree is written as a compressed *manifest* into
one pinned message; a copy of it is in memory and another one in SQLite.  These
modules model how those copies are kept in step, TLC checks them on small
instances, and TLAPS proves most of it for instances of any size.
Around that core the accounts, the proxies, the transfers, the vault, the WebDAV
listener and the folder sync are modelled too.

    tlc -workers 2 -config SyncEngineFaults.cfg MCSyncEngine.tla
    tlapm TreeStoreProofs.tla

## 1. The system

| Part | State it keeps | Operations | Talks to |
|---|---|---|---|
| VFS tree (`vfs/tree.rs`, `vfs/model.rs`) | nodes by id, child ids by parent id, file versions | insert, remove, remove_recursive, rename, move, lookups, versions | nothing; held by the engine behind a lock |
| Sync engine (`sync/engine.rs`) | per drive: tree, manifest version, dirty flag, count and time of uncommitted changes | load, rebuild, add, upload, edit, trash, delete, flush, debounce, unload | tree, cache, transport |
| Index cache (`cache/db.rs`) | SQLite rows of drives, folders, files, chunks, secrets, sync pairs | upserts, updates, batch replacement, search | engine, commands |
| Manifest (`manifest/snapshot.rs`, `mtproto/real/manifest.rs`) | one pinned message of the channel | read, update | transport |
| Captions (`mtproto/caption.rs`) | parent, name and marks of a file, on its message | build, parse | engine; a rebuild starts from them |
| Transport (`mtproto/transport.rs`, `dynamic.rs`, `mock.rs`, `real/*`) | the client in use, real or mock; its session; a login begun | requests to Telegram, login by code, QR and password | engine, account commands |
| Commands (`protofs-tauri/src/commands/*`) | application state: engine, drives, accounts, tasks | one per button of the interface | everything above |
| Transfers (`transfers.rs`, `transfer_controls.rs`, `real/transfers.rs`, `useUploadManager.ts`) | a table of running transfers, each with a pause/cancel signal | start, pause, resume, cancel | transport, engine |
| Accounts and drives (`auth.rs`, `drives.rs`, `lib.rs`) | per user a connection file and a list of drives; a registry, a session file, the account in memory | login, switch, remove, logout, discover, create, delete, prune | transport, engine, cache |
| Proxies (`cache/proxy.rs`, `commands/proxy.rs`) | stored proxies and their secrets, the active one | save, delete, activate, enable, test | login, transport |
| Proxy bridge (`mtproto/proxy/*`) | per connection two ciphers, buffers, a frame counter | handshake; re-framing of MTProto both ways | transport |
| Vault (`commands/vault.rs`, `crypto/*`) | an envelope of the root key, a key the machine remembers, the key in memory | set, unlock, lock, change, recover | settings, uploads |
| File versions (`vfs/tree.rs`, `commands/versions.rs`) | a history of at most ten documents on each file | record, restore | tree |
| WebDAV server (`webdav/server.rs`, `commands/native/webdav*.rs`) | a listener, its task, its address | start, stop, mount; MKCOL, PUT, MOVE, DELETE, PROPFIND, GET | engine |
| Folder sync (`commands/sync.rs`) | pairs of a local folder and one of a drive | trigger | uploads |
| Eviction (`cache/eviction.rs`), folder watcher (`sync/watcher.rs`) | exported by the core and tested; the program creates neither | | |
| Settings, sharing, updater, native, CLI, frontend | little of their own | straight-line input and output | commands |

Calls run as tasks of tokio.  Every await on the network or on a lock is a
point where another call may run, and the engine keeps five maps under five
locks, so a call is a sequence of steps and not one.  What is hard here:

* **interleaving**: flushes, edits, deletes and loads of one drive at a time,
  with state read before an await and used after it;
* **partial failure**: nearly every handler is a chain of writes (tree, cache,
  caption, manifest) each of which may fail on its own, most errors being
  logged and dropped; an update of the manifest is itself a dozen requests;
* **crash**: the tree and the flags are lost, the cache and the channel stay at
  whatever they were;
* **sequences**: trash, restore and pin take a node out and put it back;
* **copies**: an account is in four files, three fields of memory and a
  connection, a proxy in two tables, a secret store, the login and the
  connection, the root key in three places; each is written one by one;
* **two lock orders**: account commands and drive commands;
* **liveness**: the debounce has a clock and no timer.

`PROJECT.json` lists each such hazard at its line, with the properties that
watch it or the reason none does yet.

What makes each part correct:

* tree: the index and the parent ids agree, no orphan, no cycle, a delete takes
  exactly the subtree;
* engine: no index names a file whose document is gone; the copies agree when
  nothing runs; what is not published is marked dirty; manifest versions grow; a
  published file is never lost; every call ends; changes are flushed in the end;
* manifest in the channel: never lost, one pin, reads not stale, an update acts
  as one write;
* transfers: a cancel stops the transfer it names and no other, a paused
  transfer sends nothing, a record leaves the table once;
* accounts: the transport, the session file and the list of drives are of the
  same account; a drive is forgotten only on purpose; every command ends;
* proxies: at most one is active, and it is the one a login and the connection use;
* bridge: either end gets the other's frames whole, once and in order;
* vault: whatever write a crash follows, and with commands side by side, the keys
  there are agree and every file can be opened with a key that is kept;
* versions: the history holds the last documents that were current;
* content: a read gets the bytes that were written, whatever chunk, part and range;
* folder sync: after a trigger the folder has a child of the name and hash of every local
  file;
* WebDAV listener: it is shown where it listens, and can be stopped.

## 2. The modules

| Module | Stands for |
|---|---|
| `VfsTree` | the tree as a pure data structure: `VfsTree` of `vfs/tree.rs` and the remove-and-insert sequences of the engine, as operators |
| `TreeStore` | one tree under every call made on it, in any order |
| `VfsTreeProofs`, `TreeStoreProofs` | lemmas about the operators; theorems about the machine |
| `SyncEngine` | one drive: memory, cache, pinned manifest, captions, concurrent calls, failed requests, restarts |
| `PinnedManifest` | the requests behind one update and one read of the manifest |
| `ManifestRegister` | what `SyncEngine` takes the manifest for: an atomic register |
| `PinnedManifestProofs` | the manifest is never lost, one pin, an update is one write, a reader is not behind |
| `SyncEngineProofs` | types, documents, versions, and the agreement of the copies |
| `Transfers` | the queue of uploads, both transfer commands, pause, resume and cancel, permits and retries |
| `TransfersProofs` | the table of signals, cancels and pauses; limits, permits, documents, batches |
| `AccountDrives` | accounts, session, registry, lists of drives, transport in use, the two locks |
| `TelegramLogin` | the login the transport's connection comes from |
| `ProxySettings` | stored proxies, their commands, the task of the start; extends `TelegramLogin` |
| `ProxyTunnel` | one connection through the bridge to an MTProto proxy |
| `TunnelPart` | the tunnel and its frames as the sums below take it in |
| `FrameChannel` | what `ProxyTunnel` promises either end: a channel of frames |
| `FileVersions` | the versions of one file |
| `FileContent` | the bytes of one file, sealed, fetched and cut |
| `FolderSync` | a local folder, its pair and triggers |
| `WebDavListener` | the listeners, the address shown, the commands that start and stop |
| `Vault` | the copies of the root key and the commands that write them |
| `VaultProofs` | the copies agree |
| `ServicesProofs` | accounts and drives, proxies and logins, the tunnel, the paired folder, the listener, the versions, the bytes of a file; the types of them all |
| `NatFacts` | lemmas about minima, maxima, quotients and products the proofs share |
| `MC*` | the instances TLC checks |

Operators named as a mutated form of another definition (`CacheDeleteNothing`
for `CacheDelete`) are bugs the code does not have: the property that would
notice it is violated when the form replaces the definition.

### VfsTree and TreeStore

`tree` is a record of `nodes` (id to node; `nodes_by_id`) and `kids` (parent to
set of ids; `children_by_parent`, a map of hash sets).  A node has a parent, a name and the marks *trashed*
and *pinned*; sizes, times and hashes change nothing here.  `FromNodes` is
`populate_tree`.  `TreeStore` has one action per call; the lock on
`trees_by_drive` makes them atomic.  Two switches name calls that are within
the interface of the engine but not of the program as shipped: `FolderPins`
(trash, restore and pin of folders; the buttons reach them, and this is where
the tree breaks) and `MoveUnderSelf` (a target inside the moved folder; the move
dialog does not offer one, the engine does not refuse it).

### SyncEngine

| Variable | In the code |
|---|---|
| `present`, `tree` | `trees_by_drive` |
| `ver`, `dirty`, `count`, `lastFlush` | `versions_by_drive`, `is_dirty_by_drive`, `uncommitted_counts_by_drive`, `last_flush_by_drive` |
| `cache` | the rows of `drives`, `folders`, `files` |
| `remote`, `msgs` | the pinned manifest; the documents with their captions |
| `op` | per task, the await it is at and the locals it keeps across it |
| `treesLock`, `versLock` | the two write locks held across an await |

An action is the code between two awaits.  `EditStart`, `EditCache`,
`EditCaption` and `MarkDirty` are `trash_node`, `restore_node`, `rename_node` and
`move_node`, which share that shape; the commands of `vfs.rs` then flush, the
WebDAV handlers count towards the debounce (`After`).  `FlushRead`,
`FlushPrepare`, `FlushSend`, `FlushDone` are `flush_manifest`, with the copy of
the tree taken before the lock on the versions.  `Load*` and `Rebuild*` are
`load_drive` and `rebuild_drive_index` with both fallbacks, `Unload*` and
`DropCache` the deletion of a drive.  `DavMove` is the WebDAV MOVE as written: it
renames a copy.  A request may take effect, and its answer may be lost
(`Outcomes`).

### PinnedManifest

`ch` is the channel: message ids to messages, a message being a manifest or not,
pinned or not, with a content known by its number.  `Fetch` is one of the six
searches of `fetch_candidate_messages`; `Upload`, `Edit`, `Send`, `Pin`, `Unpin`,
`DeleteDuplicates` the other requests of `do_update_pinned_manifest`, one
request a step; `Read*` is `do_get_pinned_manifest`.  `UserPin` and `Post` are
other users of the channel.  A search answers with the latest messages up to its limit:
50 pins (`PinLimit`) and 20 manifests (`TagLimit`) in the code, cut down in the runs like
the windows on the ten first and twenty latest messages.  `missed` is a history: the last
update has passed over a failed search, pin, unpin or deletion, or over messages beyond a
limit.

`ActsAsRegister` is the refinement: with `value` for what a reader alone would get
and `pending` for the content being written, every behaviour in which an update passes
over nothing is one of `ManifestRegister`.  This is what lets `SyncEngine` send the
manifest in one step.  The write takes effect at the edit when the target was
pinned and at the pin when it was not: the edited message is not what a reader
prefers until then.

### Transfers

`stage` says at which await a transfer is, from the gesture that drops a file to
the `finally` clause of `processNext`; `ui` holds the refs of `useUploadManager`
(`queueRef`, `activeCountRef`, `batchChoiceRef`, `hasUploadedInBatchRef`) and the
open dialog; `table` and `signal` are `active_transfers` and the values of its watch
channels; `permits` is `transfer_semaphore`.  The functions of the hook run to
their next await in one go, so `ProcessNext` is an operator that `Drop`, `Answer`
and `Close` end with.  `Open`, `Gate`, `Read` are the commands up to the last part;
`TakePermit`, `Move`, `Send`, `Wait` are `do_upload_document` with its retries, or
a download; `Unregister` ends every path.  `world` is what the disk and the folder
hold and for which uploads the drive is not in `state.drives` when they run: `Open` then
takes the branch without a channel, as it does for an empty file, and answers success with
nothing sent.  `stopped` and `pausedAt` are histories.

### AccountDrives

`registry`, `creds`, `legacy`, `auth` and `saved` are the files (`accounts.enc`, a
connection file per user and the one of earlier releases, `session.enc`, a list of
drives per user); `session` and `drives` are `AppState`, `transport` the account
`DynamicTelegramTransport` is connected as, `owner` what Telegram holds.  A task is
at an await, at a lock, or between two writes of files.  `Start` knows the commands:
login, status at the start, switch, remove, logout, check, reconnect, and get,
create, link, adopt, delete and prune on drives.  `alone` chooses between one
command at a time with the program ending after any step, and two commands side by
side without an end; the first has the consistency, the second the locks.  `stale`
records that a reconnect failed: the old connection then stays in use.  What Telegram
answers to a prune is any part of what the connection's account owns: the real client looks
at the hundred latest dialogs.

### TelegramLogin and ProxySettings

`authProxy` is the proxy the next connection will use, `pending` the login begun,
`holder` its mutex, `connection` the route in use.  `rows`, `secrets`, `flagged`,
`chosen` and `enabled` are the tables and the secure store; a command is a chain of
writes, then `sync_transport_proxy`: read the settings, set the login's proxy,
reconnect.  `startup` is the task spawned by `lib.rs` that applies what it had read.
A version of a row and one of its secret stand for their contents.

### ProxyTunnel and FrameChannel

Words of four bytes on two wires.  `ReadClient` and `WriteUp` are the client's half of
`handle_mtproto_tunnel`, `ReadUpstream` and `ForwardFrame` the other; `Connect`,
`Greeted` and `SendInit` come before them, and records cut the stream at any word.  A
greeting has a handshake record, perhaps a change of cipher, and perhaps a record of
application data (`Misgreeted`), which the tunnel takes for the first of the stream.
`StripMtprotoPadding` has the guards of the code on the length of what it strips.  The
keystream is a position: a word decrypted at another position than it was encrypted at
is `Noise`.  `TunnelKeepsFrames` says that each direction implements `FrameChannel`,
with the frames sent and received, numbered, for `sent` and `got`, the direction down but
after such a greeting; a padded error code is received with its padding.

### FileVersions, FileContent, FolderSync

`Recorded` and `Restored` are the two methods of the tree, on a record of the current
document, its number and the history; `latest` is a history variable, the order in
which documents were current.  In `FileContent` a byte is its place in the file;
`Stored` is the sequence an upload makes, `FetchPart` a step of `do_download_range`,
`OpenAndAnswer` the loop of `download_file_data` and the answer cut from what it
opens; `HandleGet` and `DownloadCommand` begin a read.  In `FolderSync` a content is its
hash, and a child of the folder is a name, a hash or none, and whether it is trashed:
`list_children` returns the trashed ones too.  `Begin` is the look at the folder (`Seen`
picks one hash for each name, as the map of the code does), `Take` the next local file,
`Upload` its await, and `Edit`, `Rearrange`, `Restart` what others do in between, a trash
and a restore among it.

### WebDavListener

`bound`, `sender` are `bound_addr`, `shutdown_tx`; `listener` the tasks `start` spawns.
A stop sends the signal and answers; the task ends later, on its own, and clears the
address.  `foreign` are the ports other programs hold.  Ports are numbers of a fixed
width, so that the end of the range a start tries may wrap.

### Vault

`envelope` and `autoUnlock` are the two secrets, `masterKey` the key in memory.  An
asker is a command between two of its writes: `change` (set or change a
passphrase), `recover`, `auto` (what the machine remembers), `open` (memory).  A wrong
passphrase changes nothing and is left out.  `sealed` are the keys files were
encrypted with, `replaced` those a recovery put another in the place of; `apart`
records the ways in which the program leaves two copies to differ, for the property
to name them.

### MCServices and MCTreeVaultTunnel

The parts above share no state with the tree or with each other, so that their
product would multiply states and show nothing more.  `MCServices` is the sum of all
but the vault: `part` names the one that runs, the others keep the state of a fresh
start.  `MCTreeVaultTunnel` is the sum of the tree, the vault and the tunnel; the tunnel
takes part in both, here with the frames its property needs and in `MCServices` with one
each way, for its types.

## 3. The runs

| Run | Instance | What it shows |
|---|---|---|
| `tree_vault_tunnel` | 3 folders, 1 file, 2 names, no trash or pin of folders; 2 keys, 2 askers; 2 frames each way, answers of three kinds with a word of padding, all greetings, both transports | index sound and complete, no orphan, no cycle, exact deletes; the copies of the root key agree; each direction of the tunnel is a channel of frames, down but after a greeting with application data |
| `tree_trash` | the same tree with `FolderPins` | **violated**: trashing a folder loses it |
| `engine_faults` | 2 tasks, every kind of call, every request may fail, 3 calls | no index names a file without document; every call ends |
| `engine_versions` | 2 tasks, 4 calls, 1 restart | manifest versions grow under concurrent flushes |
| `engine_sequential` | 1 task, 5 calls, 1 restart, manifest requests may fail, a scan reaches every document | the copies agree at rest; unpublished changes are marked; published files stay |
| `engine_scan` | 1 task, 6 calls, 1 restart, 2 files of which a scan reaches one | **violated**: a rebuild publishes a manifest without the older file |
| `engine_idle` | 1 task, WebDAV calls, a debounce limit of 3 | **violated**: a lone change is never flushed |
| `engine_concurrent` | 2 tasks, 4 calls, nothing fails | **violated**: a flush puts an old copy over newer rows |
| `manifest_faults` | any channel of up to 2 messages, 2 updates, every request may fail, 1 restart, 1 read | the manifest survives; an update that passes over nothing leaves one pin and is atomic; a reader whose own requests succeed is not behind |
| `transfers` | 2 uploads and 1 download, 1 permit, 1 upload at a time, 1 retry, 1 pause; files of 0 to 2 parts, none, one or both in conflict, one drive unlisted | the table is exact, a cancel in time is final, nothing is sent twice, transfers end, the queue is served and its batch published |
| `services` | 2 users, 1 channel, 2 tasks; 2 proxies, 2 settlers, 1 caller, 2 logins; 1 frame each way; 4 documents, a history of 2; files of up to 5 bytes; 1 name, 2 contents, 2 triggers; 2 openers, 2 listeners, 2 ports | the accounts, the proxies, the types of the tunnel, the versions, the content, the folder and the listener: each keeps its copies together, with the exceptions its property names |
| `drive_list_race` | 2 users, 2 tasks, get_drives and switch | **violated**: a switch during get_drives leaves the drives of the other account |

**Bounds.**  Three folders give a chain of three and a bystander, which is what
a wrong move or delete needs.  In the engine one file and one or two folders
suffice because calls on different nodes meet only in the whole-tree steps
(flush, load), where two nodes already differ; two tasks give every pairwise
race, and three to five calls a load, two changes and two flushes.
`FlushLimit` is 20 in the code; 2 makes both sides of the limit happen.  Two
initial messages give the manifest and a duplicate, in every combination of pins
and ages; limits of two answers to a search are exceeded by one more;
`MaxId` leaves room for two more, by a failed edit or another user.
In `transfers` the limits are cut to one, so that two uploads suffice to exceed
them; two come to run at once because the dialog is answered without a look at
the limit.  The two files are both in conflict; or one is empty and the other is in
conflict; or both are free, and the limit alone keeps them apart, and one does not find
its drive.  What an
empty file does is the same with and without a dialog, and two of them meet nowhere.
Deadlock checking is off where the bounds let the behaviour end.

In `services`, and for the vault, two users, two tasks, two proxies, two triggers,
openers and askers give every pairwise race; a third of either meets no code the
second does not.  Of two beginnings that differ in the names of users, proxies or keys
alone, `NamedSpec` takes one; no action tells one name from another.  One
channel suffices: a list of drives is replaced or filtered, and a drive is listed or
not.  `Budget` gives a login beside a change of settings and a second login or a
restart after it.  A saved proxy keeps one version there, since connections follow an
edit by the same writes as a switch to the other proxy; `ProxyIsFollowed` is proved for
any versions.  In `tree_vault_tunnel` a frame of each kind followed by one of each shows the
counter, the padding and the remainders; records of at most four words cut every
frame at every place.  `MaxHistory` is 10 in the code; with 2, four documents and two
restores it overflows and its numbers repeat.  `PlainChunk`, `Tag`, `Part` and `Slack`
keep the proportions of 64 KiB, 16 bytes, 512 KiB and 1 MiB as far as they matter:
chunks and parts do not end together and the slack holds the tags of the longest
file, which ends before, at and after the end of a chunk and of a part.  In
`FolderSync` one name suffices because files of different names meet nowhere in the
command; two contents are the one seen and the one there now.  `Span`
is 10 in the code; two ports, one of them foreign, make a start move to the next
port, find none and overflow.

**Restrictions.**  `engine_sequential` runs one call at a time because with two
the agreement properties do not hold (`engine_concurrent`); `VersionsGrow` and the
sequential properties assume `LoadAlone`: a drive is loaded before it is used and
nothing runs beside the load, as the interface does it.  Without it an upload
into a drive that is not loaded starts an empty tree and a flush publishes it.
A scan finds at least the `ScanReach` latest documents, a hundred in the code where
others' messages count too: in `engine_sequential` these are all there are, in
`engine_faults` and `engine_versions` perhaps none.  `manifest_faults` follows a
reader only as far as `ReadIsFresh` speaks of it (`ReaderBounds`): a reader that has lost
a request takes an older candidate or none, and of it the property says nothing; beside a
reader there is at most one new message, no restart and no update that passes over
something, and `ReaderIsFresh` is proved without these bounds.  `tree_vault_tunnel` leaves
out trash, restore and pin of folders and moves into oneself, which its properties do not
survive.

**Fairness.**  `CallsEnd` and `IdleChangesArePublished` assume strong fairness of
each task's steps and weak fairness of the clock: tokio runs every task that can
run, its locks are first come first served, so a task waiting for a lock that is
freed again and again gets it, and every request is answered or times out.  No
call is ever assumed to be made, which is the point of `engine_idle`.
`TransfersEnd` and `QueueDrains` assume strong fairness of the steps of each
transfer (the semaphore is first come first served too) and nothing of the user:
a dialog may stay open and a pause last for ever, and the properties say so.
`CommandsEnd` of `services` assumes weak fairness of the steps of commands at work
together: while some command can go on, one of them does.  That is less than the code
gives, where tokio's locks are first come first served and a request is answered or
times out, and it is enough because a command has an end.  No command is assumed to be
given.  The other parts state safety alone.

**Exceptions.**  Several properties of `services` and `KeysAgree` hold with exceptions,
which are places where the code lets copies differ; the model records each in a history variable
and the comment of the property names them: `stale` (a reconnect failed), `Deadlocked`
(the removal of the last account), `overlap`, `torn`, `behind` (two proxy commands
together; the program ended between the flag and the choice; a login begun under the
older settings), `crossed` (a listener cleared its successor's address), `apart` (a
key stored while a command with another was under way), `Misgreeted`.  `DriveKept` lets a
prune take what Telegram's answer lacks, `ReadsWhatWasWritten` says nothing of a drive that
is not listed nor of which bytes a request for the last ones gets, and `SyncIsExact` takes
a trashed child for the file.  What these let pass is listed below.  What is left is
what the mutants break.

### What does not hold

1. `engine_concurrent`: `flush_manifest` copies the tree (engine.rs:246), awaits,
   and then replaces the rows of the cache by that copy (engine.rs:259).  A folder
   created in between is in memory and not in SQLite.  README.md:153 promises the
   two are "strictly synchronized".  The same window can publish the older of two
   copies under the higher version, and clears a dirty flag set meanwhile.
2. `tree_trash`: `trash_node` and `restore_node` call `remove` in the condition of
   their first branch (engine.rs:365); for a folder the second `remove` finds
   nothing.  `toggle_pin` has the same shape.
3. `engine_idle`: the 30 seconds of `debounced_flush_manifest` (engine.rs:297) are
   looked at only by a later call.
4. `drive_list_race`: `get_drives` drops its guard on the session (drives.rs:83)
   before it takes the lock on the drives, in spite of the comment at drives.rs:72: a
   switch in between is overwritten by the list of the other account.
5. `engine_scan`: `do_scan_messages` (real/messages.rs:123) answers with the newest
   hundred messages whatever `min_id` is, and the loop of `rebuild_drive_index` then
   ends: after a failed request for the manifest the rebuild, called "self-healing" at
   engine.rs:126, publishes one without the older files.

Seen while modelling, without a run: a cancel of a queued row leaves its file in
the queue, and one after the last part was read answers true while the upload
goes on; `MAX_CONCURRENCY` can be exceeded, and an upload be forgotten, by way of
the conflict dialog; a queued file goes to the folder that is open when it is
served; an empty file is answered with success and stored nowhere; after the fallback of a
failed scan the drive is not marked dirty; `toggle_pin` never writes the cache; the WebDAV MOVE and
`restore_file_version_command` change a copy of the tree; CONTRIBUTING.md:112 wants
every mutation debounced while the commands of `vfs.rs` flush each time.
Further:

* manifest: the search for pins (real/manifest.rs:49) asks for 50 and is not continued, so
  that of more the rest stay pinned (`missed`); CHANGELOG.md:32 guarantees "that only one
  pinned message remains";
* transfers: for a drive that has left the list the channel is 0, and the branch for
  "local browser testing" (transfers.rs:163) answers success with a node it makes up and
  stores nothing (`world.unlisted`, which `OneDocumentPerUpload` excepts by name).

Seen in the same way in the parts of `services`:

* accounts: the removal of the last account and a command on drives
  can wait for each other (auth.rs:599); a two-step login whose password request fails
  on the network loses its token (real/auth.rs:383) and starts again; "Sync with
  Telegram" keeps what the hundred latest dialogs name (drives.rs:407) and drops the
  other live drives;
* proxies: the form of a proxy saves the flag it was opened with; of two changes of
  the active proxy the slower wins;
* tunnel: `fake_tls_handshake` (mtproto.rs:171) reads one record of the greeting; one of
  application data, with which a fake TLS server ends its first flight, is decrypted as
  stream (bridge.rs:539), and what follows is noise (`Misgreeted`); a padded error code,
  shorter than the 20 bytes from which padding is stripped, reaches the client with its
  padding;
* versions: a restore happens in a copy that is dropped, and numbers repeat after one;
* content: a download from a drive that is not in the list answers with success and no
  bytes; a range without a first byte starts at 0 (server.rs:623), so that a request for
  the last bytes gets the first, while README.md:37 promises byte ranges;
* folder sync: the map of what exists keeps one hash a name (sync.rs:91), so that once a
  file has changed, or beside a child without a hash, a trigger may upload again what is
  there, in spite of the comment at sync.rs:124; trashed children are in that map too, and
  a file the user trashed in the drive is not uploaded again; nothing flushes, so the
  uploads are in no index at the next start;
* WebDAV listener: a stop followed by a start leaves a server shown as stopped that no
  stop ends; a start at the start of the program over a running one leaves the old
  listener listening; near port 65535 the range of ports overflows.

## 4. The proofs

All proofs are for every value of the constants that satisfies the assumptions
named in the modules (`IdsAreDistinct`, `SwitchesAreBoolean`, `EngineAssumption`,
`ChannelAssumption`, `TransferAssumption`, `VaultAssumption`, `ServicesAssumption`,
`AccountAssumption`, `ProxyAssumption`, `TunnelAssumption`, `ContentAssumption`):
that ids of different kinds, and the values that stand for "none", are different,
that numbers are numbers and sets of ids are finite where they are counted, that what
a proxy sends is padded as its transport pads (by less than 4 words; an encrypted payload
is 2 words and a multiple of 4), and that the slack a download
asks for takes the tags of the longest file: 1 MiB is 65536 tags of 16 bytes, for chunks
of 64 KiB a file of 4 GiB, which is more than Telegram stores.  A theorem with a further hypothesis
states it by name; each is a value of the switches of the model, so that there are
instances with it, and one is among the runs.

### The tree

* `TreeTyped`, `IndexSoundness`: by induction with `TypeOK /\ IndexIsSound`, for all
  calls including those on folders.
* `IndexCompleteness`, `NoOrphans`, `DeleteExact`: with `Listed` (typed, sound and
  complete) as the inductive invariant, for `~FolderPins`.  Completeness is what
  makes the work list of `remove_recursive`, which follows the index, take the
  nodes that the parent ids put inside (`SubtreeIsInside`).
* `NoCycles`: besides for `~MoveUnderSelf`; acyclicity is stated as "every
  non-empty set of nodes has one whose parent is outside it", which needs no
  induction on paths.

### The engine

* `EngineTyped`: with `Typed`, which gives each record its fields and says that no
  file holds other nodes; the rest of the proofs reads the types from it.
* `DocumentsKept`: `NoFileWithoutDocument` for any number of tasks and calls, any
  faults, restarts anywhere.  A document goes only when its file was taken out for
  good, so it suffices that no copy speaks of a file before its document is there:
  `AllHeld` says so of the maps at rest and of the copies in the locals of every
  task (`TaskHeld`), such as the snapshot of a flush.
* `ManifestVersionsGrow`, under `LoadsFirst`: `Versions` holds that one task at most is
  between the read and the write of the version (`LockHeld`), and that the version
  in memory is the one in the channel once the drive is loaded, a flush that sent its
  manifest apart.  The hypothesis excludes what does break it: a flush whose request
  took effect and whose answer was lost publishes the same version again; a drive
  used before it was loaded, or after a manifest that could not be read, or after it
  was deleted, counts anew.
* `PublishedStay`, under `OneCallAtATime` and with no more files than a scan reaches
  (`Cardinality(Files) <= ScanReach`), any faults: `Listing` says where the
  published files are while a call is at each of its awaits.  With two calls an old
  snapshot can be published last; beyond the reach of a scan a rebuild loses files
  (`engine_scan`).
* `TreeIsCached`, `UnmarkedIsPublished`, under `NoPins` (one call at a time; a pin
  writes neither the cache nor the manifest): `Agreeing` says of each await how far
  the tree, the rows and the manifest are apart there, and who is about to bring them
  together.  `UnmarkedIsPublished` supposes that the publication that ends a rebuild
  does not fail: after it the drive is not marked.
* `CaptionsTold`, under `CaptionsArrive` (one call at a time, requests about messages
  succeed, no deletion of drives): `Captioned` follows a caption through each await,
  with `Listing` for the files a manifest can bring back and `DocsUsed` for the ids
  new documents get.  A failed delete leaves a document that a manifest from before
  brings back with a caption nobody brought up to date; so does a deleted drive.

### The manifest in the channel

* `AckedManifestKept`, `ManifestNeverLost`: with `IInv` of `PinnedManifestProofs`.
  `AckedIsKept` alone is not inductive: a deletion could take the only new
  manifest.  `Replaced` says that from the pin onwards the chosen message is a
  manifest, holds what this update writes, and is not to be deleted;
  `Remembered` that the searches found it in the channel; `Numbered` that
  updates are numbered upwards.  Failures, restarts and other users are in.
* `ChannelTypes`: with `Sized`, the ids an update and a reader hold.
* `UpdateIsOneWrite`: the refinement of `ManifestRegister`, a step of which is a step of
  the register or none (`StepOfRegister`).  `Writes` is the law of a step: what a reader
  gets stays, or becomes what the update writes; that it never goes back rests on
  `CInv`: while it has passed over nothing (`missed`) the update has found every pinned manifest
  (`Complete`), and what it writes is newer than anything there (`Newest`).
* `OnePinnedMessage`: with `Ended`: an update that ends and has passed over nothing has
  found whatever else was pinned and unpinned or deleted it.  With more pins than a search
  returns it has passed over some.
* `ReaderIsFresh`: with `Told`: of what was in the channel when the reader started, a
  message at least as good is still there at each of its searches, or among the
  candidates it holds.  It is for a reader whose searches and downloads succeed, of whose
  searches, and of those of the updates beside it, none meets its limit, and beside updates
  that pass over nothing; uploads, edits and new messages may fail, and the program restart.

### Transfers

* `TableExact`, `CancelIsFinal`, `PauseIsHeld`: with `IInv` of `TransfersProofs`.  A
  cancel is final because it takes the sender out of the table, so that no resume
  finds it, and leaves "cancelled" in the signal, which the next gate reads
  (`StoppedFails`).  The queue is in the invariant since it starts uploads: what it
  starts must be queued and not under way (`Waiting`), and `ServeNext` says that
  `ProcessNext` keeps it so.  No assumption on the limits, the sizes or the number
  of transfers is needed.
* `LimitKept`, `BatchPublished`, `OneDocument`, `TransfersTyped`: with `BInv`, which counts:
  `active` is the number of uploads under way (`Counted`), the permits that are out are
  those of the transfers that move (`Permitted`), an upload has as many documents as
  its stage allows (`Documented`; none in the end when the file is empty or the drive not
  listed), and none reads past its file (`Bounded`).

### Services

The sum is proved part by part: `PartsMove` says that a step of `MCServices` is a step
of the part or leaves its variables alone.

* `KeysStayTogether`: `KeysAgree` for any keys and any number of commands side by
  side, with `Typed /\ (~ apart => Agree)` of `VaultProofs`.  `KeysAgree` speaks of the
  moments when nothing runs; `Agree` says of the others that a copy that differs from
  the envelope has a command under way that is about to write it (`MemoryFollows`,
  `AutoFollows`) and that such a command has the envelope's key (`Followed`).
* `VaultTyped`: the types of the vault, from `Typed` alone: whatever a command holds,
  a copy or a file was made with is a key there is.
* `SyncStaysExact`: with `FolderKept`: a steady trigger has settled every file it took
  from its list and what it remembers of the others is still in the folder (`Steady`);
  one that is alone remembers, of every name there, the hash of a child or that one has
  none (`Alone`).  A child in the trash counts in both, as in the code, so that the theorem
  does not say that the drive shows the file.
* `ShownWhereItListens`: with `DavKept`: the lock is held from the look to the end of a
  command (`Held`), so that at most one command is at work, and `Stage` says what it
  has made true so far.  Two listeners never have one port (`PortsApart`), by which a
  listener that ends finds its own address or none.
* `HistoryIsLatest`: with `VersionsKept`, which compares the history and the order of
  documents place by place and needs that no document comes twice.
* `ReadsAreExact`: `ReadsWhatWasWritten` for any sizes of chunk, tag, part and file and
  any request to a drive that is listed; of a request for the last bytes it says that the
  answer is what its header names, not that these are the last.  The invariant
  (`ContentKept`) is small, the arithmetic is not: what is
  stored falls into as many pieces as the file has chunks, and the piece at c is as long
  as its chunk and a tag (`Layout`), so that every slice opens with the key of the file
  (`RightKeyOpens`) and what is opened is the file (`OpenedIsTheFile`); the fetch ends
  with everything that is stored because the slack has room for the tags (`FileSizes`);
  and the answer cut from the file is the one that is due, at its end and for an empty
  file too (`AnswerIsDue`).
* `AccountShownIsActive`, `DrivesAreKept`: `SessionIsConsistent` and `DriveKept` for one
  command on accounts at a time (`alone`, which the properties name) and the program ending
  between any two of its steps, with `AccountKept`.  Its core is `Consistent`: the user
  shown, the registry, the file of drives and the connection are of one user; a command
  breaks it on the way, and `Doing` says of each of its steps what it has made true and
  what it still owes.  `OwnFiles` says that the connection file of a user holds the
  session of that user, so that a command that connects ends up speaking as the user
  it chose.  A prune is among the three ways a drive may go, whatever Telegram answers.
* `ProxyIsFollowed`: `ProxyFollowsSettings` with `ProxyKept`, for any logins and commands
  and restarts.  The flags and the chosen proxy are compared in every state
  (`FlagsAgree`): the command between its two statements is alone there because the
  store is locked.  Where the connections go is told only while no two commands
  overlapped (`RouteFollowed`), which is also all that the property promises; a
  connection without an account belongs to a login that is about to register it
  (`ConnectionOwned`).
* `TunnelIsTwoChannels`: the refinement of `FrameChannel` in each direction, for any
  frames of the lengths MTProto has and any records they are cut into, on the way down
  unless the greeting ended with application data (after
  one that did, `MisgreetedKept`: the steps down leave the way up alone).  `TunnelKept` holds that all that one end has
  sent and the other has yet to get is on the way: there is a word U of everything sent, in
  which frame i begins at `at[i]` (`Spells`), and the buffer of the sender, the records on
  the wire and the buffer of the receiver are pieces of it (`Cut`) that follow each other in
  the keystream (`Carries`).  So no word is decrypted at another place than it was
  encrypted at, what the receiver holds begins with the next frame (`NextFrame`), and
  the padding that comes off is what was put on (`StripsPadding`), an error code's staying.
* `ServicesTyped`: `TypeOK` for all parts together, from the invariants above and three
  more.  `AccountShaped` holds side by side as well as alone: a command that acts for a
  user knows that user, a removal under way has the registry it will save, and no
  registry lists an account twice (`NoRepeat`), whatever is put on it or taken off
  (`RegistryMoves`), so that its length counts its members (`MembersCounted`).
  `PortKept` says that a command that decides was given a port, `CallsKept` that what
  the start has yet to set is a route of its own.

### Only model-checked

All liveness (`CallsEnd`,
`TransfersEnd`, `QueueDrains`, `CommandsEnd`): temporal proofs under fairness are outside
what TLAPS 1.4.5 supports.  The work list of `remove_recursive` is a least fixed point
in the model, not a loop, for want of induction over data.

## 5. What is not modelled, and the plan

Not modelled at all: the ciphers and key derivation (AES-GCM opens exactly what it
sealed, a keystream is a position), MTProto itself, the operating system's dialogs,
shell and file pickers, rendering in the frontend, settings and updates
(straight-line code), the command line; the sweep of the offline cache and the folder
watcher, which no code of the program creates; the SOCKS5 greeting byte by byte, the
HTTP and SOCKS5 connectors and the tests of a proxy; the parsing of WebDAV requests and
PROPFIND; search, the rows of sync pairs and the settings of the camera; sharing links
and the export of keys.

In order of importance:

1. The grammar of captions under the rebuild of `SyncEngine`, and the messages of others
   between the documents, which `ScanReach` only counts.
2. The SOCKS5 greeting of the bridge; PROPFIND and the paths of WebDAV requests.
