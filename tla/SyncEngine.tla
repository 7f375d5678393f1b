---------------------------- MODULE SyncEngine ----------------------------
(***************************************************************************)
(* SyncEngine of crates/protofs-core/src/sync/engine.rs for one drive: the *)
(* tree in memory, its copy in the SQLite cache, the manifest pinned in    *)
(* the Telegram channel and the captions of the files' messages, under     *)
(* concurrent calls of the engine.                                         *)
(*                                                                         *)
(* A call runs in a task.  A task is atomic between two points where       *)
(* another may run: an await on the network or on a lock, or the release   *)
(* of a lock; op[t].pc names the point it waits at and the other fields of *)
(* op[t] hold what its local variables keep across it.  Two locks are held *)
(* across such points and are modelled: the write lock on                  *)
(* versions_by_drive, which flush_manifest holds while it uploads, and the *)
(* write lock on trees_by_drive, which load_drive and rebuild_drive_index  *)
(* hold while they wait for the former.                                    *)
(***************************************************************************)
EXTENDS VfsTree, Naturals

CONSTANTS
    Tasks,
    Calls,          \* the kinds of call the environment makes
    FlushLimit,     \* the 20 of debounced_flush_manifest
    MaxCalls,       \* bound on the calls of a behaviour
    MaxCrashes,     \* bound on process restarts
    Faults,         \* the kinds of request to Telegram that may fail
    ScanReach,      \* how many documents are at least among the channel's
                    \* newest hundred messages, all that a scan gets to see
    LoadAlone       \* TRUE when a drive is loaded before it is used, and a
                    \* load runs with no other call (what the UI does)

\* A file is known by the id of its message, which Telegram counts upwards.
ASSUME EngineAssumption ==
    /\ "free" \notin Tasks
    /\ Files \subseteq Nat /\ ScanReach \in Nat
    /\ Calls \subseteq {"folder", "mkcol", "edit", "pin", "delete", "davdelete",
                        "empty", "upload", "flush", "load", "touch", "unload",
                        "davmove"}
    /\ FlushLimit \in Nat \ {0}
    /\ MaxCalls \in Nat /\ MaxCrashes \in Nat
    /\ Faults \subseteq {"upload", "caption", "delete", "flush", "fetch", "scan",
                         "publish"}
    /\ LoadAlone \in BOOLEAN

VARIABLES
    present,    \* the drive has an entry in trees_by_drive ...
    tree,       \* ... and this is it (the empty tree when it has none)
    ver,        \* versions_by_drive; 0 when there is no entry
    dirty,      \* is_dirty_by_drive; FALSE when there is no entry
    count,      \* uncommitted_counts_by_drive; 0 when there is no entry
    lastFlush,  \* last_flush_by_drive: "none", "recent" or "old" (30 s)
    cache,      \* SQLite: is there a row in drives, and the nodes' rows
    remote,     \* the pinned manifest; ver = 0 when there is none
    msgs,       \* the channel's documents: file id -> caption
    op,         \* what each task is doing
    treesLock, versLock,    \* who holds the two write locks
    used,       \* ids given out so far (timestamps, Telegram message ids)
    purged,     \* history: files some call took out of the tree for good
    calls, crashes  \* counters against the bounds

memory == <<present, tree, ver, dirty, count, lastFlush>>
store  == <<cache, remote, msgs>>
locks  == <<treesLock, versLock>>
bounds == <<calls, crashes>>
vars == <<memory, store, op, locks, used, purged, bounds>>

-----------------------------------------------------------------------------
Free == "free"          \* no task holds the lock
NoManifest == [ver |-> 0, nodes |-> EmptyMap]
NoCache == [row |-> FALSE, nodes |-> EmptyMap]

\* build_caption_string: what a message's caption says of its file.
Captions == [parent: Parents, name: Names, trashed: BOOLEAN]
CaptionOf(n) == [parent |-> n.parent, name |-> n.name, trashed |-> n.trashed]

\* trash_node / restore_node, rename_node and move_node are one handler each
\* with the same steps; an edit says which field of the node gets which value.
Edits == [field: {"trashed"}, to: BOOLEAN] \cup [field: {"name"}, to: Names]
            \cup [field: {"parent"}, to: Folders \cup {Root}]

EditNode(n, e) ==
    CASE e.field = "trashed" -> [n EXCEPT !.trashed = e.to]
      [] e.field = "name"    -> [n EXCEPT !.name = e.to]
      [] e.field = "parent"  -> [n EXCEPT !.parent = e.to]

EditTree(t, id, e) ==
    CASE e.field = "trashed" -> SetTrashed(t, id, e.to)
      [] e.field = "name"    -> Rename(t, id, e.to)
      [] e.field = "parent"  -> MoveNode(t, id, e.to)

\* rename and move_node return an error, and the handler with them, when the
\* node or the target is not there; trash_node and restore_node go on.
EditAccepted(t, id, e) ==
    CASE e.field = "trashed" -> TRUE
      [] e.field = "name"    -> Has(t, id)
      [] e.field = "parent"  -> CanMove(t, id, e.to)

Without(m, S) == [x \in DOMAIN m \ S |-> m[x]]
With(m, id, n) == [x \in DOMAIN m \cup {id} |-> IF x = id THEN n ELSE m[x]]

\* UPDATE ... WHERE id = ..: a row that is not there stays absent.
CacheEdit(c, id, e) ==
    IF id \in DOMAIN c.nodes
    THEN [c EXCEPT !.nodes = With(@, id, EditNode(@[id], e))] ELSE c

\* Mutant of CacheDelete: the row stays.
CacheDeleteNothing(c, S) == c

CacheDelete(c, S) == [c EXCEPT !.nodes = Without(@, S)]

\* upsert_folder / upsert_file: drive_id refers to drives(id), so that the
\* insert fails, and the error is dropped, when the drive has no row yet.
\* On a conflict is_pinned_offline and the rest take the new values.
CacheUpsert(c, id, n) ==
    IF c.row THEN [c EXCEPT !.nodes = With(@, id, n)] ELSE c

\* batch_insert_manifest: one transaction replaces all of the drive's rows.
CacheReplace(m) == [row |-> TRUE, nodes |-> m]

-----------------------------------------------------------------------------
Idle == [pc |-> "idle", id |-> Root, edit |-> [field |-> "trashed", to |-> FALSE],
         cap |-> {}, snap |-> EmptyMap, todo |-> {}, ver |-> 0, then |-> "done"]

AllIdle == \A t \in Tasks : op[t].pc = "idle"

LoadSteps == {"fetch", "cacheLoaded", "scan", "cacheRebuilt", "publish",
              "fallback", "install", "installVer"}

\* A task takes a new call of kind k.
Begin(t, k) ==
    /\ k \in Calls
    /\ op[t].pc = "idle"
    /\ calls < MaxCalls
    /\ calls' = calls + 1
    /\ LoadAlone => IF k = "load" THEN AllIdle
                    ELSE ver > 0 /\ \A u \in Tasks : op[u].pc \notin LoadSteps
    /\ UNCHANGED crashes

Goto(t, pc) == op' = [op EXCEPT ![t].pc = pc]
Return(t) == op' = [op EXCEPT ![t] = Idle]

\* What the caller does next: the commands of vfs.rs flush the manifest
\* (auto_flush_manifest), the WebDAV handlers go through the debounce, and
\* the others return.
After(then) == CASE then = "flush"    -> [Idle EXCEPT !.pc = "flushRead"]
                 [] then = "debounce" -> [Idle EXCEPT !.pc = "debounce"]
                 [] then = "done"     -> Idle

\* Whether a request takes effect, and whether its answer arrives.
Outcomes(kind) == IF kind \in Faults THEN BOOLEAN \X BOOLEAN ELSE {<<TRUE, TRUE>>}

-----------------------------------------------------------------------------
(* Handlers that write: add_node, edits, delete_node, empty_trash, pins     *)

\* add_node, the whole of it under the lock on the trees.
AddNode(id, n) ==
    /\ treesLock = Free
    /\ tree' = Insert(tree, id, n)
    /\ present' = TRUE
    /\ dirty' = TRUE
    /\ cache' = CacheUpsert(cache, id, n)

NewNode(p, name) ==
    [parent |-> p, name |-> name, trashed |-> FALSE, pinned |-> FALSE]

\* create_folder_command and handle_mkcol.
CreateFolder(t, id, p, name) ==
    /\ \/ Begin(t, "folder") /\ op' = [op EXCEPT ![t] = After("flush")]
       \/ Begin(t, "mkcol") /\ op' = [op EXCEPT ![t] = After("debounce")]
    /\ id \in Folders \ used
    /\ p \in {Root} \cup (Folders \cap DOMAIN tree.nodes)
    /\ AddNode(id, NewNode(p, name))
    /\ used' = used \cup {id}
    /\ UNCHANGED <<ver, count, lastFlush, remote, msgs, locks, purged>>

\* upload_file_data: the document is stored under a new message id; when the
\* answer is lost the call fails and the message stays.
UploadSend(t, id, p, name) ==
    /\ Begin(t, "upload")
    /\ id \in Files /\ \A x \in used \cap Files : x < id
    /\ p \in {Root} \cup (Folders \cap DOMAIN tree.nodes)
    /\ \E o \in Outcomes("upload") :
         /\ msgs' = IF o[1] THEN With(msgs, id, CaptionOf(NewNode(p, name)))
                    ELSE msgs
         /\ used' = IF o[1] THEN used \cup {id} ELSE used
         /\ op' = IF o[1] /\ o[2]
                  THEN [op EXCEPT ![t] = [Idle EXCEPT !.pc = "addFile", !.id = id,
                                  !.cap = {CaptionOf(NewNode(p, name))}]]
                  ELSE op
    /\ UNCHANGED <<memory, cache, remote, locks, purged>>

UploadAdd(t) ==
    /\ op[t].pc = "addFile"
    /\ \E c \in op[t].cap : AddNode(op[t].id, NewNode(c.parent, c.name))
    /\ Return(t)
    /\ UNCHANGED <<ver, count, lastFlush, remote, msgs, locks, used, purged,
                   bounds>>

\* Mutant of EditStart: the caption of the node as it was before the edit.
EditStartStaleCaption(t, id, e) ==
    /\ Begin(t, "edit")
    /\ treesLock = Free /\ present /\ id \in used
    /\ EditAccepted(tree, id, e)
    /\ e.field = "parent" => e.to \notin Subtree(tree, id)
    /\ tree' = EditTree(tree, id, e)
    /\ op' = [op EXCEPT ![t] = [Idle EXCEPT
                !.pc = "editCache", !.id = id, !.edit = e, !.then = "flush",
                !.cap = {CaptionOf(tree.nodes[f]) :
                            f \in {id} \cap Files \cap DOMAIN tree.nodes}]]
    /\ UNCHANGED <<present, ver, dirty, count, lastFlush, store, locks, used,
                   purged>>

\* trash_node, restore_node, rename_node, move_node: the tree under its lock,
\* then the cache, then the caption of a file's message, then the dirty flag.
EditStart(t, id, e) ==
    /\ Begin(t, "edit")
    /\ treesLock = Free /\ present /\ id \in used
    /\ EditAccepted(tree, id, e)
    /\ e.field = "parent" => e.to \notin Subtree(tree, id)
    /\ tree' = EditTree(tree, id, e)
    /\ op' = [op EXCEPT ![t] = [Idle EXCEPT
                !.pc = "editCache", !.id = id, !.edit = e, !.then = "flush",
                !.cap = {CaptionOf(tree'.nodes[f]) :
                            f \in {id} \cap Files \cap DOMAIN tree'.nodes}]]
    /\ UNCHANGED <<present, ver, dirty, count, lastFlush, store, locks, used,
                   purged>>

EditCache(t) ==
    /\ op[t].pc = "editCache"
    /\ cache' = CacheEdit(cache, op[t].id, op[t].edit)
    /\ Goto(t, IF op[t].cap = {} THEN "mark" ELSE "editCaption")
    /\ UNCHANGED <<memory, remote, msgs, locks, used, purged, bounds>>

\* A failed edit_caption is logged and forgotten.
EditCaption(t) ==
    /\ op[t].pc = "editCaption"
    /\ \E o \in Outcomes("caption"), c \in op[t].cap :
         msgs' = IF o[1] /\ op[t].id \in DOMAIN msgs
                 THEN With(msgs, op[t].id, c) ELSE msgs
    /\ Goto(t, "mark")
    /\ UNCHANGED <<memory, cache, remote, locks, used, purged, bounds>>

\* Mutant of MarkDirty: the flag is forgotten, and with it the flush.
MarkNothing(t) ==
    /\ op[t].pc = "mark"
    /\ Return(t)
    /\ UNCHANGED <<memory, store, locks, used, purged, bounds>>

MarkDirty(t) ==
    /\ op[t].pc = "mark"
    /\ dirty' = TRUE
    /\ op' = [op EXCEPT ![t] = After(op[t].then)]
    /\ UNCHANGED <<present, tree, ver, count, lastFlush, store, locks, used,
                   purged, bounds>>

\* toggle_pin: no cache, no flush.
TogglePin(t, id, flag) ==
    /\ Begin(t, "pin")
    /\ treesLock = Free /\ present /\ id \in used
    /\ tree' = SetPinned(tree, id, flag)
    /\ dirty' = TRUE
    /\ UNCHANGED <<present, ver, count, lastFlush, store, op, locks, used, purged>>

\* handle_move: the rename is made on the copy get_or_create_tree returns, so
\* that all that remains of a MOVE of a known node is the count.
DavMove(t, id) ==
    /\ Begin(t, "davmove")
    /\ treesLock = Free /\ id \in used
    /\ present' = TRUE
    /\ op' = [op EXCEPT ![t] = IF Has(tree, id) THEN After("debounce") ELSE Idle]
    /\ UNCHANGED <<tree, ver, dirty, count, lastFlush, store, locks, used, purged>>

\* delete_node: the whole subtree leaves the tree at once, then each node the
\* cache and, if it is a file, the channel (in any order here).
DeleteStart(t, id) ==
    /\ treesLock = Free /\ present /\ id \in used
    /\ \E then \in {"flush", "debounce"} :
         /\ Begin(t, IF then = "flush" THEN "delete" ELSE "davdelete")
         /\ LET gone == Subtree(tree, id) \cap DOMAIN tree.nodes IN
              /\ tree' = RemoveRecursive(tree, id)
              /\ purged' = purged \cup (gone \cap Files)
              /\ op' = [op EXCEPT ![t] = [Idle EXCEPT !.pc = "purge",
                                !.todo = gone, !.then = then]]
    /\ UNCHANGED <<present, ver, dirty, count, lastFlush, store, locks, used>>

DeletePurge(t) ==
    /\ op[t].pc = "purge"
    /\ \/ /\ op[t].todo = {}
          /\ Goto(t, "mark")
          /\ UNCHANGED cache
       \/ \E x \in op[t].todo :
            /\ cache' = CacheDelete(cache, {x})
            /\ op' = [op EXCEPT ![t].pc = IF x \in Files THEN "purgeMsg" ELSE "purge",
                                ![t].id = x, ![t].todo = @ \ {x}]
    /\ UNCHANGED <<memory, remote, msgs, locks, used, purged, bounds>>

\* delete_message; a failure is logged and forgotten.
DeleteMessage(t) ==
    /\ op[t].pc = "purgeMsg"
    /\ \E o \in Outcomes("delete") : msgs' = IF o[1] THEN Without(msgs, {op[t].id}) ELSE msgs
    /\ Goto(t, "purge")
    /\ UNCHANGED <<memory, cache, remote, locks, used, purged, bounds>>

\* Mutant of EmptyStart: every file of the tree loses its message.
EmptyStartAllFiles(t) ==
    /\ Begin(t, "empty")
    /\ treesLock = Free /\ present
    /\ tree' = EmptyTrash(tree)
    /\ purged' = purged \cup (Trashed(tree) \cap Files)
    /\ op' = [op EXCEPT ![t] = [Idle EXCEPT !.pc = "emptyCache",
                    !.todo = DOMAIN tree.nodes \cap Files, !.then = "flush"]]
    /\ UNCHANGED <<present, ver, dirty, count, lastFlush, store, locks, used>>

\* empty_trash: the trash of the tree, then the trash of the cache, then the
\* messages of the files that were in the former.
EmptyStart(t) ==
    /\ Begin(t, "empty")
    /\ treesLock = Free /\ present
    /\ tree' = EmptyTrash(tree)
    /\ purged' = purged \cup (Trashed(tree) \cap Files)
    /\ op' = [op EXCEPT ![t] = [Idle EXCEPT !.pc = "emptyCache",
                    !.todo = Trashed(tree) \cap Files, !.then = "flush"]]
    /\ UNCHANGED <<present, ver, dirty, count, lastFlush, store, locks, used>>

EmptyCache(t) ==
    /\ op[t].pc = "emptyCache"
    /\ cache' = CacheDelete(cache, {x \in DOMAIN cache.nodes : cache.nodes[x].trashed})
    /\ Goto(t, "emptyMsgs")
    /\ UNCHANGED <<memory, remote, msgs, locks, used, purged, bounds>>

EmptyMessages(t) ==
    /\ op[t].pc = "emptyMsgs"
    /\ \/ /\ op[t].todo = {}
          /\ Goto(t, "mark")
          /\ UNCHANGED msgs
       \/ \E x \in op[t].todo, o \in Outcomes("delete") :
            /\ msgs' = IF o[1] THEN Without(msgs, {x}) ELSE msgs
            /\ op' = [op EXCEPT ![t].todo = @ \ {x}]
    /\ UNCHANGED <<memory, cache, remote, locks, used, purged, bounds>>

-----------------------------------------------------------------------------
(* Flushing: flush_manifest and its debounce                                *)

\* debounced_flush_manifest counts the call; nothing but a later call looks
\* at the count or at the clock again.
Debounce(t) ==
    /\ op[t].pc = "debounce"
    /\ count' = count + 1
    /\ IF count' >= FlushLimit \/ lastFlush # "recent"
       THEN Goto(t, "flushRead") ELSE Return(t)
    /\ UNCHANGED <<present, tree, ver, dirty, lastFlush, store, locks, used,
                   purged, bounds>>

\* Thirty seconds pass.
Clock ==
    /\ lastFlush = "recent"
    /\ lastFlush' = "old"
    /\ UNCHANGED <<present, tree, ver, dirty, count, store, op, locks, used,
                   purged, bounds>>

\* flush_manifest_command, called by the UI and after a batch of uploads.
FlushCall(t) ==
    /\ Begin(t, "flush")
    /\ op' = [op EXCEPT ![t] = After("flush")]
    /\ UNCHANGED <<memory, store, locks, used, purged>>

\* The tree is copied under its lock, which is released before the lock on
\* the versions is asked for.
FlushRead(t) ==
    /\ op[t].pc = "flushRead"
    /\ treesLock = Free
    /\ IF present
       THEN op' = [op EXCEPT ![t].pc = "flushLock", ![t].snap = tree.nodes]
       ELSE Return(t)
    /\ UNCHANGED <<memory, store, locks, used, purged, bounds>>

NextVersion == (IF ver = 0 THEN 1 ELSE ver) + 1

\* Mutant of FlushPrepare: the lock on the versions is not waited for.
FlushPrepareNoWait(t) ==
    /\ op[t].pc = "flushLock"
    /\ versLock' = t
    /\ cache' = CacheReplace(op[t].snap)
    /\ op' = [op EXCEPT ![t].pc = "flushSend", ![t].ver = NextVersion]
    /\ UNCHANGED <<memory, remote, msgs, treesLock, used, purged, bounds>>

FlushPrepare(t) ==
    /\ op[t].pc = "flushLock"
    /\ versLock = Free
    /\ versLock' = t
    /\ cache' = CacheReplace(op[t].snap)
    /\ op' = [op EXCEPT ![t].pc = "flushSend", ![t].ver = NextVersion]
    /\ UNCHANGED <<memory, remote, msgs, treesLock, used, purged, bounds>>

\* Mutant of FlushSend: an error returns with the lock still held.
FlushSendKeepsLock(t) ==
    /\ op[t].pc = "flushSend"
    /\ \E o \in Outcomes("flush") :
         /\ remote' = IF o[1] THEN [ver |-> op[t].ver, nodes |-> op[t].snap]
                      ELSE remote
         /\ IF o[1] /\ o[2] THEN Goto(t, "flushDone") ELSE Return(t)
    /\ UNCHANGED <<memory, cache, msgs, locks, used, purged, bounds>>

\* update_pinned_manifest; an error ends the flush and frees the lock.
FlushSend(t) ==
    /\ op[t].pc = "flushSend"
    /\ \E o \in Outcomes("flush") :
         /\ remote' = IF o[1] THEN [ver |-> op[t].ver, nodes |-> op[t].snap]
                      ELSE remote
         /\ IF o[1] /\ o[2]
            THEN Goto(t, "flushDone") /\ UNCHANGED versLock
            ELSE Return(t) /\ versLock' = Free
    /\ UNCHANGED <<memory, cache, msgs, treesLock, used, purged, bounds>>

FlushDone(t) ==
    /\ op[t].pc = "flushDone"
    /\ ver' = op[t].ver
    /\ dirty' = FALSE
    /\ count' = 0
    /\ lastFlush' = "recent"
    /\ versLock' = Free
    /\ Return(t)
    /\ UNCHANGED <<present, tree, store, treesLock, used, purged, bounds>>

-----------------------------------------------------------------------------
(* Loading: load_drive, rebuild_drive_index, get_or_create_tree             *)

\* A tree with nodes in it is returned as it is; otherwise ask the channel.
LoadCall(t) ==
    /\ Begin(t, "load")
    /\ treesLock = Free
    /\ ~(present /\ DOMAIN tree.nodes # {})
    /\ op' = [op EXCEPT ![t] = [Idle EXCEPT !.pc = "fetch"]]
    /\ UNCHANGED <<memory, store, locks, used, purged>>

\* No manifest, an unreadable one and a failed request all lead to the scan,
\* which starts from the folders the cache knows.
LoadFetch(t) ==
    /\ op[t].pc = "fetch"
    /\ \/ /\ remote.ver > 0
          /\ op' = [op EXCEPT ![t].pc = "cacheLoaded", ![t].ver = remote.ver,
                              ![t].snap = remote.nodes]
       \/ /\ remote.ver = 0 \/ "fetch" \in Faults
          /\ op' = [op EXCEPT ![t].pc = "scan",
                        ![t].snap = Without(cache.nodes, Files)]
    /\ UNCHANGED <<memory, store, locks, used, purged, bounds>>

LoadCache(t) ==
    /\ op[t].pc = "cacheLoaded"
    /\ cache' = CacheReplace(op[t].snap)
    /\ Goto(t, "install")
    /\ UNCHANGED <<memory, remote, msgs, locks, used, purged, bounds>>

\* Mutant of Rebuilt: nothing but what the cache knows.
RebuiltFromCache(docs, folders, name) == folders

\* Mutant of Rebuilt: the top level is taken for a missing parent.
RebuiltWithRoot(docs, folders, name) ==
    LET known == DOMAIN folders \cup DOMAIN docs
        missing == {docs[f].parent : f \in DOMAIN docs} \ known
    IN  [x \in known \cup missing |->
            IF x \in DOMAIN docs
            THEN [parent |-> docs[x].parent, name |-> docs[x].name,
                  trashed |-> docs[x].trashed, pinned |-> FALSE]
            ELSE IF x \in missing THEN NewNode(Root, name)
            ELSE folders[x]]

\* One file per caption, with a folder at the top level for every parent the
\* captions name and the cache does not know.
Rebuilt(docs, folders, name) ==
    LET known == DOMAIN folders \cup DOMAIN docs
        missing == {docs[f].parent : f \in DOMAIN docs} \ (known \cup {Root})
    IN  [x \in known \cup missing |->
            IF x \in DOMAIN docs
            THEN [parent |-> docs[x].parent, name |-> docs[x].name,
                  trashed |-> docs[x].trashed, pinned |-> FALSE]
            ELSE IF x \in missing THEN NewNode(Root, name)
            ELSE folders[x]]

\* What a scan gets: the documents among the newest hundred messages.  The
\* request asks for messages after min_id with no upper end, and is answered
\* with the newest of them, so that the next one, after the newest seen, finds
\* nothing and the loop ends.
Scanned ==
    {[x \in S |-> msgs[x]] : S \in {R \in SUBSET DOMAIN msgs :
        /\ R = DOMAIN msgs \/ Cardinality(R) >= ScanReach
        /\ \A x \in R, y \in DOMAIN msgs \ R : y < x}}

RebuildScan(t) ==
    /\ op[t].pc = "scan"
    /\ \/ \E n \in Names, docs \in Scanned :
             op' = [op EXCEPT ![t].pc = "cacheRebuilt", ![t].ver = 1,
                              ![t].snap = Rebuilt(docs, @, n)]
       \/ "scan" \in Faults /\ Goto(t, "fallback")
    /\ UNCHANGED <<memory, store, locks, used, purged, bounds>>

RebuildCache(t) ==
    /\ op[t].pc = "cacheRebuilt"
    /\ cache' = CacheReplace(op[t].snap)
    /\ Goto(t, "publish")
    /\ UNCHANGED <<memory, remote, msgs, locks, used, purged, bounds>>

RebuildPublish(t) ==
    /\ op[t].pc = "publish"
    /\ \E o \in Outcomes("publish") :
         /\ remote' = IF o[1] THEN [ver |-> 1, nodes |-> op[t].snap] ELSE remote
         /\ Goto(t, IF o[1] /\ o[2] THEN "install" ELSE "fallback")
    /\ UNCHANGED <<memory, cache, msgs, locks, used, purged, bounds>>

\* Disaster recovery: whatever the cache holds, and no version with it.
LoadFallback(t) ==
    /\ op[t].pc = "fallback"
    /\ treesLock = Free
    /\ present' = TRUE
    /\ tree' = FromNodes(cache.nodes)
    /\ Return(t)
    /\ UNCHANGED <<ver, dirty, count, lastFlush, store, locks, used, purged,
                   bounds>>

\* The tree goes in while the lock on the trees is kept for the version.
LoadInstall(t) ==
    /\ op[t].pc = "install"
    /\ treesLock = Free
    /\ treesLock' = t
    /\ present' = TRUE
    /\ tree' = FromNodes(op[t].snap)
    /\ Goto(t, "installVer")
    /\ UNCHANGED <<ver, dirty, count, lastFlush, store, versLock, used, purged,
                   bounds>>

LoadInstallVersion(t) ==
    /\ op[t].pc = "installVer"
    /\ versLock = Free
    /\ ver' = op[t].ver
    /\ treesLock' = Free
    /\ Return(t)
    /\ UNCHANGED <<present, tree, dirty, count, lastFlush, store, versLock,
                   used, purged, bounds>>

\* get_or_create_tree, which every listing and download goes through.
Touch(t) ==
    /\ Begin(t, "touch")
    /\ treesLock = Free /\ ~present
    /\ present' = TRUE
    /\ UNCHANGED <<tree, ver, dirty, count, lastFlush, store, op, locks, used,
                   purged>>

-----------------------------------------------------------------------------
(* Deleting a drive (unload_drive, delete_drive_cache); process restarts    *)

UnloadCall(t) ==
    /\ Begin(t, "unload")
    /\ treesLock = Free
    /\ present' = FALSE /\ tree' = EmptyTree
    /\ op' = [op EXCEPT ![t] = [Idle EXCEPT !.pc = "unloadVer"]]
    /\ UNCHANGED <<ver, dirty, count, lastFlush, store, locks, used, purged>>

UnloadVersion(t) ==
    /\ op[t].pc = "unloadVer"
    /\ versLock = Free
    /\ ver' = 0
    /\ Goto(t, "unloadRest")
    /\ UNCHANGED <<present, tree, dirty, count, lastFlush, store, locks, used,
                   purged, bounds>>

UnloadRest(t) ==
    /\ op[t].pc = "unloadRest"
    /\ dirty' = FALSE /\ count' = 0 /\ lastFlush' = "none"
    /\ Goto(t, "dropCache")
    /\ UNCHANGED <<present, tree, ver, store, locks, used, purged, bounds>>

DropCache(t) ==
    /\ op[t].pc = "dropCache"
    /\ cache' = NoCache
    /\ Return(t)
    /\ UNCHANGED <<memory, remote, msgs, locks, used, purged, bounds>>

Crash ==
    /\ crashes < MaxCrashes
    /\ crashes' = crashes + 1
    /\ present' = FALSE /\ tree' = EmptyTree /\ ver' = 0
    /\ dirty' = FALSE /\ count' = 0 /\ lastFlush' = "none"
    /\ op' = [t \in Tasks |-> Idle]
    /\ treesLock' = Free /\ versLock' = Free
    /\ UNCHANGED <<store, used, purged, calls>>

-----------------------------------------------------------------------------
Init ==
    /\ present = FALSE /\ tree = EmptyTree /\ ver = 0
    /\ dirty = FALSE /\ count = 0 /\ lastFlush = "none"
    /\ cache = NoCache /\ remote = NoManifest /\ msgs = EmptyMap
    /\ op = [t \in Tasks |-> Idle]
    /\ treesLock = Free /\ versLock = Free
    /\ used = {} /\ purged = {}
    /\ calls = 0 /\ crashes = 0

Call(t) ==
    \/ \E id \in Folders, p \in Parents, n \in Names : CreateFolder(t, id, p, n)
    \/ \E id \in Files, p \in Parents, n \in Names : UploadSend(t, id, p, n)
    \/ \E id \in Ids, e \in Edits : EditStart(t, id, e)
    \/ \E id \in Ids, b \in BOOLEAN : TogglePin(t, id, b)
    \/ \E id \in Ids : DavMove(t, id)
    \/ \E id \in Ids : DeleteStart(t, id)
    \/ EmptyStart(t)
    \/ FlushCall(t)
    \/ LoadCall(t)
    \/ Touch(t)
    \/ UnloadCall(t)

Step(t) ==
    \/ UploadAdd(t)
    \/ EditCache(t) \/ EditCaption(t) \/ MarkDirty(t)
    \/ DeletePurge(t) \/ DeleteMessage(t)
    \/ EmptyCache(t) \/ EmptyMessages(t)
    \/ Debounce(t) \/ FlushRead(t) \/ FlushPrepare(t) \/ FlushSend(t) \/ FlushDone(t)
    \/ LoadFetch(t) \/ LoadCache(t)
    \/ RebuildScan(t) \/ RebuildCache(t) \/ RebuildPublish(t) \/ LoadFallback(t)
    \/ LoadInstall(t) \/ LoadInstallVersion(t)
    \/ UnloadVersion(t) \/ UnloadRest(t) \/ DropCache(t)

Next == (\E t \in Tasks : Call(t) \/ Step(t)) \/ Clock \/ Crash

Spec == Init /\ [][Next]_vars

\* The executor runs every task that can run, tokio's locks are granted in
\* the order they are asked for, every request is answered or times out, and
\* time passes.  No call need ever be made.
FairSpec == Spec /\ \A t \in Tasks : SF_vars(Step(t)) /\ WF_vars(Clock)

-----------------------------------------------------------------------------
Steps == {"idle", "addFile", "editCache", "editCaption", "mark", "purge",
          "purgeMsg", "emptyCache", "emptyMsgs", "debounce", "flushRead",
          "flushLock", "flushSend", "flushDone", "unloadVer", "unloadRest",
          "dropCache"} \cup LoadSteps

TypeOK ==
    /\ present \in BOOLEAN /\ IsTree(tree) /\ ver \in Nat
    /\ dirty \in BOOLEAN /\ count \in Nat
    /\ lastFlush \in {"none", "recent", "old"}
    /\ cache.row \in BOOLEAN /\ IsNodeMap(cache.nodes)
    /\ remote.ver \in Nat /\ IsNodeMap(remote.nodes)
    /\ DOMAIN msgs \subseteq Files /\ msgs \in [DOMAIN msgs -> Captions]
    /\ \A t \in Tasks :
         /\ op[t].pc \in Steps /\ op[t].id \in Parents /\ op[t].edit \in Edits
         /\ op[t].cap \subseteq Captions /\ IsNodeMap(op[t].snap)
         /\ op[t].todo \subseteq Ids /\ op[t].ver \in Nat
         /\ op[t].then \in {"flush", "debounce", "done"}
    /\ treesLock \in Tasks \cup {Free} /\ versLock \in Tasks \cup {Free}
    /\ used \subseteq Ids /\ purged \subseteq Files
    /\ calls \in Nat /\ crashes \in Nat

-----------------------------------------------------------------------------
(* What the engine keeps                                                    *)

\* Every file any copy of the index speaks of, in memory, in the cache, in
\* the pinned manifest or in a copy some call still holds, has its document
\* in the channel, unless a delete or an empty-trash took that file out of
\* the tree: upload_file_data sends the document before the node exists, and
\* only files already taken out of the tree lose their documents.
NoFileWithoutDocument ==
    \A m \in {tree.nodes, cache.nodes, remote.nodes} \cup {op[t].snap : t \in Tasks} :
        DOMAIN m \cap Files \subseteq DOMAIN msgs \cup purged

\* Each manifest published over another has a higher version, also when
\* several calls flush at the same time: the version is read and written back
\* under one hold of the lock on the versions, with the upload in between.
VersionsGrow == [][remote' # remote => remote'.ver > remote.ver]_remote

\* A file that the pinned manifest lists stays listed until some call has taken
\* it out of the tree: not a restart, nor a failed request followed by a
\* rebuild from the captions, nor the fallback to the cache loses it.  The code
\* keeps this as long as every document is among the newest hundred messages
\* of the channel (ScanReach no less than the number of Files); beyond them a
\* rebuild publishes a manifest without the older files.
PublishedFilesStay ==
    [][Files \cap (DOMAIN remote.nodes \ DOMAIN remote'.nodes) \subseteq purged]_remote

\* With no call in progress, the tree of a loaded drive and its rows in the
\* SQLite cache are the same: every handler writes both, one after the other,
\* and every flush replaces the rows with a copy of the tree.
TreeAndCacheAgree == AllIdle /\ present /\ ver > 0 => cache.nodes = tree.nodes

\* With no call in progress, a drive that is not marked dirty has its tree
\* pinned in the channel: whatever is not published is marked.
ManifestUpToDate ==
    AllIdle /\ present /\ ver > 0 /\ ~dirty => remote.nodes = tree.nodes

\* With no call in progress, and no restart so far to cut one short, the
\* caption of every file's document, which a rebuild would start from, says
\* what the tree says of the file.
CaptionsAgree ==
    AllIdle /\ crashes = 0 => \A f \in Files \cap DOMAIN tree.nodes :
                  f \in DOMAIN msgs => msgs[f] = CaptionOf(tree.nodes[f])

\* Every call ends: the locks on the trees and the versions, taken in
\* opposite places of flush and load, never wait on each other for ever, and
\* no error path keeps one.
CallsEnd == \A t \in Tasks : op[t].pc # "idle" ~> op[t].pc = "idle"

\* debounced_flush_manifest: "Flushes to Telegram pinned message after 20
\* files or 30 seconds idle time".
IdleChangesArePublished == count > 0 ~> count = 0
=============================================================================
