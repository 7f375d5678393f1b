------------------------------ MODULE VfsTree ------------------------------
(***************************************************************************)
(* The in-memory virtual file system of one drive: VfsTree of              *)
(* crates/protofs-core/src/vfs/tree.rs.  The struct keeps two maps that    *)
(* must agree: `nodes`, from node id to node, and the index                *)
(* `children_by_parent`, from parent id to the set of ids listed under it. *)
(* Here a tree is a record with the fields `nodes`, a function on the ids  *)
(* that exist, and `kids`, total on every possible parent: an absent entry *)
(* of the index and an empty one are the same to every reader of it.       *)
(*                                                                         *)
(* The module has no variables.  Each operator is one method, as a         *)
(* function of the tree it is called on; the state machines that call them *)
(* are TreeStore and SyncEngine.                                           *)
(***************************************************************************)
EXTENDS FiniteSets

CONSTANTS
    Folders,    \* ids of folder nodes ("f_<millis>_<n>")
    Files,      \* ids of file nodes ("file_<telegram message id>")
    Root,       \* the id "root", which is the parent of the top level only
    Names       \* node names

ASSUME IdsAreDistinct == /\ Folders \cap Files = {}
                         /\ Root \notin Folders \cup Files

Ids == Folders \cup Files
Parents == Ids \cup {Root}

\* What FolderNode and FileNode have in common with what is_trashed,
\* is_pinned_offline and the captions need; whether a node is a folder is a
\* matter of its id.  (The contents and the versions of a file are the
\* business of the modules FileContent and FileVersions.)
Node == [parent: Parents, name: Names, trashed: BOOLEAN, pinned: BOOLEAN]

IsNodeMap(m) == DOMAIN m \subseteq Ids /\ m \in [DOMAIN m -> Node]

IsTree(t) == IsNodeMap(t.nodes) /\ t.kids \in [Parents -> SUBSET Ids]

EmptyMap == [x \in {} |-> x]

EmptyTree == [nodes |-> EmptyMap, kids |-> [p \in Parents |-> {}]]

Has(t, id) == id \in DOMAIN t.nodes

\* list_children: the index answers, filtered by the nodes that exist.
ListChildren(t, p) == t.kids[p] \cap DOMAIN t.nodes

-----------------------------------------------------------------------------
\* Mutant of Insert: the list of the old parent keeps the id.
InsertNoUnlink(t, id, n) ==
    [nodes |-> [x \in DOMAIN t.nodes \cup {id} |-> IF x = id THEN n ELSE t.nodes[x]],
     kids  |-> [t.kids EXCEPT ![n.parent] = @ \cup {id}]]

\* insert: an id already there leaves the list of its old parent; nothing
\* checks that the new parent exists (the code only warns).
Insert(t, id, n) ==
    LET unlinked == IF Has(t, id)
                    THEN [t.kids EXCEPT ![t.nodes[id].parent] = @ \ {id}]
                    ELSE t.kids
    IN  [nodes |-> [x \in DOMAIN t.nodes \cup {id} |->
                        IF x = id THEN n ELSE t.nodes[x]],
         kids  |-> [unlinked EXCEPT ![n.parent] = @ \cup {id}]]

\* A node map inserted into an empty tree, in any order: what
\* ManifestSnapshot::populate_tree and CacheDatabase::load_tree build.
FromNodes(m) ==
    [nodes |-> m,
     kids  |-> [p \in Parents |-> {x \in DOMAIN m : m[x].parent = p}]]

\* The ids of S leave the tree: each node leaves its parent's list and takes
\* its own list of children with it.
Detach(t, S) ==
    [nodes |-> [x \in DOMAIN t.nodes \ S |-> t.nodes[x]],
     kids  |-> [p \in Parents |->
                  IF p \in S THEN {}
                  ELSE t.kids[p] \ {x \in S \cap DOMAIN t.nodes :
                                        t.nodes[x].parent = p}]]

\* remove: None, and no change at all, when the id is unknown.  The children
\* of a removed node stay in `nodes` but are no longer listed anywhere.
Remove(t, id) == IF Has(t, id) THEN Detach(t, {id}) ELSE t

\* The ids the work list of remove_recursive visits: the least set that holds
\* `id` and, with each of its members, the children the index lists for it.
Subtree(t, id) ==
    {x \in Parents : \A S \in SUBSET Parents :
        (id \in S /\ \A p \in S : t.kids[p] \subseteq S) => x \in S}

\* Mutant of RemoveRecursive: the node alone.
RemoveRecursiveShallow(t, id) == Remove(t, id)

RemoveRecursive(t, id) == Detach(t, Subtree(t, id))

\* Mutant of Rename: the id stored for the name.
RenameToId(t, id, name) ==
    IF Has(t, id)
    THEN [nodes |-> [t.nodes EXCEPT ![id].name = id], kids |-> t.kids]
    ELSE t

\* rename and move_node; the Err returns leave the tree alone.
Rename(t, id, name) ==
    IF Has(t, id)
    THEN [nodes |-> [t.nodes EXCEPT ![id].name = name], kids |-> t.kids]
    ELSE t

CanMove(t, id, p) ==
    Has(t, id) /\ (p \in {t.nodes[id].parent, Root} \/ Has(t, p))

\* Mutant of MoveNode: the parent id without the index.
MoveNodeParentOnly(t, id, p) ==
    IF CanMove(t, id, p)
    THEN [nodes |-> [t.nodes EXCEPT ![id].parent = p], kids |-> t.kids]
    ELSE t

\* A move to the parent it has returns early, whether that parent exists or
\* not, and does not touch the index.
MoveNode(t, id, p) ==
    IF CanMove(t, id, p) /\ p # t.nodes[id].parent
    THEN Insert(t, id, [t.nodes[id] EXCEPT !.parent = p])
    ELSE t

-----------------------------------------------------------------------------
\* The bodies SyncEngine runs while it holds the lock on the trees.

\* trash_node and restore_node: `if let Some(File(f)) = remove(id) {..insert}
\* else if let Some(Folder(f)) = remove(id) {..insert}`.  For a folder the
\* first remove already took the node, so the second finds nothing to insert.
SetTrashed(t, id, flag) ==
    IF id \in Files /\ Has(t, id)
    THEN Insert(Remove(t, id), id, [t.nodes[id] EXCEPT !.trashed = flag])
    ELSE Remove(t, id)

\* toggle_pin: the same remove and insert, with no branch for folders.
SetPinned(t, id, flag) ==
    IF id \in Files /\ Has(t, id)
    THEN Insert(Remove(t, id), id, [t.nodes[id] EXCEPT !.pinned = flag])
    ELSE Remove(t, id)

Trashed(t) == {x \in DOMAIN t.nodes : t.nodes[x].trashed}

\* empty_trash: remove, one after the other, of every trashed node.
EmptyTrash(t) == Detach(t, Trashed(t))

-----------------------------------------------------------------------------
\* The index lists only nodes that exist, each under its own parent.
IndexSound(t) ==
    \A p \in Parents : \A x \in t.kids[p] : Has(t, x) /\ t.nodes[x].parent = p

\* Every node is listed under its parent.
IndexComplete(t) ==
    \A x \in DOMAIN t.nodes : x \in t.kids[t.nodes[x].parent]

\* No node is its own ancestor: from any set of nodes a parent leads out.
Acyclic(t) ==
    \A S \in SUBSET DOMAIN t.nodes :
        S # {} => \E x \in S : t.nodes[x].parent \notin S

\* The nodes whose chain of parent ids leads to `id`, which is what "inside"
\* means to the user; remove_recursive follows the index instead.
Inside(t, id) ==
    {x \in DOMAIN t.nodes : \A S \in SUBSET DOMAIN t.nodes :
        (id \in S /\ \A y \in DOMAIN t.nodes :
                        t.nodes[y].parent \in S => y \in S) => x \in S}
=============================================================================
