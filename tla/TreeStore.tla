----------------------------- MODULE TreeStore -----------------------------
(***************************************************************************)
(* One in-memory tree under every call the engine and its callers make on  *)
(* it, in any order.  Each action is one such call on the whole tree; the  *)
(* engine serialises them with the lock on trees_by_drive, so that this    *)
(* sequential machine is also what concurrent callers see of the tree.     *)
(***************************************************************************)
EXTENDS VfsTree

CONSTANTS
    FolderPins,     \* TRUE when trash, restore and pin are asked of folders too
    MoveUnderSelf   \* TRUE when a move may name a target inside the moved node

ASSUME SwitchesAreBoolean == /\ FolderPins \in BOOLEAN
                             /\ MoveUnderSelf \in BOOLEAN

VARIABLE tree

TypeOK == IsTree(tree)

Init == tree = EmptyTree

\* create_folder_command, handle_mkcol, upload_file_data, p2p and shared-link
\* imports: a node with a new id, wherever the caller says.
Add(id, p, name) ==
    /\ ~Has(tree, id)
    /\ p = Root \/ (p \in Folders /\ Has(tree, p))
    /\ tree' = Insert(tree, id, [parent |-> p, name |-> name,
                                 trashed |-> FALSE, pinned |-> FALSE])

RenameCall(id, name) ==
    /\ Has(tree, id)
    /\ tree' = Rename(tree, id, name)

\* Mutant of MoveCall: any folder offered as a target.
MoveCallAnywhere(id, p) ==
    /\ CanMove(tree, id, p)
    /\ p \in Folders \cup {Root}
    /\ tree' = MoveNode(tree, id, p)

\* The move dialog lists folders and hides the node being moved, so that a
\* user cannot browse into it; the engine itself checks only CanMove.
MoveCall(id, p) ==
    /\ CanMove(tree, id, p)
    /\ p \in Folders \cup {Root}
    /\ MoveUnderSelf \/ p \notin Subtree(tree, id)
    /\ tree' = MoveNode(tree, id, p)

TrashCall(id, flag) ==
    /\ id \in Files \/ FolderPins
    /\ Has(tree, id)
    /\ tree' = SetTrashed(tree, id, flag)

PinCall(id, flag) ==
    /\ id \in Files \/ FolderPins
    /\ Has(tree, id)
    /\ tree' = SetPinned(tree, id, flag)

DeleteCall(id) ==
    /\ Has(tree, id)
    /\ tree' = RemoveRecursive(tree, id)

EmptyTrashCall == tree' = EmptyTrash(tree)

\* The nodes written out by from_tree and read back by populate_tree: a
\* manifest load, or load_tree from the cache.
Reload == tree' = FromNodes(tree.nodes)

Next ==
    \/ \E id \in Ids, p \in Parents, n \in Names : Add(id, p, n)
    \/ \E id \in Ids, n \in Names : RenameCall(id, n)
    \/ \E id \in Ids, p \in Parents : MoveCall(id, p)
    \/ \E id \in Ids, b \in BOOLEAN : TrashCall(id, b)
    \/ \E id \in Ids, b \in BOOLEAN : PinCall(id, b)
    \/ \E id \in Ids : DeleteCall(id)
    \/ EmptyTrashCall
    \/ Reload

Spec == Init /\ [][Next]_tree

-----------------------------------------------------------------------------
\* The index never lists a node that is gone or that lives under another
\* parent, whatever the calls: a lookup by list_children, find_child_by_name
\* or find_by_path never meets a stale entry.
IndexIsSound == IndexSound(tree)

\* Every node can be reached through its parent's list.  remove drops the
\* list of the node it takes, so this needs callers that never put a folder
\* through the remove-and-insert of trash, restore and pin.
IndexIsComplete == IndexComplete(tree)

\* No node's parent is missing: delete_node and empty_trash take no folder away
\* from under the nodes in it.
NoOrphan == \A x \in DOMAIN tree.nodes :
                tree.nodes[x].parent \in {Root} \cup DOMAIN tree.nodes

\* No folder is inside itself, which resolve_breadcrumbs and
\* resolve_relative_path need to terminate: they follow parent ids with no
\* bound.
NoFolderInsideItself == Acyclic(tree)

\* delete_node takes the node and all that is inside it, and nothing else:
\* no orphan is left behind and no bystander is lost, though the work list
\* of remove_recursive follows the index and not the parent ids.
DeleteTakesTheSubtree ==
    [][\A id \in Ids : DeleteCall(id) =>
          DOMAIN tree'.nodes = DOMAIN tree.nodes \ Inside(tree, id)]_tree

\* Trash and restore mark a node; they do not destroy it.
TrashKeepsTheNode ==
    [][\A id \in Ids, b \in BOOLEAN : TrashCall(id, b) => Has(tree, id)']_tree
=============================================================================
