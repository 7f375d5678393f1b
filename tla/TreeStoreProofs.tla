-------------------------- MODULE TreeStoreProofs --------------------------
(***************************************************************************)
(* What holds of the tree under every sequence of calls, for every set of  *)
(* ids and names and not only for the small ones TreeStore is checked on.  *)
(***************************************************************************)
EXTENDS TreeStore, VfsTreeProofs

-----------------------------------------------------------------------------
(* Whatever the calls                                                       *)

\* Every call the engine and its callers make leaves a well typed tree with a
\* sound index, the calls on folders and the moves into oneself included.
LEMMA StepSound ==
    ASSUME TypeOK, IndexIsSound, [Next]_tree
    PROVE  TypeOK' /\ IndexIsSound'
  <1> USE DEF TypeOK, IndexIsSound
  <1>1. ASSUME NEW id \in Ids, NEW p \in Parents, NEW n \in Names, Add(id, p, n)
        PROVE  TypeOK' /\ IndexIsSound'
    BY <1>1, InsertTyped, InsertSound, NewNodeTyped DEF Add
  <1>2. ASSUME NEW id \in Ids, NEW n \in Names, RenameCall(id, n)
        PROVE  TypeOK' /\ IndexIsSound'
    BY <1>2, RenameSound DEF RenameCall
  <1>3. ASSUME NEW id \in Ids, NEW p \in Parents, MoveCall(id, p)
        PROVE  TypeOK' /\ IndexIsSound'
    BY <1>3, MoveSound DEF MoveCall
  <1>4. ASSUME NEW id \in Ids, NEW b \in BOOLEAN, TrashCall(id, b)
        PROVE  TypeOK' /\ IndexIsSound'
    BY <1>4, MarkSound DEF TrashCall
  <1>5. ASSUME NEW id \in Ids, NEW b \in BOOLEAN, PinCall(id, b)
        PROVE  TypeOK' /\ IndexIsSound'
    BY <1>5, MarkSound DEF PinCall
  <1>6. ASSUME NEW id \in Ids, DeleteCall(id)
        PROVE  TypeOK' /\ IndexIsSound'
    BY <1>6, DetachSound DEF DeleteCall, RemoveRecursive
  <1>7. CASE EmptyTrashCall
    BY <1>7, DetachSound DEF EmptyTrashCall, EmptyTrash
  <1>8. CASE Reload
    BY <1>8, FromNodesSound DEF Reload, IsTree
  <1>9. CASE UNCHANGED tree
    BY <1>9
  <1>10. QED
    BY <1>1, <1>2, <1>3, <1>4, <1>5, <1>6, <1>7, <1>8, <1>9 DEF Next

LEMMA InitSound == Init => TypeOK /\ IndexIsSound
  BY DEF Init, TypeOK, IndexIsSound, EmptyTree, EmptyMap, IsTree, IsNodeMap,
         IndexSound

\* The tree stays well typed.
THEOREM TreeTyped == Spec => []TypeOK
  <1>1. TypeOK /\ IndexIsSound /\ [Next]_tree => (TypeOK /\ IndexIsSound)'
    BY StepSound
  <1>2. QED
    BY InitSound, <1>1, PTL DEF Spec

\* No lookup through the index meets a node that is gone or lives elsewhere.
THEOREM IndexSoundness == Spec => []IndexIsSound
  <1>1. TypeOK /\ IndexIsSound /\ [Next]_tree => (TypeOK /\ IndexIsSound)'
    BY StepSound
  <1>2. QED
    BY InitSound, <1>1, PTL DEF Spec

-----------------------------------------------------------------------------
(* With no folder in the trash and no move into oneself                     *)

\* Trash, restore and pin of files only: then no folder carries the trash
\* mark, no file holds other nodes, and every parent is there.
FoldersStay ==
    /\ \A x \in DOMAIN tree.nodes : tree.nodes[x].parent \notin Files
    /\ \A x \in Folders \cap DOMAIN tree.nodes : ~tree.nodes[x].trashed

Listed == /\ TypeOK /\ IndexIsSound /\ IndexIsComplete
          /\ FoldersStay /\ NoOrphan

\* The calls that trash, restore or pin a file.
LEMMA MarkListed ==
    ASSUME Listed, NEW id \in Files, Has(tree, id), NEW n \in Node,
           n.parent = tree.nodes[id].parent,
           tree' = Insert(Remove(tree, id), id, n)
    PROVE  IndexIsComplete' /\ FoldersStay' /\ NoOrphan'
  <1>1. /\ DOMAIN tree'.nodes = DOMAIN tree.nodes
        /\ \A x \in DOMAIN tree.nodes : tree'.nodes[x] = IF x = id THEN n ELSE tree.nodes[x]
        /\ IndexComplete(tree')
    BY MarkFile DEF Listed, TypeOK, IndexIsComplete, FoldersStay
  <1>2. id \notin Folders
    BY IdsAreDistinct
  <1>3. QED
    BY <1>1, <1>2 DEF Listed, IndexIsComplete, FoldersStay, NoOrphan, Has

LEMMA StepListed ==
    ASSUME ~FolderPins, Listed, [Next]_tree
    PROVE  Listed'
  <1> SUFFICES IndexIsComplete' /\ FoldersStay' /\ NoOrphan'
    BY StepSound DEF Listed
  <1> USE DEF IndexIsComplete
  <1>0. /\ IsTree(tree) /\ IndexSound(tree) /\ IndexComplete(tree)
        /\ IsNodeMap(tree.nodes)
    BY DEF Listed, TypeOK, IndexIsSound, IsTree
  <1>1. ASSUME NEW id \in Ids, NEW p \in Parents, NEW n \in Names, Add(id, p, n)
        PROVE  IndexIsComplete' /\ FoldersStay' /\ NoOrphan'
    <2>1. IndexIsComplete'
      BY <1>0, <1>1, InsertComplete, NewNodeTyped DEF Add
    <2>2. FoldersStay' /\ NoOrphan'
      BY <1>0, <1>1, IdsAreDistinct
         DEF Add, Insert, Listed, FoldersStay, NoOrphan, Has
    <2>3. QED
      BY <2>1, <2>2
  <1>2. ASSUME NEW id \in Ids, NEW n \in Names, RenameCall(id, n)
        PROVE  IndexIsComplete' /\ FoldersStay' /\ NoOrphan'
    <2>1. IndexIsComplete'
      BY <1>0, <1>2, RenameSound DEF RenameCall
    <2>2. /\ DOMAIN tree'.nodes = DOMAIN tree.nodes
          /\ \A x \in DOMAIN tree.nodes :
                /\ tree'.nodes[x].parent = tree.nodes[x].parent
                /\ tree'.nodes[x].trashed = tree.nodes[x].trashed
      BY <1>0, <1>2 DEF RenameCall, Rename, IsNodeMap, Node, Has
    <2>3. QED
      BY <2>1, <2>2 DEF Listed, FoldersStay, NoOrphan
  <1>3. ASSUME NEW id \in Ids, NEW p \in Parents, MoveCall(id, p)
        PROVE  IndexIsComplete' /\ FoldersStay' /\ NoOrphan'
    <2>1. /\ IndexIsComplete'
          /\ DOMAIN tree'.nodes = DOMAIN tree.nodes
          /\ \A x \in DOMAIN tree.nodes :
                tree'.nodes[x] = IF x = id THEN [tree.nodes[id] EXCEPT !.parent = p]
                                 ELSE tree.nodes[x]
      BY <1>0, <1>3, MoveSound DEF MoveCall
    <2>2. \A x \in DOMAIN tree.nodes :
            /\ tree'.nodes[x].parent = IF x = id THEN p ELSE tree.nodes[x].parent
            /\ tree'.nodes[x].trashed = tree.nodes[x].trashed
      BY <1>0, <2>1 DEF IsNodeMap, Node
    <2>3. p \notin Files /\ p \in {Root} \cup DOMAIN tree.nodes
      BY <1>3, IdsAreDistinct DEF MoveCall, CanMove, Has, Ids, Listed, NoOrphan
    <2>4. QED
      BY <2>1, <2>2, <2>3 DEF Listed, FoldersStay, NoOrphan
  <1>4. ASSUME NEW id \in Ids, NEW b \in BOOLEAN, TrashCall(id, b) \/ PinCall(id, b)
        PROVE  IndexIsComplete' /\ FoldersStay' /\ NoOrphan'
    <2>1. id \in Files /\ Has(tree, id)
      BY <1>4 DEF TrashCall, PinCall
    <2>2. \E n \in Node : /\ n.parent = tree.nodes[id].parent
                          /\ tree' = Insert(Remove(tree, id), id, n)
      <3>1. tree.nodes[id] \in Node
        BY <1>0, <2>1 DEF IsNodeMap, Has
      <3>2. QED
        BY <1>4, <2>1, <3>1, MarkedNode DEF TrashCall, PinCall, SetTrashed, SetPinned
    <2>3. QED
      BY <2>1, <2>2, MarkListed
  <1>5. ASSUME NEW id \in Ids, DeleteCall(id)
        PROVE  IndexIsComplete' /\ FoldersStay' /\ NoOrphan'
    <2>1. \A x \in DOMAIN tree.nodes \ Subtree(tree, id) :
                tree.nodes[x].parent \notin Subtree(tree, id)
      BY <1>0, SubtreeKeepsParents
    <2>2. IndexIsComplete'
      BY <1>0, <1>5, <2>1, DetachComplete DEF DeleteCall, RemoveRecursive
    <2>3. QED
      BY <1>5, <2>1, <2>2
         DEF DeleteCall, RemoveRecursive, Detach, Listed, FoldersStay, NoOrphan
  <1>6. CASE EmptyTrashCall
    <2>1. \A x \in DOMAIN tree.nodes \ Trashed(tree) :
                tree.nodes[x].parent \notin Trashed(tree)
      BY <1>0 DEF Trashed, Listed, FoldersStay, IsNodeMap, Node, Ids
    <2>2. IndexIsComplete'
      BY <1>0, <1>6, <2>1, DetachComplete DEF EmptyTrashCall, EmptyTrash
    <2>3. QED
      BY <1>6, <2>1, <2>2
         DEF EmptyTrashCall, EmptyTrash, Detach, Listed, FoldersStay, NoOrphan
  <1>7. CASE Reload
    BY <1>0, <1>7, FromNodesSound
       DEF Reload, FromNodes, Listed, FoldersStay, NoOrphan
  <1>8. CASE UNCHANGED tree
    BY <1>8 DEF Listed, FoldersStay, NoOrphan
  <1>9. QED
    BY <1>1, <1>2, <1>3, <1>4, <1>5, <1>6, <1>7, <1>8 DEF Next

LEMMA InitListed == Init => Listed
  BY InitSound
     DEF Listed, Init, EmptyTree, EmptyMap, IndexIsComplete, IndexComplete,
         FoldersStay, NoOrphan

\* Every node stays listed under its parent as long as trash, restore and pin
\* are asked of files only.
THEOREM IndexCompleteness ==
    ASSUME ~FolderPins PROVE Spec => []IndexIsComplete
  <1>1. Listed /\ [Next]_tree => Listed'
    BY StepListed
  <1>2. Listed => IndexIsComplete
    BY DEF Listed
  <1>3. QED
    BY InitListed, <1>1, <1>2, PTL DEF Spec

\* And then no node is left without a parent.
THEOREM NoOrphans ==
    ASSUME ~FolderPins PROVE Spec => []NoOrphan
  <1>1. Listed /\ [Next]_tree => Listed'
    BY StepListed
  <1>2. Listed => NoOrphan
    BY DEF Listed
  <1>3. QED
    BY InitListed, <1>1, <1>2, PTL DEF Spec

\* A permanent delete takes exactly what is inside the node.
THEOREM DeleteExact ==
    ASSUME ~FolderPins PROVE Spec => DeleteTakesTheSubtree
  <1>1. Listed /\ [Next]_tree => Listed'
    BY StepListed
  <1>2. ASSUME Listed, NEW id \in Ids, DeleteCall(id)
        PROVE  DOMAIN tree'.nodes = DOMAIN tree.nodes \ Inside(tree, id)
    <2>1. Subtree(tree, id) \cap DOMAIN tree.nodes = Inside(tree, id)
      BY <1>2, SubtreeIsInside
         DEF Listed, TypeOK, IndexIsSound, IndexIsComplete, DeleteCall
    <2>2. QED
      BY <1>2, <2>1 DEF DeleteCall, RemoveRecursive, Detach
  <1>3. Listed => [\A id \in Ids : DeleteCall(id) =>
            DOMAIN tree'.nodes = DOMAIN tree.nodes \ Inside(tree, id)]_tree
    BY <1>2
  <1>4. QED
    BY InitListed, <1>1, <1>3, PTL DEF Spec, DeleteTakesTheSubtree

-----------------------------------------------------------------------------
(* With no move into oneself either                                         *)

\* A node that is no one's parent makes no cycle.
LEMMA AcyclicAdd ==
    ASSUME Listed, Acyclic(tree), NEW id \in Ids, NEW p \in Parents,
           NEW n \in Names, Add(id, p, n)
    PROVE  Acyclic(tree')
  <1>1. /\ DOMAIN tree'.nodes = DOMAIN tree.nodes \cup {id}
        /\ tree'.nodes[id].parent = p
        /\ \A x \in DOMAIN tree.nodes : tree'.nodes[x] = tree.nodes[x]
        /\ id \notin DOMAIN tree.nodes
    BY DEF Add, Insert, Has
  <1>2. p # id /\ \A x \in DOMAIN tree.nodes : tree.nodes[x].parent # id
    BY <1>1, IdsAreDistinct DEF Add, Has, Listed, NoOrphan, Ids
  <1>3. SUFFICES ASSUME NEW S \in SUBSET DOMAIN tree'.nodes, S # {}
                 PROVE  \E x \in S : tree'.nodes[x].parent \notin S
    BY DEF Acyclic
  <1>4. CASE S \subseteq {id}
    BY <1>1, <1>2, <1>3, <1>4
  <1>5. CASE ~(S \subseteq {id})
    <2>1. PICK x \in S \ {id} : tree.nodes[x].parent \notin S \ {id}
      BY <1>1, <1>5 DEF Acyclic
    <2>2. QED
      BY <1>1, <1>2, <2>1
  <1>6. QED
    BY <1>4, <1>5

LEMMA StepAcyclic ==
    ASSUME ~FolderPins, ~MoveUnderSelf, Listed, NoFolderInsideItself, [Next]_tree
    PROVE  NoFolderInsideItself'
  <1> USE DEF NoFolderInsideItself
  <1>0. IsTree(tree) /\ IndexComplete(tree) /\ IsNodeMap(tree.nodes)
    BY DEF Listed, TypeOK, IndexIsComplete, IsTree
  <1>1. ASSUME NEW id \in Ids, NEW p \in Parents, NEW n \in Names, Add(id, p, n)
        PROVE  NoFolderInsideItself'
    BY <1>1, AcyclicAdd
  <1>2. ASSUME NEW id \in Ids, NEW p \in Parents, MoveCall(id, p)
        PROVE  NoFolderInsideItself'
    BY <1>0, <1>2, AcyclicMove DEF MoveCall
  <1>3. ASSUME NEW id \in Ids, NEW n \in Names, RenameCall(id, n)
        PROVE  NoFolderInsideItself'
    <2>1. /\ DOMAIN tree'.nodes = DOMAIN tree.nodes
          /\ \A x \in DOMAIN tree.nodes :
                tree'.nodes[x].parent = tree.nodes[x].parent
      BY <1>0, <1>3 DEF RenameCall, Rename, IsNodeMap, Node, Has
    <2>2. QED
      BY <2>1, AcyclicSame
  <1>4. ASSUME NEW id \in Ids, NEW b \in BOOLEAN, TrashCall(id, b) \/ PinCall(id, b)
        PROVE  NoFolderInsideItself'
    <2>1. id \in Files /\ Has(tree, id)
      BY <1>4 DEF TrashCall, PinCall
    <2>2. PICK n \in Node : /\ n.parent = tree.nodes[id].parent
                            /\ tree' = Insert(Remove(tree, id), id, n)
      <3>1. tree.nodes[id] \in Node
        BY <1>0, <2>1 DEF IsNodeMap, Has
      <3>2. QED
        BY <1>4, <2>1, <3>1, MarkedNode DEF TrashCall, PinCall, SetTrashed, SetPinned
    <2>3. /\ DOMAIN tree'.nodes = DOMAIN tree.nodes
          /\ \A x \in DOMAIN tree.nodes :
                tree'.nodes[x].parent = tree.nodes[x].parent
      BY <1>0, <2>1, <2>2, MarkFile
    <2>4. QED
      BY <2>3, AcyclicSame
  <1>5. ASSUME NEW id \in Ids, DeleteCall(id)
        PROVE  NoFolderInsideItself'
    BY <1>5, AcyclicSame DEF DeleteCall, RemoveRecursive, Detach
  <1>6. CASE EmptyTrashCall
    BY <1>6, AcyclicSame DEF EmptyTrashCall, EmptyTrash, Detach
  <1>7. CASE Reload \/ UNCHANGED tree
    BY <1>7, AcyclicSame DEF Reload, FromNodes
  <1>8. QED
    BY <1>1, <1>2, <1>3, <1>4, <1>5, <1>6, <1>7 DEF Next

\* The walks up the parent ids end: no folder comes to be inside itself when,
\* as in the move dialog, no move names a target inside the moved node.
THEOREM NoCycles ==
    ASSUME ~FolderPins, ~MoveUnderSelf PROVE Spec => []NoFolderInsideItself
  <1>1. Init => Listed /\ NoFolderInsideItself
    BY InitListed DEF Init, EmptyTree, EmptyMap, NoFolderInsideItself, Acyclic
  <1>2. /\ Listed /\ NoFolderInsideItself /\ [Next]_tree
          => (Listed /\ NoFolderInsideItself)'
    BY StepListed, StepAcyclic
  <1>3. QED
    BY <1>1, <1>2, PTL DEF Spec
=============================================================================
