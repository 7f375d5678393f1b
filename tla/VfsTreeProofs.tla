---------------------------- MODULE VfsTreeProofs ----------------------------
(***************************************************************************)
(* How the methods of the tree treat its typing, the two halves of the     *)
(* index invariant and its being free of cycles, for every set of ids and  *)
(* names.  TreeStoreProofs cites these lemmas for each call.               *)
(***************************************************************************)
EXTENDS VfsTree, TLAPS


\* insert keeps the tree well typed.
LEMMA InsertTyped ==
    ASSUME NEW t, IsTree(t), NEW id \in Ids, NEW n \in Node
    PROVE  IsTree(Insert(t, id, n))
  BY DEF IsTree, IsNodeMap, Insert, Has, Node, Parents

\* insert keeps the index sound: the id is listed under its new parent only.
LEMMA InsertSound ==
    ASSUME NEW t, IsTree(t), IndexSound(t), NEW id \in Ids, NEW n \in Node
    PROVE  IndexSound(Insert(t, id, n))
  <1> DEFINE u == Insert(t, id, n)
  <1> SUFFICES ASSUME NEW p \in Parents, NEW x \in u.kids[p]
               PROVE  Has(u, x) /\ u.nodes[x].parent = p
    BY DEF IndexSound
  <1>1. x # id => x \in t.kids[p]
    BY DEF Insert, IsTree, Has, Node, IsNodeMap, Parents
  <1>2. x = id => p = n.parent
    BY DEF Insert, IsTree, Has, Node, IndexSound, IsNodeMap, Parents
  <1>3. QED
    BY <1>1, <1>2 DEF IndexSound, Insert, Has, IsTree, IsNodeMap

\* insert keeps every node listed.
LEMMA InsertComplete ==
    ASSUME NEW t, IsTree(t), IndexComplete(t), NEW id \in Ids, NEW n \in Node
    PROVE  IndexComplete(Insert(t, id, n))
  <1> DEFINE u == Insert(t, id, n)
  <1> SUFFICES ASSUME NEW x \in DOMAIN u.nodes
               PROVE  x \in u.kids[u.nodes[x].parent]
    BY DEF IndexComplete
  <1>1. CASE x = id
    BY <1>1 DEF Insert, IsTree, IsNodeMap, Node, Parents, Has
  <1>2. CASE x # id
    <2>1. /\ x \in DOMAIN t.nodes
          /\ u.nodes[x] = t.nodes[x]
      BY <1>2 DEF Insert
    <2>2. t.nodes[x].parent \in Parents /\ x \in t.kids[t.nodes[x].parent]
      BY <2>1 DEF IsTree, IsNodeMap, Node, IndexComplete
    <2>3. QED
      BY <1>2, <2>1, <2>2 DEF Insert, IsTree, IsNodeMap, Node, Has
  <1>3. QED
    BY <1>1, <1>2

\* Removal keeps the tree well typed and the index sound, whatever leaves.
LEMMA DetachSound ==
    ASSUME NEW t, IsTree(t), NEW S
    PROVE  /\ IsTree(Detach(t, S))
           /\ IndexSound(t) => IndexSound(Detach(t, S))
  BY DEF IsTree, IsNodeMap, Detach, IndexSound, Has

\* Removal keeps the rest listed when no parent leaves without its children.
LEMMA DetachComplete ==
    ASSUME NEW t, IsTree(t), IndexComplete(t), NEW S,
           \A x \in DOMAIN t.nodes \ S : t.nodes[x].parent \notin S
    PROVE  IndexComplete(Detach(t, S))
  BY DEF IsTree, IsNodeMap, Node, Detach, IndexComplete

\* What the work list of remove_recursive visits is closed under the index.
LEMMA SubtreeClosed ==
    ASSUME NEW t, IsTree(t), NEW id \in Ids
    PROVE  /\ id \in Subtree(t, id)
           /\ Subtree(t, id) \subseteq Parents
           /\ \A p \in Subtree(t, id) : t.kids[p] \subseteq Subtree(t, id)
  BY DEF Subtree, IsTree, Parents, Ids

\* With every node listed, a node that stays has a parent that stays.
LEMMA SubtreeKeepsParents ==
    ASSUME NEW t, IsTree(t), IndexComplete(t), NEW id \in Ids
    PROVE  \A x \in DOMAIN t.nodes \ Subtree(t, id) :
                t.nodes[x].parent \notin Subtree(t, id)
  BY SubtreeClosed DEF IndexComplete

\* With index and parent ids in agreement, what the work list visits is what
\* the parent ids put inside the node.
LEMMA SubtreeIsInside ==
    ASSUME NEW t, IsTree(t), IndexSound(t), IndexComplete(t), NEW id \in Ids,
           Has(t, id)
    PROVE  Subtree(t, id) \cap DOMAIN t.nodes = Inside(t, id)
  <1> DEFINE Sub == Subtree(t, id) \cap DOMAIN t.nodes
             In == Inside(t, id)
  <1>1. ASSUME NEW x \in In PROVE x \in Sub
    <2>1. /\ Sub \in SUBSET DOMAIN t.nodes
          /\ id \in Sub
          /\ \A y \in DOMAIN t.nodes : t.nodes[y].parent \in Sub => y \in Sub
      BY SubtreeClosed DEF Has, IndexComplete, IsTree
    <2>2. QED
      BY <1>1, <2>1 DEF Inside
  <1>2. ASSUME NEW x \in Sub PROVE x \in In
    <2>1. In \in SUBSET Parents
      BY DEF Inside, IsTree, IsNodeMap, Parents
    <2>2. id \in In
      BY DEF Inside, Has
    <2>3. ASSUME NEW p \in In, NEW y \in t.kids[p] PROVE y \in In
      <3>1. y \in DOMAIN t.nodes /\ t.nodes[y].parent = p
        BY <2>1, <2>3 DEF IndexSound, Has
      <3>2. QED
        BY <2>3, <3>1 DEF Inside
    <2>4. QED
      BY <2>1, <2>2, <2>3, <1>2 DEF Subtree
  <1>3. QED
    BY <1>1, <1>2

\* A map read into an empty tree is typed, sound and complete.
LEMMA FromNodesSound ==
    ASSUME NEW m, IsNodeMap(m)
    PROVE  /\ IsTree(FromNodes(m))
           /\ IndexSound(FromNodes(m)) /\ IndexComplete(FromNodes(m))
  BY DEF IsNodeMap, IsTree, FromNodes, IndexSound, IndexComplete, Has, Node

\* The node after rename has the old one's place in the index.
LEMMA RenameSound ==
    ASSUME NEW t, IsTree(t), NEW id \in Ids, NEW name \in Names
    PROVE  /\ IsTree(Rename(t, id, name))
           /\ IndexSound(t) => IndexSound(Rename(t, id, name))
           /\ IndexComplete(t) => IndexComplete(Rename(t, id, name))
  <1> DEFINE u == Rename(t, id, name)
  <1>1. CASE ~Has(t, id)
    BY <1>1 DEF Rename
  <1>2. CASE Has(t, id)
    <2>1. /\ DOMAIN u.nodes = DOMAIN t.nodes
          /\ u.kids = t.kids
          /\ \A x \in DOMAIN t.nodes : u.nodes[x] \in Node
                                    /\ u.nodes[x].parent = t.nodes[x].parent
      BY <1>2 DEF Rename, Has, IsTree, IsNodeMap, Node
    <2>2. u.nodes \in [DOMAIN t.nodes -> Node]
      BY <1>2, <2>1 DEF Rename, Has, IsTree, IsNodeMap
    <2>3. QED
      BY <2>1, <2>2 DEF IsTree, IsNodeMap, IndexSound, IndexComplete, Has
  <1>3. QED
    BY <1>1, <1>2

\* remove and the remove-and-insert pairs of trash, restore and pin, typed
\* and sound for any id.
LEMMA RemoveSound ==
    ASSUME NEW t, IsTree(t), NEW id \in Ids
    PROVE  IsTree(Remove(t, id)) /\ (IndexSound(t) => IndexSound(Remove(t, id)))
  BY DetachSound DEF Remove

LEMMA MarkSound ==
    ASSUME NEW t, IsTree(t), NEW id \in Ids, NEW flag \in BOOLEAN
    PROVE  /\ IsTree(SetTrashed(t, id, flag)) /\ IsTree(SetPinned(t, id, flag))
           /\ IndexSound(t) => /\ IndexSound(SetTrashed(t, id, flag))
                               /\ IndexSound(SetPinned(t, id, flag))
  <1>1. IsTree(Remove(t, id)) /\ (IndexSound(t) => IndexSound(Remove(t, id)))
    BY RemoveSound
  <1>2. ASSUME Has(t, id)
        PROVE  /\ [t.nodes[id] EXCEPT !.trashed = flag] \in Node
               /\ [t.nodes[id] EXCEPT !.pinned = flag] \in Node
    BY <1>2 DEF Has, IsTree, IsNodeMap, Node
  <1>3. QED
    BY <1>1, <1>2, InsertTyped, InsertSound DEF SetTrashed, SetPinned

\* The step cases share what each call gives to Insert.
LEMMA NewNodeTyped ==
    ASSUME NEW p \in Parents, NEW name \in Names
    PROVE  [parent |-> p, name |-> name, trashed |-> FALSE, pinned |-> FALSE] \in Node
  BY DEF Node

\* move_node changes the parent of one node and is an insert to the index.
LEMMA MoveSound ==
    ASSUME NEW t, IsTree(t), NEW id \in Ids, NEW p \in Parents,
           CanMove(t, id, p)
    PROVE  LET u == MoveNode(t, id, p) IN
             /\ IsTree(u)
             /\ IndexSound(t) => IndexSound(u)
             /\ IndexComplete(t) => IndexComplete(u)
             /\ DOMAIN u.nodes = DOMAIN t.nodes
             /\ \A x \in DOMAIN t.nodes :
                    u.nodes[x] = IF x = id THEN [t.nodes[id] EXCEPT !.parent = p]
                                 ELSE t.nodes[x]
  <1> DEFINE n == [t.nodes[id] EXCEPT !.parent = p]
  <1>1. Has(t, id) /\ t.nodes[id] \in Node /\ n \in Node
    BY DEF CanMove, Has, IsTree, IsNodeMap, Node
  <1>2. CASE p = t.nodes[id].parent
    <2>1. n = t.nodes[id]
      BY <1>1, <1>2 DEF Node
    <2>2. MoveNode(t, id, p) = t
      BY <1>2 DEF MoveNode
    <2>3. QED
      BY <2>1, <2>2
  <1>3. CASE p # t.nodes[id].parent
    <2>1. MoveNode(t, id, p) = Insert(t, id, n)
      BY <1>3 DEF MoveNode
    <2>2. /\ DOMAIN Insert(t, id, n).nodes = DOMAIN t.nodes
          /\ \A x \in DOMAIN t.nodes :
                Insert(t, id, n).nodes[x] = IF x = id THEN n ELSE t.nodes[x]
      BY <1>1 DEF Insert, Has
    <2>3. QED
      BY <1>1, <2>1, <2>2, InsertTyped, InsertSound, InsertComplete
  <1>4. QED
    BY <1>2, <1>3

\* Trash, restore and pin of a file keep its parent, and the rest as it was.
LEMMA MarkFile ==
    ASSUME NEW t, IsTree(t), NEW id \in Files, Has(t, id), NEW n \in Node,
           n.parent = t.nodes[id].parent
    PROVE  LET u == Insert(Remove(t, id), id, n) IN
             /\ DOMAIN u.nodes = DOMAIN t.nodes
             /\ \A x \in DOMAIN t.nodes : u.nodes[x] = IF x = id THEN n ELSE t.nodes[x]
             /\ (/\ IndexComplete(t)
                 /\ \A x \in DOMAIN t.nodes : t.nodes[x].parent \notin Files)
                    => IndexComplete(u)
  <1>1. IsTree(Remove(t, id)) /\ id \in Ids
    BY RemoveSound DEF Ids
  <1>2. (/\ IndexComplete(t)
         /\ \A x \in DOMAIN t.nodes : t.nodes[x].parent \notin Files)
            => IndexComplete(Remove(t, id))
    BY DetachComplete DEF Remove
  <1>3. DOMAIN Remove(t, id).nodes = DOMAIN t.nodes \ {id}
        /\ \A x \in DOMAIN t.nodes \ {id} : Remove(t, id).nodes[x] = t.nodes[x]
    BY DEF Remove, Detach
  <1>4. QED
    BY <1>1, <1>2, <1>3, InsertComplete, ZenonT(30) DEF Insert, Has

\* A mark changes nothing else of the node.
LEMMA MarkedNode ==
    ASSUME NEW n \in Node, NEW b \in BOOLEAN
    PROVE  /\ [n EXCEPT !.trashed = b] \in Node
           /\ [n EXCEPT !.trashed = b].parent = n.parent
           /\ [n EXCEPT !.pinned = b] \in Node
           /\ [n EXCEPT !.pinned = b].parent = n.parent
  BY DEF Node

-----------------------------------------------------------------------------
(* Cycles                                                                   *)

\* What only takes nodes away, or leaves their parents alone, makes no cycle.
LEMMA AcyclicSame ==
    ASSUME NEW t, NEW u, Acyclic(t), DOMAIN u.nodes \subseteq DOMAIN t.nodes,
           \A x \in DOMAIN u.nodes : u.nodes[x].parent = t.nodes[x].parent
    PROVE  Acyclic(u)
  BY DEF Acyclic

\* Neither does a move out of the moved subtree: the nodes of a set that lie
\* outside the subtree have an exit that the move does not change.
LEMMA AcyclicMove ==
    ASSUME NEW t, IsTree(t), IndexComplete(t), Acyclic(t), NEW id \in Ids,
           NEW p \in Parents, CanMove(t, id, p), p \notin Subtree(t, id)
    PROVE  Acyclic(MoveNode(t, id, p))
  <1> DEFINE u == MoveNode(t, id, p)
             Sub == Subtree(t, id)
  <1>1. /\ DOMAIN u.nodes = DOMAIN t.nodes
        /\ \A x \in DOMAIN t.nodes :
              u.nodes[x].parent = IF x = id THEN p ELSE t.nodes[x].parent
    <2>1. /\ DOMAIN u.nodes = DOMAIN t.nodes
          /\ \A x \in DOMAIN t.nodes :
                u.nodes[x] = IF x = id THEN [t.nodes[id] EXCEPT !.parent = p]
                             ELSE t.nodes[x]
      BY MoveSound
    <2>2. t.nodes[id] \in Node
      BY DEF CanMove, Has, IsTree, IsNodeMap
    <2> HIDE DEF u
    <2>3. QED
      BY <2>1, <2>2 DEF Node
  <1>2. id \in Sub /\ \A x \in DOMAIN t.nodes \ Sub : t.nodes[x].parent \notin Sub
    BY SubtreeClosed, SubtreeKeepsParents
  <1>3. SUFFICES ASSUME NEW S \in SUBSET DOMAIN t.nodes, S # {}
                 PROVE  \E x \in S : u.nodes[x].parent \notin S
    BY <1>1 DEF Acyclic
  <1> HIDE DEF u, Sub
  <1>4. CASE S \ Sub # {}
    <2>1. PICK x \in S \ Sub : t.nodes[x].parent \notin S \ Sub
      BY <1>4 DEF Acyclic
    <2>2. QED
      BY <1>1, <1>2, <2>1
  <1>5. CASE S \subseteq Sub /\ id \in S
    BY <1>1, <1>5 DEF Sub
  <1>6. CASE id \notin S
    <2>1. PICK x \in S : t.nodes[x].parent \notin S
      BY <1>3 DEF Acyclic
    <2>2. QED
      BY <1>1, <1>6, <2>1
  <1>7. QED
    BY <1>4, <1>5, <1>6
=============================================================================
