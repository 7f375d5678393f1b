-------------------------- MODULE SyncEngineProofs --------------------------
(***************************************************************************)
(* What holds of one drive under concurrent calls, failed requests and     *)
(* restarts, for every set of ids, names and tasks and every bound.        *)
(***************************************************************************)
EXTENDS SyncEngine, VfsTreeProofs, FiniteSetTheorems

-----------------------------------------------------------------------------
(* Types                                                                    *)

\* No file holds other nodes.
Nodes == {n \in Node : n.parent \notin Files}
Caps == {c \in Captions : c.parent \notin Files}
NodeMaps == UNION {[S -> Nodes] : S \in SUBSET Ids}
Caches == [row : BOOLEAN, nodes : NodeMaps]
Manifests == [ver : Nat, nodes : NodeMaps]
Thens == {"flush", "debounce", "done"}
Ops == {r \in [pc : Steps, id : Parents, edit : Edits, cap : SUBSET Caps,
              snap : NodeMaps, todo : SUBSET Ids, ver : Nat, then : Thens] :
          r.pc = "addFile" => r.id \in Files}
InTree(t) == IsTree(t) /\ t.nodes \in NodeMaps
IsCaptionMap(m) == DOMAIN m \subseteq Files /\ m \in [DOMAIN m -> Caps]

\* TypeOK, with the records in full.
Typed ==
    /\ present \in BOOLEAN /\ InTree(tree) /\ ver \in Nat
    /\ dirty \in BOOLEAN /\ count \in Nat
    /\ lastFlush \in {"none", "recent", "old"}
    /\ cache \in Caches /\ remote \in Manifests /\ IsCaptionMap(msgs)
    /\ op \in [Tasks -> Ops]
    /\ treesLock \in Tasks \cup {Free} /\ versLock \in Tasks \cup {Free}
    /\ used \subseteq Ids /\ purged \subseteq Files
    /\ calls \in Nat /\ crashes \in Nat

LEMMA NodeMapsAre ==
    ASSUME NEW m
    PROVE  m \in NodeMaps <=> IsNodeMap(m) /\ \A x \in DOMAIN m : m[x] \in Nodes
  BY DEF NodeMaps, IsNodeMap, Nodes

LEMMA EmptyMapTyped == EmptyMap \in NodeMaps
  BY NodeMapsAre DEF EmptyMap, IsNodeMap

LEMMA WithoutTyped ==
    ASSUME NEW m \in NodeMaps, NEW S
    PROVE  Without(m, S) \in NodeMaps
  BY NodeMapsAre DEF IsNodeMap, Without

LEMMA WithTyped ==
    ASSUME NEW m \in NodeMaps, NEW id \in Ids, NEW n \in Nodes
    PROVE  With(m, id, n) \in NodeMaps
  BY NodeMapsAre DEF IsNodeMap, With, Nodes

LEMMA NewNodeInFolder ==
    ASSUME NEW p \in Folders \cup {Root}, NEW name \in Names
    PROVE  NewNode(p, name) \in Nodes
  BY IdsAreDistinct, NewNodeTyped DEF NewNode, Nodes, Parents, Ids, Node

\* What the methods of the tree make of its nodes.
LEMMA InsertNodes ==
    ASSUME NEW t, InTree(t), NEW id \in Ids, NEW n \in Nodes
    PROVE  /\ InTree(Insert(t, id, n))
           /\ Insert(t, id, n).nodes = With(t.nodes, id, n)
  <1>1. Insert(t, id, n).nodes = With(t.nodes, id, n)
    BY DEF Insert, With
  <1>2. QED
    BY <1>1, InsertTyped, WithTyped DEF InTree, Nodes

LEMMA DetachNodes ==
    ASSUME NEW t, InTree(t), NEW S
    PROVE  /\ InTree(Detach(t, S))
           /\ Detach(t, S).nodes = Without(t.nodes, S)
  <1>1. Detach(t, S).nodes = Without(t.nodes, S)
    BY DEF Detach, Without
  <1>2. QED
    BY <1>1, DetachSound, WithoutTyped DEF InTree

LEMMA FromNodesTyped ==
    ASSUME NEW m \in NodeMaps
    PROVE  InTree(FromNodes(m)) /\ FromNodes(m).nodes = m
  BY FromNodesSound, NodeMapsAre DEF InTree, FromNodes

LEMMA EmptyTreeTyped == InTree(EmptyTree) /\ EmptyTree.nodes = EmptyMap
  <1>1. IsTree(EmptyTree)
    BY DEF EmptyTree, EmptyMap, IsTree, IsNodeMap
  <1>2. QED
    BY <1>1, EmptyMapTyped DEF EmptyTree, InTree

LEMMA EditNodeTyped ==
    ASSUME NEW n \in Nodes, NEW e \in Edits
    PROVE  EditNode(n, e) \in Nodes
  <1>1. CASE e.field = "trashed" /\ e.to \in BOOLEAN
    BY <1>1 DEF Node, Nodes, EditNode
  <1>2. CASE e.field = "name" /\ e.to \in Names
    BY <1>2 DEF Node, Nodes, EditNode
  <1>3. CASE e.field = "parent" /\ e.to \in Parents /\ e.to \notin Files
    BY <1>3 DEF Node, Nodes, EditNode
  <1>4. QED
    BY <1>1, <1>2, <1>3, IdsAreDistinct DEF Edits, Parents, Ids

LEMMA CacheEditTyped ==
    ASSUME NEW c \in Caches, NEW id \in Parents, NEW e \in Edits
    PROVE  CacheEdit(c, id, e) \in Caches
  <1>1. CASE id \in DOMAIN c.nodes
    <2>1. c.nodes \in NodeMaps /\ id \in Ids /\ c.nodes[id] \in Nodes
      BY <1>1, NodeMapsAre DEF Caches, IsNodeMap
    <2>2. With(c.nodes, id, EditNode(c.nodes[id], e)) \in NodeMaps
      BY <2>1, WithTyped, EditNodeTyped
    <2>3. QED
      BY <1>1, <2>2 DEF Caches, CacheEdit
  <1>2. QED
    BY <1>1 DEF CacheEdit

LEMMA CacheDeleteTyped ==
    ASSUME NEW c \in Caches, NEW S
    PROVE  CacheDelete(c, S) \in Caches
  <1>1. Without(c.nodes, S) \in NodeMaps
    BY WithoutTyped DEF Caches
  <1>2. QED
    BY <1>1 DEF CacheDelete, Caches

LEMMA CacheUpsertTyped ==
    ASSUME NEW c \in Caches, NEW id \in Ids, NEW n \in Nodes
    PROVE  CacheUpsert(c, id, n) \in Caches
  <1>1. With(c.nodes, id, n) \in NodeMaps
    BY WithTyped DEF Caches
  <1>2. QED
    BY <1>1 DEF CacheUpsert, Caches

LEMMA CacheReplaceTyped ==
    ASSUME NEW m \in NodeMaps
    PROVE  CacheReplace(m) \in Caches
  BY DEF CacheReplace, Caches

LEMMA CaptionTyped ==
    ASSUME NEW n \in Nodes
    PROVE  CaptionOf(n) \in Caps
  BY DEF CaptionOf, Captions, Caps, Node, Nodes

LEMMA CaptionMaps ==
    ASSUME NEW m, IsCaptionMap(m)
    PROVE  /\ \A id \in Files, c \in Caps : IsCaptionMap(With(m, id, c))
           /\ \A S : IsCaptionMap(Without(m, S))
  BY DEF IsCaptionMap, With, Without

\* The mark of a file, and what trashing or pinning makes of a folder.
LEMMA MarkNodes ==
    ASSUME NEW t, InTree(t), NEW id \in Ids, NEW flag \in BOOLEAN
    PROVE  /\ InTree(SetTrashed(t, id, flag)) /\ InTree(SetPinned(t, id, flag))
           /\ \A x \in Files :
                 /\ x \in DOMAIN SetTrashed(t, id, flag).nodes <=> x \in DOMAIN t.nodes
                 /\ x \in DOMAIN SetPinned(t, id, flag).nodes <=> x \in DOMAIN t.nodes
  <1>1. CASE id \in Files /\ Has(t, id)
    <2> DEFINE a == [t.nodes[id] EXCEPT !.trashed = flag]
               b == [t.nodes[id] EXCEPT !.pinned = flag]
               u == Remove(t, id)
    <2>0. t.nodes[id] \in Nodes
      BY <1>1, NodeMapsAre DEF InTree, Has
    <2>1. a \in Nodes /\ b \in Nodes
      BY <2>0, MarkedNode DEF Nodes
    <2>2. InTree(u) /\ u.nodes = Without(t.nodes, {id})
      BY <1>1, DetachNodes DEF Remove
    <2> HIDE DEF a, b, u
    <2>3. /\ InTree(Insert(u, id, a)) /\ InTree(Insert(u, id, b))
          /\ Insert(u, id, a).nodes = With(u.nodes, id, a)
          /\ Insert(u, id, b).nodes = With(u.nodes, id, b)
      BY <2>1, <2>2, InsertNodes
    <2>4. SetTrashed(t, id, flag) = Insert(u, id, a)
          /\ SetPinned(t, id, flag) = Insert(u, id, b)
      BY <1>1 DEF SetTrashed, SetPinned, a, b, u
    <2>5. QED
      BY <1>1, <2>2, <2>3, <2>4 DEF With, Without, Has
  <1>2. CASE ~ (id \in Files /\ Has(t, id))
    <2>1. SetTrashed(t, id, flag) = Remove(t, id) /\ SetPinned(t, id, flag) = Remove(t, id)
      BY <1>2 DEF SetTrashed, SetPinned
    <2>2. CASE Has(t, id)
      <3>1. id \notin Files /\ Remove(t, id) = Detach(t, {id})
        BY <1>2, <2>2 DEF Remove
      <3>2. InTree(Remove(t, id)) /\ Remove(t, id).nodes = Without(t.nodes, {id})
        BY <3>1, DetachNodes
      <3>3. DOMAIN Without(t.nodes, {id}) = DOMAIN t.nodes \ {id}
        BY DEF Without
      <3>4. QED
        BY <2>1, <3>1, <3>2, <3>3
    <2>3. CASE ~ Has(t, id)
      BY <2>1, <2>3 DEF Remove
    <2>4. QED
      BY <2>2, <2>3
  <1>3. QED
    BY <1>1, <1>2

\* No edit takes a file away.
LEMMA EditTreeTyped ==
    ASSUME NEW t, InTree(t), NEW id \in Ids, NEW e \in Edits,
           EditAccepted(t, id, e)
    PROVE  /\ InTree(EditTree(t, id, e))
           /\ \A x \in Files :
                 x \in DOMAIN EditTree(t, id, e).nodes <=> x \in DOMAIN t.nodes
  <1>1. CASE e.field = "trashed" /\ e.to \in BOOLEAN
    BY <1>1, MarkNodes DEF EditTree
  <1>2. CASE e.field = "name" /\ e.to \in Names
    <2>1. EditTree(t, id, e) = [nodes |-> [t.nodes EXCEPT ![id].name = e.to],
                                kids |-> t.kids]
      BY <1>2 DEF EditTree, EditAccepted, Rename
    <2>2. t.nodes[id] \in Nodes /\ id \in DOMAIN t.nodes
      BY <1>2, NodeMapsAre DEF InTree, EditAccepted, Has
    <2>3. [t.nodes[id] EXCEPT !.name = e.to] \in Nodes
      BY <1>2, <2>2 DEF Node, Nodes
    <2>4. EditTree(t, id, e).nodes \in NodeMaps
      BY <2>1, <2>3, NodeMapsAre DEF InTree, IsNodeMap, Nodes
    <2>5. IsTree(EditTree(t, id, e))
      BY <1>2, RenameSound DEF EditTree, InTree
    <2>6. QED
      BY <2>1, <2>4, <2>5 DEF InTree
  <1>3. CASE e.field = "parent" /\ e.to \in Parents /\ e.to \notin Files
    <2> DEFINE u == MoveNode(t, id, e.to)
    <2>1. /\ IsTree(u) /\ DOMAIN u.nodes = DOMAIN t.nodes
          /\ \A x \in DOMAIN t.nodes :
                u.nodes[x] = IF x = id THEN [t.nodes[id] EXCEPT !.parent = e.to]
                             ELSE t.nodes[x]
      BY <1>3, MoveSound DEF EditAccepted, InTree
    <2>2. t.nodes[id] \in Nodes
      BY <1>3, NodeMapsAre DEF InTree, EditAccepted, CanMove, Has
    <2>3. [t.nodes[id] EXCEPT !.parent = e.to] \in Nodes
      BY <1>3, <2>2 DEF Node, Nodes
    <2> HIDE DEF u
    <2>4. u.nodes \in NodeMaps
      BY <2>1, <2>3, NodeMapsAre DEF InTree, IsTree
    <2>5. QED
      BY <1>3, <2>1, <2>4 DEF EditTree, InTree, u
  <1>4. QED
    BY <1>1, <1>2, <1>3, IdsAreDistinct DEF Edits, Parents, Ids

\* A scan returns captions of the channel, and all of them when the newest
\* hundred messages hold every document there can be.
LEMMA ScanFacts ==
    ASSUME IsCaptionMap(msgs), NEW docs \in Scanned
    PROVE  /\ IsCaptionMap(docs) /\ DOMAIN docs \subseteq DOMAIN msgs
           /\ \A f \in DOMAIN docs : docs[f] = msgs[f]
  BY DEF Scanned, IsCaptionMap

\* The documents a channel can get are among its newest hundred messages.
AllInReach == IsFiniteSet(Files) /\ Cardinality(Files) <= ScanReach

LEMMA ScanReachesAll ==
    ASSUME IsCaptionMap(msgs), AllInReach, NEW docs \in Scanned
    PROVE  DOMAIN docs = DOMAIN msgs
  <1>1. DOMAIN msgs \subseteq Files
    BY DEF IsCaptionMap
  <1>2. /\ IsFiniteSet(DOMAIN msgs) /\ Cardinality(DOMAIN msgs) <= Cardinality(Files)
        /\ Cardinality(DOMAIN msgs) \in Nat /\ Cardinality(Files) \in Nat
    BY <1>1, FS_Subset, FS_CardinalityType DEF AllInReach
  <1>3. /\ DOMAIN docs \in SUBSET DOMAIN msgs
        /\ DOMAIN docs = DOMAIN msgs \/ Cardinality(DOMAIN docs) >= ScanReach
    BY DEF Scanned
  <1>4. /\ Cardinality(DOMAIN docs) \in Nat
        /\ Cardinality(DOMAIN docs) <= Cardinality(DOMAIN msgs)
        /\ Cardinality(DOMAIN docs) = Cardinality(DOMAIN msgs) => DOMAIN docs = DOMAIN msgs
    BY <1>2, <1>3, FS_Subset, FS_CardinalityType
  <1>5. QED
    BY <1>2, <1>3, <1>4, EngineAssumption DEF AllInReach

\* What a rebuild makes of the captions and of the folders of the cache.
LEMMA RebuiltTyped ==
    ASSUME NEW m \in NodeMaps, NEW name \in Names, NEW docs, IsCaptionMap(docs)
    PROVE  /\ Rebuilt(docs, m, name) \in NodeMaps
           /\ DOMAIN Rebuilt(docs, m, name) \cap Files
                  = (DOMAIN m \cup DOMAIN docs) \cap Files
  <1>1. IsNodeMap(m) /\ \A x \in DOMAIN m : m[x] \in Nodes
    BY NodeMapsAre
  <1>2. \A f \in DOMAIN docs : docs[f] \in Caps /\ f \in Files
    BY DEF IsCaptionMap
  <1>3. \A f \in DOMAIN docs :
            /\ [parent |-> docs[f].parent, name |-> docs[f].name,
                trashed |-> docs[f].trashed, pinned |-> FALSE] \in Nodes
            /\ docs[f].parent \in Parents \ Files
    BY <1>2 DEF Captions, Caps, Node, Nodes
  <1>4. NewNode(Root, name) \in Nodes
    BY NewNodeInFolder
  <1> DEFINE r == Rebuilt(docs, m, name)
  <1>5. DOMAIN r = DOMAIN m \cup DOMAIN docs
          \cup ({docs[f].parent : f \in DOMAIN docs} \ (DOMAIN m \cup DOMAIN docs \cup {Root}))
    BY DEF Rebuilt
  <1>6. \A x \in DOMAIN r : r[x] \in Nodes
    BY <1>1, <1>3, <1>4 DEF Rebuilt
  <1>7. DOMAIN r \subseteq Ids
    BY <1>1, <1>2, <1>3, <1>5 DEF IsNodeMap, Parents, Ids
  <1>8. r = [x \in DOMAIN r |-> r[x]]
    BY DEF Rebuilt
  <1> HIDE DEF r
  <1>9. r \in NodeMaps
    BY <1>6, <1>7, <1>8 DEF NodeMaps
  <1>10. QED
    BY <1>3, <1>5, <1>9 DEF r

\* A record of a task, field by field.
LEMMA IdleTyped ==
    /\ Idle \in Ops
    /\ \A th \in Thens : After(th) \in Ops
    /\ \A s \in Steps \ {"addFile"} : [Idle EXCEPT !.pc = s] \in Ops
  <1>1. [field |-> "trashed", to |-> FALSE] \in Edits
    BY DEF Edits
  <1>2. Idle \in Ops
    BY <1>1, EmptyMapTyped DEF Idle, Ops, Steps, LoadSteps, Thens, Parents
  <1>3. \A s \in Steps \ {"addFile"} : [Idle EXCEPT !.pc = s] \in Ops
    BY <1>2 DEF Ops
  <1>4. \A th \in Thens : After(th) \in Ops
    BY <1>2, <1>3 DEF After, Thens, Steps
  <1>5. QED
    BY <1>2, <1>3, <1>4

\* The ways an action changes the record of its task.
LEMMA GotoTyped ==
    ASSUME NEW t \in Tasks, op \in [Tasks -> Ops], NEW s \in Steps \ {"addFile"},
           Goto(t, s)
    PROVE  op' \in [Tasks -> Ops]
  BY DEF Goto, Ops

LEMMA SetTyped ==
    ASSUME NEW t \in Tasks, op \in [Tasks -> Ops], NEW r \in Ops,
           op' = [op EXCEPT ![t] = r]
    PROVE  op' \in [Tasks -> Ops]
  OBVIOUS

LEMMA ReturnTyped ==
    ASSUME NEW t \in Tasks, op \in [Tasks -> Ops], Return(t)
    PROVE  op' \in [Tasks -> Ops]
  BY IdleTyped DEF Return

LEMMA AddNodeTyped ==
    ASSUME Typed, NEW id \in Ids, NEW n \in Nodes, AddNode(id, n)
    PROVE  /\ InTree(tree)' /\ present' \in BOOLEAN /\ dirty' \in BOOLEAN
           /\ cache' \in Caches
  BY InsertNodes, CacheUpsertTyped DEF Typed, AddNode

LEMMA InitTyped == Init => Typed
  <1> SUFFICES ASSUME Init PROVE Typed
    OBVIOUS
  <1>1. InTree(EmptyTree)
    BY EmptyTreeTyped
  <1>2. NoCache \in Caches /\ NoManifest \in Manifests
    BY EmptyMapTyped DEF NoCache, Caches, NoManifest, Manifests
  <1>3. op \in [Tasks -> Ops]
    BY IdleTyped DEF Init
  <1>4. IsCaptionMap(msgs)
    BY DEF Init, EmptyMap, IsCaptionMap
  <1>5. QED
    BY <1>1, <1>2, <1>3, <1>4 DEF Init, Typed

\* The calls.
LEMMA CallTyped ==
    ASSUME Typed, NEW t \in Tasks, Call(t)
    PROVE  Typed'
  <1> USE DEF Typed
  <1> USE IdleTyped
  <1> DEFINE H == op \in [Tasks -> Ops]
  <1>0. \A k : Begin(t, k) => calls' \in Nat /\ crashes' \in Nat
    BY DEF Begin
  <1>1. ASSUME NEW id \in Folders, NEW p \in Parents, NEW n \in Names,
               CreateFolder(t, id, p, n)
        PROVE  Typed'
    <2>1. id \in Ids /\ NewNode(p, n) \in Nodes
      BY <1>1, NewNodeInFolder DEF Ids, CreateFolder
    <2>2. op' \in [Tasks -> Ops]
      BY <1>1 DEF CreateFolder, Thens
    <2>3. /\ InTree(tree)' /\ present' \in BOOLEAN /\ dirty' \in BOOLEAN
          /\ cache' \in Caches
      BY <1>1, <2>1, AddNodeTyped DEF CreateFolder
    <2>4. QED
      BY <1>0, <1>1, <2>1, <2>2, <2>3 DEF CreateFolder, locks
  <1>2. ASSUME NEW id \in Files, NEW p \in Parents, NEW n \in Names,
               UploadSend(t, id, p, n)
        PROVE  Typed'
    <2>1. id \in Ids /\ CaptionOf(NewNode(p, n)) \in Caps
      BY <1>2, NewNodeInFolder, CaptionTyped DEF Ids, UploadSend
    <2>2. [Idle EXCEPT !.pc = "addFile", !.id = id,
                       !.cap = {CaptionOf(NewNode(p, n))}] \in Ops
      BY <2>1 DEF Ops, Parents, Steps
    <2>3. op' \in [Tasks -> Ops]
      BY <1>2, <2>2 DEF UploadSend
    <2>4. IsCaptionMap(msgs)'
      BY <1>2, <2>1, CaptionMaps DEF UploadSend, IsCaptionMap
    <2>5. used' \subseteq Ids
      BY <1>2, <2>1 DEF UploadSend
    <2>6. QED
      BY <1>0, <1>2, <2>3, <2>4, <2>5 DEF UploadSend, memory, locks
  <1>3. ASSUME NEW id \in Ids, NEW e \in Edits, EditStart(t, id, e)
        PROVE  Typed'
    <2>1. InTree(tree)'
      BY <1>3, EditTreeTyped DEF EditStart
    <2>2. {CaptionOf(tree'.nodes[f]) : f \in {id} \cap Files \cap DOMAIN tree'.nodes}
            \subseteq Caps
      BY <2>1, CaptionTyped, NodeMapsAre DEF InTree
    <2>3. [Idle EXCEPT !.pc = "editCache", !.id = id, !.edit = e, !.then = "flush",
              !.cap = {CaptionOf(tree'.nodes[f]) :
                          f \in {id} \cap Files \cap DOMAIN tree'.nodes}] \in Ops
      BY <2>2 DEF Ops, Parents, Steps, Thens
    <2>4. op' \in [Tasks -> Ops]
      BY <1>3, <2>3 DEF EditStart
    <2>5. QED
      BY <1>0, <1>3, <2>1, <2>4 DEF EditStart, store, locks
  <1>4. ASSUME NEW id \in Ids, NEW b \in BOOLEAN, TogglePin(t, id, b)
        PROVE  Typed'
    BY <1>0, <1>4, MarkNodes DEF TogglePin, store, locks
  <1>5. ASSUME NEW id \in Ids, DavMove(t, id)
        PROVE  Typed'
    <2>1. op' \in [Tasks -> Ops]
      BY <1>5 DEF DavMove, Thens
    <2>2. QED
      BY <1>0, <1>5, <2>1 DEF DavMove, store, locks
  <1>6. ASSUME NEW id \in Ids, DeleteStart(t, id)
        PROVE  Typed'
    <2> DEFINE gone == Subtree(tree, id) \cap DOMAIN tree.nodes
    <2>1. gone \subseteq Ids /\ InTree(RemoveRecursive(tree, id))
      BY DetachNodes DEF RemoveRecursive, InTree, IsTree, IsNodeMap
    <2> HIDE DEF gone
    <2>2. \A th \in {"flush", "debounce"} :
            [Idle EXCEPT !.pc = "purge", !.todo = gone, !.then = th] \in Ops
      BY <2>1, ZenonT(30) DEF Ops, Steps, Thens
    <2>3. op' \in [Tasks -> Ops]
      BY <1>6, <2>2 DEF DeleteStart, gone
    <2>4. QED
      BY <1>0, <1>6, <2>1, <2>3 DEF DeleteStart, store, locks
  <1>7. CASE EmptyStart(t)
    <2>1. InTree(EmptyTrash(tree)) /\ Trashed(tree) \subseteq Ids
      BY DetachNodes DEF EmptyTrash, Trashed, InTree, IsTree, IsNodeMap
    <2>2. [Idle EXCEPT !.pc = "emptyCache", !.todo = Trashed(tree) \cap Files,
                       !.then = "flush"] \in Ops
      BY <2>1 DEF Ops, Steps, Thens
    <2>3. op' \in [Tasks -> Ops]
      BY <1>7, <2>2 DEF EmptyStart
    <2>4. QED
      BY <1>0, <1>7, <2>1, <2>3 DEF EmptyStart, store, locks
  <1>8. CASE FlushCall(t)
    <2>1. op' \in [Tasks -> Ops]
      BY <1>8 DEF FlushCall, Thens
    <2>2. QED
      BY <1>0, <1>8, <2>1 DEF FlushCall, memory, store, locks
  <1>9. CASE LoadCall(t)
    <2>1. op' \in [Tasks -> Ops]
      BY <1>9 DEF LoadCall, Steps, LoadSteps
    <2>2. QED
      BY <1>0, <1>9, <2>1 DEF LoadCall, memory, store, locks
  <1>10. CASE Touch(t)
    BY <1>0, <1>10 DEF Touch, store, locks
  <1>11. CASE UnloadCall(t)
    <2>1. op' \in [Tasks -> Ops] /\ InTree(EmptyTree)
      BY <1>11, EmptyTreeTyped DEF UnloadCall, Steps
    <2>2. QED
      BY <1>0, <1>11, <2>1 DEF UnloadCall, store, locks
  <1>12. QED
    BY <1>1, <1>2, <1>3, <1>4, <1>5, <1>6, <1>7, <1>8, <1>9, <1>10, <1>11 DEF Call

\* What follows in a call.
LEMMA StepTyped ==
    ASSUME Typed, NEW t \in Tasks, Step(t)
    PROVE  Typed'
  <1> USE DEF Typed
  <1>0. /\ op[t] \in Ops /\ op[t].id \in Parents /\ op[t].edit \in Edits
        /\ op[t].cap \subseteq Caps /\ op[t].snap \in NodeMaps
        /\ op[t].todo \subseteq Ids /\ op[t].ver \in Nat /\ op[t].then \in Thens
    BY DEF Ops
  <1>1. CASE UploadAdd(t)
    <2>1. PICK c \in op[t].cap : AddNode(op[t].id, NewNode(c.parent, c.name))
      BY <1>1 DEF UploadAdd
    <2>2. NewNode(c.parent, c.name) \in Nodes
      BY <1>0, NewNodeInFolder DEF Captions, Caps, Parents, Ids
    <2>3. op[t].id \in Ids
      BY <1>0, <1>1 DEF UploadAdd, Ops, Ids
    <2>4. op' \in [Tasks -> Ops]
      BY <1>1, ReturnTyped DEF UploadAdd
    <2>5. QED
      BY <1>1, <2>1, <2>2, <2>3, <2>4, AddNodeTyped DEF UploadAdd, locks, bounds
  <1>2. CASE EditCache(t)
    <2>1. op' \in [Tasks -> Ops]
      BY <1>2, GotoTyped DEF EditCache, Steps
    <2>2. QED
      BY <1>0, <1>2, <2>1, CacheEditTyped DEF EditCache, memory, locks, bounds
  <1>3. CASE EditCaption(t)
    <2>1. op' \in [Tasks -> Ops]
      BY <1>3, GotoTyped DEF EditCaption, Steps
    <2>2. IsCaptionMap(msgs)'
      BY <1>0, <1>3, CaptionMaps DEF EditCaption, IsCaptionMap
    <2>3. QED
      BY <1>3, <2>1, <2>2 DEF EditCaption, memory, locks, bounds
  <1>4. CASE MarkDirty(t)
    <2>1. op' \in [Tasks -> Ops]
      BY <1>0, <1>4, IdleTyped DEF MarkDirty
    <2>2. QED
      BY <1>4, <2>1 DEF MarkDirty, store, locks, bounds
  <1>5. CASE DeletePurge(t)
    <2>1. CASE Goto(t, "mark") /\ UNCHANGED cache
      <3>1. op' \in [Tasks -> Ops]
        BY <2>1, GotoTyped DEF Steps
      <3>2. QED
        BY <1>5, <2>1, <3>1 DEF DeletePurge, memory, locks, bounds
    <2>2. ASSUME NEW x \in op[t].todo, cache' = CacheDelete(cache, {x}),
                 op' = [op EXCEPT ![t].pc = IF x \in Files THEN "purgeMsg" ELSE "purge",
                                  ![t].id = x, ![t].todo = @ \ {x}]
          PROVE  Typed'
      <3>1. op' \in [Tasks -> Ops]
        BY <1>0, <2>2 DEF Ops, Steps, Parents
      <3>2. QED
        BY <1>5, <2>2, <3>1, CacheDeleteTyped DEF DeletePurge, memory, locks, bounds
    <2>3. QED
      BY <1>5, <2>1, <2>2 DEF DeletePurge
  <1>6. CASE DeleteMessage(t)
    <2>1. op' \in [Tasks -> Ops]
      BY <1>6, GotoTyped DEF DeleteMessage, Steps
    <2>2. IsCaptionMap(msgs)'
      BY <1>6, CaptionMaps DEF DeleteMessage
    <2>3. QED
      BY <1>6, <2>1, <2>2 DEF DeleteMessage, memory, locks, bounds
  <1>7. CASE EmptyCache(t)
    <2>1. op' \in [Tasks -> Ops]
      BY <1>7, GotoTyped DEF EmptyCache, Steps
    <2>2. QED
      BY <1>7, <2>1, CacheDeleteTyped DEF EmptyCache, memory, locks, bounds
  <1>8. CASE EmptyMessages(t)
    <2>1. CASE Goto(t, "mark") /\ UNCHANGED msgs
      <3>1. op' \in [Tasks -> Ops]
        BY <2>1, GotoTyped DEF Steps
      <3>2. QED
        BY <1>8, <2>1, <3>1 DEF EmptyMessages, memory, locks, bounds
    <2>2. ASSUME NEW x \in op[t].todo, NEW o \in Outcomes("delete"),
                 msgs' = IF o[1] THEN Without(msgs, {x}) ELSE msgs,
                 op' = [op EXCEPT ![t].todo = @ \ {x}]
          PROVE  Typed'
      <3>1. op' \in [Tasks -> Ops]
        BY <1>0, <2>2 DEF Ops
      <3>2. QED
        BY <1>8, <2>2, <3>1, CaptionMaps DEF EmptyMessages, memory, locks, bounds
    <2>3. QED
      BY <1>8, <2>1, <2>2 DEF EmptyMessages
  <1>9. CASE Debounce(t)
    <2>1. op' \in [Tasks -> Ops]
      BY <1>9, GotoTyped, ReturnTyped DEF Debounce, Steps
    <2>2. QED
      BY <1>9, <2>1 DEF Debounce, store, locks, bounds
  <1>10. CASE FlushRead(t)
    <2>1. op' \in [Tasks -> Ops]
      BY <1>10, ReturnTyped DEF InTree, FlushRead, Ops, Steps
    <2>2. QED
      BY <1>10, <2>1 DEF FlushRead, memory, store, locks, bounds
  <1>11. CASE FlushPrepare(t)
    <2>1. op' \in [Tasks -> Ops]
      <3>1. NextVersion \in Nat
        BY DEF NextVersion
      <3>2. [op[t] EXCEPT !.pc = "flushSend", !.ver = NextVersion] \in Ops
        BY <1>0, <3>1 DEF Ops, Steps
      <3>3. op' = [op EXCEPT ![t] = [op[t] EXCEPT !.pc = "flushSend", !.ver = NextVersion]]
        BY <1>11 DEF FlushPrepare
      <3>4. QED
        BY <3>2, <3>3, SetTyped
    <2>2. QED
      BY <1>0, <1>11, <2>1, CacheReplaceTyped DEF FlushPrepare, memory, bounds
  <1>12. CASE FlushSend(t)
    <2>1. op' \in [Tasks -> Ops]
      BY <1>12, GotoTyped, ReturnTyped DEF FlushSend, Steps
    <2>2. remote' \in Manifests
      BY <1>0, <1>12 DEF FlushSend, Manifests
    <2>3. QED
      BY <1>12, <2>1, <2>2 DEF FlushSend, memory, bounds
  <1>13. CASE FlushDone(t)
    <2>1. op' \in [Tasks -> Ops]
      BY <1>13, ReturnTyped DEF FlushDone
    <2>2. QED
      BY <1>0, <1>13, <2>1 DEF FlushDone, store, bounds
  <1>14. CASE LoadFetch(t)
    <2>1. remote.ver \in Nat /\ remote.nodes \in NodeMaps
          /\ Without(cache.nodes, Files) \in NodeMaps
      BY WithoutTyped DEF Manifests, Caches
    <2>2. op' \in [Tasks -> Ops]
      BY <1>14, <2>1 DEF LoadFetch, Ops, Steps, LoadSteps
    <2>3. QED
      BY <1>14, <2>2 DEF LoadFetch, memory, store, locks, bounds
  <1>15. CASE LoadCache(t)
    <2>1. op' \in [Tasks -> Ops]
      BY <1>15, GotoTyped DEF LoadCache, Steps, LoadSteps
    <2>2. QED
      BY <1>0, <1>15, <2>1, CacheReplaceTyped DEF LoadCache, memory, locks, bounds
  <1>16. CASE RebuildScan(t)
    <2>1. \A n \in Names, docs \in Scanned : Rebuilt(docs, op[t].snap, n) \in NodeMaps
      BY <1>0, RebuiltTyped, ScanFacts
    <2>2. op' \in [Tasks -> Ops]
      <3>1. ASSUME NEW n \in Names, NEW docs \in Scanned,
                   op' = [op EXCEPT ![t].pc = "cacheRebuilt", ![t].ver = 1,
                                    ![t].snap = Rebuilt(docs, @, n)]
            PROVE  op' \in [Tasks -> Ops]
        <4> DEFINE r == [op[t] EXCEPT !.pc = "cacheRebuilt", !.ver = 1,
                                      !.snap = Rebuilt(docs, @, n)]
        <4>1. r \in Ops
          BY <1>0, <2>1 DEF Ops, Steps, LoadSteps
        <4>2. op' = [op EXCEPT ![t] = r]
          BY <3>1
        <4>3. QED
          BY <4>1, <4>2, SetTyped
      <3>2. Goto(t, "fallback") => op' \in [Tasks -> Ops]
        BY GotoTyped DEF Steps, LoadSteps
      <3>3. QED
        BY <1>16, <3>1, <3>2 DEF RebuildScan
    <2>3. QED
      BY <1>16, <2>2 DEF RebuildScan, memory, store, locks, bounds
  <1>17. CASE RebuildCache(t)
    <2>1. op' \in [Tasks -> Ops]
      BY <1>17, GotoTyped DEF RebuildCache, Steps, LoadSteps
    <2>2. QED
      BY <1>0, <1>17, <2>1, CacheReplaceTyped DEF RebuildCache, memory, locks, bounds
  <1>18. CASE RebuildPublish(t)
    <2>1. op' \in [Tasks -> Ops]
      BY <1>18, GotoTyped DEF RebuildPublish, Steps, LoadSteps
    <2>2. remote' \in Manifests
      BY <1>0, <1>18 DEF RebuildPublish, Manifests
    <2>3. QED
      BY <1>18, <2>1, <2>2 DEF RebuildPublish, memory, locks, bounds
  <1>19. CASE LoadFallback(t)
    <2>1. op' \in [Tasks -> Ops]
      BY <1>19, ReturnTyped DEF LoadFallback
    <2>2. InTree(FromNodes(cache.nodes))
      BY FromNodesTyped DEF Caches
    <2>3. QED
      BY <1>19, <2>1, <2>2 DEF LoadFallback, store, locks, bounds
  <1>20. CASE LoadInstall(t)
    <2>1. op' \in [Tasks -> Ops]
      BY <1>20, GotoTyped DEF LoadInstall, Steps, LoadSteps
    <2>2. InTree(FromNodes(op[t].snap))
      BY <1>0, FromNodesTyped
    <2>3. QED
      BY <1>20, <2>1, <2>2 DEF LoadInstall, store, bounds
  <1>21. CASE LoadInstallVersion(t)
    <2>1. op' \in [Tasks -> Ops]
      BY <1>21, ReturnTyped DEF LoadInstallVersion
    <2>2. QED
      BY <1>0, <1>21, <2>1 DEF LoadInstallVersion, store, bounds
  <1>22. CASE UnloadVersion(t)
    <2>1. op' \in [Tasks -> Ops]
      BY <1>22, GotoTyped DEF UnloadVersion, Steps
    <2>2. QED
      BY <1>22, <2>1 DEF UnloadVersion, store, locks, bounds
  <1>23. CASE UnloadRest(t)
    <2>1. op' \in [Tasks -> Ops]
      BY <1>23, GotoTyped DEF UnloadRest, Steps
    <2>2. QED
      BY <1>23, <2>1 DEF UnloadRest, store, locks, bounds
  <1>24. CASE DropCache(t)
    <2>1. op' \in [Tasks -> Ops]
      BY <1>24, ReturnTyped DEF DropCache
    <2>2. NoCache \in Caches
      BY EmptyMapTyped DEF NoCache, Caches
    <2>3. QED
      BY <1>24, <2>1, <2>2 DEF DropCache, memory, locks, bounds
  <1>25. QED
    BY <1>1, <1>2, <1>3, <1>4, <1>5, <1>6, <1>7, <1>8, <1>9, <1>10, <1>11, <1>12,
       <1>13, <1>14, <1>15, <1>16, <1>17, <1>18, <1>19, <1>20, <1>21, <1>22, <1>23,
       <1>24 DEF Step

\* A restart, the clock and a stutter.
LEMMA OtherTyped ==
    ASSUME Typed, Clock \/ Crash \/ UNCHANGED vars
    PROVE  Typed'
  <1> USE DEF Typed
  <1>1. CASE Clock
    BY <1>1 DEF Clock, store, locks, bounds
  <1>2. CASE Crash
    <2>1. InTree(tree') /\ op' \in [Tasks -> Ops]
      BY <1>2, EmptyTreeTyped, IdleTyped DEF Crash
    <2>2. cache' \in Caches /\ remote' \in Manifests /\ IsCaptionMap(msgs')
      BY <1>2 DEF Crash, store
    <2>3. /\ present' \in BOOLEAN /\ ver' \in Nat /\ dirty' \in BOOLEAN /\ count' \in Nat
          /\ lastFlush' \in {"none", "recent", "old"}
      BY <1>2 DEF Crash
    <2>4. /\ treesLock' \in Tasks \cup {Free} /\ versLock' \in Tasks \cup {Free}
          /\ used' \subseteq Ids /\ purged' \subseteq Files
      BY <1>2 DEF Crash
    <2>5. crashes' = crashes + 1 /\ calls' = calls
      BY <1>2 DEF Crash
    <2>6. QED
      BY <2>1, <2>2, <2>3, <2>4, <2>5
  <1>3. CASE UNCHANGED vars
    BY <1>3 DEF vars, memory, store, locks, bounds
  <1>4. QED
    BY <1>1, <1>2, <1>3

LEMMA NextTyped == Typed /\ [Next]_vars => Typed'
  BY CallTyped, StepTyped, OtherTyped DEF Next

LEMMA AlwaysTyped == Spec => []Typed
  BY InitTyped, NextTyped, PTL DEF Spec

\* Every variable keeps its type, whatever calls run together and whatever
\* fails: in particular every copy of the index, however it came about, is a
\* map from ids to nodes.
THEOREM EngineTyped == Spec => []TypeOK
  <1>1. ASSUME Typed PROVE TypeOK
    <2>1. /\ cache.row \in BOOLEAN /\ IsNodeMap(cache.nodes)
          /\ remote.ver \in Nat /\ IsNodeMap(remote.nodes)
      BY <1>1, NodeMapsAre DEF Typed, Caches, Manifests
    <2>2. DOMAIN msgs \subseteq Files /\ msgs \in [DOMAIN msgs -> Captions]
      BY <1>1 DEF Typed, IsCaptionMap, Caps
    <2>3. ASSUME NEW t \in Tasks
          PROVE  /\ op[t].pc \in Steps /\ op[t].id \in Parents /\ op[t].edit \in Edits
                 /\ op[t].cap \subseteq Captions /\ op[t].snap \in NodeMaps
                 /\ op[t].todo \subseteq Ids /\ op[t].ver \in Nat
                 /\ op[t].then \in {"flush", "debounce", "done"}
      BY <1>1 DEF Typed, Ops, Caps, Thens
    <2>4. QED
      BY <1>1, <2>1, <2>2, <2>3, NodeMapsAre DEF Typed, TypeOK, InTree
  <1>2. QED
    BY <1>1, AlwaysTyped, PTL

-----------------------------------------------------------------------------
(* Every file an index speaks of has its document                           *)

\* The files whose document is in the channel or was given up on purpose.
Docs == DOMAIN msgs \cup purged

Held(m, docs) == DOMAIN m \cap Files \subseteq docs

\* A delete and an empty-trash have only files left to do that they took out
\* of the tree; an upload has its document before the node is added.
TaskHeld(r, docs, gone) ==
    /\ Held(r.snap, docs)
    /\ r.pc = "addFile" => r.id \in docs
    /\ r.pc \in {"purge", "purgeMsg"} => r.todo \cap Files \subseteq gone
    /\ r.pc = "purgeMsg" => r.id \in gone
    /\ r.pc \in {"emptyCache", "emptyMsgs"} => r.todo \subseteq gone

MapsHeld ==
    Held(tree.nodes, Docs) /\ Held(cache.nodes, Docs) /\ Held(remote.nodes, Docs)

AllHeld == MapsHeld /\ \A t \in Tasks : TaskHeld(op[t], Docs, purged)

LEMMA HeldFacts ==
    ASSUME NEW m, NEW docs, Held(m, docs)
    PROVE  /\ \A S : Held(Without(m, S), docs)
           /\ \A id, n : (id \in Files => id \in docs) => Held(With(m, id, n), docs)
           /\ \A more : docs \subseteq more => Held(m, more)
  BY DEF Held, With, Without

LEMMA EmptyHeld == \A docs : Held(EmptyMap, docs)
  BY DEF Held, EmptyMap

LEMMA TaskHeldGrows ==
    ASSUME NEW r, NEW docs, NEW more, NEW gone, NEW lost,
           docs \subseteq more, gone \subseteq lost, TaskHeld(r, docs, gone)
    PROVE  TaskHeld(r, more, lost)
  BY DEF TaskHeld, Held

\* A fresh record holds nothing.
LEMMA IdleHeld ==
    ASSUME NEW docs, NEW gone
    PROVE  /\ TaskHeld(Idle, docs, gone)
           /\ \A th \in Thens : TaskHeld(After(th), docs, gone)
           /\ \A s \in Steps \ {"addFile", "purgeMsg"} :
                  TaskHeld([Idle EXCEPT !.pc = s], docs, gone)
  BY EmptyHeld DEF TaskHeld, Idle, After, Thens

\* What is left to show of a step: that the documents it takes were given up
\* and that the maps and the record it writes are held.
LEMMA WritesHeld ==
    ASSUME Typed, AllHeld, NEW t \in Tasks, NEW r \in Ops,
           op' = [op EXCEPT ![t] = r],
           Docs \subseteq Docs', purged \subseteq purged',
           TaskHeld(r, Docs', purged'), MapsHeld'
    PROVE  AllHeld'
  <1> SUFFICES ASSUME NEW u \in Tasks
               PROVE  TaskHeld(op'[u], Docs', purged')
    BY DEF AllHeld
  <1>1. TaskHeld(op[u], Docs', purged')
    BY TaskHeldGrows DEF AllHeld
  <1>2. op'[u] = IF u = t THEN r ELSE op[u]
    BY DEF Typed
  <1>3. QED
    BY <1>1, <1>2

\* The same for a step that keeps the maps and the documents: most of them.
LEMMA QuietHeld ==
    ASSUME Typed, AllHeld, NEW t \in Tasks, NEW r \in Ops,
           op' = [op EXCEPT ![t] = r], TaskHeld(r, Docs, purged),
           tree' = tree \/ tree' = EmptyTree,
           cache' = cache \/ cache' = NoCache \/ cache' = CacheReplace(op[t].snap),
           UNCHANGED <<remote, msgs, purged>>
    PROVE  AllHeld'
  <1>1. Docs' = Docs
    BY DEF Docs
  <1>2. Held(tree'.nodes, Docs)
    BY EmptyHeld, EmptyTreeTyped DEF AllHeld, MapsHeld
  <1>3. Held(cache'.nodes, Docs)
    BY EmptyHeld DEF AllHeld, MapsHeld, NoCache, CacheReplace, TaskHeld
  <1>4. MapsHeld'
    BY <1>1, <1>2, <1>3 DEF AllHeld, MapsHeld
  <1>5. QED
    BY <1>1, <1>4, WritesHeld

LEMMA AddNodeHeld ==
    ASSUME Typed, AllHeld, NEW id \in Ids, NEW n \in Nodes, AddNode(id, n),
           Docs \subseteq Docs', id \in Files => id \in Docs', UNCHANGED remote
    PROVE  MapsHeld'
  <1>1. tree'.nodes = With(tree.nodes, id, n)
    BY InsertNodes DEF Typed, AddNode
  <1>2. cache'.nodes = cache.nodes \/ cache'.nodes = With(cache.nodes, id, n)
    BY DEF Typed, AddNode, CacheUpsert, Caches
  <1>3. /\ Held(tree.nodes, Docs') /\ Held(cache.nodes, Docs')
        /\ Held(remote.nodes, Docs')
    BY HeldFacts DEF AllHeld, MapsHeld
  <1>4. QED
    BY <1>1, <1>2, <1>3, HeldFacts DEF MapsHeld

LEMMA InitHeld == Init => AllHeld
  <1> SUFFICES ASSUME Init PROVE AllHeld
    OBVIOUS
  <1>1. /\ tree.nodes = EmptyMap /\ cache.nodes = EmptyMap
        /\ remote.nodes = EmptyMap /\ \A t \in Tasks : op[t] = Idle
    BY EmptyTreeTyped DEF Init, NoCache, NoManifest
  <1>2. QED
    BY <1>1, EmptyHeld, IdleHeld DEF AllHeld, MapsHeld

LEMMA CallHeld ==
    ASSUME Typed, AllHeld, NEW t \in Tasks, Call(t)
    PROVE  AllHeld'
  <1> USE DEF Typed
  <1>0. op = [op EXCEPT ![t] = op[t]] /\ op[t] \in Ops /\ TaskHeld(op[t], Docs, purged)
    BY DEF AllHeld
  <1>1. ASSUME NEW id \in Folders, NEW p \in Parents, NEW n \in Names,
               CreateFolder(t, id, p, n)
        PROVE  AllHeld'
    <2>1. id \in Ids /\ id \notin Files /\ NewNode(p, n) \in Nodes
      BY <1>1, NewNodeInFolder, IdsAreDistinct DEF Ids, CreateFolder
    <2>2. Docs' = Docs /\ purged' = purged /\ AddNode(id, NewNode(p, n))
          /\ UNCHANGED remote
      BY <1>1 DEF CreateFolder, Docs
    <2>3. MapsHeld'
      BY <2>1, <2>2, AddNodeHeld
    <2>4. PICK r \in Ops : op' = [op EXCEPT ![t] = r] /\ TaskHeld(r, Docs, purged)
      BY <1>1, IdleTyped, IdleHeld DEF CreateFolder, Thens
    <2>5. QED
      BY <2>2, <2>3, <2>4, WritesHeld
  <1>2. ASSUME NEW id \in Files, NEW p \in Parents, NEW n \in Names,
               UploadSend(t, id, p, n)
        PROVE  AllHeld'
    <2>1. Docs \subseteq Docs' /\ purged' = purged
      BY <1>2 DEF UploadSend, Docs, With
    <2>2. MapsHeld'
      BY <1>2, <2>1, HeldFacts DEF UploadSend, memory, AllHeld, MapsHeld
    <2> DEFINE r == [Idle EXCEPT !.pc = "addFile", !.id = id,
                                 !.cap = {CaptionOf(NewNode(p, n))}]
    <2>3. CASE op' = op
      BY <1>0, <2>1, <2>2, <2>3, TaskHeldGrows, WritesHeld
    <2>4. CASE op' # op
      <3>1. op' = [op EXCEPT ![t] = r] /\ id \in DOMAIN msgs'
        BY <1>2, <2>4 DEF UploadSend, With
      <3>2. CaptionOf(NewNode(p, n)) \in Caps
        BY <1>2, NewNodeInFolder, CaptionTyped DEF UploadSend
      <3>3. r \in Ops
        BY <3>2, IdleTyped DEF Ops, Parents, Ids, Steps
      <3>4. TaskHeld(r, Docs', purged')
        BY <3>1, EmptyHeld DEF TaskHeld, Idle, Docs
      <3>5. QED
        BY <2>1, <2>2, <3>1, <3>3, <3>4, WritesHeld
    <2>5. QED
      BY <2>3, <2>4
  <1>3. ASSUME NEW id \in Ids, NEW e \in Edits, EditStart(t, id, e)
        PROVE  AllHeld'
    <2>1. Docs' = Docs /\ purged' = purged
      BY <1>3 DEF EditStart, store, Docs
    <2>2. DOMAIN tree'.nodes \cap Files = DOMAIN tree.nodes \cap Files
      BY <1>3, EditTreeTyped DEF EditStart
    <2>3. MapsHeld'
      BY <1>3, <2>1, <2>2 DEF EditStart, store, AllHeld, MapsHeld, Held
    <2>4. PICK r \in Ops : op' = [op EXCEPT ![t] = r] /\ r.pc = "editCache"
                           /\ r.snap = EmptyMap
      <3>1. op'[t] \in Ops /\ op' = [op EXCEPT ![t] = op'[t]]
        BY <1>3, CallTyped, Zenon DEF Call, EditStart
      <3>2. op'[t].pc = "editCache" /\ op'[t].snap = EmptyMap
        BY <1>3 DEF EditStart, Idle
      <3>3. PICK q : q = op'[t]
        OBVIOUS
      <3>4. q \in Ops /\ op' = [op EXCEPT ![t] = q] /\ q.pc = "editCache" /\ q.snap = EmptyMap
        BY <3>1, <3>2, <3>3, Zenon
      <3>5. QED
        BY <3>4, Zenon
    <2>5. TaskHeld(r, Docs', purged')
      BY <2>4, EmptyHeld DEF TaskHeld
    <2>6. QED
      BY <2>1, <2>3, <2>4, <2>5, WritesHeld
  <1>4. ASSUME NEW id \in Ids, NEW b \in BOOLEAN, TogglePin(t, id, b)
        PROVE  AllHeld'
    <2>1. Docs' = Docs /\ purged' = purged /\ op' = op
      BY <1>4 DEF TogglePin, store, Docs
    <2>2. DOMAIN tree'.nodes \cap Files = DOMAIN tree.nodes \cap Files
      BY <1>4, MarkNodes DEF TogglePin
    <2>3. MapsHeld'
      BY <1>4, <2>1, <2>2 DEF TogglePin, store, AllHeld, MapsHeld, Held
    <2>4. QED
      BY <1>0, <2>1, <2>3, WritesHeld
  <1>5. ASSUME NEW id \in Ids, DavMove(t, id)
        PROVE  AllHeld'
    <2>1. PICK r \in Ops : op' = [op EXCEPT ![t] = r] /\ TaskHeld(r, Docs, purged)
      BY <1>5, IdleTyped, IdleHeld DEF DavMove, Thens
    <2>2. QED
      BY <1>5, <2>1, QuietHeld DEF DavMove, store
  <1>6. ASSUME NEW id \in Ids, DeleteStart(t, id)
        PROVE  AllHeld'
    <2> DEFINE gone == Subtree(tree, id) \cap DOMAIN tree.nodes
    <2>1. PICK th \in {"flush", "debounce"} :
            op' = [op EXCEPT ![t] = [Idle EXCEPT !.pc = "purge", !.todo = gone,
                                                 !.then = th]]
      BY <1>6 DEF DeleteStart
    <2>2. Docs \subseteq Docs' /\ purged' = purged \cup (gone \cap Files)
      BY <1>6 DEF DeleteStart, store, Docs
    <2>3. tree'.nodes = Without(tree.nodes, Subtree(tree, id))
      BY <1>6, DetachNodes DEF DeleteStart, RemoveRecursive
    <2>4. MapsHeld'
      BY <1>6, <2>2, <2>3, HeldFacts DEF DeleteStart, store, AllHeld, MapsHeld
    <2>5. gone \subseteq Ids
      BY DEF InTree, IsTree, IsNodeMap
    <2> HIDE DEF gone
    <2> DEFINE r == [Idle EXCEPT !.pc = "purge", !.todo = gone, !.then = th]
    <2>6. r \in Ops
      BY <2>5, IdleTyped DEF Ops, Steps, Thens
    <2>7. TaskHeld(r, Docs', purged')
      BY <2>2, EmptyHeld DEF TaskHeld, Idle
    <2>8. QED
      BY <2>1, <2>2, <2>4, <2>6, <2>7, WritesHeld
  <1>7. CASE EmptyStart(t)
    <2> DEFINE gone == Trashed(tree) \cap Files
               r == [Idle EXCEPT !.pc = "emptyCache", !.todo = gone, !.then = "flush"]
    <2>1. Docs \subseteq Docs' /\ purged' = purged \cup gone /\ op' = [op EXCEPT ![t] = r]
      BY <1>7 DEF EmptyStart, store, Docs
    <2>2. tree'.nodes = Without(tree.nodes, Trashed(tree))
      BY <1>7, DetachNodes DEF EmptyStart, EmptyTrash
    <2>3. MapsHeld'
      BY <1>7, <2>1, <2>2, HeldFacts DEF EmptyStart, store, AllHeld, MapsHeld
    <2>4. gone \subseteq Ids
      BY DEF Ids
    <2> HIDE DEF gone
    <2>5. r \in Ops
      BY <2>4, IdleTyped DEF Ops, Steps, Thens
    <2>6. TaskHeld(r, Docs', purged')
      BY <2>1, EmptyHeld DEF TaskHeld, Idle
    <2>7. QED
      BY <2>1, <2>3, <2>5, <2>6, WritesHeld
  <1>8. CASE FlushCall(t)
    <2>1. PICK r \in Ops : op' = [op EXCEPT ![t] = r] /\ TaskHeld(r, Docs, purged)
      BY <1>8, IdleTyped, IdleHeld DEF FlushCall, Thens
    <2>2. QED
      BY <1>8, <2>1, QuietHeld DEF FlushCall, memory, store
  <1>9. CASE LoadCall(t)
    <2>1. PICK r \in Ops : op' = [op EXCEPT ![t] = r] /\ TaskHeld(r, Docs, purged)
      BY <1>9, IdleTyped, IdleHeld DEF LoadCall, Steps, LoadSteps
    <2>2. QED
      BY <1>9, <2>1, QuietHeld DEF LoadCall, memory, store
  <1>10. CASE Touch(t)
    BY <1>0, <1>10, QuietHeld DEF Touch, store
  <1>11. CASE UnloadCall(t)
    <2>1. PICK r \in Ops : op' = [op EXCEPT ![t] = r] /\ TaskHeld(r, Docs, purged)
      BY <1>11, IdleTyped, IdleHeld DEF UnloadCall, Steps
    <2>2. QED
      BY <1>11, <2>1, QuietHeld DEF UnloadCall, store
  <1>12. QED
    BY <1>1, <1>2, <1>3, <1>4, <1>5, <1>6, <1>7, <1>8, <1>9, <1>10, <1>11 DEF Call

\* A step that only moves on, or ends its call.
LEMMA GotoHeld ==
    ASSUME Typed, AllHeld, NEW t \in Tasks
    PROVE  /\ \A s \in Steps \ {"addFile", "purge", "purgeMsg", "emptyCache",
                                "emptyMsgs"} :
                  Goto(t, s) => \E r \in Ops : op' = [op EXCEPT ![t] = r]
                                               /\ TaskHeld(r, Docs, purged)
           /\ Return(t) => \E r \in Ops : op' = [op EXCEPT ![t] = r]
                                          /\ TaskHeld(r, Docs, purged)
  <1>1. ASSUME NEW s \in Steps \ {"addFile", "purge", "purgeMsg", "emptyCache",
                                  "emptyMsgs"}, Goto(t, s)
        PROVE  \E r \in Ops : op' = [op EXCEPT ![t] = r] /\ TaskHeld(r, Docs, purged)
    <2> DEFINE r == [op[t] EXCEPT !.pc = s]
    <2>1. r \in Ops
      BY DEF Typed, Ops
    <2>2. r.pc = s /\ r.snap = op[t].snap
      BY DEF Typed, Ops
    <2>3. TaskHeld(r, Docs, purged)
      BY <2>2 DEF AllHeld, TaskHeld
    <2>4. op' = [op EXCEPT ![t] = r]
      BY <1>1 DEF Goto
    <2>5. QED
      BY <2>1, <2>3, <2>4
  <1>2. QED
    BY <1>1, IdleTyped, IdleHeld DEF Return

LEMMA StepHeld ==
    ASSUME Typed, AllHeld, NEW t \in Tasks, Step(t)
    PROVE  AllHeld'
  <1> USE DEF Typed
  <1> DEFINE Moves == \E r \in Ops : op' = [op EXCEPT ![t] = r]
                                     /\ TaskHeld(r, Docs, purged)
  <1>0. /\ op[t] \in Ops /\ TaskHeld(op[t], Docs, purged) /\ op[t].snap \in NodeMaps
        /\ op[t].id \in Parents
    BY DEF AllHeld, Ops
  <1>1. CASE UploadAdd(t)
    <2>1. PICK c \in op[t].cap : AddNode(op[t].id, NewNode(c.parent, c.name))
      BY <1>1 DEF UploadAdd
    <2>2. NewNode(c.parent, c.name) \in Nodes
      BY NewNodeInFolder DEF Captions, Caps, Parents, Ids, Ops
    <2>3. op[t].id \in Ids /\ op[t].id \in Docs
      BY <1>0, <1>1 DEF UploadAdd, Ops, Ids, TaskHeld
    <2>4. Docs' = Docs /\ UNCHANGED <<remote, purged>>
      BY <1>1 DEF UploadAdd, Docs
    <2>5. MapsHeld'
      BY <2>1, <2>2, <2>3, <2>4, AddNodeHeld
    <2>6. Moves
      BY <1>1, GotoHeld DEF UploadAdd
    <2>7. QED
      BY <2>4, <2>5, <2>6, WritesHeld
  <1>2. CASE EditCache(t)
    <2>1. Moves
      BY <1>2, GotoHeld DEF EditCache, Steps
    <2>2. Docs' = Docs /\ purged' = purged
      BY <1>2 DEF EditCache, Docs
    <2>3. DOMAIN cache'.nodes = DOMAIN cache.nodes
      BY <1>2 DEF EditCache, CacheEdit, With, Caches
    <2>4. MapsHeld'
      BY <1>2, <2>2, <2>3 DEF EditCache, memory, AllHeld, MapsHeld, Held
    <2>5. QED
      BY <2>1, <2>2, <2>4, WritesHeld
  <1>3. CASE EditCaption(t)
    <2>1. Moves
      BY <1>3, GotoHeld DEF EditCaption, Steps
    <2>2. Docs' = Docs /\ purged' = purged
      BY <1>3 DEF EditCaption, Docs, With
    <2>3. MapsHeld'
      BY <1>3, <2>2 DEF EditCaption, memory, AllHeld, MapsHeld
    <2>4. QED
      BY <2>1, <2>2, <2>3, WritesHeld
  <1>4. CASE MarkDirty(t)
    <2>1. After(op[t].then) \in Ops /\ TaskHeld(After(op[t].then), Docs, purged)
      BY <1>0, IdleTyped, IdleHeld DEF Ops
    <2>2. QED
      BY <1>4, <2>1, QuietHeld DEF MarkDirty, store
  <1>5. CASE DeletePurge(t)
    <2>1. Docs' = Docs /\ purged' = purged
      BY <1>5 DEF DeletePurge, Docs
    <2>2. CASE Goto(t, "mark") /\ UNCHANGED cache
      <3>1. Moves
        BY <2>2, GotoHeld DEF Steps
      <3>2. QED
        BY <1>5, <2>2, <3>1, QuietHeld DEF DeletePurge, memory
    <2>3. ASSUME NEW x \in op[t].todo, cache' = CacheDelete(cache, {x}),
                 op' = [op EXCEPT ![t].pc = IF x \in Files THEN "purgeMsg" ELSE "purge",
                                  ![t].id = x, ![t].todo = @ \ {x}]
          PROVE  AllHeld'
      <3> DEFINE r == [op[t] EXCEPT !.pc = IF x \in Files THEN "purgeMsg" ELSE "purge",
                                    !.id = x, !.todo = @ \ {x}]
      <3>1. op' = [op EXCEPT ![t] = r] /\ r \in Ops
        BY <1>0, <2>3 DEF Ops, Steps, Parents
      <3>2. /\ r.snap = op[t].snap /\ r.todo \subseteq op[t].todo /\ r.id = x
            /\ r.pc = IF x \in Files THEN "purgeMsg" ELSE "purge"
        BY <1>0 DEF Ops
      <3>3. TaskHeld(r, Docs', purged')
        <4>1. op[t].todo \cap Files \subseteq purged /\ Held(op[t].snap, Docs)
          BY <1>0, <1>5 DEF DeletePurge, TaskHeld
        <4>2. x \in Files => x \in purged
          BY <4>1
        <4> HIDE DEF r
        <4>3. QED
          BY <2>1, <3>2, <4>1, <4>2 DEF TaskHeld
      <3>4. MapsHeld'
        BY <1>5, <2>1, <2>3, HeldFacts, ZenonT(30) DEF DeletePurge, memory, CacheDelete,
           AllHeld, MapsHeld, Caches
      <3>5. QED
        BY <2>1, <3>1, <3>3, <3>4, WritesHeld
    <2>4. QED
      BY <1>5, <2>2, <2>3 DEF DeletePurge
  <1>6. CASE DeleteMessage(t)
    <2> DEFINE r == [op[t] EXCEPT !.pc = "purge"]
    <2>1. op' = [op EXCEPT ![t] = r] /\ r \in Ops
      BY <1>6 DEF DeleteMessage, Goto, Ops, Steps
    <2>2. op[t].id \in purged
      BY <1>0, <1>6 DEF DeleteMessage, TaskHeld
    <2>3. Docs' = Docs /\ purged' = purged
      BY <1>6, <2>2 DEF DeleteMessage, Docs, Without
    <2>4. r.snap = op[t].snap /\ r.todo = op[t].todo /\ r.pc = "purge"
      BY <1>0 DEF Ops
    <2>5. TaskHeld(r, Docs', purged')
      BY <1>0, <1>6, <2>3, <2>4 DEF DeleteMessage, TaskHeld
    <2>6. MapsHeld'
      BY <1>6, <2>3 DEF DeleteMessage, memory, AllHeld, MapsHeld
    <2>7. QED
      BY <2>1, <2>3, <2>5, <2>6, WritesHeld
  <1>7. CASE EmptyCache(t)
    <2> DEFINE r == [op[t] EXCEPT !.pc = "emptyMsgs"]
    <2>1. op' = [op EXCEPT ![t] = r] /\ r \in Ops
      BY <1>7 DEF EmptyCache, Goto, Ops, Steps
    <2>2. Docs' = Docs /\ purged' = purged
      BY <1>7 DEF EmptyCache, Docs
    <2>3. r.snap = op[t].snap /\ r.todo = op[t].todo /\ r.pc = "emptyMsgs"
      BY <1>0 DEF Ops
    <2>4. TaskHeld(r, Docs', purged')
      BY <1>0, <1>7, <2>2, <2>3 DEF EmptyCache, TaskHeld
    <2>5. MapsHeld'
      BY <1>7, <2>2, HeldFacts DEF EmptyCache, memory, CacheDelete, AllHeld,
         MapsHeld, Caches
    <2>6. QED
      BY <2>1, <2>2, <2>4, <2>5, WritesHeld
  <1>8. CASE EmptyMessages(t)
    <2>1. CASE Goto(t, "mark") /\ UNCHANGED msgs
      <3>1. Moves
        BY <2>1, GotoHeld DEF Steps
      <3>2. QED
        BY <1>8, <2>1, <3>1, QuietHeld DEF EmptyMessages, memory
    <2>2. ASSUME NEW x \in op[t].todo, NEW o \in Outcomes("delete"),
                 msgs' = IF o[1] THEN Without(msgs, {x}) ELSE msgs,
                 op' = [op EXCEPT ![t].todo = @ \ {x}]
          PROVE  AllHeld'
      <3> DEFINE r == [op[t] EXCEPT !.todo = @ \ {x}]
      <3>1. op' = [op EXCEPT ![t] = r] /\ r \in Ops
        BY <1>0, <2>2 DEF Ops
      <3>2. r.snap = op[t].snap /\ r.todo \subseteq op[t].todo /\ r.pc = op[t].pc
        BY <1>0 DEF Ops
      <3>3. x \in purged /\ purged' = purged
        BY <1>0, <1>8 DEF EmptyMessages, TaskHeld
      <3>4. Docs' = Docs
        BY <2>2, <3>3 DEF Docs, Without
      <3>5. TaskHeld(r, Docs', purged')
        BY <1>0, <1>8, <3>2, <3>3, <3>4 DEF EmptyMessages, TaskHeld
      <3>6. MapsHeld'
        BY <1>8, <3>4 DEF EmptyMessages, memory, AllHeld, MapsHeld
      <3>7. QED
        BY <3>1, <3>3, <3>4, <3>5, <3>6, WritesHeld
    <2>3. QED
      BY <1>8, <2>1, <2>2 DEF EmptyMessages
  <1>9. CASE Debounce(t)
    <2>1. Moves
      BY <1>9, GotoHeld DEF Debounce, Steps
    <2>2. QED
      BY <1>9, <2>1, QuietHeld DEF Debounce, store
  <1>10. CASE FlushRead(t)
    <2>1. CASE present
      <3> DEFINE r == [op[t] EXCEPT !.pc = "flushLock", !.snap = tree.nodes]
      <3>1. op' = [op EXCEPT ![t] = r]
        BY <1>10, <2>1 DEF FlushRead
      <3>2. r \in Ops /\ r.pc = "flushLock" /\ r.snap = tree.nodes
        BY <1>0 DEF Ops, Steps, InTree
      <3>3. TaskHeld(r, Docs, purged)
        BY <3>2 DEF TaskHeld, AllHeld, MapsHeld
      <3>4. QED
        BY <1>10, <3>1, <3>2, <3>3, QuietHeld DEF FlushRead, memory, store
    <2>2. CASE ~present
      BY <1>10, <2>2, GotoHeld, QuietHeld DEF FlushRead, memory, store
    <2>3. QED
      BY <2>1, <2>2
  <1>11. CASE FlushPrepare(t)
    <2> DEFINE r == [op[t] EXCEPT !.pc = "flushSend", !.ver = NextVersion]
    <2>1. op' = [op EXCEPT ![t] = r]
      BY <1>11 DEF FlushPrepare
    <2>2. NextVersion \in Nat
      BY DEF NextVersion
    <2>3. r \in Ops /\ r.pc = "flushSend" /\ r.snap = op[t].snap
      BY <1>0, <2>2 DEF Ops, Steps
    <2>4. TaskHeld(r, Docs, purged)
      BY <1>0, <2>3 DEF TaskHeld
    <2>5. QED
      BY <1>11, <2>1, <2>3, <2>4, QuietHeld DEF FlushPrepare, memory
  <1>12. CASE FlushSend(t)
    <2>1. Moves
      BY <1>12, GotoHeld DEF FlushSend, Steps
    <2>2. Docs' = Docs /\ purged' = purged
      BY <1>12 DEF FlushSend, Docs
    <2>3. Held(remote'.nodes, Docs)
      BY <1>0, <1>12 DEF FlushSend, TaskHeld, AllHeld, MapsHeld
    <2>4. MapsHeld'
      BY <1>12, <2>2, <2>3 DEF FlushSend, memory, AllHeld, MapsHeld
    <2>5. QED
      BY <2>1, <2>2, <2>4, WritesHeld
  <1>13. CASE FlushDone(t)
    <2>1. Moves
      BY <1>13, GotoHeld DEF FlushDone
    <2>2. QED
      BY <1>13, <2>1, QuietHeld DEF FlushDone, store
  <1>14. CASE LoadFetch(t)
    <2>1. Held(remote.nodes, Docs) /\ Held(Without(cache.nodes, Files), Docs)
      BY HeldFacts DEF AllHeld, MapsHeld
    <2>2. op' = [op EXCEPT ![t] = op'[t]] /\ op'[t] \in Ops
      BY <1>14, StepTyped DEF Step, LoadFetch
    <2>3. op'[t].pc \in {"cacheLoaded", "scan"} /\ Held(op'[t].snap, Docs)
      BY <1>0, <1>14, <2>1 DEF LoadFetch, Ops
    <2>4. TaskHeld(op'[t], Docs, purged)
      BY <2>3 DEF TaskHeld
    <2>5. QED
      BY <1>14, <2>2, <2>4, QuietHeld DEF LoadFetch, memory, store
  <1>15. CASE LoadCache(t)
    <2>1. Moves
      BY <1>15, GotoHeld DEF LoadCache, Steps, LoadSteps
    <2>2. QED
      BY <1>15, <2>1, QuietHeld DEF LoadCache, memory
  <1>16. CASE RebuildScan(t)
    <2>1. CASE Goto(t, "fallback")
      <3>1. Moves
        BY <2>1, GotoHeld DEF Steps, LoadSteps
      <3>2. QED
        BY <1>16, <3>1, QuietHeld DEF RebuildScan, memory, store
    <2>2. ASSUME NEW n \in Names, NEW docs \in Scanned,
                 op' = [op EXCEPT ![t].pc = "cacheRebuilt", ![t].ver = 1,
                                  ![t].snap = Rebuilt(docs, @, n)]
          PROVE  AllHeld'
      <3> DEFINE r == [op[t] EXCEPT !.pc = "cacheRebuilt", !.ver = 1,
                                    !.snap = Rebuilt(docs, @, n)]
      <3>1. op' = [op EXCEPT ![t] = r]
        BY <2>2
      <3>2. /\ Rebuilt(docs, op[t].snap, n) \in NodeMaps
            /\ Held(Rebuilt(docs, op[t].snap, n), Docs)
        BY <1>0, RebuiltTyped, ScanFacts DEF Held, TaskHeld, Docs
      <3>3. r \in Ops /\ r.pc = "cacheRebuilt" /\ r.snap = Rebuilt(docs, op[t].snap, n)
        BY <1>0, <3>2 DEF Ops, Steps, LoadSteps
      <3>4. TaskHeld(r, Docs, purged)
        BY <3>2, <3>3 DEF TaskHeld
      <3>5. QED
        BY <1>16, <3>1, <3>3, <3>4, QuietHeld DEF RebuildScan, memory, store
    <2>3. QED
      BY <1>16, <2>1, <2>2 DEF RebuildScan
  <1>17. CASE RebuildCache(t)
    <2>1. Moves
      BY <1>17, GotoHeld DEF RebuildCache, Steps, LoadSteps
    <2>2. QED
      BY <1>17, <2>1, QuietHeld DEF RebuildCache, memory
  <1>18. CASE RebuildPublish(t)
    <2>1. Moves
      BY <1>18, GotoHeld DEF RebuildPublish, Steps, LoadSteps
    <2>2. Docs' = Docs /\ purged' = purged
      BY <1>18 DEF RebuildPublish, Docs
    <2>3. Held(remote'.nodes, Docs)
      BY <1>0, <1>18 DEF RebuildPublish, TaskHeld, AllHeld, MapsHeld
    <2>4. MapsHeld'
      BY <1>18, <2>2, <2>3 DEF RebuildPublish, memory, AllHeld, MapsHeld
    <2>5. QED
      BY <2>1, <2>2, <2>4, WritesHeld
  <1>19. CASE LoadFallback(t)
    <2>1. Moves
      BY <1>19, GotoHeld DEF LoadFallback
    <2>2. Docs' = Docs /\ purged' = purged
      BY <1>19 DEF LoadFallback, store, Docs
    <2>3. tree'.nodes = cache.nodes
      BY <1>19, FromNodesTyped DEF LoadFallback, Caches
    <2>4. MapsHeld'
      BY <1>19, <2>2, <2>3 DEF LoadFallback, store, AllHeld, MapsHeld
    <2>5. QED
      BY <2>1, <2>2, <2>4, WritesHeld
  <1>20. CASE LoadInstall(t)
    <2>1. Moves
      BY <1>20, GotoHeld DEF LoadInstall, Steps, LoadSteps
    <2>2. Docs' = Docs /\ purged' = purged
      BY <1>20 DEF LoadInstall, store, Docs
    <2>3. tree'.nodes = op[t].snap
      BY <1>0, <1>20, FromNodesTyped DEF LoadInstall
    <2>4. MapsHeld'
      BY <1>0, <1>20, <2>2, <2>3 DEF LoadInstall, store, AllHeld, MapsHeld, TaskHeld
    <2>5. QED
      BY <2>1, <2>2, <2>4, WritesHeld
  <1>21. CASE LoadInstallVersion(t)
    <2>1. Moves
      BY <1>21, GotoHeld DEF LoadInstallVersion
    <2>2. QED
      BY <1>21, <2>1, QuietHeld DEF LoadInstallVersion, store
  <1>22. CASE UnloadVersion(t)
    <2>1. Moves
      BY <1>22, GotoHeld DEF UnloadVersion, Steps
    <2>2. QED
      BY <1>22, <2>1, QuietHeld DEF UnloadVersion, store
  <1>23. CASE UnloadRest(t)
    <2>1. Moves
      BY <1>23, GotoHeld DEF UnloadRest, Steps
    <2>2. QED
      BY <1>23, <2>1, QuietHeld DEF UnloadRest, store
  <1>24. CASE DropCache(t)
    <2>1. Moves
      BY <1>24, GotoHeld DEF DropCache
    <2>2. QED
      BY <1>24, <2>1, QuietHeld DEF DropCache, memory
  <1>25. QED
    BY <1>1, <1>2, <1>3, <1>4, <1>5, <1>6, <1>7, <1>8, <1>9, <1>10, <1>11, <1>12,
       <1>13, <1>14, <1>15, <1>16, <1>17, <1>18, <1>19, <1>20, <1>21, <1>22, <1>23,
       <1>24 DEF Step

LEMMA OtherHeld ==
    ASSUME Typed, AllHeld, Clock \/ Crash \/ UNCHANGED vars
    PROVE  AllHeld'
  <1>1. CASE Clock \/ UNCHANGED vars
    <2>1. UNCHANGED <<tree, cache, remote, msgs, op, purged>>
      BY <1>1 DEF Clock, vars, memory, store
    <2>2. Docs' = Docs
      BY <2>1 DEF Docs
    <2>3. QED
      BY <2>1, <2>2 DEF AllHeld, MapsHeld
  <1>2. CASE Crash
    <2>1. /\ tree'.nodes = EmptyMap /\ UNCHANGED <<cache, remote, msgs, purged>>
          /\ \A t \in Tasks : op'[t] = Idle
      BY <1>2, EmptyTreeTyped DEF Crash, store
    <2>2. Docs' = Docs
      BY <2>1 DEF Docs
    <2>3. QED
      BY <2>1, <2>2, EmptyHeld, IdleHeld DEF AllHeld, MapsHeld
  <1>3. QED
    BY <1>1, <1>2

LEMMA NextHeld == Typed /\ AllHeld /\ [Next]_vars => AllHeld'
  BY CallHeld, StepHeld, OtherHeld DEF Next

\* upload_file_data sends the document before the node exists, a delete and
\* an empty-trash take the node out before the document goes: so no copy of
\* the index, in memory, in the cache, in the channel or held by a call,
\* speaks of a file without a document, whatever fails and whenever the
\* process restarts, unless the file was deleted.
THEOREM DocumentsKept == Spec => []NoFileWithoutDocument
  <1>1. AllHeld => NoFileWithoutDocument
    BY DEF AllHeld, MapsHeld, TaskHeld, Held, Docs, NoFileWithoutDocument
  <1>2. QED
    BY <1>1, InitHeld, NextHeld, AlwaysTyped, PTL DEF Spec

-----------------------------------------------------------------------------
(* What the steps do to the record of their task                            *)

Unloading == {"unloadVer", "unloadRest", "dropCache"}
\* The steps a call begins with, if it is no load and no unload, ...
FreshSteps == {"idle", "addFile", "editCache", "purge", "emptyCache", "debounce",
               "flushRead"}
\* ... and those that go on from there up to the copy a flush makes.
WorkSteps == {"addFile", "editCache", "editCaption", "mark", "purge", "purgeMsg",
              "emptyCache", "emptyMsgs", "debounce", "flushRead"}

LEMMA CallBegins ==
    ASSUME LoadAlone, Typed, NEW t \in Tasks, Call(t)
    PROVE  /\ op' = [op EXCEPT ![t] = op'[t]] /\ op[t].pc = "idle"
           /\ UNCHANGED <<ver, remote, versLock>>
           /\ \/ /\ op'[t].pc \in FreshSteps \/ (UnloadCall(t) /\ op'[t].pc = "unloadVer")
                 /\ ver > 0 /\ \A u \in Tasks : op[u].pc \notin LoadSteps
              \/ LoadCall(t) /\ op'[t].pc = "fetch" /\ AllIdle
  <1> USE DEF Typed
  <1> DEFINE r == op'[t]
             Alone == \A u \in Tasks : op[u].pc \notin LoadSteps
             Begun == /\ op' = [op EXCEPT ![t] = r] /\ r.pc \in FreshSteps
                      /\ ver > 0 /\ Alone /\ op[t].pc = "idle"
                      /\ UNCHANGED <<ver, remote, versLock>>
  <1>0. op = [op EXCEPT ![t] = op[t]]
    OBVIOUS
  <1>1. \A k : Begin(t, k) /\ k # "load" => ver > 0 /\ Alone /\ op[t].pc = "idle"
    BY DEF Begin
  <1>2. \A q \in FreshSteps : [Idle EXCEPT !.pc = q].pc = q
    BY DEF Idle
  <1>3. \A th \in Thens : After(th).pc \in FreshSteps
    BY DEF After, Thens, Idle, FreshSteps
  <1> HIDE DEF Alone
  <1>4. ASSUME NEW id \in Folders, NEW p \in Parents, NEW n \in Names,
               CreateFolder(t, id, p, n)
        PROVE  Begun
    BY <1>1, <1>3, <1>4 DEF CreateFolder, locks, Thens
  <1>5. ASSUME NEW id \in Files, NEW p \in Parents, NEW n \in Names,
               UploadSend(t, id, p, n)
        PROVE  Begun
    <2>1. op' = op \/ op' = [op EXCEPT ![t] = [Idle EXCEPT !.pc = "addFile", !.id = id,
                                !.cap = {CaptionOf(NewNode(p, n))}]]
      BY <1>5 DEF UploadSend
    <2>2. op[t].pc \in FreshSteps /\ [Idle EXCEPT !.pc = "addFile", !.id = id,
                                !.cap = {CaptionOf(NewNode(p, n))}].pc \in FreshSteps
      BY <1>1, <1>5 DEF UploadSend, Idle, FreshSteps
    <2>3. QED
      BY <1>0, <1>1, <1>5, <2>1, <2>2 DEF UploadSend, memory, locks
  <1>6. ASSUME NEW id \in Ids, NEW e \in Edits, EditStart(t, id, e)
        PROVE  Begun
    BY <1>1, <1>2, <1>6 DEF FreshSteps, EditStart, Idle, store, locks
  <1>7. ASSUME NEW id \in Ids, NEW b \in BOOLEAN, TogglePin(t, id, b)
        PROVE  Begun
    BY <1>0, <1>1, <1>2, <1>7 DEF FreshSteps, TogglePin, store, locks
  <1>8. ASSUME NEW id \in Ids, DavMove(t, id)
        PROVE  Begun
    BY <1>1, <1>2, <1>3, <1>8 DEF FreshSteps, DavMove, Thens, Idle, store, locks
  <1>9. ASSUME NEW id \in Ids, DeleteStart(t, id)
        PROVE  Begun
    BY <1>1, <1>2, <1>9 DEF FreshSteps, DeleteStart, Idle, store, locks
  <1>10. ASSUME EmptyStart(t) \/ FlushCall(t)
         PROVE  Begun
    <2>1. CASE EmptyStart(t)
      BY <1>1, <2>1 DEF EmptyStart, FreshSteps, Idle, store, locks
    <2>2. CASE FlushCall(t)
      BY <1>1, <1>3, <2>2 DEF FlushCall, Thens, memory, store, locks
    <2>3. QED
      BY <1>10, <2>1, <2>2
  <1>11. CASE LoadCall(t)
    BY <1>11 DEF LoadCall, Begin, Idle, memory, store, locks
  <1>12. ASSUME Touch(t)
         PROVE  Begun
    BY <1>0, <1>1, <1>2, <1>12 DEF FreshSteps, Touch, store, locks
  <1>13. CASE UnloadCall(t)
    BY <1>1, <1>13 DEF UnloadCall, Idle, store, locks, Alone
  <1>14. CASE Begun
    BY <1>14 DEF Alone
  <1> HIDE DEF Begun
  <1>15. QED
    BY <1>4, <1>5, <1>6, <1>7, <1>8, <1>9, <1>10, <1>11, <1>12, <1>13, <1>14 DEF Call

LEMMA WorkMoves ==
    ASSUME Typed, NEW t \in Tasks,
           \/ UploadAdd(t) \/ EditCache(t) \/ EditCaption(t) \/ MarkDirty(t)
           \/ DeletePurge(t) \/ DeleteMessage(t) \/ EmptyCache(t) \/ EmptyMessages(t)
           \/ Debounce(t)
    PROVE  /\ op' = [op EXCEPT ![t] = op'[t]] /\ UNCHANGED <<ver, remote, versLock>>
           /\ op[t].pc \in WorkSteps /\ op'[t].pc \in WorkSteps \cup {"idle"}
  <1> USE DEF Typed, WorkSteps
  <1> DEFINE r == op'[t]
             Worked == /\ op' = [op EXCEPT ![t] = r] /\ UNCHANGED <<ver, remote, versLock>>
                       /\ op[t].pc \in WorkSteps /\ r.pc \in WorkSteps \cup {"idle"}
  <1>0. op[t] \in Ops
    BY DEF Ops
  <1>1. \A th \in Thens : After(th).pc \in WorkSteps \cup {"idle"}
    BY DEF After, Idle, Thens
  <1>3. ASSUME \/ UploadAdd(t) \/ EditCache(t) \/ EditCaption(t) \/ MarkDirty(t)
               \/ Debounce(t)
        PROVE  Worked
    <2>1. op[t].then \in Thens
      BY DEF Ops
    <2>2. CASE UploadAdd(t)
      BY <2>2 DEF UploadAdd, Return, Idle, locks
    <2>3. CASE EditCache(t)
      BY <2>3 DEF EditCache, Goto, Ops, memory, locks
    <2>4. CASE EditCaption(t)
      BY <2>4 DEF EditCaption, Goto, Ops, memory, locks
    <2>5. CASE MarkDirty(t)
      BY <1>1, <2>1, <2>5 DEF MarkDirty, store, locks
    <2>6. CASE Debounce(t)
      BY <2>6 DEF Debounce, Goto, Return, Idle, Ops, store, locks
    <2>7. QED
      BY <1>3, <2>2, <2>3, <2>4, <2>5, <2>6
  <1>4. ASSUME DeletePurge(t) \/ DeleteMessage(t) \/ EmptyCache(t) \/ EmptyMessages(t)
        PROVE  Worked
    <2>1. CASE DeletePurge(t)
      <3>1. CASE Goto(t, "mark")
        <4>1. op' = [op EXCEPT ![t] = [op[t] EXCEPT !.pc = "mark"]]
          BY <3>1 DEF Goto
        <4>2. op' = [op EXCEPT ![t] = r] /\ r.pc = "mark"
          BY <1>0, <4>1, SMTT(30) DEF Ops
        <4>3. UNCHANGED <<ver, remote, versLock>> /\ op[t].pc = "purge"
          BY <2>1 DEF DeletePurge, memory, locks
        <4>4. QED
          BY <4>2, <4>3
      <3>2. ASSUME NEW x \in op[t].todo,
                   op' = [op EXCEPT ![t].pc = IF x \in Files THEN "purgeMsg" ELSE "purge",
                                    ![t].id = x, ![t].todo = @ \ {x}]
            PROVE  op' = [op EXCEPT ![t] = r] /\ r.pc \in {"purge", "purgeMsg"}
        <4>1. op' = [op EXCEPT ![t] = [op[t] EXCEPT
                        !.pc = IF x \in Files THEN "purgeMsg" ELSE "purge",
                        !.id = x, !.todo = @ \ {x}]]
          BY <3>2
        <4>2. QED
          BY <1>0, <4>1 DEF Ops
      <3>3. QED
        BY <2>1, <3>1, <3>2 DEF DeletePurge, memory, locks
    <2>2. CASE DeleteMessage(t)
      BY <2>2 DEF DeleteMessage, Goto, Ops, memory, locks
    <2>3. CASE EmptyCache(t)
      BY <2>3 DEF EmptyCache, Goto, Ops, memory, locks
    <2>4. CASE EmptyMessages(t)
      BY <1>0, <2>4, ZenonT(30) DEF EmptyMessages, Goto, Ops, memory, locks
    <2>5. QED
      BY <1>4, <2>1, <2>2, <2>3, <2>4, SMTT(30)
  <1>5. QED
    BY <1>3, <1>4

-----------------------------------------------------------------------------
(* Each manifest is newer than the one before                               *)

\* The use the UI makes of the engine, with a channel whose manifest can be
\* read and replaced: a drive is loaded before it is used, and no drive is
\* deleted.
LoadsFirst ==
    LoadAlone /\ "fetch" \notin Faults /\ "flush" \notin Faults /\ "unload" \notin Calls

Flushing == {"flushSend", "flushDone"}

\* What a task with record r knows of the version v in memory and of the
\* version w in the channel.
TaskVersion(r, v, w) ==
    /\ r.pc \notin Unloading
    /\ r.pc \notin {"idle"} \cup LoadSteps => v > 0
    /\ r.pc = "flushSend" => r.ver = v + 1
    /\ r.pc = "flushDone" => r.ver = v + 1 /\ w = r.ver
    /\ r.pc \in {"cacheLoaded", "install", "installVer"} => r.ver > 0 /\ w = r.ver
    /\ r.pc \in {"scan", "cacheRebuilt", "publish"} => w = 0
    /\ r.pc \in {"cacheRebuilt", "publish"} => r.ver = 1

LockHeld == \A t \in Tasks : versLock = t <=> op[t].pc \in Flushing
LoadsAlone ==
    \A t, u \in Tasks : op[t].pc \in LoadSteps /\ t # u => op[u].pc = "idle"
InStep ==
    ver > 0 /\ (\A t \in Tasks : op[t].pc # "flushDone") => remote.ver = ver
Versions ==
    LockHeld /\ LoadsAlone /\ InStep
        /\ \A t \in Tasks : TaskVersion(op[t], ver, remote.ver)

\* A step that neither publishes nor changes the version in memory.
LEMMA QuietVersions ==
    ASSUME Typed, Versions, NEW t \in Tasks, NEW r,
           op' = [op EXCEPT ![t] = r], UNCHANGED <<ver, remote, versLock>>,
           r.pc \notin Flushing, op[t].pc \notin Flushing,
           r.pc \in LoadSteps => \A u \in Tasks \ {t} : op[u].pc = "idle",
           r.pc # "idle" => \A u \in Tasks \ {t} : op[u].pc \notin LoadSteps,
           TaskVersion(r, ver, remote.ver)
    PROVE  Versions'
  <1>1. \A u \in Tasks : op'[u] = IF u = t THEN r ELSE op[u]
    BY DEF Typed
  <1>2. LockHeld' /\ LoadsAlone' /\ InStep'
    BY <1>1 DEF Versions, LockHeld, LoadsAlone, InStep, Flushing
  <1>3. \A u \in Tasks : TaskVersion(op'[u], ver', remote'.ver)
    BY <1>1 DEF Versions
  <1>4. QED
    BY <1>2, <1>3 DEF Versions

LEMMA CallVersions ==
    ASSUME LoadsFirst, Typed, Versions, NEW t \in Tasks, Call(t)
    PROVE  Versions' /\ UNCHANGED remote
  <1> DEFINE r == op'[t]
  <1>0. /\ op' = [op EXCEPT ![t] = r] /\ op[t].pc = "idle"
        /\ UNCHANGED <<ver, remote, versLock>>
        /\ \/ r.pc \in FreshSteps /\ ver > 0 /\ \A u \in Tasks : op[u].pc \notin LoadSteps
           \/ r.pc = "fetch" /\ AllIdle
    BY CallBegins DEF LoadsFirst, UnloadCall, Begin
  <1> HIDE DEF r
  <1>1. TaskVersion(r, ver, remote.ver)
    BY <1>0 DEF TaskVersion, FreshSteps, LoadSteps, Unloading
  <1>2. /\ r.pc \notin Flushing /\ op[t].pc \notin Flushing
        /\ r.pc \in LoadSteps => \A u \in Tasks \ {t} : op[u].pc = "idle"
        /\ r.pc # "idle" => \A u \in Tasks \ {t} : op[u].pc \notin LoadSteps
    BY <1>0 DEF AllIdle, FreshSteps, LoadSteps, Flushing
  <1>3. QED
    BY <1>0, <1>1, <1>2, QuietVersions

\* One step of a call; a new manifest has a higher version.
LEMMA StepVersions ==
    ASSUME LoadsFirst, Typed, Versions, NEW t \in Tasks, Step(t)
    PROVE  Versions' /\ (remote' # remote => remote'.ver > remote.ver)
  <1> USE DEF Typed
  <1> DEFINE r == op'[t]
             Quiet == op' = [op EXCEPT ![t] = r] /\ UNCHANGED <<ver, remote, versLock>>
             Busy == WorkSteps \cup {"flushLock"}
             Worked == Quiet /\ op[t].pc \in Busy /\ r.pc \in Busy \cup {"idle"}
  <1>0. /\ op[t] \in Ops /\ op[t].ver \in Nat /\ remote.ver \in Nat
        /\ TaskVersion(op[t], ver, remote.ver)
        /\ op[t].pc \in Busy => ver > 0
    BY DEF Versions, Ops, Manifests, TaskVersion, LoadSteps, WorkSteps
  <1>2. CASE Worked
    <2>1. TaskVersion(r, ver, remote.ver)
      BY <1>0, <1>2 DEF TaskVersion, LoadSteps, Unloading, WorkSteps
    <2>2. /\ r.pc \notin Flushing /\ op[t].pc \notin Flushing
          /\ r.pc \notin LoadSteps
          /\ \A u \in Tasks \ {t} : op[u].pc \notin LoadSteps
      BY <1>2 DEF Flushing, LoadSteps, WorkSteps, Versions, LoadsAlone
    <2> HIDE DEF r
    <2>3. QED
      BY <1>2, <2>1, <2>2, QuietVersions
  <1>3. ASSUME \/ UploadAdd(t) \/ EditCache(t) \/ EditCaption(t) \/ MarkDirty(t)
               \/ DeletePurge(t) \/ DeleteMessage(t) \/ EmptyCache(t)
               \/ EmptyMessages(t) \/ Debounce(t)
        PROVE  Worked
    BY <1>3, WorkMoves
  <1>4. ASSUME FlushRead(t)
        PROVE  Worked
    BY <1>4 DEF FlushRead, Return, Idle, Ops, memory, store, locks, WorkSteps
  <1>5. CASE FlushPrepare(t)
    <2>1. /\ op' = [op EXCEPT ![t] = r] /\ r.pc = "flushSend" /\ r.ver = ver + 1
          /\ versLock = Free /\ versLock' = t /\ UNCHANGED <<ver, remote>>
          /\ op[t].pc = "flushLock"
      <3>1. op' = [op EXCEPT ![t] = [op[t] EXCEPT !.pc = "flushSend",
                                                 !.ver = NextVersion]]
        BY <1>5 DEF FlushPrepare
      <3>2. op[t].pc = "flushLock" /\ NextVersion = ver + 1
        BY <1>0, <1>5 DEF FlushPrepare, NextVersion
      <3>3. QED
        BY <1>0, <1>5, <3>1, <3>2, ZenonT(30) DEF FlushPrepare, Ops, memory
    <2>2. TaskVersion(r, ver, remote.ver)
      BY <1>0, <2>1 DEF TaskVersion, LoadSteps, Unloading
    <2>3. \A u \in Tasks : op[u].pc \notin Flushing
      BY <2>1, EngineAssumption DEF Versions, LockHeld, Free
    <2>4. \A u \in Tasks : op'[u] = IF u = t THEN r ELSE op[u]
      BY <2>1
    <2> HIDE DEF r
    <2>5. LockHeld' /\ LoadsAlone' /\ InStep'
      BY <2>1, <2>3, <2>4 DEF Versions, LockHeld, LoadsAlone, InStep, Flushing, LoadSteps
    <2>6. \A u \in Tasks : TaskVersion(op'[u], ver', remote'.ver)
      BY <2>1, <2>2, <2>4 DEF Versions
    <2>7. QED
      BY <2>1, <2>5, <2>6 DEF Versions
  <1>6. ASSUME op[t].pc \in Flushing
        PROVE  /\ \A u \in Tasks \ {t} : op[u].pc \notin Flushing \cup LoadSteps
               /\ versLock = t /\ ver > 0
    BY <1>0, <1>6 DEF Versions, LockHeld, LoadsAlone, Flushing, LoadSteps, TaskVersion
  <1>7. CASE FlushSend(t)
    <2>1. /\ op' = [op EXCEPT ![t] = r] /\ op[t].pc = "flushSend" /\ ver' = ver
          /\ r.pc = "flushDone" /\ r.ver = op[t].ver /\ versLock' = versLock
          /\ remote' = [ver |-> op[t].ver, nodes |-> op[t].snap]
      <3>1. Outcomes("flush") = {<<TRUE, TRUE>>}
        BY DEF LoadsFirst, Outcomes
      <3>2. /\ Goto(t, "flushDone") /\ versLock' = versLock
            /\ remote' = [ver |-> op[t].ver, nodes |-> op[t].snap]
        <4>1. <<TRUE, TRUE>>[1] /\ <<TRUE, TRUE>>[2]
          OBVIOUS
        <4>2. PICK o \in Outcomes("flush") :
                /\ remote' = IF o[1] THEN [ver |-> op[t].ver, nodes |-> op[t].snap]
                             ELSE remote
                /\ IF o[1] /\ o[2]
                   THEN Goto(t, "flushDone") /\ UNCHANGED versLock
                   ELSE Return(t) /\ versLock' = Free
          BY <1>7 DEF FlushSend
        <4>3. o = <<TRUE, TRUE>>
          BY <3>1
        <4>4. o[1] /\ o[2]
          BY <4>1, <4>3
        <4>5. QED
          BY <4>2, <4>4
      <3>3. QED
        BY <1>0, <1>7, <3>2 DEF FlushSend, Goto, Ops, memory
    <2>2. /\ \A u \in Tasks \ {t} : op[u].pc \notin Flushing \cup LoadSteps
          /\ versLock = t /\ ver > 0
      BY <1>6, <2>1 DEF Flushing
    <2>3. remote.ver = ver /\ remote'.ver = ver + 1 /\ op[t].ver = ver + 1
      BY <1>0, <2>1, <2>2 DEF Versions, InStep, Flushing, TaskVersion
    <2>4. \A u \in Tasks : op'[u] = IF u = t THEN r ELSE op[u]
      BY <2>1
    <2> HIDE DEF r
    <2>5. LockHeld' /\ LoadsAlone' /\ InStep'
      BY <2>1, <2>2, <2>4 DEF Versions, LockHeld, LoadsAlone, InStep, Flushing, LoadSteps
    <2>6. ASSUME NEW u \in Tasks
          PROVE  TaskVersion(op'[u], ver', remote'.ver)
      <3>1. CASE u = t
        BY <2>1, <2>2, <2>3, <2>4, <3>1 DEF TaskVersion, LoadSteps, Unloading
      <3>2. CASE u # t
        <4>1. op[u].pc \notin Flushing \cup LoadSteps /\ TaskVersion(op[u], ver, remote.ver)
          BY <2>2, <3>2 DEF Versions
        <4>2. QED
          BY <2>1, <2>4, <3>2, <4>1 DEF TaskVersion, Flushing, LoadSteps
      <3>3. QED
        BY <3>1, <3>2
    <2>7. QED
      BY <2>3, <2>5, <2>6 DEF Versions
  <1>8. CASE FlushDone(t)
    <2>1. /\ op' = [op EXCEPT ![t] = r] /\ op[t].pc = "flushDone" /\ ver' = op[t].ver
          /\ r.pc = "idle" /\ versLock' = Free /\ remote' = remote
      BY <1>8 DEF FlushDone, Return, Idle, store
    <2>2. /\ \A u \in Tasks \ {t} : op[u].pc \notin Flushing \cup LoadSteps
          /\ versLock = t /\ ver > 0
      BY <1>6, <2>1 DEF Flushing
    <2>3. remote.ver = ver' /\ ver' > 0
      BY <1>0, <2>1, <2>2 DEF TaskVersion
    <2>4. \A u \in Tasks : op'[u] = IF u = t THEN r ELSE op[u]
      BY <2>1
    <2> HIDE DEF r
    <2>5. LockHeld' /\ LoadsAlone' /\ InStep'
      BY <2>1, <2>2, <2>3, <2>4, EngineAssumption DEF Versions, LockHeld, LoadsAlone,
         InStep, Flushing, LoadSteps, Free
    <2>6. ASSUME NEW u \in Tasks
          PROVE  TaskVersion(op'[u], ver', remote'.ver)
      <3>1. CASE u = t
        BY <2>1, <2>4, <3>1 DEF TaskVersion, LoadSteps, Unloading
      <3>2. CASE u # t
        <4>1. op[u].pc \notin Flushing \cup LoadSteps /\ TaskVersion(op[u], ver, remote.ver)
          BY <2>2, <3>2 DEF Versions
        <4>2. QED
          BY <2>3, <2>4, <3>2, <4>1 DEF TaskVersion, Flushing, LoadSteps
      <3>3. QED
        BY <3>1, <3>2
    <2>7. QED
      BY <2>1, <2>5, <2>6 DEF Versions
  <1>9. ASSUME op[t].pc \in LoadSteps
        PROVE  \A u \in Tasks \ {t} : op[u].pc = "idle"
    BY <1>9 DEF Versions, LoadsAlone
  <1>10. ASSUME Quiet, op[t].pc \in LoadSteps, r.pc \in LoadSteps \cup {"idle"},
                TaskVersion(r, ver, remote.ver)
         PROVE  Versions'
    <2>1. /\ r.pc \notin Flushing /\ op[t].pc \notin Flushing
          /\ \A u \in Tasks \ {t} : op[u].pc = "idle" /\ op[u].pc \notin LoadSteps
      BY <1>9, <1>10 DEF Flushing, LoadSteps
    <2> HIDE DEF r
    <2>2. QED
      BY <1>10, <2>1, QuietVersions
  <1>11. CASE LoadFetch(t)
    <2>1. /\ Quiet /\ op[t].pc = "fetch"
          /\ \/ r.pc = "cacheLoaded" /\ r.ver = remote.ver /\ remote.ver > 0
             \/ r.pc = "scan" /\ remote.ver = 0
      BY <1>0, <1>11 DEF LoadFetch, LoadsFirst, Ops, memory, store, locks
    <2>2. TaskVersion(r, ver, remote.ver)
      BY <2>1 DEF TaskVersion, LoadSteps, Unloading
    <2>3. QED
      BY <1>10, <2>1, <2>2 DEF LoadSteps
  <1>12. CASE LoadCache(t) \/ LoadInstall(t) \/ RebuildCache(t)
    <2>1. /\ Quiet /\ r.ver = op[t].ver
          /\ \/ r.pc = "install" /\ op[t].pc = "cacheLoaded"
             \/ r.pc = "installVer" /\ op[t].pc = "install"
             \/ r.pc = "publish" /\ op[t].pc = "cacheRebuilt"
      BY <1>0, <1>12 DEF LoadCache, LoadInstall, RebuildCache, Goto, Ops, memory, store,
         locks
    <2>2. TaskVersion(r, ver, remote.ver)
      BY <1>0, <2>1 DEF TaskVersion, LoadSteps, Unloading
    <2>3. QED
      BY <1>10, <2>1, <2>2 DEF LoadSteps
  <1>13. CASE RebuildScan(t) \/ LoadFallback(t)
    <2>1. /\ Quiet
          /\ \/ r.pc = "cacheRebuilt" /\ r.ver = 1 /\ op[t].pc = "scan"
             \/ r.pc = "fallback" /\ op[t].pc = "scan"
             \/ r.pc = "idle" /\ op[t].pc = "fallback"
      BY <1>0, <1>13 DEF RebuildScan, LoadFallback, Goto, Return, Idle, Ops, memory,
         store, locks
    <2>2. TaskVersion(r, ver, remote.ver)
      BY <1>0, <2>1 DEF TaskVersion, LoadSteps, Unloading
    <2>3. QED
      BY <1>10, <1>13, <2>1, <2>2 DEF LoadSteps
  <1>14. CASE RebuildPublish(t)
    <2>1. /\ op' = [op EXCEPT ![t] = r] /\ op[t].pc = "publish" /\ ver' = ver
          /\ r.ver = op[t].ver /\ versLock' = versLock
          /\ \/ r.pc = "install" /\ remote'.ver = 1
             \/ r.pc = "fallback" /\ (remote' = remote \/ remote'.ver = 1)
      BY <1>0, <1>14 DEF RebuildPublish, Outcomes, Goto, Ops, memory, locks
    <2>2. remote.ver = 0 /\ op[t].ver = 1 /\ \A u \in Tasks \ {t} : op[u].pc = "idle"
      BY <1>0, <1>9, <2>1 DEF TaskVersion, LoadSteps
    <2>3. ver = 0
      BY <2>1, <2>2 DEF Versions, InStep
    <2>4. \A u \in Tasks : op'[u] = IF u = t THEN r ELSE op[u]
      BY <2>1
    <2> HIDE DEF r
    <2>5. LockHeld' /\ LoadsAlone' /\ InStep'
      BY <2>1, <2>2, <2>3, <2>4 DEF Versions, LockHeld, LoadsAlone, InStep, Flushing
    <2>6. \A u \in Tasks : TaskVersion(op'[u], ver', remote'.ver)
      BY <2>1, <2>2, <2>4 DEF TaskVersion, LoadSteps, Unloading
    <2>7. QED
      BY <2>1, <2>2, <2>5, <2>6 DEF Versions
  <1>15. CASE LoadInstallVersion(t)
    <2>1. /\ op' = [op EXCEPT ![t] = r] /\ op[t].pc = "installVer" /\ ver' = op[t].ver
          /\ r.pc = "idle" /\ versLock' = versLock /\ remote' = remote
      BY <1>15 DEF LoadInstallVersion, Return, Idle, store
    <2>2. ver' = remote.ver /\ \A u \in Tasks \ {t} : op[u].pc = "idle"
      BY <1>0, <1>9, <2>1 DEF TaskVersion, LoadSteps
    <2>3. \A u \in Tasks : op'[u] = IF u = t THEN r ELSE op[u]
      BY <2>1
    <2> HIDE DEF r
    <2>4. LockHeld' /\ LoadsAlone' /\ InStep'
      BY <2>1, <2>2, <2>3 DEF Versions, LockHeld, LoadsAlone, InStep, Flushing
    <2>5. \A u \in Tasks : TaskVersion(op'[u], ver', remote'.ver)
      BY <2>1, <2>2, <2>3 DEF TaskVersion, LoadSteps, Unloading
    <2>6. QED
      BY <2>1, <2>4, <2>5 DEF Versions
  <1>16. CASE UnloadVersion(t) \/ UnloadRest(t) \/ DropCache(t)
    BY <1>0, <1>16 DEF UnloadVersion, UnloadRest, DropCache, TaskVersion, Unloading
  <1>17. UNCHANGED remote \/ FlushSend(t) \/ RebuildPublish(t)
    BY <1>3, <1>4, <1>5, <1>8, <1>11, <1>12, <1>13, <1>15, <1>16
       DEF Step, FlushPrepare, FlushDone, LoadFetch, LoadCache, LoadInstall, RebuildCache,
           RebuildScan, LoadFallback, LoadInstallVersion, UnloadVersion, UnloadRest,
           DropCache, store
  <1>18. QED
    BY <1>2, <1>3, <1>4, <1>5, <1>7, <1>8, <1>11, <1>12, <1>13, <1>14, <1>15, <1>16,
       <1>17 DEF Step

LEMMA OtherVersions ==
    ASSUME Typed, Versions, Clock \/ Crash \/ UNCHANGED vars
    PROVE  Versions' /\ UNCHANGED remote
  <1>1. CASE Clock \/ UNCHANGED vars
    <2>1. UNCHANGED <<ver, remote, versLock, op>>
      BY <1>1 DEF Clock, vars, memory, store, locks
    <2>2. QED
      BY <2>1 DEF Versions, LockHeld, LoadsAlone, InStep
  <1>2. CASE Crash
    <2>1. /\ ver' = 0 /\ remote' = remote /\ versLock' = Free
          /\ \A t \in Tasks : op'[t].pc = "idle"
      BY <1>2 DEF Crash, store, Idle
    <2>2. QED
      BY <2>1, EngineAssumption DEF Versions, LockHeld, LoadsAlone, InStep, TaskVersion,
         Flushing, LoadSteps, Unloading, Free
  <1>3. QED
    BY <1>1, <1>2

LEMMA InitVersions == Init => Versions
  BY EngineAssumption DEF Init, Versions, LockHeld, LoadsAlone, InStep, TaskVersion,
     Flushing, LoadSteps, Unloading, Free, Idle

\* flush_manifest reads the version, uploads and writes the version back under
\* one hold of the lock, and a load takes the version of the manifest it
\* installs: with any number of calls flushing at once, each manifest put over
\* another has a higher version.  A failed flush whose request took effect, a
\* manifest that could not be read and a deleted drive are excluded: after
\* those the engine does repeat a version.
THEOREM ManifestVersionsGrow ==
    ASSUME LoadsFirst
    PROVE  Spec => VersionsGrow
  <1>1. Typed /\ Versions /\ [Next]_vars
            => Versions' /\ [remote'.ver > remote.ver]_remote
    BY CallVersions, StepVersions, OtherVersions DEF Next
  <1>2. [remote'.ver > remote.ver]_remote
            => [remote' # remote => remote'.ver > remote.ver]_remote
    OBVIOUS
  <1>3. QED
    BY <1>1, <1>2, InitVersions, AlwaysTyped, PTL DEF Spec, VersionsGrow

-----------------------------------------------------------------------------
(* A file the manifest lists stays listed                                   *)

\* One call at a time on drives that are loaded before they are used; any
\* request may fail, at any point the process may restart.
OneCallAtATime == LoadAlone /\ \E t \in Tasks : Tasks = {t}

\* Every file of w is in m or was taken out of the tree for good.
Listed(m, w, gone) == DOMAIN w \cap Files \subseteq DOMAIN m \cup gone

Asking == {"fetch", "cacheLoaded", "scan", "cacheRebuilt", "publish"}

\* Where the files of the manifest are while the task is at a step: in the
\* tree of a loaded drive, in the copy a flush or a load is about to publish,
\* install or fall back to.  A drive that is loaded again had an empty tree.
TaskListed(r) ==
    /\ r.pc \notin {"idle"} \cup LoadSteps \cup Unloading => ver > 0
    /\ ver > 0 /\ r.pc \notin {"unloadVer", "install", "fallback"}
            => Listed(tree.nodes, remote.nodes, purged)
    /\ ver > 0 /\ r.pc \in Asking => Listed(EmptyMap, remote.nodes, purged)
    /\ r.pc \in {"flushLock", "flushSend"} => r.snap = tree.nodes
    /\ r.pc \in {"cacheLoaded", "cacheRebuilt", "publish", "install"}
            => Listed(r.snap, remote.nodes, purged)
    /\ r.pc = "publish" => cache.nodes = r.snap
    /\ r.pc = "fallback" /\ ver > 0 => Listed(cache.nodes, remote.nodes, purged)
    /\ r.pc = "installVer" => Listed(tree.nodes, remote.nodes, purged)

NothingAbsent == ~present => DOMAIN tree.nodes = {}
Listing == NothingAbsent /\ \A t \in Tasks : TaskListed(op[t])

\* No call but an unload takes a file out of the tree without noting it.
LEMMA CallKeepsFiles ==
    ASSUME Typed, NothingAbsent, NEW t \in Tasks, Call(t), ~UnloadCall(t),
           NEW w, Listed(tree.nodes, w, purged)
    PROVE  NothingAbsent' /\ Listed(tree'.nodes, w, purged')
  <1> USE DEF Typed
  <1>1. ASSUME NEW id \in Folders, NEW p \in Parents, NEW n \in Names,
               CreateFolder(t, id, p, n)
        PROVE  NothingAbsent' /\ Listed(tree'.nodes, w, purged')
    <2>1. id \in Ids /\ NewNode(p, n) \in Nodes
      BY <1>1, NewNodeInFolder DEF Ids, CreateFolder
    <2>2. tree'.nodes = With(tree.nodes, id, NewNode(p, n)) /\ present' /\ purged' = purged
      BY <1>1, <2>1, InsertNodes DEF CreateFolder, AddNode
    <2>3. QED
      BY <2>2 DEF NothingAbsent, Listed, With
  <1>2. ASSUME NEW id \in Ids, NEW e \in Edits, EditStart(t, id, e)
        PROVE  NothingAbsent' /\ Listed(tree'.nodes, w, purged')
    <2>1. DOMAIN tree'.nodes \cap Files = DOMAIN tree.nodes \cap Files
      BY <1>2, EditTreeTyped DEF EditStart
    <2>2. QED
      BY <1>2, <2>1 DEF EditStart, NothingAbsent, Listed
  <1>3. ASSUME NEW id \in Ids, NEW b \in BOOLEAN, TogglePin(t, id, b)
        PROVE  NothingAbsent' /\ Listed(tree'.nodes, w, purged')
    <2>1. DOMAIN tree'.nodes \cap Files = DOMAIN tree.nodes \cap Files
      BY <1>3, MarkNodes DEF TogglePin
    <2>2. QED
      BY <1>3, <2>1 DEF TogglePin, NothingAbsent, Listed
  <1>4. ASSUME NEW id \in Ids, DeleteStart(t, id)
        PROVE  NothingAbsent' /\ Listed(tree'.nodes, w, purged')
    <2>1. tree'.nodes = Without(tree.nodes, Subtree(tree, id))
      BY <1>4, DetachNodes DEF DeleteStart, RemoveRecursive
    <2>2. /\ present /\ present' = present
          /\ purged' = purged \cup (Subtree(tree, id) \cap DOMAIN tree.nodes \cap Files)
      BY <1>4 DEF DeleteStart
    <2>3. QED
      BY <2>1, <2>2 DEF NothingAbsent, Listed, Without
  <1>5. CASE EmptyStart(t)
    <2>1. tree'.nodes = Without(tree.nodes, Trashed(tree))
      BY <1>5, DetachNodes DEF EmptyStart, EmptyTrash
    <2>2. /\ present /\ present' = present
          /\ purged' = purged \cup (Trashed(tree) \cap Files)
      BY <1>5 DEF EmptyStart
    <2>3. QED
      BY <2>1, <2>2 DEF NothingAbsent, Listed, Without
  <1>6. ASSUME UNCHANGED <<tree, purged>>, present' \/ present' = present
        PROVE  NothingAbsent' /\ Listed(tree'.nodes, w, purged')
    BY <1>6 DEF NothingAbsent
  <1>7. QED
    BY <1>1, <1>2, <1>3, <1>4, <1>5, <1>6
       DEF Call, UploadSend, DavMove, FlushCall, LoadCall, Touch, memory

LEMMA CallListed ==
    ASSUME OneCallAtATime, Typed, Listing, NEW t \in Tasks, Call(t)
    PROVE  Listing' /\ UNCHANGED remote
  <1> DEFINE r == op'[t]
  <1>0. /\ op[t].pc = "idle" /\ UNCHANGED <<ver, remote>>
        /\ \/ /\ r.pc \in FreshSteps \/ (UnloadCall(t) /\ r.pc = "unloadVer")
              /\ ver > 0
           \/ LoadCall(t) /\ r.pc = "fetch"
    BY CallBegins DEF OneCallAtATime
  <1>1. ver > 0 => Listed(tree.nodes, remote.nodes, purged)
    BY <1>0 DEF Listing, TaskListed
  <1>2. CASE UnloadCall(t)
    <2>1. tree' = EmptyTree /\ r.pc = "unloadVer"
      BY <1>2 DEF UnloadCall, Typed, Idle
    <2>2. NothingAbsent'
      BY <2>1, EmptyTreeTyped DEF NothingAbsent, EmptyMap
    <2>3. TaskListed(op[t])'
      BY <2>1 DEF TaskListed, LoadSteps, Unloading, Asking
    <2>4. QED
      BY <1>0, <2>2, <2>3 DEF Listing, OneCallAtATime
  <1>3. CASE LoadCall(t)
    <2>1. /\ DOMAIN tree.nodes = {} /\ r.pc = "fetch"
          /\ UNCHANGED <<present, tree, ver, remote, purged>>
      BY <1>3 DEF LoadCall, Typed, Idle, Listing, NothingAbsent, memory, store
    <2>2. ver > 0 => Listed(EmptyMap, remote.nodes, purged)
      BY <1>1, <2>1 DEF Listed, EmptyMap
    <2>3. TaskListed(op[t])'
      BY <1>1, <2>1, <2>2 DEF TaskListed, LoadSteps, Unloading, Asking
    <2>4. QED
      BY <2>1, <2>3 DEF Listing, NothingAbsent, OneCallAtATime
  <1>4. CASE ~UnloadCall(t) /\ ~LoadCall(t)
    <2>1. ver > 0 /\ r.pc \in FreshSteps
      BY <1>0, <1>4
    <2>2. NothingAbsent' /\ Listed(tree'.nodes, remote.nodes, purged')
      BY <1>1, <1>4, <2>1, CallKeepsFiles DEF Listing
    <2>3. TaskListed(op[t])'
      BY <1>0, <2>1, <2>2 DEF TaskListed, FreshSteps, LoadSteps, Unloading, Asking
    <2>4. QED
      BY <1>0, <2>2, <2>3 DEF Listing, OneCallAtATime
  <1>5. QED
    BY <1>2, <1>3, <1>4

LEMMA StepListed ==
    ASSUME OneCallAtATime, Typed, AllHeld, Listing, NEW t \in Tasks, Step(t),
           ver = 0 => \A docs \in Scanned : DOMAIN docs = DOMAIN msgs
    PROVE  Listing' /\ Listed(remote'.nodes, remote.nodes, purged)
  <1> USE DEF Typed
  <1> DEFINE r == op'[t]
             Goal == Listing' /\ Listed(remote'.nodes, remote.nodes, purged)
  <1>0. op[t] \in Ops /\ op[t].snap \in NodeMaps /\ TaskListed(op[t]) /\ NothingAbsent
    BY DEF Ops, Listing
  <1>1. ASSUME NothingAbsent', TaskListed(op[t])', Listed(remote'.nodes, remote.nodes, purged)
        PROVE  Goal
    BY <1>1 DEF Listing, OneCallAtATime
  <1>2. \A m, gone : Listed(m, m, gone)
    BY DEF Listed
  <1>3. ASSUME UNCHANGED <<present, tree>> \/ present'
        PROVE  NothingAbsent'
    BY <1>0, <1>3 DEF NothingAbsent
  <1>4. ASSUME \/ UploadAdd(t) \/ EditCache(t) \/ EditCaption(t) \/ MarkDirty(t)
               \/ DeletePurge(t) \/ DeleteMessage(t) \/ EmptyCache(t)
               \/ EmptyMessages(t) \/ Debounce(t)
        PROVE  Goal
    <2>1. /\ UNCHANGED <<ver, remote>> /\ op[t].pc \in WorkSteps
          /\ r.pc \in WorkSteps \cup {"idle"}
      BY <1>4, WorkMoves
    <2>2. purged' = purged
      BY <1>4 DEF UploadAdd, EditCache, EditCaption, MarkDirty, DeletePurge,
         DeleteMessage, EmptyCache, EmptyMessages, Debounce
    <2>3. DOMAIN tree.nodes \subseteq DOMAIN tree'.nodes
          /\ (UNCHANGED <<present, tree>> \/ present')
      <3>1. CASE UploadAdd(t)
        <4>1. PICK c \in op[t].cap : AddNode(op[t].id, NewNode(c.parent, c.name))
          BY <3>1 DEF UploadAdd
        <4>2. NewNode(c.parent, c.name) \in Nodes /\ op[t].id \in Ids
          BY <1>0, <3>1, NewNodeInFolder DEF UploadAdd, Captions, Caps, Parents, Ids, Ops
        <4>3. tree'.nodes = With(tree.nodes, op[t].id, NewNode(c.parent, c.name))
          BY <4>1, <4>2, InsertNodes DEF AddNode
        <4>4. QED
          BY <4>1, <4>3 DEF AddNode, With
      <3>2. CASE UNCHANGED <<present, tree>>
        BY <3>2
      <3>3. QED
        BY <1>4, <3>1, <3>2 DEF EditCache, EditCaption, MarkDirty, DeletePurge,
           DeleteMessage, EmptyCache, EmptyMessages, Debounce, memory
    <2>4. ver > 0 /\ Listed(tree.nodes, remote.nodes, purged)
      BY <1>0, <2>1 DEF TaskListed, WorkSteps, LoadSteps, Unloading
    <2>5. Listed(tree'.nodes, remote.nodes, purged)
      BY <2>3, <2>4 DEF Listed
    <2>6. TaskListed(op[t])'
      BY <2>1, <2>2, <2>4, <2>5 DEF TaskListed, WorkSteps, LoadSteps, Unloading, Asking
    <2>7. QED
      BY <1>1, <1>2, <1>3, <2>1, <2>3, <2>6
  <1>5. CASE FlushRead(t) \/ FlushPrepare(t) \/ FlushDone(t)
    <2>1. /\ UNCHANGED <<present, tree, remote, purged>>
          /\ \/ op[t].pc = "flushRead" /\ ver' = ver
                /\ \/ r.pc = "flushLock" /\ r.snap = tree.nodes
                   \/ r.pc = "idle"
             \/ op[t].pc = "flushLock" /\ ver' = ver /\ r.pc = "flushSend"
                /\ r.snap = op[t].snap
             \/ op[t].pc = "flushDone" /\ r.pc = "idle"
      <3>1. CASE FlushRead(t)
        BY <1>0, <3>1 DEF FlushRead, Return, Idle, Ops, memory, store
      <3>2. CASE FlushPrepare(t)
        BY <1>0, <3>2 DEF FlushPrepare, Ops, memory
      <3>3. CASE FlushDone(t)
        BY <3>3 DEF FlushDone, Return, Idle, store
      <3>4. QED
        BY <1>5, <3>1, <3>2, <3>3
    <2>2. ver > 0 /\ Listed(tree.nodes, remote.nodes, purged)
      BY <1>0, <2>1 DEF TaskListed, LoadSteps, Unloading
    <2>3. TaskListed(op[t])'
      BY <1>0, <2>1, <2>2 DEF TaskListed, LoadSteps, Unloading, Asking
    <2>4. QED
      BY <1>1, <1>2, <1>3, <2>1, <2>3
  <1>6. CASE FlushSend(t)
    <2>1. /\ UNCHANGED <<present, tree, ver, purged>> /\ op[t].pc = "flushSend"
          /\ r.pc \in {"flushDone", "idle"}
          /\ remote' = remote \/ remote'.nodes = op[t].snap
      BY <1>0, <1>6 DEF FlushSend, Goto, Return, Idle, Ops, memory
    <2>2. /\ ver > 0 /\ Listed(tree.nodes, remote.nodes, purged)
          /\ op[t].snap = tree.nodes
      BY <1>0, <2>1 DEF TaskListed, LoadSteps, Unloading
    <2>3. Listed(tree.nodes, remote'.nodes, purged)
          /\ Listed(remote'.nodes, remote.nodes, purged)
      BY <1>2, <2>1, <2>2
    <2>4. TaskListed(op[t])'
      BY <2>1, <2>2, <2>3 DEF TaskListed, LoadSteps, Unloading, Asking
    <2>5. QED
      BY <1>1, <1>3, <2>1, <2>3, <2>4
  <1>7. CASE LoadFetch(t) \/ LoadCache(t)
    <2>1. /\ UNCHANGED <<present, tree, ver, remote, purged>>
          /\ \/ op[t].pc = "fetch" /\ r.pc = "cacheLoaded" /\ r.snap = remote.nodes
             \/ op[t].pc = "fetch" /\ r.pc = "scan"
             \/ op[t].pc = "cacheLoaded" /\ r.pc = "install" /\ r.snap = op[t].snap
      BY <1>0, <1>7 DEF LoadFetch, LoadCache, Goto, Ops, memory, store
    <2>2. TaskListed(op[t])'
      BY <1>0, <1>2, <2>1 DEF TaskListed, LoadSteps, Unloading, Asking
    <2>3. QED
      BY <1>1, <1>2, <1>3, <2>1, <2>2
  <1>8. CASE RebuildScan(t)
    <2>1. /\ UNCHANGED <<present, tree, ver, cache, remote, purged>> /\ op[t].pc = "scan"
          /\ \/ r.pc = "cacheRebuilt" /\ \E n \in Names, docs \in Scanned :
                                            r.snap = Rebuilt(docs, op[t].snap, n)
             \/ r.pc = "fallback"
      BY <1>0, <1>8 DEF RebuildScan, Goto, Ops, memory, store
    <2>2. ASSUME NEW n \in Names, NEW docs \in Scanned
          PROVE  Listed(Rebuilt(docs, op[t].snap, n), remote.nodes, purged)
      <3>1. DOMAIN Rebuilt(docs, op[t].snap, n) \cap Files
                = (DOMAIN op[t].snap \cup DOMAIN docs) \cap Files
        BY <1>0, RebuiltTyped, ScanFacts
      <3>2. CASE ver = 0
        BY <3>1, <3>2 DEF AllHeld, MapsHeld, Held, Docs, Listed
      <3>3. CASE ver > 0
        BY <1>0, <2>1, <3>3 DEF TaskListed, Asking, Listed, EmptyMap
      <3>4. QED
        BY <3>2, <3>3
    <2>3. ver > 0 => /\ Listed(cache.nodes, remote.nodes, purged)
                     /\ Listed(tree.nodes, remote.nodes, purged)
                     /\ Listed(EmptyMap, remote.nodes, purged)
      BY <1>0, <2>1 DEF TaskListed, Asking, Listed, EmptyMap
    <2>4. TaskListed(op[t])'
      BY <2>1, <2>2, <2>3 DEF TaskListed, LoadSteps, Unloading, Asking
    <2>5. QED
      BY <1>1, <1>2, <1>3, <2>1, <2>4
  <1>9. CASE RebuildCache(t)
    <2>1. /\ UNCHANGED <<present, tree, ver, remote, purged>> /\ op[t].pc = "cacheRebuilt"
          /\ r.pc = "publish" /\ r.snap = op[t].snap /\ cache'.nodes = op[t].snap
      BY <1>0, <1>9 DEF RebuildCache, CacheReplace, Goto, Ops, memory
    <2>2. TaskListed(op[t])'
      BY <1>0, <2>1 DEF TaskListed, LoadSteps, Unloading, Asking
    <2>3. QED
      BY <1>1, <1>2, <1>3, <2>1, <2>2
  <1>10. CASE RebuildPublish(t)
    <2>1. /\ UNCHANGED <<present, tree, ver, cache, purged>> /\ op[t].pc = "publish"
          /\ r.pc \in {"install", "fallback"} /\ r.snap = op[t].snap
          /\ remote' = remote \/ remote'.nodes = op[t].snap
      BY <1>0, <1>10 DEF RebuildPublish, Goto, Ops, memory
    <2>2. Listed(op[t].snap, remote.nodes, purged) /\ cache.nodes = op[t].snap
      BY <1>0, <2>1 DEF TaskListed
    <2>3. Listed(op[t].snap, remote'.nodes, purged)
          /\ Listed(remote'.nodes, remote.nodes, purged)
      BY <1>2, <2>1, <2>2
    <2>4. TaskListed(op[t])'
      BY <2>1, <2>2, <2>3 DEF TaskListed, LoadSteps, Unloading, Asking
    <2>5. QED
      BY <1>1, <1>3, <2>1, <2>3, <2>4
  <1>11. CASE LoadFallback(t)
    <2>1. /\ UNCHANGED <<ver, remote, purged>> /\ present' /\ op[t].pc = "fallback"
          /\ r.pc = "idle" /\ tree'.nodes = cache.nodes
      BY <1>11, FromNodesTyped DEF LoadFallback, Return, Idle, Caches, store
    <2>2. TaskListed(op[t])'
      BY <1>0, <2>1 DEF TaskListed, LoadSteps, Unloading, Asking
    <2>3. QED
      BY <1>1, <1>2, <1>3, <2>1, <2>2
  <1>12. CASE LoadInstall(t)
    <2>1. /\ UNCHANGED <<ver, remote, purged>> /\ present' /\ op[t].pc = "install"
          /\ r.pc = "installVer" /\ tree'.nodes = op[t].snap
      BY <1>0, <1>12, FromNodesTyped DEF LoadInstall, Goto, Ops, store
    <2>2. TaskListed(op[t])'
      BY <1>0, <2>1 DEF TaskListed, LoadSteps, Unloading, Asking
    <2>3. QED
      BY <1>1, <1>2, <1>3, <2>1, <2>2
  <1>13. CASE LoadInstallVersion(t)
    <2>1. /\ UNCHANGED <<present, tree, remote, purged>> /\ op[t].pc = "installVer"
          /\ r.pc = "idle"
      BY <1>13 DEF LoadInstallVersion, Return, Idle, store
    <2>2. TaskListed(op[t])'
      BY <1>0, <2>1 DEF TaskListed, LoadSteps, Unloading, Asking
    <2>3. QED
      BY <1>1, <1>2, <1>3, <2>1, <2>2
  <1>14. CASE UnloadVersion(t) \/ UnloadRest(t) \/ DropCache(t)
    <2>1. /\ UNCHANGED <<present, tree, remote, purged>>
          /\ \/ op[t].pc = "unloadVer" /\ r.pc = "unloadRest" /\ ver' = 0
             \/ op[t].pc = "unloadRest" /\ r.pc = "dropCache" /\ ver' = ver
             \/ op[t].pc = "dropCache" /\ r.pc = "idle" /\ ver' = ver
      BY <1>0, <1>14 DEF UnloadVersion, UnloadRest, DropCache, Goto, Return, Idle, Ops,
         memory, store
    <2>2. TaskListed(op[t])'
      BY <1>0, <2>1 DEF TaskListed, LoadSteps, Unloading, Asking
    <2>3. QED
      BY <1>1, <1>2, <1>3, <2>1, <2>2
  <1>15. QED
    BY <1>4, <1>5, <1>6, <1>7, <1>8, <1>9, <1>10, <1>11, <1>12, <1>13, <1>14 DEF Step

LEMMA OtherListed ==
    ASSUME Typed, Listing, Clock \/ Crash \/ UNCHANGED vars
    PROVE  Listing' /\ UNCHANGED remote
  <1>1. CASE Clock \/ UNCHANGED vars
    <2>1. UNCHANGED <<present, tree, ver, cache, remote, op, purged>>
      BY <1>1 DEF Clock, vars, memory, store
    <2>2. QED
      BY <2>1 DEF Listing, NothingAbsent, TaskListed
  <1>2. CASE Crash
    <2>1. /\ ver' = 0 /\ remote' = remote /\ DOMAIN tree'.nodes = {}
          /\ \A t \in Tasks : op'[t].pc = "idle"
      BY <1>2, EmptyTreeTyped DEF Crash, store, Idle, EmptyMap
    <2>2. QED
      BY <2>1 DEF Listing, NothingAbsent, TaskListed, LoadSteps, Unloading, Asking
  <1>3. QED
    BY <1>1, <1>2

LEMMA InitListed == Init => Listing
  <1> SUFFICES ASSUME Init PROVE Listing
    OBVIOUS
  <1>1. ver = 0 /\ DOMAIN tree.nodes = {} /\ \A t \in Tasks : op[t].pc = "idle"
    BY EmptyTreeTyped DEF Init, Idle, EmptyMap
  <1>2. QED
    BY <1>1 DEF Listing, NothingAbsent, TaskListed, LoadSteps, Unloading, Asking

\* With one call at a time, and every document among the newest hundred
\* messages of the channel, no file gets lost from the pinned manifest, at
\* whatever point the process restarts and whichever requests fail: a restart
\* loads the manifest, a rebuild finds the document of every file it lists,
\* and a fall back to the cache either leaves no version to publish with or
\* has nothing to lose.  Without the second hypothesis it is false: the run
\* engine_scan loses a file to a rebuild that does not see its message.
THEOREM PublishedStay ==
    ASSUME OneCallAtATime, IsFiniteSet(Files), Cardinality(Files) <= ScanReach
    PROVE  Spec => PublishedFilesStay
  <1>0. Typed => \A docs \in Scanned : DOMAIN docs = DOMAIN msgs
    BY ScanReachesAll DEF AllInReach, Typed
  <1>1. Typed /\ AllHeld /\ Listing /\ [Next]_vars
            => Listing' /\ [Listed(remote'.nodes, remote.nodes, purged)]_remote
    BY <1>0, CallListed, StepListed, OtherListed DEF Next
  <1>2. [Listed(remote'.nodes, remote.nodes, purged)]_remote
            => [Files \cap (DOMAIN remote.nodes \ DOMAIN remote'.nodes) \subseteq purged]_remote
    BY DEF Listed
  <1>3. QED
    BY <1>1, <1>2, InitHeld, NextHeld, InitListed, AlwaysTyped, PTL
       DEF Spec, PublishedFilesStay

-----------------------------------------------------------------------------
(* The tree, its rows in the cache and its manifest                         *)

\* One call at a time, none of them a pin: toggle_pin writes neither the
\* cache nor the manifest.
NoPins == OneCallAtATime /\ "pin" \notin Calls

InCache == cache.nodes = tree.nodes
\* A request that fails while a rebuild publishes leaves a drive that is not
\* marked and not published.
InChannel == "publish" \notin Faults /\ ~dirty => remote.nodes = tree.nodes

\* Where tree, cache and manifest differ while a call is on its way: a call
\* that flushes at its end may leave the cache to the flush, one that goes
\* through the debounce may not.
TaskAgrees(r) ==
    /\ r.pc \notin {"idle"} \cup LoadSteps \cup Unloading => ver > 0
    /\ ver > 0 /\ r.pc \notin Unloading => present /\ cache.row
    /\ r.pc \in {"unloadRest", "dropCache"} => ver = 0
    /\ ver > 0 /\ r.pc \in {"idle", "addFile", "debounce", "fetch", "scan"} => InCache
    /\ ver > 0 /\ r.pc \in {"idle", "addFile", "debounce", "fetch", "scan", "flushRead",
                            "flushLock", "flushSend"} => InChannel
    /\ r.pc \in {"editCache", "editCaption", "emptyCache", "emptyMsgs"}
            => r.then = "flush"
    /\ r.pc \in {"purge", "purgeMsg"} /\ r.then # "flush"
            => Without(cache.nodes, r.todo) = tree.nodes
    /\ r.pc = "mark" /\ r.then # "flush" => InCache
    /\ r.pc \in {"flushLock", "flushSend", "flushDone"} => r.snap = tree.nodes
    /\ r.pc \in {"flushSend", "flushDone"} => InCache
    /\ r.pc = "flushDone" => remote.nodes = tree.nodes
    /\ r.pc \in {"cacheLoaded", "install"} => remote.nodes = r.snap
    /\ r.pc \in {"publish", "install"} => cache.row /\ cache.nodes = r.snap
    /\ r.pc = "installVer" => present /\ cache.row /\ InCache /\ remote.nodes = tree.nodes
    /\ r.pc = "fallback" /\ ver > 0 /\ "publish" \notin Faults /\ ~dirty
            => remote.nodes = cache.nodes

Agreeing == \A t \in Tasks : TaskAgrees(op[t])

\* A map is its values.
LEMMA SameMap ==
    ASSUME NEW m \in NodeMaps
    PROVE  Without(m, {}) = m
  BY DEF NodeMaps, Without

LEMMA AddBoth ==
    ASSUME Typed, NEW id \in Ids, NEW n \in Nodes, AddNode(id, n), cache.row, InCache
    PROVE  InCache' /\ cache'.row /\ present' /\ dirty'
  <1>1. tree'.nodes = With(tree.nodes, id, n)
    BY InsertNodes DEF Typed, AddNode
  <1>2. cache'.nodes = With(cache.nodes, id, n) /\ cache'.row
    BY DEF Typed, AddNode, CacheUpsert, Caches
  <1>3. QED
    BY <1>1, <1>2 DEF AddNode, InCache

\* Rows taken away one by one end where the tree is already.
LEMMA WithoutTwice ==
    ASSUME NEW m, NEW S, NEW x \in S
    PROVE  Without(Without(m, {x}), S \ {x}) = Without(m, S)
  BY DEF Without

LEMMA CallAgrees ==
    ASSUME NoPins, Typed, Agreeing, NEW t \in Tasks, Call(t)
    PROVE  Agreeing'
  <1> USE DEF Typed
  <1> DEFINE r == op'[t]
  <1>0. /\ op' = [op EXCEPT ![t] = r] /\ op[t].pc = "idle" /\ UNCHANGED <<ver, remote>>
        /\ \/ /\ r.pc \in FreshSteps \/ (UnloadCall(t) /\ r.pc = "unloadVer")
              /\ ver > 0
           \/ LoadCall(t) /\ r.pc = "fetch"
    BY CallBegins DEF NoPins, OneCallAtATime
  <1>1. ver > 0 => present /\ cache.row /\ InCache /\ InChannel
    BY <1>0 DEF Agreeing, TaskAgrees, Unloading
  <1>2. SUFFICES TaskAgrees(op[t])'
    BY DEF Agreeing, NoPins, OneCallAtATime
  <1> USE DEF TaskAgrees, LoadSteps, Unloading
  <1>3. CASE LoadCall(t)
    BY <1>0, <1>1, <1>3 DEF LoadCall, Idle, memory, store, InCache, InChannel
  <1>4. CASE UnloadCall(t)
    BY <1>0, <1>1, <1>4 DEF UnloadCall, Idle
  <1>5. ASSUME NEW id \in Folders, NEW p \in Parents, NEW n \in Names,
               CreateFolder(t, id, p, n)
        PROVE  TaskAgrees(op[t])'
    <2>1. id \in Ids /\ NewNode(p, n) \in Nodes
      BY <1>5, NewNodeInFolder DEF Ids, CreateFolder
    <2>2. ver > 0 /\ r.pc \in {"flushRead", "debounce"}
      BY <1>0, <1>5 DEF CreateFolder, After, Idle
    <2>3. InCache' /\ cache'.row /\ present' /\ dirty'
      BY <1>1, <1>5, <2>1, <2>2, AddBoth DEF CreateFolder
    <2>4. InChannel'
      BY <2>3 DEF InChannel
    <2>5. QED
      BY <1>0, <2>2, <2>3, <2>4
  <1>6. ASSUME NEW id \in Files, NEW p \in Parents, NEW n \in Names,
               UploadSend(t, id, p, n)
        PROVE  TaskAgrees(op[t])'
    <2>1. UNCHANGED <<memory, cache, remote>> /\ r.pc \in {"idle", "addFile"}
      BY <1>0, <1>6 DEF UploadSend, Idle
    <2>2. QED
      BY <1>0, <1>1, <2>1 DEF memory, InCache, InChannel
  <1>7. ASSUME NEW id \in Ids, NEW e \in Edits, EditStart(t, id, e)
        PROVE  TaskAgrees(op[t])'
    <2>1. ver > 0 /\ r.pc = "editCache" /\ r.then = "flush"
      BY <1>0, <1>7 DEF EditStart, Idle, LoadCall, UnloadCall, Begin
    <2>2. UNCHANGED <<present, cache>>
      BY <1>7 DEF EditStart, store
    <2>3. QED
      BY <1>0, <1>1, <2>1, <2>2
  <1>8. ASSUME NEW id \in Ids, NEW b \in BOOLEAN, TogglePin(t, id, b)
        PROVE  TaskAgrees(op[t])'
    BY <1>8 DEF TogglePin, Begin, NoPins
  <1>9. ASSUME NEW id \in Ids, DavMove(t, id)
        PROVE  TaskAgrees(op[t])'
    <2>1. /\ UNCHANGED <<tree, ver, dirty, cache, remote>> /\ present'
          /\ r.pc \in {"idle", "debounce"}
      BY <1>0, <1>9 DEF DavMove, store, After, Idle
    <2>2. QED
      BY <1>0, <1>1, <2>1 DEF InCache, InChannel
  <1>10. ASSUME NEW id \in Ids, DeleteStart(t, id)
         PROVE  TaskAgrees(op[t])'
    <2> DEFINE gone == Subtree(tree, id) \cap DOMAIN tree.nodes
    <2>1. /\ UNCHANGED <<present, cache>> /\ r.pc = "purge" /\ r.todo = gone
      BY <1>0, <1>10 DEF DeleteStart, store, Idle
    <2>2. ver > 0
      BY <1>0, <1>10, <2>1
    <2>3. tree'.nodes = Without(tree.nodes, Subtree(tree, id))
      BY <1>10, DetachNodes DEF DeleteStart, RemoveRecursive
    <2>4. Without(cache'.nodes, gone) = tree'.nodes
      BY <1>1, <2>1, <2>2, <2>3 DEF InCache, Without
    <2>5. QED
      BY <1>0, <1>1, <2>1, <2>2, <2>4
  <1>11. CASE EmptyStart(t)
    <2>1. /\ UNCHANGED <<present, cache>> /\ r.pc = "emptyCache" /\ r.then = "flush"
      BY <1>0, <1>11 DEF EmptyStart, store, Idle
    <2>2. QED
      BY <1>0, <1>1, <2>1
  <1>12. CASE FlushCall(t)
    <2>1. UNCHANGED <<memory, cache, remote>> /\ r.pc = "flushRead"
      BY <1>0, <1>12 DEF FlushCall, store, After, Idle
    <2>2. QED
      BY <1>0, <1>1, <2>1 DEF memory, InChannel
  <1>13. CASE Touch(t)
    BY <1>0, <1>1, <1>13, SMTT(30) DEF Touch, store, InCache, InChannel
  <1>14. QED
    BY <1>3, <1>4, <1>5, <1>6, <1>7, <1>8, <1>9, <1>10, <1>11, <1>12, <1>13 DEF Call

LEMMA StepAgrees ==
    ASSUME NoPins, Typed, Agreeing, NEW t \in Tasks, Step(t)
    PROVE  Agreeing'
  <1> USE DEF Typed
  <1> DEFINE r == op'[t]
  <1>0. /\ op[t] \in Ops /\ op[t].snap \in NodeMaps /\ TaskAgrees(op[t])
        /\ cache.nodes \in NodeMaps /\ op[t].then \in Thens
    BY DEF Ops, Agreeing, Caches
  <1>1. SUFFICES TaskAgrees(op[t])'
    BY DEF Agreeing, NoPins, OneCallAtATime
  <1> USE DEF TaskAgrees, LoadSteps, Unloading
  <1>2. CASE UploadAdd(t)
    <2>1. PICK c \in op[t].cap : AddNode(op[t].id, NewNode(c.parent, c.name))
      BY <1>2 DEF UploadAdd
    <2>2. NewNode(c.parent, c.name) \in Nodes /\ op[t].id \in Ids
      BY <1>0, <1>2, NewNodeInFolder DEF UploadAdd, Captions, Caps, Parents, Ids, Ops
    <2>3. /\ op[t].pc = "addFile" /\ r.pc = "idle" /\ UNCHANGED <<ver, remote>>
      BY <1>2 DEF UploadAdd, Return, Idle
    <2>4. InCache' /\ cache'.row /\ present' /\ dirty'
      BY <1>0, <2>1, <2>2, <2>3, AddBoth
    <2>5. QED
      BY <2>3, <2>4 DEF InChannel
  <1>3. CASE EditCache(t)
    <2>1. /\ UNCHANGED <<present, ver>> /\ cache'.row = cache.row
          /\ op[t].pc = "editCache" /\ r.pc \in {"mark", "editCaption"}
          /\ r.then = op[t].then
      BY <1>0, <1>3 DEF EditCache, CacheEdit, Goto, Ops, memory, Caches
    <2>2. QED
      BY <1>0, <2>1
  <1>4. CASE EditCaption(t)
    <2>1. /\ UNCHANGED <<present, ver, cache>>
          /\ op[t].pc = "editCaption" /\ r.pc = "mark" /\ r.then = op[t].then
      BY <1>0, <1>4 DEF EditCaption, Goto, Ops, memory
    <2>2. QED
      BY <1>0, <2>1
  <1>5. CASE MarkDirty(t)
    <2>1. /\ UNCHANGED <<present, ver, tree, cache>> /\ dirty'
          /\ op[t].pc = "mark"
          /\ \/ r.pc = "flushRead"
             \/ op[t].then # "flush" /\ r.pc \in {"debounce", "idle"}
      <3>1. UNCHANGED <<present, ver, tree, cache>> /\ dirty' /\ op[t].pc = "mark"
        BY <1>5 DEF MarkDirty, store
      <3>2. r = After(op[t].then)
        BY <1>0, <1>5 DEF MarkDirty
      <3>3. \A th \in Thens : \/ After(th).pc = "flushRead"
                              \/ th # "flush" /\ After(th).pc \in {"debounce", "idle"}
        BY DEF After, Idle, Thens
      <3>4. QED
        BY <1>0, <3>1, <3>2, <3>3, Zenon
    <2>2. QED
      BY <1>0, <2>1 DEF InCache, InChannel
  <1>6. CASE DeletePurge(t)
    <2>1. UNCHANGED <<present, ver, tree, dirty, remote>> /\ op[t].pc = "purge"
      BY <1>6 DEF DeletePurge, memory
    <2>2. CASE op[t].todo = {} /\ Goto(t, "mark") /\ UNCHANGED cache
      <3>1. r.pc = "mark" /\ r.then = op[t].then
        BY <1>0, <2>2 DEF Goto, Ops
      <3>2. Without(cache.nodes, {}) = cache.nodes
        BY <1>0, SameMap
      <3>3. QED
        BY <1>0, <2>1, <2>2, <3>1, <3>2 DEF InCache
    <2>3. ASSUME NEW x \in op[t].todo, cache' = CacheDelete(cache, {x}),
                 op' = [op EXCEPT ![t].pc = IF x \in Files THEN "purgeMsg" ELSE "purge",
                                  ![t].id = x, ![t].todo = @ \ {x}]
          PROVE  TaskAgrees(op[t])'
      <3>1. op' = [op EXCEPT ![t] = [op[t] EXCEPT
                      !.pc = IF x \in Files THEN "purgeMsg" ELSE "purge",
                      !.id = x, !.todo = @ \ {x}]]
        BY <2>3
      <3>2. r.pc \in {"purge", "purgeMsg"} /\ r.todo = op[t].todo \ {x}
            /\ r.then = op[t].then
        BY <1>0, <3>1 DEF Ops
      <3>3. cache'.nodes = Without(cache.nodes, {x}) /\ cache'.row = cache.row
        BY <2>3 DEF CacheDelete, Caches
      <3>4. Without(cache'.nodes, r.todo) = Without(cache.nodes, op[t].todo)
        BY <3>2, <3>3, WithoutTwice
      <3>5. QED
        BY <1>0, <2>1, <3>2, <3>3, <3>4
    <2>4. QED
      BY <1>6, <2>2, <2>3, Zenon DEF DeletePurge
  <1>7. CASE DeleteMessage(t)
    <2>1. /\ UNCHANGED <<present, ver, tree, cache>>
          /\ op[t].pc = "purgeMsg" /\ r.pc = "purge" /\ r.then = op[t].then
          /\ r.todo = op[t].todo
      BY <1>0, <1>7 DEF DeleteMessage, Goto, Ops, memory
    <2>2. QED
      BY <1>0, <2>1
  <1>8. CASE EmptyCache(t)
    <2>1. /\ UNCHANGED <<present, ver>> /\ cache'.row = cache.row
          /\ op[t].pc = "emptyCache" /\ r.pc = "emptyMsgs" /\ r.then = op[t].then
      BY <1>0, <1>8 DEF EmptyCache, CacheDelete, Goto, Ops, memory, Caches
    <2>2. QED
      BY <1>0, <2>1
  <1>9. CASE EmptyMessages(t)
    <2>1. /\ UNCHANGED <<present, ver, cache>>
          /\ op[t].pc = "emptyMsgs" /\ r.pc \in {"mark", "emptyMsgs"}
          /\ r.then = op[t].then
      <3>1. CASE Goto(t, "mark")
        BY <1>0, <1>9, <3>1 DEF EmptyMessages, Goto, Ops, memory
      <3>2. ASSUME NEW x \in op[t].todo, op' = [op EXCEPT ![t].todo = @ \ {x}]
            PROVE  r.pc = op[t].pc /\ r.then = op[t].then
        BY <1>0, <3>2 DEF Ops
      <3>3. QED
        BY <1>9, <3>1, <3>2 DEF EmptyMessages, memory
    <2>2. QED
      BY <1>0, <2>1
  <1>10. CASE Debounce(t)
    <2>1. /\ UNCHANGED <<present, ver, tree, dirty, cache, remote>>
          /\ op[t].pc = "debounce" /\ r.pc \in {"flushRead", "idle"}
      BY <1>0, <1>10 DEF Debounce, Goto, Return, Idle, Ops, store
    <2>2. QED
      BY <1>0, <2>1 DEF InCache, InChannel
  <1>11. CASE FlushRead(t)
    <2>1. op[t].pc = "flushRead" /\ present
      BY <1>0, <1>11 DEF FlushRead
    <2>2. /\ UNCHANGED <<present, ver, tree, dirty, cache, remote>>
          /\ r.pc = "flushLock" /\ r.snap = tree.nodes
      BY <1>0, <1>11, <2>1 DEF FlushRead, Ops, memory, store
    <2>3. QED
      BY <1>0, <2>1, <2>2 DEF InChannel
  <1>12. CASE FlushPrepare(t)
    <2>1. op' = [op EXCEPT ![t] = [op[t] EXCEPT !.pc = "flushSend", !.ver = NextVersion]]
      BY <1>12 DEF FlushPrepare
    <2>2. /\ UNCHANGED <<present, ver, tree, dirty, remote>> /\ cache'.row
          /\ op[t].pc = "flushLock" /\ r.pc = "flushSend" /\ r.snap = op[t].snap
          /\ cache'.nodes = op[t].snap
      BY <1>0, <1>12, <2>1 DEF FlushPrepare, CacheReplace, Ops, memory
    <2>3. QED
      BY <1>0, <2>2 DEF InCache, InChannel
  <1>13. CASE FlushSend(t)
    <2>1. /\ UNCHANGED <<present, ver, tree, dirty, cache>> /\ op[t].pc = "flushSend"
          /\ \/ r.pc = "flushDone" /\ r.snap = op[t].snap /\ remote'.nodes = op[t].snap
             \/ r.pc = "idle" /\ (remote' = remote \/ remote'.nodes = op[t].snap)
      BY <1>0, <1>13 DEF FlushSend, Goto, Return, Idle, Ops, memory
    <2>2. QED
      BY <1>0, <2>1 DEF InCache, InChannel
  <1>14. CASE FlushDone(t)
    <2>1. /\ UNCHANGED <<present, tree, cache, remote>> /\ op[t].pc = "flushDone"
          /\ r.pc = "idle"
      BY <1>14 DEF FlushDone, Return, Idle, store
    <2>2. QED
      BY <1>0, <2>1 DEF InCache, InChannel
  <1>15. CASE LoadFetch(t)
    <2>1. /\ UNCHANGED <<present, ver, tree, dirty, cache, remote>> /\ op[t].pc = "fetch"
          /\ \/ r.pc = "cacheLoaded" /\ r.snap = remote.nodes
             \/ r.pc = "scan"
      BY <1>0, <1>15 DEF LoadFetch, Ops, memory, store
    <2>2. QED
      BY <1>0, <2>1 DEF InCache, InChannel
  <1>16. CASE LoadCache(t) \/ RebuildCache(t)
    <2>1. /\ UNCHANGED <<present, ver, remote>> /\ cache'.row /\ cache'.nodes = r.snap
          /\ r.snap = op[t].snap
          /\ \/ op[t].pc = "cacheLoaded" /\ r.pc = "install"
             \/ op[t].pc = "cacheRebuilt" /\ r.pc = "publish"
      BY <1>0, <1>16 DEF LoadCache, RebuildCache, CacheReplace, Goto, Ops, memory
    <2>2. QED
      BY <1>0, <2>1
  <1>17. CASE RebuildScan(t)
    <2>1. /\ UNCHANGED <<present, ver, tree, dirty, cache, remote>> /\ op[t].pc = "scan"
          /\ r.pc \in {"cacheRebuilt", "fallback"}
      BY <1>0, <1>17 DEF RebuildScan, Goto, Ops, memory, store
    <2>2. QED
      BY <1>0, <2>1 DEF InCache, InChannel
  <1>18. CASE RebuildPublish(t)
    <2>1. PICK o \in Outcomes("publish") :
             /\ remote' = IF o[1] THEN [ver |-> 1, nodes |-> op[t].snap] ELSE remote
             /\ Goto(t, IF o[1] /\ o[2] THEN "install" ELSE "fallback")
      BY <1>18 DEF RebuildPublish
    <2>2. /\ UNCHANGED <<present, ver, cache>> /\ op[t].pc = "publish"
          /\ r.snap = op[t].snap
          /\ \/ r.pc = "install" /\ remote'.nodes = op[t].snap
             \/ r.pc = "fallback" /\ ~ (o[1] /\ o[2])
      BY <1>0, <1>18, <2>1 DEF RebuildPublish, Goto, Ops, memory
    <2>3. ~ (o[1] /\ o[2]) => "publish" \in Faults
      <3>1. ASSUME "publish" \notin Faults
            PROVE  o[1] /\ o[2]
        <4>1. o = <<TRUE, TRUE>>
          BY <2>1, <3>1 DEF Outcomes
        <4>2. QED
          BY <4>1
      <3>2. QED
        BY <3>1
    <2>4. QED
      BY <1>0, <2>2, <2>3
  <1>19. CASE LoadFallback(t)
    <2>1. /\ UNCHANGED <<ver, dirty, cache, remote>> /\ present' /\ op[t].pc = "fallback"
          /\ r.pc = "idle" /\ tree'.nodes = cache.nodes
      BY <1>19, FromNodesTyped DEF LoadFallback, Return, Idle, Caches, store
    <2>2. QED
      BY <1>0, <2>1 DEF InCache, InChannel
  <1>20. CASE LoadInstall(t)
    <2>1. /\ UNCHANGED <<ver, cache, remote>> /\ present' /\ op[t].pc = "install"
          /\ r.pc = "installVer" /\ tree'.nodes = op[t].snap
      BY <1>0, <1>20, FromNodesTyped DEF LoadInstall, Goto, Ops, store
    <2>2. QED
      BY <1>0, <2>1 DEF InCache, InChannel
  <1>21. CASE LoadInstallVersion(t)
    <2>1. /\ UNCHANGED <<present, tree, cache, remote>> /\ op[t].pc = "installVer"
          /\ r.pc = "idle"
      BY <1>21 DEF LoadInstallVersion, Return, Idle, store
    <2>2. QED
      BY <1>0, <2>1 DEF InCache, InChannel
  <1>22. CASE UnloadVersion(t) \/ UnloadRest(t) \/ DropCache(t)
    <2>1. \/ op[t].pc = "unloadVer" /\ r.pc = "unloadRest" /\ ver' = 0
          \/ op[t].pc = "unloadRest" /\ r.pc = "dropCache" /\ ver' = ver
          \/ op[t].pc = "dropCache" /\ r.pc = "idle" /\ ver' = ver
      BY <1>0, <1>22 DEF UnloadVersion, UnloadRest, DropCache, Goto, Return, Idle, Ops,
         memory
    <2>2. QED
      BY <1>0, <2>1
  <1>23. QED
    BY <1>2, <1>3, <1>4, <1>5, <1>6, <1>7, <1>8, <1>9, <1>10, <1>11, <1>12, <1>13, <1>14,
       <1>15, <1>16, <1>17, <1>18, <1>19, <1>20, <1>21, <1>22 DEF Step

LEMMA OtherAgrees ==
    ASSUME Typed, Agreeing, Clock \/ Crash \/ UNCHANGED vars
    PROVE  Agreeing'
  <1>1. CASE Clock \/ UNCHANGED vars
    <2>1. UNCHANGED <<present, tree, ver, dirty, cache, remote, op>>
      BY <1>1 DEF Clock, vars, memory, store
    <2>2. QED
      BY <2>1 DEF Agreeing, TaskAgrees, InCache, InChannel
  <1>2. CASE Crash
    <2>1. ver' = 0 /\ \A t \in Tasks : op'[t].pc = "idle"
      BY <1>2 DEF Crash, Idle
    <2>2. QED
      BY <2>1 DEF Agreeing, TaskAgrees, LoadSteps, Unloading
  <1>3. QED
    BY <1>1, <1>2

LEMMA AlwaysAgreeing ==
    ASSUME NoPins
    PROVE  Spec => []Agreeing
  <1>1. Init => Agreeing
    BY DEF Init, Idle, Agreeing, TaskAgrees, LoadSteps, Unloading
  <1>2. Typed /\ Agreeing /\ [Next]_vars => Agreeing'
    BY CallAgrees, StepAgrees, OtherAgrees DEF Next
  <1>3. QED
    BY <1>1, <1>2, AlwaysTyped, PTL DEF Spec

\* With one call at a time and no pins, the tree of a loaded drive and its
\* rows in the cache are the same between the calls, whatever failed and
\* wherever the process restarted: each handler writes both alike, or leaves
\* the rows to the flush it ends with.
THEOREM TreeIsCached ==
    ASSUME NoPins
    PROVE  Spec => []TreeAndCacheAgree
  <1>1. Agreeing => TreeAndCacheAgree
    BY DEF Agreeing, TaskAgrees, TreeAndCacheAgree, AllIdle, InCache, Unloading, NoPins,
       OneCallAtATime
  <1>2. QED
    BY <1>1, AlwaysAgreeing, PTL

\* With them, and while a rebuild gets its manifest published, a drive that is
\* not marked dirty is the one its manifest describes: every change is marked
\* before its call ends, and only a flush that published the tree as it is
\* takes the mark away.
THEOREM UnmarkedIsPublished ==
    ASSUME NoPins, "publish" \notin Faults
    PROVE  Spec => []ManifestUpToDate
  <1>1. Agreeing => ManifestUpToDate
    BY DEF Agreeing, TaskAgrees, ManifestUpToDate, AllIdle, InChannel, Unloading, NoPins,
       OneCallAtATime
  <1>2. QED
    BY <1>1, AlwaysAgreeing, PTL
-----------------------------------------------------------------------------
(* The captions say what the tree says                                      *)

\* One call at a time, and every request about a message is answered.  (After
\* a delete_message that failed, and after a drive was deleted, a manifest
\* from before can bring a file back with a caption nobody brought up to date.)
CaptionsArrive ==
    OneCallAtATime /\ "unload" \notin Calls /\ Faults \cap {"caption", "delete"} = {}

Editing == {"editCache", "editCaption"}
Deleting == {"purge", "purgeMsg", "emptyCache", "emptyMsgs"}

\* The captions d say of their files what the nodes m say.
Tells(d, m) == \A f \in Files \cap DOMAIN m : f \in DOMAIN d => d[f] = CaptionOf(m[f])

\* The files a call took out of the tree and whose message it has yet to delete.
Gone(r) == {x \in r.todo : r.pc \in Deleting} \cup {x \in {r.id} : r.pc = "purgeMsg"}

\* An edit owes the caption of one file, and has the right one to send; a load
\* installs nodes the captions agree with; what was taken out of the tree has
\* lost its message or is about to, and the cache knows of no other file.
TaskTells(r) ==
    /\ r.pc \notin Unloading
    /\ r.pc \notin Editing => Tells(msgs, tree.nodes)
    /\ r.pc \in Editing =>
          /\ Tells(msgs, Without(tree.nodes, {r.id}))
          /\ r.cap = {CaptionOf(tree.nodes[f]) : f \in {r.id} \cap Files \cap DOMAIN tree.nodes}
    /\ r.pc = "addFile" =>
          \A c \in r.cap : c.trashed = FALSE /\ (r.id \in DOMAIN msgs => msgs[r.id] = c)
    /\ r.pc \in {"cacheLoaded", "cacheRebuilt", "publish", "install"} => Tells(msgs, r.snap)
    /\ r.pc \in {"cacheLoaded", "cacheRebuilt", "publish", "install", "installVer",
                 "flushSend", "flushDone"} => r.ver > 0
    /\ r.pc = "fallback" => Tells(msgs, cache.nodes)
    /\ r.pc = "scan" => DOMAIN r.snap \cap Files = {}
    /\ purged \cap DOMAIN msgs \subseteq Gone(r)
    /\ r.pc \notin LoadSteps => Listed(tree.nodes, cache.nodes, purged)
    /\ r.pc \in {"fetch", "scan"} => Listed(EmptyMap, cache.nodes, purged)
    /\ r.pc = "install" => cache.nodes = r.snap
    /\ r.pc = "installVer" => cache.nodes = tree.nodes

\* A drive that was never loaded has no messages.
Captioned ==
    crashes = 0 => /\ ver = 0 => DOMAIN msgs = {}
                   /\ \A t \in Tasks : TaskTells(op[t])

\* A message id is given out once.
DocsUsed == Docs \subseteq used

LEMMA TellsFacts ==
    ASSUME NEW d, NEW m, Tells(d, m)
    PROVE  /\ \A S : Tells(Without(d, S), m) /\ Tells(d, Without(m, S))
           /\ \A id, n : id \notin Files => Tells(d, With(m, id, n))
           /\ \A id, n : (id \in DOMAIN d => d[id] = CaptionOf(n)) => Tells(d, With(m, id, n))
           /\ \A id, c : (id \in DOMAIN m => c = CaptionOf(m[id])) => Tells(With(d, id, c), m)
  BY DEF Tells, Without, With

LEMMA ListedFacts ==
    ASSUME NEW m, NEW w, NEW gone, Listed(m, w, gone)
    PROVE  /\ \A S : Listed(m, Without(w, S), gone)
           /\ \A id, n, k : Listed(With(m, id, n), With(w, id, k), gone)
           /\ \A id, n : Listed(With(m, id, n), w, gone)
  BY DEF Listed, Without, With

\* What a mark makes of the other nodes, and a pin of every caption.
LEMMA MarkKeeps ==
    ASSUME NEW t, InTree(t), NEW id \in Ids, NEW flag \in BOOLEAN
    PROVE  \A x \in Files \cap DOMAIN t.nodes :
              /\ x # id => SetTrashed(t, id, flag).nodes[x] = t.nodes[x]
              /\ CaptionOf(SetPinned(t, id, flag).nodes[x]) = CaptionOf(t.nodes[x])
  <1>1. CASE id \in Files /\ Has(t, id)
    <2> DEFINE a == [t.nodes[id] EXCEPT !.trashed = flag]
               b == [t.nodes[id] EXCEPT !.pinned = flag]
               u == Remove(t, id)
    <2>0. t.nodes[id] \in Nodes
      BY <1>1, NodeMapsAre DEF InTree, Has
    <2>1. a \in Nodes /\ b \in Nodes /\ CaptionOf(b) = CaptionOf(t.nodes[id])
      BY <2>0, MarkedNode DEF Nodes, CaptionOf, Node
    <2>2. InTree(u) /\ u.nodes = Without(t.nodes, {id})
      BY <1>1, DetachNodes DEF Remove
    <2> HIDE DEF a, b, u
    <2>3. /\ Insert(u, id, a).nodes = With(u.nodes, id, a)
          /\ Insert(u, id, b).nodes = With(u.nodes, id, b)
      BY <2>1, <2>2, InsertNodes
    <2>4. SetTrashed(t, id, flag) = Insert(u, id, a)
          /\ SetPinned(t, id, flag) = Insert(u, id, b)
      BY <1>1 DEF SetTrashed, SetPinned, a, b, u
    <2>5. QED
      BY <1>1, <2>1, <2>2, <2>3, <2>4 DEF With, Without, Has
  <1>2. CASE ~ (id \in Files /\ Has(t, id))
    <2>1. SetTrashed(t, id, flag) = Remove(t, id) /\ SetPinned(t, id, flag) = Remove(t, id)
      BY <1>2 DEF SetTrashed, SetPinned
    <2>2. CASE Has(t, id)
      <3>1. id \notin Files /\ Remove(t, id) = Detach(t, {id})
        BY <1>2, <2>2 DEF Remove
      <3>2. Remove(t, id).nodes = Without(t.nodes, {id})
        BY <3>1, DetachNodes
      <3>3. QED
        BY <2>1, <3>1, <3>2 DEF Without
    <2>3. CASE ~ Has(t, id)
      BY <2>1, <2>3 DEF Remove
    <2>4. QED
      BY <2>2, <2>3
  <1>3. QED
    BY <1>1, <1>2

\* An edit leaves every other file alone.
LEMMA EditKeeps ==
    ASSUME NEW t, InTree(t), NEW id \in Ids, NEW e \in Edits, EditAccepted(t, id, e)
    PROVE  \A x \in (Files \cap DOMAIN t.nodes) \ {id} :
              EditTree(t, id, e).nodes[x] = t.nodes[x]
  <1>1. CASE e.field = "trashed" /\ e.to \in BOOLEAN
    BY <1>1, MarkKeeps DEF EditTree
  <1>2. CASE e.field = "name" /\ e.to \in Names
    BY <1>2 DEF EditTree, EditAccepted, Rename, InTree, IsTree, IsNodeMap
  <1>3. CASE e.field = "parent" /\ e.to \in Parents /\ e.to \notin Files
    <2> DEFINE u == MoveNode(t, id, e.to)
    <2>1. \A x \in DOMAIN t.nodes :
              u.nodes[x] = IF x = id THEN [t.nodes[id] EXCEPT !.parent = e.to]
                           ELSE t.nodes[x]
      BY <1>3, MoveSound DEF EditAccepted, InTree
    <2> HIDE DEF u
    <2>2. EditTree(t, id, e) = u
      BY <1>3 DEF EditTree, u
    <2>3. QED
      BY <2>1, <2>2
  <1>4. QED
    BY <1>1, <1>2, <1>3, IdsAreDistinct DEF Edits, Parents, Ids

\* No id is given out twice: what is deleted never comes back as a new upload.
LEMMA NextDocsUsed == Typed /\ AllHeld /\ DocsUsed /\ [Next]_vars => DocsUsed'
  <1> SUFFICES ASSUME Typed, AllHeld, DocsUsed, [Next]_vars
               PROVE  DocsUsed'
    OBVIOUS
  <1> USE DEF DocsUsed, Docs
  <1>1. ASSUME NEW t \in Tasks, Call(t)
        PROVE  DocsUsed'
    <2>1. ASSUME NEW id \in Files, NEW p \in Parents, NEW n \in Names,
                 UploadSend(t, id, p, n)
          PROVE  DocsUsed'
      BY <2>1 DEF UploadSend, With
    <2>2. ASSUME NEW id \in Ids, DeleteStart(t, id)
          PROVE  DocsUsed'
      BY <2>2 DEF DeleteStart, AllHeld, MapsHeld, Held, store
    <2>3. CASE EmptyStart(t)
      BY <2>3 DEF EmptyStart, AllHeld, MapsHeld, Held, Trashed, store
    <2>4. ASSUME NEW id \in Folders, NEW p \in Parents, NEW n \in Names,
                 CreateFolder(t, id, p, n)
          PROVE  DocsUsed'
      BY <2>4 DEF CreateFolder
    <2>5. CASE UNCHANGED <<msgs, used, purged>>
      BY <2>5
    <2>6. QED
      BY <1>1, <2>1, <2>2, <2>3, <2>4, <2>5 DEF Call, EditStart, TogglePin, DavMove,
         FlushCall, LoadCall, Touch, UnloadCall, store
  <1>2. ASSUME NEW t \in Tasks, Step(t)
        PROVE  DocsUsed'
    <2>1. used' = used /\ purged' = purged
      <3>1. CASE \/ UploadAdd(t) \/ EditCache(t) \/ EditCaption(t) \/ MarkDirty(t)
                 \/ DeletePurge(t) \/ DeleteMessage(t) \/ EmptyCache(t)
                 \/ EmptyMessages(t) \/ Debounce(t)
        BY <3>1 DEF UploadAdd, EditCache, EditCaption, MarkDirty, DeletePurge, DeleteMessage,
           EmptyCache, EmptyMessages, Debounce
      <3>2. CASE \/ FlushRead(t) \/ FlushPrepare(t) \/ FlushSend(t) \/ FlushDone(t)
                 \/ LoadFetch(t) \/ LoadCache(t) \/ RebuildScan(t) \/ RebuildCache(t)
                 \/ RebuildPublish(t)
        BY <3>2 DEF FlushRead, FlushPrepare, FlushSend, FlushDone, LoadFetch, LoadCache,
           RebuildScan, RebuildCache, RebuildPublish
      <3>3. CASE \/ LoadFallback(t) \/ LoadInstall(t) \/ LoadInstallVersion(t)
                 \/ UnloadVersion(t) \/ UnloadRest(t) \/ DropCache(t)
        BY <3>3 DEF LoadFallback, LoadInstall, LoadInstallVersion, UnloadVersion, UnloadRest,
           DropCache
      <3>4. QED
        BY <1>2, <3>1, <3>2, <3>3, ZenonT(30) DEF Step
    <2>2. DOMAIN msgs' \subseteq DOMAIN msgs
      <3>1. CASE EditCaption(t)
        BY <3>1 DEF EditCaption, With
      <3>2. CASE DeleteMessage(t) \/ EmptyMessages(t)
        BY <3>2, ZenonT(30) DEF DeleteMessage, EmptyMessages, Without
      <3>3. CASE msgs' = msgs
        BY <3>3
      <3>4. QED
        BY <1>2, <3>1, <3>2, <3>3, Zenon DEF Step, UploadAdd, EditCache, MarkDirty, DeletePurge,
           EmptyCache, Debounce, FlushRead, FlushPrepare, FlushSend, FlushDone, LoadFetch,
           LoadCache, RebuildScan, RebuildCache, RebuildPublish, LoadFallback, LoadInstall,
           LoadInstallVersion, UnloadVersion, UnloadRest, DropCache, store
    <2>3. QED
      BY <2>1, <2>2
  <1>3. CASE Clock \/ Crash \/ UNCHANGED vars
    BY <1>3 DEF Clock, Crash, vars, store
  <1>4. QED
    BY <1>1, <1>2, <1>3 DEF Next

LEMMA CallCaptioned ==
    ASSUME CaptionsArrive, Typed, AllHeld, DocsUsed, Listing, Captioned,
           NEW t \in Tasks, Call(t)
    PROVE  Captioned'
  <1> USE DEF Typed
  <1> DEFINE r == op'[t]
  <1>0. /\ op' = [op EXCEPT ![t] = r] /\ op[t].pc = "idle" /\ UNCHANGED ver
        /\ \/ r.pc \in FreshSteps \/ UnloadCall(t)
           \/ LoadCall(t) /\ r.pc = "fetch"
        /\ r.pc \in FreshSteps => ver > 0
    BY CallBegins DEF CaptionsArrive, OneCallAtATime, FreshSteps
  <1>1. crashes' = crashes /\ ~UnloadCall(t)
    BY ZenonT(30) DEF Call, CreateFolder, UploadSend, EditStart, TogglePin, DavMove, DeleteStart,
       EmptyStart, FlushCall, LoadCall, Touch, UnloadCall, Begin, CaptionsArrive
  <1>2. SUFFICES ASSUME crashes = 0
                 PROVE  (ver = 0 => DOMAIN msgs' = {}) /\ TaskTells(op[t])'
    BY <1>0, <1>1 DEF Captioned, CaptionsArrive, OneCallAtATime
  <1>3. /\ Tells(msgs, tree.nodes) /\ purged \cap DOMAIN msgs = {}
        /\ Listed(tree.nodes, cache.nodes, purged)
        /\ ver = 0 => DOMAIN msgs = {}
    BY <1>0, <1>2 DEF Captioned, TaskTells, Gone, Deleting, Editing, LoadSteps
  <1>4. Listed(tree'.nodes, cache.nodes, purged')
    BY <1>1, <1>3, CallKeepsFiles DEF Listing
  <1> USE DEF TaskTells, Gone, Deleting, Editing, LoadSteps, Unloading
  <1>5. ASSUME NEW id \in Folders, NEW p \in Parents, NEW n \in Names,
               CreateFolder(t, id, p, n)
        PROVE  TaskTells(op[t])' /\ UNCHANGED msgs
    <2>1. id \in Ids \ Files /\ NewNode(p, n) \in Nodes
      BY <1>5, NewNodeInFolder, IdsAreDistinct DEF Ids, CreateFolder
    <2>2. /\ r.pc \in {"flushRead", "debounce"} /\ UNCHANGED <<msgs, purged>>
          /\ tree'.nodes = With(tree.nodes, id, NewNode(p, n))
          /\ cache'.nodes \in {cache.nodes, With(cache.nodes, id, NewNode(p, n))}
      BY <1>0, <1>5, <2>1, InsertNodes DEF CreateFolder, AddNode, After, Idle, CacheUpsert, Caches
    <2>3. Tells(msgs, tree'.nodes) /\ Listed(tree'.nodes, cache'.nodes, purged)
      BY <1>3, <2>1, <2>2, TellsFacts, ListedFacts
    <2>4. QED
      BY <1>3, <2>2, <2>3
  <1>6. ASSUME NEW id \in Files, NEW p \in Parents, NEW n \in Names,
               UploadSend(t, id, p, n)
        PROVE  TaskTells(op[t])' /\ ver > 0
    <2> DEFINE c == CaptionOf(NewNode(p, n))
    <2>1. PICK o \in Outcomes("upload") :
             /\ msgs' = IF o[1] THEN With(msgs, id, c) ELSE msgs
             /\ op' = IF o[1] /\ o[2]
                      THEN [op EXCEPT ![t] = [Idle EXCEPT !.pc = "addFile", !.id = id,
                                                          !.cap = {c}]]
                      ELSE op
      BY <1>6 DEF UploadSend
    <2>2. /\ id \notin DOMAIN tree.nodes /\ id \notin purged
          /\ UNCHANGED <<tree, cache, purged>>
      <3>1. /\ id \in Files /\ (\A x \in used \cap Files : x < id)
            /\ UNCHANGED <<tree, cache, purged>>
        BY <1>6 DEF UploadSend, memory
      <3>2. id \notin used
        BY <3>1, EngineAssumption DEF EngineAssumption
      <3>3. QED
        BY <3>1, <3>2 DEF AllHeld, MapsHeld, Held, DocsUsed, Docs
    <2>3. c.trashed = FALSE
      BY DEF CaptionOf, NewNode
    <2> HIDE DEF c
    <2>4. /\ Tells(msgs', tree'.nodes) /\ purged' \cap DOMAIN msgs' = {}
          /\ id \in DOMAIN msgs' => msgs'[id] = c \/ ~o[1]
      BY <1>3, <2>1, <2>2 DEF Tells, With
    <2>5. \/ r.pc = "idle"
          \/ r.pc = "addFile" /\ r.cap = {c} /\ r.id = id /\ o[1]
      BY <1>0, <2>1 DEF Idle
    <2>6. ver > 0
      BY <1>0, <1>6, <2>5 DEF UploadSend, FreshSteps, LoadCall, Begin, Idle
    <2>7. QED
      BY <1>3, <2>2, <2>3, <2>4, <2>5, <2>6
  <1>7. ASSUME NEW id \in Ids, NEW e \in Edits, EditStart(t, id, e)
        PROVE  TaskTells(op[t])' /\ UNCHANGED msgs
    <2>1. /\ UNCHANGED <<cache, msgs, purged>> /\ tree' = EditTree(tree, id, e)
          /\ r.pc = "editCache" /\ r.id = id
          /\ r.cap = {CaptionOf(tree'.nodes[f]) : f \in {id} \cap Files \cap DOMAIN tree'.nodes}
      BY <1>7 DEF EditStart, store, Idle
    <2>2. \A x \in Files : x \in DOMAIN tree'.nodes <=> x \in DOMAIN tree.nodes
      BY <1>7, <2>1, EditTreeTyped DEF EditStart
    <2>3. \A x \in (Files \cap DOMAIN tree.nodes) \ {id} : tree'.nodes[x] = tree.nodes[x]
      BY <1>7, <2>1, EditKeeps DEF EditStart
    <2>4. Tells(msgs, Without(tree'.nodes, {id}))
      BY <1>3, <2>2, <2>3 DEF Tells, Without
    <2>5. QED
      BY <1>3, <1>4, <2>1, <2>4
  <1>8. ASSUME NEW id \in Ids, NEW b \in BOOLEAN, TogglePin(t, id, b)
        PROVE  TaskTells(op[t])' /\ UNCHANGED msgs
    <2>1. UNCHANGED <<cache, msgs, purged>> /\ tree' = SetPinned(tree, id, b) /\ r.pc = "idle"
      BY <1>0, <1>8 DEF TogglePin, store
    <2>2. \A x \in Files : x \in DOMAIN tree'.nodes <=> x \in DOMAIN tree.nodes
      BY <2>1, MarkNodes
    <2>3. \A x \in Files \cap DOMAIN tree.nodes :
              CaptionOf(tree'.nodes[x]) = CaptionOf(tree.nodes[x])
      BY <2>1, MarkKeeps
    <2>4. Tells(msgs, tree'.nodes)
      BY <1>3, <2>2, <2>3 DEF Tells
    <2>5. QED
      BY <1>3, <1>4, <2>1, <2>4
  <1>9. ASSUME NEW id \in Ids, DeleteStart(t, id)
        PROVE  TaskTells(op[t])' /\ UNCHANGED msgs
    <2> DEFINE gone == Subtree(tree, id) \cap DOMAIN tree.nodes
    <2>1. /\ UNCHANGED <<cache, msgs>> /\ purged' = purged \cup (gone \cap Files)
          /\ tree' = RemoveRecursive(tree, id) /\ r.pc = "purge" /\ r.todo = gone
      BY <1>9 DEF DeleteStart, store, Idle
    <2>2. Tells(msgs, tree'.nodes)
      BY <1>3, <2>1, TellsFacts, DetachNodes DEF RemoveRecursive
    <2> HIDE DEF gone
    <2>3. purged' \cap DOMAIN msgs' \subseteq Gone(r)
      BY <1>3, <2>1
    <2>4. QED
      BY <1>4, <2>1, <2>2, <2>3
  <1>10. ASSUME EmptyStart(t)
         PROVE  TaskTells(op[t])' /\ UNCHANGED msgs
    <2>1. /\ UNCHANGED <<cache, msgs>> /\ purged' = purged \cup (Trashed(tree) \cap Files)
          /\ tree' = EmptyTrash(tree) /\ r.pc = "emptyCache"
          /\ r.todo = Trashed(tree) \cap Files
      BY <1>10 DEF EmptyStart, store, Idle
    <2>2. Tells(msgs, tree'.nodes)
      BY <1>3, <2>1, TellsFacts, DetachNodes DEF EmptyTrash
    <2>3. purged' \cap DOMAIN msgs' \subseteq Gone(r)
      BY <1>3, <2>1
    <2>4. QED
      BY <1>4, <2>1, <2>2, <2>3
  <1>11. ASSUME FlushCall(t) \/ Touch(t) \/ \E id \in Ids : DavMove(t, id)
         PROVE  TaskTells(op[t])' /\ UNCHANGED msgs
    <2>1. UNCHANGED <<tree, cache, msgs, purged>> /\ r.pc \in {"flushRead", "debounce", "idle"}
      BY <1>0, <1>11 DEF FlushCall, Touch, DavMove, After, Idle, memory, store
    <2>2. QED
      BY <1>3, <2>1
  <1>12. ASSUME LoadCall(t)
         PROVE  TaskTells(op[t])' /\ UNCHANGED msgs
    <2>1. /\ UNCHANGED <<tree, cache, msgs, purged>> /\ r.pc = "fetch"
          /\ DOMAIN tree.nodes = {}
      BY <1>12 DEF LoadCall, Idle, memory, store, Listing, NothingAbsent
    <2>2. Listed(EmptyMap, cache.nodes, purged)
      BY <1>3, <2>1 DEF Listed
    <2>3. QED
      BY <1>3, <2>1, <2>2
  <1> HIDE DEF TaskTells
  <1>13. QED
    BY <1>1, <1>3, <1>5, <1>6, <1>7, <1>8, <1>9, <1>10, <1>11, <1>12 DEF Call

LEMMA StepCaptioned ==
    ASSUME CaptionsArrive, Typed, AllHeld, Listing, Captioned, NEW t \in Tasks, Step(t)
    PROVE  Captioned'
  <1> USE DEF Typed
  <1> DEFINE r == op'[t]
  <1>0. /\ op[t] \in Ops /\ op[t].snap \in NodeMaps /\ op[t].ver \in Nat
        /\ TaskListed(op[t]) /\ cache.nodes \in NodeMaps /\ tree.nodes \in NodeMaps
    BY SMTT(30) DEF Ops, Listing, Caches, InTree
  <1>1. crashes' = crashes /\ purged' = purged
    BY DEF Step, UploadAdd, EditCache, EditCaption, MarkDirty, DeletePurge,
       DeleteMessage, EmptyCache, EmptyMessages, Debounce, FlushRead, FlushPrepare,
       FlushSend, FlushDone, LoadFetch, LoadCache, RebuildScan, RebuildCache,
       RebuildPublish, LoadFallback, LoadInstall, LoadInstallVersion, UnloadVersion,
       UnloadRest, DropCache, bounds
  <1>2. SUFFICES ASSUME crashes = 0
                 PROVE  (ver' = 0 => DOMAIN msgs' = {}) /\ TaskTells(op[t])'
    BY <1>1 DEF Captioned, CaptionsArrive, OneCallAtATime
  <1>3. TaskTells(op[t]) /\ (ver = 0 => DOMAIN msgs = {})
    BY <1>2 DEF Captioned
  <1>4. ASSUME NEW o \in Outcomes("caption") \cup Outcomes("delete")
        PROVE  o[1]
    <2>1. "caption" \notin Faults /\ "delete" \notin Faults
      BY DEF CaptionsArrive
    <2>2. o = <<TRUE, TRUE>>
      BY <2>1 DEF Outcomes
    <2>3. QED
      BY <2>2
  <1> DEFINE Kept == TaskTells(op[t])' /\ ver' = ver /\ DOMAIN msgs' \subseteq DOMAIN msgs
  <1> USE DEF TaskTells, Gone, Deleting, Editing, LoadSteps, Unloading
  <1>5. ASSUME UploadAdd(t)
        PROVE  Kept
    <2>1. PICK c \in op[t].cap : AddNode(op[t].id, NewNode(c.parent, c.name))
      BY <1>5 DEF UploadAdd
    <2> DEFINE n == NewNode(c.parent, c.name)
    <2>2. c \in Caps /\ c.trashed = FALSE
      BY <1>0, <1>3, <1>5 DEF UploadAdd, Ops
    <2>3. n \in Nodes /\ op[t].id \in Ids /\ CaptionOf(n) = c
      BY <1>0, <1>5, <2>2, NewNodeInFolder
         DEF UploadAdd, Captions, Caps, Parents, Ids, Ops, CaptionOf, NewNode
    <2> HIDE DEF n
    <2>4. /\ tree'.nodes = With(tree.nodes, op[t].id, n)
          /\ cache'.nodes \in {cache.nodes, With(cache.nodes, op[t].id, n)}
      BY <2>1, <2>3, InsertNodes DEF AddNode, CacheUpsert, Caches, n
    <2>5. op[t].pc = "addFile" /\ r.pc = "idle" /\ UNCHANGED <<ver, msgs>>
      BY <1>5 DEF UploadAdd, Return, Idle
    <2>6. op[t].id \in DOMAIN msgs => msgs[op[t].id] = CaptionOf(n)
      BY <1>3, <2>1, <2>3, <2>5
    <2>7. Tells(msgs, tree'.nodes) /\ Listed(tree'.nodes, cache'.nodes, purged)
      BY <1>3, <2>4, <2>5, <2>6, TellsFacts, ListedFacts
    <2>8. QED
      BY <1>1, <1>3, <2>5, <2>7
  <1>6. ASSUME EditCache(t)
        PROVE  Kept
    <2>1. /\ UNCHANGED <<ver, tree, msgs>> /\ op[t].pc = "editCache"
          /\ r.id = op[t].id /\ r.cap = op[t].cap
          /\ r.pc = IF op[t].cap = {} THEN "mark" ELSE "editCaption"
          /\ DOMAIN cache'.nodes = DOMAIN cache.nodes
      BY <1>0, <1>6 DEF EditCache, CacheEdit, With, Goto, Ops, memory, Caches
    <2>2. Listed(tree.nodes, cache'.nodes, purged)
      BY <1>3, <2>1 DEF Listed
    <2>3. op[t].cap = {} => Tells(msgs, tree.nodes)
      <3>1. /\ Tells(msgs, Without(tree.nodes, {op[t].id}))
            /\ op[t].cap = {CaptionOf(tree.nodes[f]) :
                                f \in {op[t].id} \cap Files \cap DOMAIN tree.nodes}
        BY <1>3, <2>1
      <3>2. op[t].cap = {} => op[t].id \notin Files \cap DOMAIN tree.nodes
        BY <3>1
      <3>3. QED
        BY <3>1, <3>2 DEF Tells, Without
    <2>4. QED
      BY <1>1, <1>3, <2>1, <2>2, <2>3
  <1>7. ASSUME EditCaption(t)
        PROVE  Kept
    <2>1. PICK c \in op[t].cap :
             msgs' = IF op[t].id \in DOMAIN msgs THEN With(msgs, op[t].id, c) ELSE msgs
      BY <1>4, <1>7 DEF EditCaption
    <2>2. UNCHANGED <<ver, tree, cache>> /\ op[t].pc = "editCaption" /\ r.pc = "mark"
      BY <1>0, <1>7 DEF EditCaption, Goto, Ops, memory
    <2>3. c = CaptionOf(tree.nodes[op[t].id])
      <3>1. op[t].cap = {CaptionOf(tree.nodes[f]) :
                            f \in {op[t].id} \cap Files \cap DOMAIN tree.nodes}
        BY <1>3, <2>2
      <3>2. QED
        BY <2>1, <3>1
    <2>4. Tells(msgs', tree.nodes) /\ DOMAIN msgs' = DOMAIN msgs
      <3>1. Tells(msgs, Without(tree.nodes, {op[t].id}))
        BY <1>3, <2>2
      <3>2. QED
        BY <2>1, <2>3, <3>1 DEF Tells, With, Without
    <2>5. QED
      BY <1>1, <1>3, <2>2, <2>4
  <1>8. ASSUME MarkDirty(t) \/ Debounce(t)
        PROVE  Kept
    <2>1. /\ UNCHANGED <<ver, tree, cache, msgs>> /\ op[t].pc \in {"mark", "debounce"}
          /\ r.pc \in {"flushRead", "debounce", "idle"}
      BY <1>0, <1>8 DEF MarkDirty, Debounce, Goto, Return, After, Idle, Ops, Thens, store
    <2>2. QED
      BY <1>1, <1>3, <2>1
  <1>9. ASSUME DeletePurge(t)
        PROVE  Kept
    <2>1. UNCHANGED <<ver, tree, msgs>> /\ op[t].pc = "purge"
      BY <1>9 DEF DeletePurge, memory
    <2>2. CASE op[t].todo = {} /\ Goto(t, "mark") /\ UNCHANGED cache
      <3>1. r.pc = "mark"
        BY <1>0, <2>2 DEF Goto, Ops
      <3>2. QED
        BY <1>1, <1>3, <2>1, <2>2, <3>1
    <2>3. ASSUME NEW x \in op[t].todo, cache' = CacheDelete(cache, {x}),
                 op' = [op EXCEPT ![t].pc = IF x \in Files THEN "purgeMsg" ELSE "purge",
                                  ![t].id = x, ![t].todo = @ \ {x}]
          PROVE  Kept
      <3>1. op' = [op EXCEPT ![t] = [op[t] EXCEPT
                      !.pc = IF x \in Files THEN "purgeMsg" ELSE "purge",
                      !.id = x, !.todo = @ \ {x}]]
        BY <2>3
      <3>2. /\ r.pc = IF x \in Files THEN "purgeMsg" ELSE "purge"
            /\ r.todo = op[t].todo \ {x} /\ r.id = x
        BY <1>0, <3>1 DEF Ops
      <3>3. purged \cap DOMAIN msgs \subseteq Gone(r)
        BY <1>3, <2>1, <3>2
      <3>4. cache'.nodes = Without(cache.nodes, {x})
        BY <2>3 DEF CacheDelete, Caches
      <3>5. Listed(tree.nodes, cache'.nodes, purged)
        BY <1>3, <2>1, <3>4, ListedFacts
      <3>6. QED
        BY <1>1, <1>3, <2>1, <3>2, <3>3, <3>5
    <2>4. QED
      BY <1>9, <2>2, <2>3 DEF DeletePurge
  <1>10. ASSUME DeleteMessage(t)
         PROVE  Kept
    <2>1. /\ UNCHANGED <<ver, tree, cache>> /\ op[t].pc = "purgeMsg"
          /\ r.pc = "purge" /\ r.todo = op[t].todo
          /\ msgs' = Without(msgs, {op[t].id})
      BY <1>0, <1>4, <1>10 DEF DeleteMessage, Goto, Ops, memory
    <2>2. /\ Tells(msgs', tree.nodes) /\ DOMAIN msgs' = DOMAIN msgs \ {op[t].id}
      BY <1>3, <2>1, TellsFacts DEF Without
    <2>3. QED
      BY <1>1, <1>3, <2>1, <2>2
  <1>11. ASSUME EmptyCache(t)
         PROVE  Kept
    <2>1. /\ UNCHANGED <<ver, tree, msgs>> /\ op[t].pc = "emptyCache"
          /\ r.pc = "emptyMsgs" /\ r.todo = op[t].todo
      BY <1>0, <1>11 DEF EmptyCache, Goto, Ops, memory
    <2>2. \E S : cache'.nodes = Without(cache.nodes, S)
      BY <1>11 DEF EmptyCache, CacheDelete, Caches
    <2>3. Listed(tree.nodes, cache'.nodes, purged)
      BY <1>3, <2>1, <2>2, ListedFacts
    <2>4. QED
      BY <1>1, <1>3, <2>1, <2>3
  <1>12. ASSUME EmptyMessages(t)
         PROVE  Kept
    <2>1. UNCHANGED <<ver, tree, cache>> /\ op[t].pc = "emptyMsgs"
      BY <1>12 DEF EmptyMessages, memory
    <2>2. CASE op[t].todo = {} /\ Goto(t, "mark") /\ UNCHANGED msgs
      <3>1. r.pc = "mark"
        BY <1>0, <2>2 DEF Goto, Ops
      <3>2. QED
        BY <1>1, <1>3, <2>1, <2>2, <3>1
    <2>3. ASSUME NEW x \in op[t].todo, msgs' = Without(msgs, {x}),
                 op' = [op EXCEPT ![t].todo = @ \ {x}]
          PROVE  Kept
      <3>1. r.pc = "emptyMsgs" /\ r.todo = op[t].todo \ {x}
        BY <1>0, <2>1, <2>3 DEF Ops
      <3>2. Tells(msgs', tree.nodes) /\ DOMAIN msgs' = DOMAIN msgs \ {x}
        BY <1>3, <2>1, <2>3, TellsFacts DEF Without
      <3>3. QED
        BY <1>1, <1>3, <2>1, <3>1, <3>2
    <2>4. QED
      BY <1>4, <1>12, <2>2, <2>3 DEF EmptyMessages
  <1>13. ASSUME FlushRead(t) \/ FlushSend(t)
         PROVE  Kept
    <2>1. /\ UNCHANGED <<ver, tree, cache, msgs>> /\ op[t].pc \in {"flushRead", "flushSend"}
          /\ \/ r.pc \in {"flushLock", "idle"}
             \/ op[t].pc = "flushSend" /\ r.pc = "flushDone" /\ r.ver = op[t].ver
      BY <1>0, <1>13 DEF FlushRead, FlushSend, Goto, Return, Idle, Ops, memory, store
    <2>2. QED
      BY <1>1, <1>3, <2>1
  <1>14. ASSUME FlushPrepare(t)
         PROVE  Kept
    <2>1. op' = [op EXCEPT ![t] = [op[t] EXCEPT !.pc = "flushSend", !.ver = NextVersion]]
      BY <1>14 DEF FlushPrepare
    <2>2. /\ UNCHANGED <<ver, tree, msgs>> /\ op[t].pc = "flushLock" /\ r.pc = "flushSend"
          /\ r.ver = NextVersion /\ cache'.nodes = op[t].snap
      BY <1>0, <1>14, <2>1 DEF FlushPrepare, CacheReplace, Ops, memory
    <2>3. NextVersion > 0
      BY DEF NextVersion
    <2>4. op[t].snap = tree.nodes
      BY <1>0, <2>2 DEF TaskListed
    <2>5. Listed(tree.nodes, cache'.nodes, purged)
      BY <2>2, <2>4 DEF Listed
    <2>6. QED
      BY <1>1, <1>3, <2>2, <2>3, <2>5
  <1> DEFINE Set == TaskTells(op[t])' /\ (ver' = ver \/ ver' > 0) /\ UNCHANGED msgs
  <1>15. ASSUME FlushDone(t) \/ LoadInstallVersion(t)
         PROVE  Set
    <2>1. /\ UNCHANGED <<tree, cache, msgs>> /\ op[t].pc \in {"flushDone", "installVer"}
          /\ r.pc = "idle" /\ ver' = op[t].ver
      BY <1>15 DEF FlushDone, LoadInstallVersion, Return, Idle, store
    <2>2. Listed(tree.nodes, cache.nodes, purged)
      BY <1>3, <2>1 DEF Listed
    <2>3. QED
      BY <1>1, <1>3, <2>1, <2>2
  <1>16. ASSUME LoadFetch(t)
         PROVE  Set
    <2>1. /\ UNCHANGED <<ver, tree, cache, msgs>> /\ op[t].pc = "fetch"
          /\ \/ r.pc = "cacheLoaded" /\ r.ver = remote.ver /\ r.snap = remote.nodes
                /\ remote.ver > 0
             \/ r.pc = "scan" /\ DOMAIN r.snap \cap Files = {}
      BY <1>0, <1>16 DEF LoadFetch, Without, Ops, memory, store
    <2>2. CASE ver = 0
      BY <1>1, <1>3, <2>1, <2>2 DEF Tells
    <2>3. CASE ver > 0
      <3>1. Listed(EmptyMap, remote.nodes, purged)
        BY <1>0, <2>1, <2>3 DEF TaskListed, Asking
      <3>2. Tells(msgs, remote.nodes)
        BY <1>3, <2>1, <3>1 DEF Tells, Listed, EmptyMap
      <3>3. QED
        BY <1>1, <1>3, <2>1, <3>2
    <2> HIDE DEF Set
    <2>4. QED
      BY <2>2, <2>3
  <1>17. ASSUME LoadCache(t) \/ RebuildCache(t)
         PROVE  Set
    <2>1. /\ UNCHANGED <<ver, tree, msgs>> /\ op[t].pc \in {"cacheLoaded", "cacheRebuilt"}
          /\ r.pc \in {"install", "publish"} /\ r.ver = op[t].ver /\ r.snap = op[t].snap
          /\ cache'.nodes = op[t].snap
      BY <1>0, <1>17 DEF LoadCache, RebuildCache, CacheReplace, Goto, Ops, memory
    <2>2. QED
      BY <1>1, <1>3, <2>1
  <1>18. ASSUME RebuildScan(t)
         PROVE  Set
    <2>1. UNCHANGED <<ver, tree, cache, msgs>> /\ op[t].pc = "scan"
      BY <1>18 DEF RebuildScan, memory, store
    <2>2. ASSUME NEW n \in Names, NEW docs \in Scanned,
                 op' = [op EXCEPT ![t].pc = "cacheRebuilt", ![t].ver = 1,
                                  ![t].snap = Rebuilt(docs, @, n)]
          PROVE  Set
      <3>1. r.pc = "cacheRebuilt" /\ r.ver = 1 /\ r.snap = Rebuilt(docs, op[t].snap, n)
        BY <1>0, <2>2 DEF Ops
      <3>2. /\ \A f \in DOMAIN docs : docs[f] \in Captions /\ docs[f] = msgs[f]
            /\ DOMAIN Rebuilt(docs, op[t].snap, n) \cap Files \subseteq DOMAIN docs
        BY <1>0, <1>3, <2>1, ScanFacts, RebuiltTyped DEF IsCaptionMap, Caps
      <3>3. Tells(msgs, Rebuilt(docs, op[t].snap, n))
        BY <3>2 DEF Tells, Rebuilt, CaptionOf, Captions
      <3>4. QED
        BY <1>1, <1>3, <2>1, <3>1, <3>3
    <2>3. CASE Goto(t, "fallback")
      <3>1. r.pc = "fallback"
        BY <1>0, <2>3 DEF Goto, Ops
      <3>2. Tells(msgs, cache.nodes)
        BY <1>3, <2>1 DEF Tells, Listed, EmptyMap
      <3>3. QED
        BY <1>1, <1>3, <2>1, <3>1, <3>2
    <2>4. QED
      BY <1>18, <2>2, <2>3 DEF RebuildScan
  <1>19. ASSUME RebuildPublish(t)
         PROVE  Set
    <2>1. /\ UNCHANGED <<ver, tree, cache, msgs>> /\ op[t].pc = "publish"
          /\ r.pc \in {"install", "fallback"} /\ r.ver = op[t].ver /\ r.snap = op[t].snap
      BY <1>0, <1>19 DEF RebuildPublish, Goto, Ops, memory
    <2>2. cache.nodes = op[t].snap
      BY <1>0, <2>1 DEF TaskListed
    <2>3. QED
      BY <1>1, <1>3, <2>1, <2>2
  <1>20. ASSUME LoadFallback(t)
         PROVE  Set
    <2>1. /\ UNCHANGED <<ver, cache, msgs>> /\ op[t].pc = "fallback" /\ r.pc = "idle"
          /\ tree'.nodes = cache.nodes
      BY <1>20, FromNodesTyped DEF LoadFallback, Return, Idle, Caches, store
    <2>2. Listed(tree'.nodes, cache.nodes, purged)
      BY <2>1 DEF Listed
    <2>3. QED
      BY <1>1, <1>3, <2>1, <2>2
  <1>21. ASSUME LoadInstall(t)
         PROVE  Set
    <2>1. /\ UNCHANGED <<ver, cache, msgs>> /\ op[t].pc = "install"
          /\ r.pc = "installVer" /\ r.ver = op[t].ver /\ tree'.nodes = op[t].snap
      BY <1>0, <1>21, FromNodesTyped DEF LoadInstall, Goto, Ops, store
    <2>2. QED
      BY <1>1, <1>3, <2>1
  <1>22. ~ (UnloadVersion(t) \/ UnloadRest(t) \/ DropCache(t))
    BY <1>3 DEF UnloadVersion, UnloadRest, DropCache
  <1> HIDE DEF TaskTells
  <1>23. Kept \/ Set
    BY <1>5, <1>6, <1>7, <1>8, <1>9, <1>10, <1>11, <1>12, <1>13, <1>14, <1>15, <1>16,
       <1>17, <1>18, <1>19, <1>20, <1>21, <1>22 DEF Step
  <1>24. TaskTells(op[t])'
    BY <1>23
  <1>25. ver' = 0 => DOMAIN msgs' = {}
    BY <1>3, <1>23, SMTT(30)
  <1>26. QED
    BY <1>24, <1>25

\* Restarts are only counted upwards.
LEMMA CrashesCount == Typed /\ [Next]_vars /\ crashes' = 0 => crashes = 0
  <1>1. ASSUME Typed, Next \/ UNCHANGED vars
        PROVE  crashes' \in {crashes, crashes + 1} /\ crashes \in Nat
    <2>1. ASSUME NEW t \in Tasks, Call(t)
          PROVE  crashes' = crashes
      BY <2>1, ZenonT(30) DEF Call, CreateFolder, UploadSend, EditStart, TogglePin, DavMove,
         DeleteStart, EmptyStart, FlushCall, LoadCall, Touch, UnloadCall, Begin
    <2>2. ASSUME NEW t \in Tasks, Step(t)
          PROVE  crashes' = crashes
      BY <2>2 DEF Step, UploadAdd, EditCache, EditCaption, MarkDirty, DeletePurge,
         DeleteMessage, EmptyCache, EmptyMessages, Debounce, FlushRead, FlushPrepare,
         FlushSend, FlushDone, LoadFetch, LoadCache, RebuildScan, RebuildCache,
         RebuildPublish, LoadFallback, LoadInstall, LoadInstallVersion, UnloadVersion,
         UnloadRest, DropCache, bounds
    <2>3. QED
      BY <1>1, <2>1, <2>2 DEF Next, Clock, Crash, vars, bounds, Typed
  <1>2. QED
    BY <1>1

LEMMA OtherCaptioned ==
    ASSUME Typed, Captioned, Clock \/ Crash \/ UNCHANGED vars
    PROVE  Captioned'
  <1>1. CASE Clock \/ UNCHANGED vars
    <2>1. UNCHANGED <<tree, ver, cache, msgs, op, purged, crashes>>
      BY <1>1 DEF Clock, vars, memory, store, bounds
    <2>2. ASSUME NEW t \in Tasks, TaskTells(op[t])
          PROVE  TaskTells(op[t])'
      BY <2>1, <2>2 DEF TaskTells
    <2>3. QED
      BY <2>1, <2>2, Zenon DEF Captioned
  <1>2. CASE Crash
    <2>1. crashes' # 0
      BY <1>2 DEF Crash, Typed
    <2>2. QED
      BY <2>1 DEF Captioned
  <1>3. QED
    BY <1>1, <1>2

\* With one call at a time, no deleted drive and every request about a message
\* answered, the captions say between the calls what the tree says, up to the
\* first restart: whatever else failed, and whether a load took the manifest,
\* a rebuild from those captions or the rows of the cache.
THEOREM CaptionsTold ==
    ASSUME CaptionsArrive
    PROVE  Spec => []CaptionsAgree
  <1>1. Init => Captioned
    <2> SUFFICES ASSUME Init PROVE Captioned
      OBVIOUS
    <2>1. /\ tree.nodes = EmptyMap /\ cache.nodes = EmptyMap /\ DOMAIN msgs = {}
          /\ purged = {} /\ \A t \in Tasks : op[t].pc = "idle"
      BY EmptyTreeTyped DEF Init, NoCache, EmptyMap, Idle
    <2>2. Tells(msgs, EmptyMap) /\ Listed(EmptyMap, EmptyMap, {})
      BY DEF Tells, Listed, EmptyMap
    <2>3. QED
      BY <2>1, <2>2 DEF Captioned, TaskTells, Editing, LoadSteps, Unloading
  <1>2. Init => DocsUsed
    BY DEF Init, DocsUsed, Docs, EmptyMap
  <1> DEFINE Both == Captioned /\ (crashes = 0 => Listing)
  <1>3. ASSUME Typed, AllHeld, Both, crashes = 0, [Next]_vars
        PROVE  Listing'
    <2>1. ver = 0 => \A docs \in Scanned : DOMAIN docs = DOMAIN msgs
      BY <1>3, ScanFacts DEF Captioned, Typed
    <2>2. QED
      BY <1>3, <2>1, CallListed, StepListed, OtherListed DEF Next, CaptionsArrive
  <1>4. ASSUME Typed, AllHeld, DocsUsed, Both, [Next]_vars
        PROVE  Both'
    <2>1. CASE crashes = 0
      BY <1>3, <1>4, <2>1, CallCaptioned, StepCaptioned, OtherCaptioned DEF Next
    <2>2. CASE crashes # 0
      BY <1>4, <2>2, CrashesCount DEF Captioned
    <2>3. QED
      BY <2>1, <2>2
  <1>5. Captioned => CaptionsAgree
    BY DEF Captioned, TaskTells, Tells, CaptionsAgree, AllIdle, Editing, CaptionsArrive,
       OneCallAtATime
  <1>6. QED
    BY <1>1, <1>2, <1>3, <1>4, <1>5, InitHeld, NextHeld, InitListed, NextDocsUsed,
       AlwaysTyped, PTL DEF Spec

=============================================================================
