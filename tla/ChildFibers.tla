----------------------------- MODULE ChildFibers -----------------------------
(***************************************************************************)
(* ReactChildFiber and the host mutations of ReactFiberCommitWork: the     *)
(* children of one host parent are rendered again, reconciled with the     *)
(* fibers that are there, and the commit deletes, moves and inserts host   *)
(* nodes one by one.                                                       *)
(*                                                                         *)
(* A child is nothing, a text, a host element or a group: a component or a *)
(* fragment, whose host children are nodes of the same parent.  A portal   *)
(* is a group without any.  The children come as an array, or as one       *)
(* child.  Keys are unique among siblings, as React requires.              *)
(***************************************************************************)
EXTENDS Integers, SequencesExt

CONSTANTS
    NoKey,          \* the key of a child without one (null)
    Renderings,     \* the children that may be rendered
    MaxRenders      \* bound on the renders

ASSUME ChildFibersAssumption ==
    /\ MaxRenders \in Nat
    /\ \A r \in Renderings : r.single \in BOOLEAN /\ (r.single => Len(r.items) = 1)

VARIABLES
    tree,      \* the fibers of the finished work, with their Placement flags
    effects,   \* the mutations the commit has still to make
    dom,       \* the child nodes of the host parent
    rendered,  \* what was rendered last
    renders    \* how many renders there were

vars == <<tree, effects, dom, rendered, renders>>

NoNode == << >>

IsGroup(x) == x.type = "group"
IsHost(x) == x.type \notin {"group", "empty"}

-----------------------------------------------------------------------------
(* Reconciliation.                                                         *)

(* createFiberFromElement, createFiberFromText and createFiberFromFragment *)
(* for the item at position id; the node has the name of its place.        *)
NewFiber(item, id) ==
    [node |-> id, key |-> item.key, type |-> item.type, index |-> 0,
     placement |-> FALSE, child |-> << >>]

KeepIndex(fiber, i) == fiber   \* mutant

SetIndex(fiber, i) == [fiber EXCEPT !.index = i]

(* placeChild: a fiber that was in front of one that stays has to move.    *)
MoveOffByOne(oldIndex, last) == oldIndex + 1 < last   \* mutant

IsMove(oldIndex, last) == oldIndex < last

SameType(old, item) == old.type = item.type

(* The fibers that are placed so far, the old ones that are left, those    *)
(* that are deleted, and lastPlacedIndex.  byKey: mapRemainingChildren was *)
(* called.                                                                 *)
Start(old) == [fibers |-> << >>, rest |-> old, deleted |-> << >>, last |-> 0, byKey |-> FALSE]

Reuse(s, old, i) ==
    LET move == IsMove(old.index, s.last)
    IN  [s EXCEPT !.fibers = Append(@, [SetIndex(old, i) EXCEPT !.placement = move]),
                  !.rest = SelectSeq(@, LAMBDA f : f # old),
                  !.last = IF move THEN @ ELSE old.index]

Insert(s, item, i, id) ==
    [s EXCEPT !.fibers = Append(@, [SetIndex(NewFiber(item, id), i) EXCEPT !.placement = TRUE])]

(* The old fiber in the slot of the item has its key: it is reused, or     *)
(* replaced.                                                               *)
UpdateSlot(s, item, i, id) ==
    IF s.rest # << >> /\ Head(s.rest).index <= i
    THEN LET old == Head(s.rest)
         IN  IF SameType(old, item) THEN Reuse(s, old, i)
             ELSE Insert([s EXCEPT !.deleted = Append(@, old), !.rest = Tail(@)], item, i, id)
    ELSE Insert(s, item, i, id)

(* updateSlot returns null. *)
MissesSlot(s, item, i) ==
    /\ s.rest # << >>
    /\ \/ item.type = "empty"
       \/ item.key # (IF Head(s.rest).index <= i THEN Head(s.rest).key ELSE NoKey)

FindByPosition(old, item, i) == old.index = i   \* mutant

(* The entry of existingChildren for the item, by its key or its position. *)
Finds(old, item, i) ==
    IF item.key = NoKey THEN old.key = NoKey /\ old.index = i ELSE old.key = item.key

UpdateFromMap(s, item, i, id) ==
    LET found == SelectSeq(s.rest, LAMBDA f : Finds(f, item, i) /\ SameType(f, item))
    IN  IF item.type = "empty" THEN s
        ELSE IF found # << >> THEN Reuse(s, Head(found), i) ELSE Insert(s, item, i, id)

(* reconcileChildrenArray: slot by slot until a key is missed, then with   *)
(* the map of the old fibers that are left, if there are any.              *)
UpdateChild(s, item, i, id) ==
    IF s.byKey \/ MissesSlot(s, item, i)
    THEN UpdateFromMap([s EXCEPT !.byKey = TRUE], item, i, id)
    ELSE IF item.type = "empty" THEN s ELSE UpdateSlot(s, item, i, id)

DeleteRemaining(s) == [s EXCEPT !.deleted = @ \o s.rest, !.rest = << >>]

ReconcileChildrenArray(old, items, place) ==
    LET after[n \in 0..Len(items)] ==
            IF n = 0 THEN Start(old) ELSE UpdateChild(after[n - 1], items[n], n - 1, Append(place, n))
    IN  DeleteRemaining(after[Len(items)])

(* reconcileSingleElement, reconcileSingleTextNode: the first old fiber    *)
(* with the key of the element, or the first one if the child is a text;   *)
(* all the others go.                                                      *)
ReconcileSingleChild(old, item, id) ==
    LET keyed == SelectSeq(old, LAMBDA f : item.type = "text" \/ f.key = item.key)
        match == IF keyed # << >> /\ SameType(Head(keyed), item) THEN <<Head(keyed)>> ELSE << >>
    IN
    [Start(old) EXCEPT
        !.fibers = IF item.type = "empty" THEN << >>
                   ELSE IF match # << >>
                   THEN <<[Head(match) EXCEPT !.index = 0, !.placement = FALSE]>>
                   ELSE <<[NewFiber(item, id) EXCEPT !.placement = TRUE]>>,
        !.deleted = SelectSeq(old, LAMBDA f : match = << >> \/ f # Head(match)),
        !.rest = << >>]

ReconcileChildFibers(old, children, place) ==
    IF children.single THEN ReconcileSingleChild(old, children.items[1], Append(place, 1))
    ELSE ReconcileChildrenArray(old, children.items, place)

(* mountChildFibers: the children of a new group are not placed, the group *)
(* is.                                                                     *)
MountChildFibers(children, place) ==
    LET s == ReconcileChildFibers(<< >>, children, place)
    IN  [s EXCEPT !.fibers = [i \in DOMAIN @ |-> [@[i] EXCEPT !.placement = FALSE]]]

-----------------------------------------------------------------------------
(* The commit.                                                             *)

HostNodes(fiber) ==
    IF IsGroup(fiber) THEN [j \in DOMAIN fiber.child |-> fiber.child[j].node] ELSE <<fiber.node>>

NodesOf(fibers) == FlattenSeq([i \in DOMAIN fibers |-> HostNodes(fibers[i])])

(* The host nodes of fiber that stay where they are.                       *)
EveryNode(fiber) == HostNodes(fiber)   \* mutant

StableNodes(fiber) ==
    IF fiber.placement THEN << >>
    ELSE IF IsGroup(fiber) THEN NodesOf(SelectSeq(fiber.child, LAMBDA f : ~f.placement))
    ELSE <<fiber.node>>

(* A place is <<i>>, or <<i, j>> for child j of the group i.               *)
FiberAt(at) == IF Len(at) = 1 THEN tree[at[1]] ELSE tree[at[1]].child[at[2]]

Following(at) ==
    (IF Len(at) = 1 THEN << >>
     ELSE SubSeq(tree[at[1]].child, at[2] + 1, Len(tree[at[1]].child)))
        \o SubSeq(tree, at[1] + 1, Len(tree))

(* getHostSibling: the next host node that is neither placed nor in a      *)
(* group that is placed.                                                   *)
HostSibling(at) ==
    LET following == Following(at)
        stable == FlattenSeq([i \in DOMAIN following |-> StableNodes(following[i])])
    IN  IF stable = << >> THEN NoNode ELSE Head(stable)

(* insertBefore and appendChild, for all the host nodes of a fiber         *)
InsertNodes(nodes, before) ==
    LET others == SelectSeq(dom, LAMBDA n : n \notin ToSet(nodes))
        k == IF before = NoNode THEN Len(others) + 1
             ELSE CHOOSE k \in DOMAIN others : others[k] = before
    IN  dom' = SubSeq(others, 1, k - 1) \o nodes \o SubSeq(others, k, Len(others))

Unplaced(at) ==
    IF Len(at) = 1 THEN [tree EXCEPT ![at[1]].placement = FALSE]
    ELSE [tree EXCEPT ![at[1]].child[at[2]].placement = FALSE]

CommitPlacement ==
    /\ effects # << >> /\ Head(effects).op = "place"
    /\ LET at == Head(effects).at
       IN  InsertNodes(HostNodes(FiberAt(at)), HostSibling(at)) /\ tree' = Unplaced(at)
    /\ effects' = Tail(effects)
    /\ UNCHANGED <<rendered, renders>>

CommitDeletion ==
    /\ effects # << >> /\ Head(effects).op = "delete"
    /\ dom' = SelectSeq(dom, LAMBDA n : n \notin ToSet(HostNodes(Head(effects).fiber)))
    /\ effects' = Tail(effects)
    /\ UNCHANGED <<tree, rendered, renders>>

(* commitMutationEffects: the deletions of a fiber on the way down, its    *)
(* placement on the way up.                                                *)
Deletions(s) == [i \in DOMAIN s.deleted |-> [op |-> "delete", fiber |-> s.deleted[i]]]

PlacementOf(fiber, at) == IF fiber.placement THEN <<[op |-> "place", at |-> at]>> ELSE << >>

EffectsOf(i, fiber, s) ==
    Deletions(s) \o FlattenSeq([j \in DOMAIN s.fibers |-> PlacementOf(s.fibers[j], <<i, j>>)])
        \o PlacementOf(fiber, <<i>>)

(* The children of the parent and of the groups in it are rendered.        *)
Render(children) ==
    LET here == <<renders + 1>>
        top == ReconcileChildFibers(tree, children, here)
        (* the children of fiber i, if it is a group *)
        Inner(i) ==
            LET fiber == top.fibers[i]
                content == children.items[fiber.index + 1].children
                place == Append(here, i)
            IN  IF ~IsGroup(fiber) THEN Start(<< >>)
                ELSE IF fiber.node = Append(here, fiber.index + 1) THEN MountChildFibers(content, place)
                ELSE ReconcileChildFibers(fiber.child, content, place)
        inner == [i \in DOMAIN top.fibers |-> Inner(i)]
    IN
    /\ effects = << >> /\ renders < MaxRenders
    /\ tree' = [i \in DOMAIN top.fibers |-> [top.fibers[i] EXCEPT !.child = inner[i].fibers]]
    /\ effects' = Deletions(top)
           \o FlattenSeq([i \in DOMAIN top.fibers |-> EffectsOf(i, top.fibers[i], inner[i])])
    /\ rendered' = children /\ renders' = renders + 1
    /\ UNCHANGED dom

Nothing == [single |-> FALSE, items |-> << >>]

Init ==
    /\ tree = << >> /\ effects = << >> /\ dom = << >>
    /\ rendered = Nothing /\ renders = 0

Next == CommitPlacement \/ CommitDeletion \/ \E children \in Renderings : Render(children)

Spec == Init /\ [][Next]_vars

-----------------------------------------------------------------------------
(* Properties.                                                             *)

Increasing(fibers) == \A i, j \in DOMAIN fibers : i < j => fibers[i].index < fibers[j].index

(* Siblings are in the order of their indices, which the next              *)
(* reconciliation relies on, and no node is twice in the tree or in the    *)
(* host parent.                                                            *)
TypeOK ==
    /\ renders \in 0..MaxRenders /\ rendered \in Renderings \cup {Nothing}
    /\ Increasing(tree) /\ \A i \in DOMAIN tree : Increasing(tree[i].child)
    /\ IsInjective(NodesOf(tree)) /\ IsInjective(dom)
    /\ \A i \in DOMAIN effects : effects[i].op \in {"place", "delete"}

(* The hosts that children ask for.                                        *)
Present(children) == SelectSeq(children.items, LAMBDA x : x.type # "empty")
Shape(x) == <<x.key, x.type>>
Asked(item) ==
    IF IsGroup(item) THEN LET inner == Present(item.children)
                          IN  [j \in DOMAIN inner |-> Shape(inner[j])]
    ELSE <<Shape(item)>>
Shown(fiber) ==
    IF IsGroup(fiber) THEN [j \in DOMAIN fiber.child |-> Shape(fiber.child[j])]
    ELSE <<Shape(fiber)>>

(* When the commit is over the host parent has what was rendered, in that  *)
(* order and nothing else, although only the fibers that are placed were   *)
(* moved.                                                                  *)
DomIsRendered ==
    effects = << >> =>
        /\ dom = NodesOf(tree)
        /\ LET asked == Present(rendered)
           IN  FlattenSeq([i \in DOMAIN tree |-> Shown(tree[i])])
                   = FlattenSeq([i \in DOMAIN asked |-> Asked(asked[i])])

(* The host never throws: what is removed is there, and so is the node     *)
(* before which something is inserted, at every step of the commit.        *)
HostCallsAreLegal ==
    effects # << >> =>
        LET effect == Head(effects)
        IN  IF effect.op = "delete" THEN ToSet(HostNodes(effect.fiber)) \subseteq ToSet(dom)
            ELSE HostSibling(effect.at) \in ToSet(dom) \cup {NoNode}

(* A child keeps its node, and its state with it, if its key and its type  *)
(* are there again, wherever it has moved; nothing else takes it over.     *)
KeepsState(old, new) ==
    \A i \in DOMAIN old, j \in DOMAIN new :
        /\ Shape(old[i]) = Shape(new[j]) /\ old[i].key # NoKey => old[i].node = new[j].node
        /\ old[i].node = new[j].node => Shape(old[i]) = Shape(new[j])

KeyedStateKept ==
    [][/\ KeepsState(tree, tree')
       /\ \A i \in DOMAIN tree, j \in DOMAIN tree' :
             tree[i].node = tree'[j].node => KeepsState(tree[i].child, tree'[j].child)]_vars
=============================================================================
