--------------------------- MODULE PersistentList ---------------------------
(***************************************************************************)
(* List of immutable.js: a trie of VNodes with a separate tail, of which   *)
(* the positions origin to capacity - 1 are visible.  Versions share       *)
(* nodes; a mutable copy (asMutable, withMutations) edits in place the     *)
(* nodes it created.  listValues records the sequence each version should  *)
(* show.                                                                   *)
(***************************************************************************)
EXTENDS Trie

CONSTANTS
    Item,           \* values set and pushed
    ListSizes,      \* sizes of the first list, and of setSize
    ListIndex,      \* arguments of slice, set and remove
    MaxListSize,    \* bound on sizes
    MaxListOps      \* bound on operations

VARIABLES
    listHeap,       \* the VNodes: [owner, array]
    lists,          \* the List objects, in the order of creation
    listValues,     \* [version -> the sequence it should show]
    listTrimmed,    \* [version -> it lost items at an end before]
    listOps         \* operations so far

listVars == <<listHeap, lists, listValues, listTrimmed, listOps>>

ListSize(l) == l.capacity - l.origin

MakeList(origin, capacity, level, root, tail, owner) ==
    [origin |-> origin, capacity |-> capacity, level |-> level, root |-> root,
     tail |-> tail, owner |-> owner, altered |-> FALSE]

EmptyList == MakeList(0, 0, SHIFT, Undefined, Undefined, NoOwner)

VNode(array, owner) == [array |-> array, owner |-> owner]

ArrayOf(heap, node) == IF node = Undefined THEN <<>> ELSE heap[node].array

GetTailOffset(size) == IF size < SIZE THEN 0 ELSE ((size - 1) \div SIZE) * SIZE

-----------------------------------------------------------------------------
(* Nodes.                                                                  *)

(* Mutant: a shared node is edited in place too. *)
EditAnyVNode(heap, node, owner) ==
    IF node # Undefined THEN Ref(heap, node) ELSE Alloc(heap, VNode(<<>>, owner))

EditableVNode(heap, node, owner) ==
    IF Owned(heap, node, owner) THEN Ref(heap, node)
    ELSE Alloc(heap, VNode(ArrayOf(heap, node), owner))

(* The node of r with another array. *)
SetArray(r, array) == Ref([r.heap EXCEPT ![r.node].array = array], r.node)

PutChild(r, i, child) == SetArray(r, Put(ArrayOf(r.heap, r.node), i, child))

RECURSIVE UpdateVNode(_, _, _, _, _, _)

(* The heap and node after node[index] = value; the same node when nothing *)
(* changes or the edit was made in place.                                  *)
UpdateVNode(heap, node, owner, level, index, value) ==
    LET arr == ArrayOf(heap, node)
        i   == Digit(index, level)
        low == UpdateVNode(heap, At(arr, i), owner, level - SHIFT, index, value)
        e   == EditableVNode(IF level > 0 THEN low.heap ELSE heap, node, owner)
    IN  IF i >= Len(arr) /\ value = Undefined THEN Ref(heap, node)
        ELSE IF level > 0
             THEN IF low.node = At(arr, i) THEN Ref(low.heap, node)
                  ELSE PutChild(e, i, low.node)
        ELSE IF i < Len(arr) /\ At(arr, i) = value THEN Ref(heap, node)
        ELSE IF value = Undefined /\ i = Len(arr) - 1
             THEN SetArray(e, SubSeq(arr, 1, i))
             ELSE PutChild(e, i, value)

RECURSIVE RemoveBefore(_, _, _, _, _)

(* The node without the items before index, except where the test of the   *)
(* level leaves it as it is.                                               *)
RemoveBefore(heap, node, owner, level, index) ==
    LET arr   == ArrayOf(heap, node)
        first == Digit(index, level)
        old   == IF level > 0 THEN At(arr, first) ELSE Undefined
        low   == IF old = Undefined THEN Ref(heap, Undefined)
                 ELSE RemoveBefore(heap, old, owner, level - SHIFT, index)
        e     == EditableVNode(low.heap, node, owner)
        kept  == [j \in 1..Len(arr) |-> IF j <= first THEN Undefined ELSE arr[j]]
    IN  IF index = level \/ arr = <<>> THEN Ref(heap, node)
        ELSE IF first >= Len(arr) THEN Alloc(heap, VNode(<<>>, owner))
        ELSE IF first = 0 /\ low.node = old THEN Ref(low.heap, node)
        ELSE SetArray(e, IF low.node = Undefined THEN kept
                         ELSE Put(kept, first, low.node))

RECURSIVE RemoveAfter(_, _, _, _, _)

(* The node without the items from index on, with a test of the level too. *)
RemoveAfter(heap, node, owner, level, index) ==
    LET arr  == ArrayOf(heap, node)
        last == Digit(index - 1, level)
        old  == IF level > 0 THEN At(arr, last) ELSE Undefined
        low  == IF old = Undefined THEN Ref(heap, Undefined)
                ELSE RemoveAfter(heap, old, owner, level - SHIFT, index)
        e    == EditableVNode(low.heap, node, owner)
        kept == SubSeq(arr, 1, last + 1)
    IN  IF index = (IF level > 0 THEN 2^level ELSE 0) \/ last >= Len(arr)
        THEN Ref(heap, node)
        ELSE IF level > 0 /\ low.node = old /\ last = Len(arr) - 1
        THEN Ref(low.heap, node)
        ELSE SetArray(e, IF low.node = Undefined THEN kept
                         ELSE Put(kept, last, low.node))

RECURSIVE Descend(_, _, _, _)

Descend(heap, node, level, index) ==
    IF node = Undefined \/ level = 0 THEN node
    ELSE Descend(heap, At(ArrayOf(heap, node), Digit(index, level)),
                 level - SHIFT, index)

ListNodeFor(heap, l, index) ==
    IF index >= GetTailOffset(l.capacity) THEN l.tail
    ELSE IF index < 2^(l.level + SHIFT) THEN Descend(heap, l.root, l.level, index)
    ELSE Undefined

ListGet(heap, l, index) ==
    LET i == WrapIndex(ListSize(l), index)
    IN  IF i \in 0..(ListSize(l) - 1)
        THEN At(ArrayOf(heap, ListNodeFor(heap, l, i + l.origin)),
                (i + l.origin) % SIZE)
        ELSE Undefined

(* What the list shows. *)
Contents(heap, l) == [i \in 1..ListSize(l) |-> ListGet(heap, l, i - 1)]

(* Mutant: the last child, of which only a part is visible, is left out. *)
IterateEndEarly(l, level, offset) == Clip((l.capacity - offset) \div 2^level, 0, SIZE)

(* The end of the children of a node at offset that are iterated. *)
IterateEnd(l, level, offset) ==
    Clip(((l.capacity - offset) \div 2^level) + (IF level = 0 THEN 0 ELSE 1), 0, SIZE)

RECURSIVE Leaves(_, _, _, _, _, _)

(* iterateList: the positions of every leaf between the ends, whatever     *)
(* nodes are missing; the leaf at the tail offset is the tail.             *)
Leaves(heap, l, node, level, offset, i) ==
    LET tail == GetTailOffset(l.capacity)
        arr  == ArrayOf(heap, IF level = 0 /\ offset = tail THEN l.tail ELSE node)
        from == IF offset > l.origin THEN 0 ELSE (l.origin - offset) \div 2^level
        to   == IterateEnd(l, level, offset)
    IN  IF i < from THEN Leaves(heap, l, node, level, offset, from)
        ELSE IF i >= to THEN <<>>
        ELSE (IF level = 0 THEN <<At(arr, i)>>
              ELSE Leaves(heap, l, At(arr, i), level - SHIFT,
                          offset + i * 2^level, 0))
             \o Leaves(heap, l, node, level, offset, i + 1)

Iterated(heap, l) == Leaves(heap, l, l.root, l.level, 0, 0)

-----------------------------------------------------------------------------
(* setListBounds: begin and end move the ends of the list.  A record b     *)
(* carries its locals through the phases: the new ends and trie, the old   *)
(* ends, the old tail.                                                     *)

WithRoot(b, r) == [b EXCEPT !.heap = r.heap, !.root = r.node]
WithTail(b, r) == [b EXCEPT !.heap = r.heap, !.tail = r.node]

RECURSIVE RaiseOrigin(_, _)

(* New origin might need creating a higher root: the first child of the    *)
(* new root stays empty.                                                   *)
RaiseOrigin(b, owner) ==
    IF b.origin >= 0 THEN b
    ELSE LET kids == IF ArrayOf(b.heap, b.root) = <<>> THEN <<>> ELSE <<Undefined, b.root>>
             r    == Alloc(b.heap, VNode(kids, owner))
             up   == 2^(b.level + SHIFT)
         IN  RaiseOrigin([b EXCEPT !.heap = r.heap, !.root = r.node,
                 !.level = @ + SHIFT, !.origin = @ + up, !.capacity = @ + up,
                 !.oldOrigin = @ + up, !.oldCapacity = @ + up], owner)

(* Mutant: a tail offset just beyond the root seems to fit. *)
TooLowOffByOne(b) == GetTailOffset(b.capacity) > 2^(b.level + SHIFT)

TooLow(b) == GetTailOffset(b.capacity) >= 2^(b.level + SHIFT)

RECURSIVE RaiseCapacity(_, _)

(* New size might need creating a higher root. *)
RaiseCapacity(b, owner) ==
    IF ~TooLow(b) THEN b
    ELSE LET kids == IF ArrayOf(b.heap, b.root) = <<>> THEN <<>> ELSE <<b.root>>
             r    == Alloc(b.heap, VNode(kids, owner))
         IN  RaiseCapacity([b EXCEPT !.heap = r.heap, !.root = r.node,
                                     !.level = @ + SHIFT], owner)

(* Locate or create the new tail. *)
PlaceTail(b, l, owner) ==
    LET new == GetTailOffset(b.capacity)
        old == GetTailOffset(b.oldCapacity)
    IN  IF new < old THEN [b EXCEPT !.tail = ListNodeFor(b.heap, l, b.capacity - 1)]
        ELSE IF new > old THEN WithTail(b, Alloc(b.heap, VNode(<<>>, owner)))
        ELSE b

RECURSIVE Hang(_, _, _, _, _, _)

(* The trie below node with leaf at index. *)
Hang(heap, node, owner, level, index, leaf) ==
    LET e   == EditableVNode(heap, node, owner)
        i   == Digit(index, level)
        low == Hang(e.heap, At(ArrayOf(heap, node), i), owner, level - SHIFT, index, leaf)
    IN  IF level = SHIFT THEN PutChild(e, i, leaf)
        ELSE PutChild(Ref(low.heap, e.node), i, low.node)

(* Merge the old tail into the tree. *)
MergeTail(b, tail, owner) ==
    LET old == GetTailOffset(b.oldCapacity)
    IN  IF /\ GetTailOffset(b.capacity) > old
           /\ b.origin < b.oldCapacity
           /\ ArrayOf(b.heap, tail) # <<>>
        THEN WithRoot(b, Hang(b.heap, b.root, owner, b.level, old, tail))
        ELSE b

(* If the size has been reduced, the tail may need to be trimmed. *)
TrimTail(b, owner) ==
    IF b.capacity < b.oldCapacity /\ b.tail # Undefined
    THEN WithTail(b, RemoveAfter(b.heap, b.tail, owner, 0, b.capacity))
    ELSE b

(* The new origin is within the tail: no root is needed. *)
DropRoot(b, owner) ==
    LET cut == GetTailOffset(b.capacity)
        new == [b EXCEPT !.origin = @ - cut, !.capacity = @ - cut,
                         !.level = SHIFT, !.root = Undefined]
    IN  IF b.tail = Undefined THEN new
        ELSE WithTail(new, RemoveBefore(b.heap, b.tail, owner, 0, b.origin - cut))

RECURSIVE LowerRoot(_, _)

(* Identify the new top root node of the subtree of the old root. *)
LowerRoot(b, offset) ==
    LET i == Digit(b.origin, b.level)
    IN  IF b.root = Undefined \/ i # Digit(GetTailOffset(b.capacity), b.level)
        THEN [b |-> b, offset |-> offset]
        ELSE LowerRoot([b EXCEPT !.root = At(ArrayOf(b.heap, b.root), i),
                                 !.level = @ - SHIFT],
                       offset + i * 2^b.level)

TrimLeft(b, owner, offset) ==
    IF b.root # Undefined /\ b.origin > b.oldOrigin
    THEN WithRoot(b, RemoveBefore(b.heap, b.root, owner, b.level, b.origin - offset))
    ELSE b

TrimRight(b, owner, offset) ==
    LET tail == GetTailOffset(b.capacity)
    IN  IF b.root # Undefined /\ tail < GetTailOffset(b.oldCapacity)
        THEN WithRoot(b, RemoveAfter(b.heap, b.root, owner, b.level, tail - offset))
        ELSE b

(* If the root has been trimmed, garbage collect: it is lowered, and the   *)
(* new sides of the new root are trimmed.                                  *)
TrimRoot(low, owner) ==
    [TrimRight(TrimLeft(low.b, owner, low.offset), owner, low.offset) EXCEPT
        !.origin = @ - low.offset, !.capacity = @ - low.offset]

Shrink(b, owner) ==
    LET tail == GetTailOffset(b.capacity)
    IN  IF b.origin >= tail THEN DropRoot(b, owner)
        ELSE IF b.origin > b.oldOrigin \/ tail < GetTailOffset(b.oldCapacity)
        THEN TrimRoot(LowerRoot(b, 0), owner)
        ELSE b

(* The result of an operation on l: its heap and list. *)
Result(heap, l) == [heap |-> heap, list |-> l]

ClearList(heap, l) ==
    IF ListSize(l) = 0 THEN Result(heap, l)
    ELSE IF l.owner = NoOwner THEN Result(heap, EmptyList)
    ELSE Result(heap, [EmptyList EXCEPT !.owner = l.owner, !.altered = TRUE])

(* The list with the ends and the trie of b. *)
Rebuilt(b, l) ==
    Result(b.heap,
           [MakeList(b.origin, b.capacity, b.level, b.root, b.tail, l.owner) EXCEPT
               !.altered = l.owner # NoOwner])

(* fresh is a new OwnerID. *)
SetListBounds(heap, l, fresh, begin, end) ==
    LET owner    == IF l.owner = NoOwner THEN fresh ELSE l.owner
        origin   == l.origin + begin
        capacity == IF end = Undefined THEN l.capacity
                    ELSE IF end < 0 THEN l.capacity + end ELSE l.origin + end
        b0 == [heap |-> heap, root |-> l.root, tail |-> l.tail, level |-> l.level,
               origin |-> origin, capacity |-> capacity,
               oldOrigin |-> l.origin, oldCapacity |-> l.capacity]
        b1 == RaiseCapacity(RaiseOrigin(b0, owner), owner)
        b2 == MergeTail(PlaceTail(b1, l, owner), l.tail, owner)
    IN  IF origin = l.origin /\ capacity = l.capacity THEN Result(heap, l)
        ELSE IF origin >= capacity THEN ClearList(heap, l)
        ELSE Rebuilt(Shrink(TrimTail(b2, owner), owner), l)

-----------------------------------------------------------------------------
(* Operations.                                                             *)

(* Mutant: every mutable copy has the same owner. *)
ListAsMutableShared(l, fresh) == [l EXCEPT !.owner = 1, !.altered = FALSE]

(* asMutable, and what withMutations does around its changes: a mutable    *)
(* copy takes them, and is the result if it was altered.                   *)
ListAsMutable(l, fresh) ==
    IF l.owner # NoOwner THEN l ELSE [l EXCEPT !.owner = fresh, !.altered = FALSE]

AfterMutations(r, l) ==
    IF r.list.altered THEN Result(r.heap, [r.list EXCEPT !.owner = l.owner])
    ELSE Result(r.heap, l)

(* updateList of an index inside the list *)
SetInside(heap, l, index, value) ==
    LET i    == index + l.origin
        tail == i >= GetTailOffset(l.capacity)
        r    == IF tail THEN UpdateVNode(heap, l.tail, l.owner, 0, i, value)
                ELSE UpdateVNode(heap, l.root, l.owner, l.level, i, value)
        new  == IF tail THEN [l EXCEPT !.tail = r.node] ELSE [l EXCEPT !.root = r.node]
    IN  IF ListGet(heap, l, index) = value THEN Result(r.heap, l)
        ELSE Result(r.heap, [new EXCEPT !.altered = l.owner # NoOwner])

SetGrown(r, index, value) == SetInside(r.heap, r.list, index, value)

(* updateList: beyond its ends the list grows first. *)
UpdateList(heap, l, fresh, index, value) ==
    LET i    == WrapIndex(ListSize(l), index)
        m    == ListAsMutable(l, fresh)
        grow == IF i < 0 THEN SetListBounds(heap, m, fresh, i, Undefined)
                ELSE SetListBounds(heap, m, fresh, 0, i + 1)
    IN  IF i \in 0..(ListSize(l) - 1) THEN SetInside(heap, l, i, value)
        ELSE AfterMutations(SetGrown(grow, Clip(i, 0, i), value), l)

PushItem(heap, l, fresh, value) ==
    LET grow == SetListBounds(heap, ListAsMutable(l, fresh), fresh, 0, ListSize(l) + 1)
    IN  AfterMutations(SetGrown(grow, ListSize(l), value), l)

UnshiftItem(heap, l, fresh, value) ==
    LET grow == SetListBounds(heap, ListAsMutable(l, fresh), fresh, -1, Undefined)
    IN  AfterMutations(SetGrown(grow, 0, value), l)

SliceList(heap, l, fresh, begin, end) ==
    LET size == ListSize(l)
    IN  IF ResolveBegin(begin, size) = 0 /\ ResolveEnd(end, size) = size
        THEN Result(heap, l)
        ELSE SetListBounds(heap, l, fresh, ResolveBegin(begin, size), ResolveEnd(end, size))

RECURSIVE FillList(_, _, _)

FillList(r, items, i) ==
    IF i > Len(items) THEN r
    ELSE FillList(UpdateList(r.heap, r.list, NoOwner, i - 1, items[i]), items, i + 1)

(* List(iter): a short list is a tail only, a longer one is filled by      *)
(* mutations of an empty one.                                              *)
ListFrom(heap, items, fresh) ==
    LET r == Alloc(heap, VNode(items, NoOwner))
        m == SetListBounds(heap, ListAsMutable(EmptyList, fresh), fresh, 0, Len(items))
    IN  IF items = <<>> THEN Result(heap, EmptyList)
        ELSE IF Len(items) < SIZE
        THEN Result(r.heap, MakeList(0, Len(items), SHIFT, Undefined, r.node, NoOwner))
        ELSE AfterMutations(FillList(m, items, 1), EmptyList)

(* concat of front and the list of r, then List of the result: an empty    *)
(* part is dropped, a single one is the result itself.                     *)
Concat(front, r, fresh) ==
    IF ListSize(r.list) = 0 THEN Result(r.heap, front)
    ELSE IF ListSize(front) = 0 THEN r
    ELSE ListFrom(r.heap, Contents(r.heap, front) \o Contents(r.heap, r.list), fresh)

(* splice(i, 1) after its first slice: a mutable list is both its slices,  *)
(* of which the second leaves nothing.                                     *)
SpliceAfter(r, l, fresh, i) ==
    IF l.owner = NoOwner
    THEN Concat(r.list, SliceList(r.heap, l, fresh, i + 1, Undefined), fresh)
    ELSE SliceList(r.heap, r.list, fresh, i + 1, Undefined)

Splice(heap, l, fresh, i) == SpliceAfter(SliceList(heap, l, fresh, 0, i), l, fresh, i)

(* remove: the ends, if they are named by their index, are taken off. *)
RemoveItem(heap, l, fresh, index) ==
    LET size == ListSize(l)
        i    == WrapIndex(size, index)
    IN  IF i \notin 0..(size - 1) THEN Result(heap, l)
        ELSE IF index = 0 THEN SetListBounds(heap, l, fresh, 1, Undefined)
        ELSE IF index = size - 1 THEN SetListBounds(heap, l, fresh, 0, -1)
        ELSE Splice(heap, l, fresh, i)

Version == 1..Len(lists)

FreshOwner == listOps + 2

(* An empty list starts anew. *)
Trimmed(v, value) ==
    value # <<>> /\ (listTrimmed[v] \/ Len(value) < Len(listValues[v]))

(* The operation with result r on version v, which should show value: a    *)
(* mutable list changes itself, any other yields itself or a new one.      *)
ListChange(v, r, value) ==
    /\ listOps < MaxListOps
    /\ listOps' = listOps + 1
    /\ listHeap' = r.heap
    /\ IF r.list.owner # NoOwner
       THEN /\ lists' = [lists EXCEPT ![v] = r.list]
            /\ listValues' = [listValues EXCEPT ![v] = value]
            /\ listTrimmed' = [listTrimmed EXCEPT ![v] = Trimmed(v, value)]
       ELSE IF r.list = lists[v] /\ value = listValues[v]
       THEN UNCHANGED <<lists, listValues, listTrimmed>>
       ELSE /\ lists' = Append(lists, r.list)
            /\ listValues' = Append(listValues, value)
            /\ listTrimmed' = Append(listTrimmed, Trimmed(v, value))

ListInit ==
    \E n \in ListSizes :
        LET r == ListFrom(<<>>, [i \in 1..n |-> i], 1)
        IN  /\ listHeap = r.heap
            /\ lists = <<r.list>>
            /\ listValues = <<[i \in 1..n |-> i]>>
            /\ listTrimmed = <<FALSE>>
            /\ listOps = 0

Push(v, x) ==
    /\ Len(listValues[v]) < MaxListSize
    /\ ListChange(v, PushItem(listHeap, lists[v], FreshOwner, x), Append(listValues[v], x))

Unshift(v, x) ==
    /\ Len(listValues[v]) < MaxListSize
    /\ ListChange(v, UnshiftItem(listHeap, lists[v], FreshOwner, x), <<x>> \o listValues[v])

Pop(v) ==
    ListChange(v, SetListBounds(listHeap, lists[v], FreshOwner, 0, -1),
               SubSeq(listValues[v], 1, Len(listValues[v]) - 1))

Shift(v) ==
    ListChange(v, SetListBounds(listHeap, lists[v], FreshOwner, 1, Undefined),
               SubSeq(listValues[v], 2, Len(listValues[v])))

Slice(v, begin, end) ==
    LET s == listValues[v]
    IN  ListChange(v, SliceList(listHeap, lists[v], FreshOwner, begin, end),
                   SubSeq(s, ResolveBegin(begin, Len(s)) + 1, ResolveEnd(end, Len(s))))

ClearAll(v) == ListChange(v, ClearList(listHeap, lists[v]), <<>>)

(* A mutable list loses all its items, unless the item is named as an end. *)
Remove(v, index) ==
    LET s == listValues[v]
        i == WrapIndex(Len(s), index)
        r == RemoveItem(listHeap, lists[v], FreshOwner, index)
    IN  ListChange(v, r,
            IF i \notin 0..(Len(s) - 1) THEN s
            ELSE IF lists[v].owner # NoOwner /\ index \notin {0, Len(s) - 1} THEN <<>>
            ELSE SubSeq(s, 1, i) \o SubSeq(s, i + 2, Len(s)))

(* The items of a new position, where the list shows x: a list that grows  *)
(* past its ends has undefined there.  Only if it was trimmed before may   *)
(* items it lost come back, as RemoveBefore and RemoveAfter leave some     *)
(* nodes as they are.                                                      *)
Gap(v, x) == IF listTrimmed[v] THEN x ELSE Undefined

(* What version v shows after it grew to r and was set to x at i. *)
Stretched(v, r, i, x) ==
    LET s   == listValues[v]
        all == Contents(r.heap, r.list)
        off == IF i < 0 THEN -i ELSE 0
    IN  [j \in 1..Len(all) |-> IF j = i + off + 1 THEN x
                               ELSE IF j - off \in DOMAIN s THEN s[j - off]
                               ELSE Gap(v, all[j])]

SetAt(v, index, x) ==
    LET r == UpdateList(listHeap, lists[v], FreshOwner, index, x)
        i == WrapIndex(Len(listValues[v]), index)
    IN  /\ (IF i < 0 THEN Len(listValues[v]) - i ELSE i + 1) <= MaxListSize
        /\ ListChange(v, r, Stretched(v, r, i, x))

SetSize(v, n) ==
    LET r == SetListBounds(listHeap, lists[v], FreshOwner, 0, n)
        s == listValues[v]
    IN  ListChange(v, r, [j \in 1..n |-> IF j \in DOMAIN s THEN s[j]
                                         ELSE Gap(v, ListGet(r.heap, r.list, j - 1))])

AsMutable(v) ==
    /\ lists[v].owner = NoOwner
    /\ listOps < MaxListOps
    /\ listOps' = listOps + 1
    /\ lists' = Append(lists, ListAsMutable(lists[v], FreshOwner))
    /\ listValues' = Append(listValues, listValues[v])
    /\ listTrimmed' = Append(listTrimmed, listTrimmed[v])
    /\ UNCHANGED listHeap

AsImmutable(v) ==
    /\ lists[v].owner # NoOwner
    /\ lists' = [lists EXCEPT ![v].owner = NoOwner]
    /\ UNCHANGED <<listHeap, listValues, listTrimmed, listOps>>

ListNext ==
    \E v \in Version :
        \/ \E x \in Item : Push(v, x) \/ Unshift(v, x)
        \/ Pop(v) \/ Shift(v) \/ ClearAll(v)
        \/ \E begin, end \in ListIndex : Slice(v, begin, end)
        \/ \E i \in ListIndex \ {Undefined} : Remove(v, i) \/ \E x \in Item : SetAt(v, i, x)
        \/ \E n \in ListSizes : SetSize(v, n)
        \/ AsMutable(v) \/ AsImmutable(v)

ListSpec == ListInit /\ [][ListNext]_listVars

-----------------------------------------------------------------------------
(* Properties.                                                             *)

RECURSIVE NodesBelow(_, _)

NodesBelow(node, level) ==
    IF node = Undefined THEN {}
    ELSE {node} \cup (IF level = 0 THEN {} ELSE
             UNION {NodesBelow(listHeap[node].array[i], level - SHIFT) :
                        i \in DOMAIN listHeap[node].array})

NodesOf(v) == NodesBelow(lists[v].root, lists[v].level) \cup NodesBelow(lists[v].tail, 0)

(* The lists are well formed: no node is longer than SIZE, the root is     *)
(* high enough for the tail offset, and sizes are those of the values.     *)
ListTypeOK ==
    /\ Len(lists) = Len(listValues)
    /\ \A n \in DOMAIN listHeap : Len(listHeap[n].array) <= SIZE
    /\ \A v \in Version :
          /\ lists[v].origin \in 0..lists[v].capacity
          /\ lists[v].level \in {SHIFT * d : d \in 1..10}
          /\ GetTailOffset(lists[v].capacity) < 2^(lists[v].level + SHIFT)
          /\ ListSize(lists[v]) = Len(listValues[v])

(* Persistence: whatever is done to other versions, mutable copies         *)
(* included, a list shows what its own operations made of it.              *)
ListKept == \A v \in Version : Contents(listHeap, lists[v]) = listValues[v]

(* forEach and iterators show what get shows, in the order of the indices. *)
ListIterates == \A v \in Version : Iterated(listHeap, lists[v]) = Contents(listHeap, lists[v])

(* The nodes a mutable list may edit in place belong to no other version.  *)
ListOwnersApart ==
    \A v, w \in Version : v # w /\ lists[v].owner # NoOwner =>
        \A n \in NodesOf(w) : listHeap[n].owner # lists[v].owner
=============================================================================
