--------------------------- MODULE PersistentMap ----------------------------
(***************************************************************************)
(* Map of immutable.js: a hash trie of array, bitmap, hash-array,          *)
(* collision and value nodes.  Versions share nodes, and nodes share       *)
(* entries: an entry is an object of its own in the heap, since a value    *)
(* node edits its entry in place.  mapValues records the function each     *)
(* version should show.                                                    *)
(***************************************************************************)
EXTENDS Trie, FiniteSets, Functions

CONSTANTS
    Key,            \* keys
    Value,          \* values
    Hash,           \* [Key -> Nat]: hash(key)
    NOT_SET,        \* the value that removes a key
    FirstMaps,      \* the entries of the first map, and of merged maps
    MAX_ARRAY_MAP_SIZE,         \* SIZE / 4 in the source
    MAX_BITMAP_INDEXED_SIZE,    \* SIZE / 2
    MIN_HASH_ARRAY_MAP_SIZE,    \* SIZE / 4
    MaxMapOps       \* bound on operations

ASSUME MapAssumption ==
    /\ MAX_ARRAY_MAP_SIZE > 0
    /\ MIN_HASH_ARRAY_MAP_SIZE \in 3..MAX_BITMAP_INDEXED_SIZE
    /\ MAX_BITMAP_INDEXED_SIZE < SIZE

VARIABLES
    mapHeap,        \* nodes and entries
    maps,           \* the Map objects, in the order of creation
    mapValues,      \* [version -> the function it should show]
    mapShared,      \* history: a mutable map owns a node with a foreign entry
    mapOps          \* operations so far

mapVars == <<mapHeap, maps, mapValues, mapShared, mapOps>>

MakeMap(size, root, owner) ==
    [size |-> size, root |-> root, owner |-> owner, altered |-> FALSE]

EmptyMap == MakeMap(0, Undefined, NoOwner)

ArrayNode(owner, entries) == [type |-> "array", owner |-> owner, entries |-> entries]
BitmapNode(owner, bitmap, nodes) ==
    [type |-> "bitmap", owner |-> owner, bitmap |-> bitmap, nodes |-> nodes]
HashNode(owner, count, nodes) ==
    [type |-> "hash", owner |-> owner, count |-> count, nodes |-> nodes]
CollisionNode(owner, hash, entries) ==
    [type |-> "collision", owner |-> owner, hash |-> hash, entries |-> entries]
ValueNode(owner, hash, entry) ==
    [type |-> "value", owner |-> owner, hash |-> hash, entry |-> entry]
Entry(key, value) == [type |-> "entry", key |-> key, value |-> value]

IsLeaf(heap, node) == heap[node].type \in {"value", "collision"}

(* The result of an update: its node, whether the map has changed and      *)
(* whether its size has (didAlter, didChangeSize).                         *)
Updated(r, alter, resize) ==
    [heap |-> r.heap, node |-> r.node, alter |-> alter, resize |-> resize]

Same(heap, node) == Updated(Ref(heap, node), FALSE, FALSE)

(* Mutant: a node is edited in place whoever created it. *)
StoreInPlace(heap, node, owner, object) == Ref([heap EXCEPT ![node] = object], node)

(* The object in the place of node, or a new one. *)
Store(heap, node, owner, object) ==
    IF Owned(heap, node, owner) THEN Ref([heap EXCEPT ![node] = object], node)
    ELSE Alloc(heap, object)

(* The bitmap of digits kept as a set: the position of digit d among them. *)
Rank(bitmap, d) == Cardinality({e \in bitmap : e < d}) + 1

Without(s, i) == SubSeq(s, 1, i - 1) \o SubSeq(s, i + 1, Len(s))
SpliceIn(s, i, x) == SubSeq(s, 1, i - 1) \o <<x>> \o SubSeq(s, i, Len(s))

(* The position of key among entries, 0 if it is not there. *)
Find(heap, entries, key) ==
    LET at == {i \in DOMAIN entries : heap[entries[i]].key = key}
    IN  IF at = {} THEN 0 ELSE CHOOSE i \in at : TRUE

(* entries after key := value: the last entry takes the place of a removed *)
(* one, a changed entry is a new object.                                   *)
EditEntries(heap, entries, key, value) ==
    LET i    == Find(heap, entries, key)
        last == Len(entries)
        e    == Alloc(heap, Entry(key, value))
    IN  IF value = NOT_SET
        THEN [heap |-> heap,
              entries |-> SubSeq([entries EXCEPT ![i] = entries[last]], 1, last - 1)]
        ELSE [heap |-> e.heap,
              entries |-> IF i = 0 THEN Append(entries, e.node)
                          ELSE [entries EXCEPT ![i] = e.node]]

RECURSIVE MergeIntoNode(_, _, _, _, _, _)

(* A trie of a leaf and a new entry: bitmap nodes as long as the digits of *)
(* their hashes agree, a collision node if all do.                         *)
MergeIntoNode(heap, leaf, owner, shift, hash, entry) ==
    LET d1  == Digit(heap[leaf].hash, shift)
        d2  == Digit(hash, shift)
        low == MergeIntoNode(heap, leaf, owner, shift + SHIFT, hash, entry)
        new == Alloc(heap, ValueNode(owner, hash, entry))
    IN  IF heap[leaf].hash = hash
        THEN Alloc(heap, CollisionNode(owner, hash, <<heap[leaf].entry, entry>>))
        ELSE IF d1 = d2 THEN Alloc(low.heap, BitmapNode(owner, {d1}, <<low.node>>))
        ELSE Alloc(new.heap, BitmapNode(owner, {d1, d2},
                 IF d1 < d2 THEN <<leaf, new.node>> ELSE <<new.node, leaf>>))

(* Mutant: the child that was removed is packed with the others. *)
PackAllNodes(nodes, owner, excluding) ==
    LET kept == {d \in 0..(SIZE - 1) : At(nodes, d) # Undefined}
    IN  BitmapNode(owner, kept,
            [i \in 1..Cardinality(kept) |->
                At(nodes, CHOOSE d \in kept : Rank(kept, d) = i)])

(* packNodes: the other children of a hash-array node, as a bitmap node. *)
PackNodes(nodes, owner, excluding) ==
    LET kept == {d \in 0..(SIZE - 1) : d # excluding /\ At(nodes, d) # Undefined}
    IN  BitmapNode(owner, kept,
            [i \in 1..Cardinality(kept) |->
                At(nodes, CHOOSE d \in kept : Rank(kept, d) = i)])

(* expandNodes: the children of a bitmap node and one more at its digit. *)
ExpandNodes(node, owner, including, child) ==
    HashNode(owner, Len(node.nodes) + 1,
        [i \in 1..SIZE |->
            IF i - 1 = including THEN child
            ELSE IF i - 1 \in node.bitmap THEN node.nodes[Rank(node.bitmap, i - 1)]
            ELSE Undefined])

RECURSIVE UpdateNode(_, _, _, _, _, _)
RECURSIVE CreateNodes(_, _, _, _)

(* The nodes of more entries than an array node holds, starting with node. *)
(* -1 stands for the new OwnerID of a map without one: nobody else has it. *)
CreateNodes(heap, node, owner, entries) ==
    LET e == heap[Head(entries)]
        r == UpdateNode(heap, node, owner, 0, e.key, e.value)
    IN  IF entries = <<>> THEN Ref(heap, node)
        ELSE CreateNodes(r.heap, r.node, owner, Tail(entries))

UpdateEntries(heap, node, owner, shift, key, value) ==
    LET n       == heap[node]
        i       == Find(heap, n.entries, key)
        e       == EditEntries(heap, n.entries, key, value)
        hash    == Hash[key]
        new     == Alloc(heap, Entry(key, value))
        leaf    == Alloc(new.heap, ValueNode(IF owner = NoOwner THEN -1 ELSE owner, hash, new.node))
        removed == value = NOT_SET
        resize  == removed \/ i = 0
    IN  IF n.type = "collision" /\ hash # n.hash
        THEN IF removed THEN Same(heap, node)
             ELSE Updated(MergeIntoNode(new.heap, node, owner, shift, hash, new.node), TRUE, TRUE)
        ELSE IF IF i = 0 THEN removed ELSE heap[n.entries[i]].value = value
        THEN Same(heap, node)
        ELSE IF removed /\ n.type = "array" /\ Len(n.entries) = 1
        THEN Updated(Ref(heap, Undefined), TRUE, TRUE)
        ELSE IF removed /\ n.type = "collision" /\ Len(n.entries) = 2
        THEN Updated(Alloc(heap, ValueNode(owner, n.hash, n.entries[3 - i])), TRUE, TRUE)
        ELSE IF n.type = "array" /\ i = 0 /\ Len(n.entries) >= MAX_ARRAY_MAP_SIZE
        THEN Updated(CreateNodes(leaf.heap, leaf.node, leaf.heap[leaf.node].owner, n.entries),
                     TRUE, TRUE)
        ELSE Updated(Store(e.heap, node, owner,
                           [n EXCEPT !.entries = e.entries, !.owner = owner]), TRUE, resize)

UpdateBitmap(heap, node, owner, shift, key, value) ==
    LET n      == heap[node]
        d      == Digit(Hash[key], shift)
        i      == Rank(n.bitmap, d)
        exists == d \in n.bitmap
        old    == IF exists THEN n.nodes[i] ELSE Undefined
        r      == UpdateNode(heap, old, owner, shift + SHIFT, key, value)
        new    == r.node
        object ==
            IF new = Undefined THEN BitmapNode(owner, n.bitmap \ {d}, Without(n.nodes, i))
            ELSE IF exists THEN BitmapNode(owner, n.bitmap, [n.nodes EXCEPT ![i] = new])
            ELSE BitmapNode(owner, n.bitmap \cup {d}, SpliceIn(n.nodes, i, new))
    IN  IF new = old THEN [r EXCEPT !.node = node]
        ELSE IF ~exists /\ Len(n.nodes) >= MAX_BITMAP_INDEXED_SIZE
        THEN Updated(Alloc(r.heap, ExpandNodes(n, owner, d, new)), r.alter, r.resize)
        ELSE IF new = Undefined /\ Len(n.nodes) = 2 /\ IsLeaf(heap, n.nodes[3 - i])
        THEN [r EXCEPT !.node = n.nodes[3 - i]]
        ELSE IF exists /\ new # Undefined /\ Len(n.nodes) = 1 /\ IsLeaf(r.heap, new)
        THEN r
        ELSE Updated(Store(r.heap, node, owner, object), r.alter, r.resize)

(* Mutant: a removed child is still counted. *)
CountAdded(n, old, new) == n.count + (IF old = Undefined THEN 1 ELSE 0)

(* The number of children after old was replaced by new. *)
CountChildren(n, old, new) ==
    n.count + (IF old = Undefined THEN 1 ELSE IF new = Undefined THEN -1 ELSE 0)

UpdateHashArray(heap, node, owner, shift, key, value) ==
    LET n     == heap[node]
        d     == Digit(Hash[key], shift)
        old   == At(n.nodes, d)
        r     == UpdateNode(heap, old, owner, shift + SHIFT, key, value)
        new   == r.node
        count == CountChildren(n, old, new)
    IN  IF new = old THEN [r EXCEPT !.node = node]
        ELSE IF count < n.count /\ count < MIN_HASH_ARRAY_MAP_SIZE
        THEN Updated(Alloc(r.heap, PackNodes(n.nodes, owner, d)), r.alter, r.resize)
        ELSE Updated(Store(r.heap, node, owner, HashNode(owner, count, Put(n.nodes, d, new))),
                     r.alter, r.resize)

(* A mutable map writes into the entry of a value node it owns. *)
UpdateValue(heap, node, owner, shift, key, value) ==
    LET n     == heap[node]
        match == heap[n.entry].key = key
        new   == Alloc(heap, Entry(key, value))
    IN  IF IF match THEN heap[n.entry].value = value ELSE value = NOT_SET
        THEN Same(heap, node)
        ELSE IF value = NOT_SET THEN Updated(Ref(heap, Undefined), TRUE, TRUE)
        ELSE IF match
        THEN Updated(IF Owned(heap, node, owner)
                     THEN Ref([heap EXCEPT ![n.entry].value = value], node)
                     ELSE Alloc(new.heap, ValueNode(owner, n.hash, new.node)), TRUE, FALSE)
        ELSE Updated(MergeIntoNode(new.heap, node, owner, shift, Hash[key], new.node), TRUE, TRUE)

UpdateNode(heap, node, owner, shift, key, value) ==
    LET new == Alloc(heap, Entry(key, value))
    IN  IF node = Undefined
        THEN IF value = NOT_SET THEN Same(heap, node)
             ELSE Updated(Alloc(new.heap, ValueNode(owner, Hash[key], new.node)), TRUE, TRUE)
        ELSE CASE heap[node].type = "bitmap" -> UpdateBitmap(heap, node, owner, shift, key, value)
               [] heap[node].type = "hash"   -> UpdateHashArray(heap, node, owner, shift, key, value)
               [] heap[node].type = "value"  -> UpdateValue(heap, node, owner, shift, key, value)
               [] OTHER                      -> UpdateEntries(heap, node, owner, shift, key, value)

-----------------------------------------------------------------------------
(* Reading.                                                                *)

RECURSIVE GetFrom(_, _, _, _)

(* The value of key below node, NOT_SET if it is not there. *)
GetFrom(heap, node, shift, key) ==
    LET n == heap[node]
        d == Digit(Hash[key], shift)
    IN  IF node = Undefined THEN NOT_SET
        ELSE CASE n.type = "bitmap" ->
                    IF d \in n.bitmap
                    THEN GetFrom(heap, n.nodes[Rank(n.bitmap, d)], shift + SHIFT, key)
                    ELSE NOT_SET
               [] n.type = "hash" -> GetFrom(heap, At(n.nodes, d), shift + SHIFT, key)
               [] n.type = "value" ->
                    IF heap[n.entry].key = key THEN heap[n.entry].value ELSE NOT_SET
               [] OTHER ->
                    LET i == Find(heap, n.entries, key)
                    IN  IF i = 0 THEN NOT_SET ELSE heap[n.entries[i]].value

Get(heap, m, key) == GetFrom(heap, m.root, 0, key)

(* What the map shows. *)
Shown(heap, m) ==
    LET has == {k \in Key : Get(heap, m, k) # NOT_SET}
    IN  [k \in has |-> Get(heap, m, k)]

RECURSIVE Entries(_, _, _)

(* The entries below the nodes of a sequence, in the order of forEach and  *)
(* of MapIterator.                                                         *)
Entries(heap, nodes, reverse) ==
    LET node == IF reverse THEN nodes[Len(nodes)] ELSE Head(nodes)
        rest == IF reverse THEN SubSeq(nodes, 1, Len(nodes) - 1) ELSE Tail(nodes)
        n    == heap[node]
        own  == IF n.type = "value" THEN <<n.entry>>
                ELSE IF n.type \in {"bitmap", "hash"} THEN Entries(heap, n.nodes, reverse)
                ELSE [i \in DOMAIN n.entries |->
                         n.entries[IF reverse THEN Len(n.entries) + 1 - i ELSE i]]
    IN  IF nodes = <<>> THEN <<>>
        ELSE (IF node = Undefined THEN <<>> ELSE own) \o Entries(heap, rest, reverse)

-----------------------------------------------------------------------------
(* Operations.  The result of one is its heap and map.                     *)

MapResult(heap, m) == [heap |-> heap, map |-> m]

UpdateMap(heap, m, key, value) ==
    LET e == Alloc(heap, Entry(key, value))
        first == Alloc(e.heap, ArrayNode(m.owner, <<e.node>>))
        r == IF m.root # Undefined THEN UpdateNode(heap, m.root, m.owner, 0, key, value)
             ELSE IF value = NOT_SET THEN Same(heap, m.root)
             ELSE Updated(first, TRUE, TRUE)
        step == IF r.resize THEN IF value = NOT_SET THEN -1 ELSE 1 ELSE 0
        new == [m EXCEPT !.size = @ + step, !.root = r.node, !.altered = m.owner # NoOwner]
    IN  IF ~r.alter THEN MapResult(heap, m)
        ELSE MapResult(r.heap, IF r.node = Undefined /\ m.owner = NoOwner THEN EmptyMap ELSE new)

MapAsMutable(m, fresh) ==
    IF m.owner # NoOwner THEN m ELSE [m EXCEPT !.owner = fresh, !.altered = FALSE]

(* __ensureOwner of a mutable map without an owner *)
Released(m) == [m EXCEPT !.owner = NoOwner, !.altered = FALSE]

RECURSIVE SetAll(_, _, _)

SetAll(r, keys, entries) ==
    LET k == CHOOSE k \in keys : TRUE
    IN  IF keys = {} THEN r
        ELSE SetAll(UpdateMap(r.heap, r.map, k, entries[k]), keys \ {k}, entries)

(* withMutations(set every entry): merge, and Map(entries) of an empty map. *)
MergeMap(heap, m, fresh, entries) ==
    LET r == SetAll(MapResult(heap, MapAsMutable(m, fresh)), DOMAIN entries, entries)
    IN  IF ~r.map.altered THEN MapResult(r.heap, m)
        ELSE IF m.owner = NoOwner THEN MapResult(r.heap, Released(r.map))
        ELSE r

ClearMap(heap, m) ==
    IF m.size = 0 THEN MapResult(heap, m)
    ELSE IF m.owner = NoOwner THEN MapResult(heap, EmptyMap)
    ELSE MapResult(heap, [EmptyMap EXCEPT !.owner = m.owner, !.altered = TRUE])

MapVersion == 1..Len(maps)

FreshMapOwner == mapOps + 2

RECURSIVE NodesUnder(_, _)

NodesUnder(heap, node) ==
    IF node = Undefined THEN {}
    ELSE {node} \cup
         (IF heap[node].type \in {"bitmap", "hash"}
          THEN UNION {NodesUnder(heap, heap[node].nodes[i]) : i \in DOMAIN heap[node].nodes}
          ELSE {})

(* The entries of a node. *)
EntriesOf(heap, node) ==
    LET n == heap[node]
    IN  CASE n.type = "value" -> {n.entry}
          [] n.type \in {"array", "collision"} -> Range(n.entries)
          [] OTHER -> {}

(* A mutable map owns a value node with an entry that another version has. *)
SharesEntry(heap, all) ==
    \E v, w \in DOMAIN all : v # w /\ all[v].owner # NoOwner /\
        \E n \in NodesUnder(heap, all[v].root), o \in NodesUnder(heap, all[w].root) :
            /\ heap[n].type = "value" /\ heap[n].owner = all[v].owner
            /\ heap[n].entry \in EntriesOf(heap, o)

MapChange(v, r, value) ==
    /\ mapOps < MaxMapOps
    /\ mapOps' = mapOps + 1
    /\ mapHeap' = r.heap
    /\ IF r.map.owner # NoOwner
       THEN /\ maps' = [maps EXCEPT ![v] = r.map]
            /\ mapValues' = [mapValues EXCEPT ![v] = value]
       ELSE IF r.map = maps[v] /\ value = mapValues[v]
       THEN UNCHANGED <<maps, mapValues>>
       ELSE /\ maps' = Append(maps, r.map)
            /\ mapValues' = Append(mapValues, value)
    /\ mapShared' = (mapShared \/ SharesEntry(mapHeap', maps'))

MapInit ==
    \E f \in FirstMaps :
        LET r == MergeMap(<<>>, EmptyMap, 1, f)
        IN  /\ mapHeap = r.heap
            /\ maps = <<r.map>>
            /\ mapValues = <<f>>
            /\ mapShared = FALSE
            /\ mapOps = 0

MapSet(v, k, x) ==
    MapChange(v, UpdateMap(mapHeap, maps[v], k, x),
              [key \in DOMAIN mapValues[v] \cup {k} |->
                  IF key = k THEN x ELSE mapValues[v][key]])

MapRemove(v, k) ==
    MapChange(v, UpdateMap(mapHeap, maps[v], k, NOT_SET),
              Restrict(mapValues[v], DOMAIN mapValues[v] \ {k}))

MapClear(v) == MapChange(v, ClearMap(mapHeap, maps[v]), <<>>)

MapMerge(v, f) ==
    MapChange(v, MergeMap(mapHeap, maps[v], FreshMapOwner, f),
              [k \in DOMAIN f \cup DOMAIN mapValues[v] |->
                  IF k \in DOMAIN f THEN f[k] ELSE mapValues[v][k]])

MapAsMutableCopy(v) ==
    /\ maps[v].owner = NoOwner
    /\ mapOps < MaxMapOps
    /\ mapOps' = mapOps + 1
    /\ maps' = Append(maps, MapAsMutable(maps[v], FreshMapOwner))
    /\ mapValues' = Append(mapValues, mapValues[v])
    /\ UNCHANGED <<mapHeap, mapShared>>

MapAsImmutable(v) ==
    /\ maps[v].owner # NoOwner
    /\ maps' = [maps EXCEPT ![v] = Released(@)]
    /\ UNCHANGED <<mapHeap, mapValues, mapShared, mapOps>>

MapNext ==
    \E v \in MapVersion :
        \/ \E k \in Key, x \in Value : MapSet(v, k, x)
        \/ \E k \in Key : MapRemove(v, k)
        \/ \E f \in FirstMaps : MapMerge(v, f)
        \/ MapClear(v) \/ MapAsMutableCopy(v) \/ MapAsImmutable(v)

MapSpec == MapInit /\ [][MapNext]_mapVars

-----------------------------------------------------------------------------
(* Properties.                                                             *)

(* The trie is in the form its sizes ask for: sizes are right, a bitmap    *)
(* node with a single child is above a longer path, a value node has the   *)
(* hash of its key.                                                        *)
MapTypeOK ==
    /\ Len(maps) = Len(mapValues)
    /\ \A v \in MapVersion :
          /\ maps[v].size = Cardinality(DOMAIN mapValues[v])
          /\ (maps[v].root = Undefined) <=> (maps[v].size = 0)
          /\ \A n \in NodesUnder(mapHeap, maps[v].root) :
                LET node == mapHeap[n]
                IN  CASE node.type = "bitmap" ->
                            /\ Len(node.nodes) = Cardinality(node.bitmap)
                            /\ Len(node.nodes) \in 1..MAX_BITMAP_INDEXED_SIZE
                            /\ Len(node.nodes) = 1 => ~IsLeaf(mapHeap, node.nodes[1])
                      [] node.type = "hash" ->
                            /\ node.count = Cardinality({d \in 0..(SIZE - 1) :
                                                At(node.nodes, d) # Undefined})
                            /\ node.count >= MIN_HASH_ARRAY_MAP_SIZE
                      [] node.type = "array" ->
                            Len(node.entries) \in 1..MAX_ARRAY_MAP_SIZE
                      [] node.type = "collision" -> Len(node.entries) > 1
                      [] OTHER -> node.hash = Hash[mapHeap[node.entry].key]

(* Persistence: whatever is done to other versions, mutable copies         *)
(* included, a map shows what its own operations made of it - unless a     *)
(* mutable map removed one of two colliding keys: the value node that      *)
(* stays is its own, with the entry of the version it was copied from.     *)
MapKept == ~mapShared => \A v \in MapVersion : Shown(mapHeap, maps[v]) = mapValues[v]

(* forEach and iterators visit every key once, in both directions.         *)
MapIterates ==
    \A v \in MapVersion, reverse \in BOOLEAN :
        LET es == Entries(mapHeap, <<maps[v].root>>, reverse)
            ks == {mapHeap[es[i]].key : i \in DOMAIN es}
        IN  /\ ks = DOMAIN mapValues[v]
            /\ Len(es) = Cardinality(ks)
=============================================================================
