----------------------------- MODULE OrderedMap ------------------------------
(***************************************************************************)
(* OrderedMap and OrderedSet of immutable.js: a Map from keys to positions *)
(* and a List of the entries at their positions, with holes where entries  *)
(* were removed.  A map and its list have no other users, so both appear   *)
(* as values here; that versions which share nodes keep theirs is the      *)
(* subject of PersistentMap and PersistentList.  omapValues records the    *)
(* entries each version should show, in the order of insertion.            *)
(***************************************************************************)
EXTENDS Trie, FiniteSets

CONSTANTS
    OrderedKey,         \* keys of maps, members of sets
    OrderedValue,       \* values of maps
    Present,            \* true, the value of every member of a set
    FirstOrdered,       \* sequences of keys: of the first map or set, of a
                        \* merge, and of a subtraction
    MaxOrdered,         \* bound on versions
    MaxOrderedOps       \* bound on operations

(* What a map keeps for its keys, and the entries of its list. *)
OrderedMapped == OrderedValue \cup {Present}
OrderedEntry == OrderedKey \X OrderedMapped

(* SIZE 2 would make the test of the compaction in RemoveKey meaningless. *)
ASSUME OrderedAssumption ==
    /\ SHIFT > 1
    /\ FirstOrdered \subseteq Seq(OrderedKey)
    /\ OrderedValue # {}
    /\ Undefined \notin OrderedEntry

VARIABLES
    omaps,          \* the objects, in the order of creation
    omapValues,     \* [version -> the sequence of entries it should show]
    emptied,        \* history: the shared empty list and map got an owner
    omapOps         \* operations so far

orderedVars == <<omaps, omapValues, emptied, omapOps>>

(* An object: its _map and _list, whether each of them says that it was    *)
(* altered since its mutable copy was made, and whether they are the empty *)
(* list and map that all share, with the owner of the object.              *)
EmptyOrdered(set) ==
    [map |-> <<>>, list |-> <<>>, owner |-> NoOwner, set |-> set,
     mapAltered |-> FALSE, listAltered |-> FALSE, spoils |-> FALSE]

EmptySet == EmptyOrdered(TRUE)

(* Mutant: only the map is asked. *)
MapWasAltered(o) == o.mapAltered

WasAltered(o) == o.mapAltered \/ o.listAltered

OrderedSize(o) == Cardinality(DOMAIN o.map)

(* filter: what is left of s without what is in dropped moves up. *)
Dropping(s, dropped) ==
    LET left[n \in 0..Len(s)] ==
            IF n = 0 THEN <<>>
            ELSE IF s[n] \in dropped THEN left[n - 1]
            ELSE Append(left[n - 1], s[n])
    IN  left[Len(s)]

(* forEach and iterators. *)
ShownInOrder(o) == Dropping(o.list, {Undefined})

EntryAt(o, k) == o.list[o.map[k] + 1]

-----------------------------------------------------------------------------

(* updateOrderedMap of a key that gets a value. *)
SetKey(o, k, x) ==
    IF k \in DOMAIN o.map
    THEN IF EntryAt(o, k) = <<k, x>> THEN o
         ELSE [o EXCEPT !.list[o.map[k] + 1] = <<k, x>>, !.listAltered = TRUE]
    ELSE [o EXCEPT !.map = [key \in DOMAIN @ \cup {k} |->
                                IF key = k THEN Len(o.list) ELSE @[key]],
                   !.list = Append(@, <<k, x>>),
                   !.mapAltered = TRUE, !.listAltered = TRUE]

(* The list with a hole for the entry of k. *)
Blanked(o, k) == [o.list EXCEPT ![o.map[k] + 1] = Undefined]

(* The list filtered of its holes and of the entry of k. *)
Filtered(o, k) == Dropping(Blanked(o, k), {Undefined})

(* The keys of a list flipped and made a map: each with its position. *)
Flip(list) ==
    [k \in {list[i][1] : i \in DOMAIN list} |->
        (CHOOSE i \in DOMAIN list : list[i][1] = k) - 1]

(* Mutant: a compaction keeps the positions of the old list. *)
CompactedInPlace(o, k) ==
    LET left == Filtered(o, k)
    IN  [o EXCEPT !.list = left, !.map = [key \in DOMAIN @ \ {k} |-> @[key]],
                  !.mapAltered = FALSE, !.listAltered = left # <<>>]

(* The list filtered, and the map made anew from it: the list comes from   *)
(* withMutations and says it was altered, the map does not.  If nothing is *)
(* left they are the shared empty list and map, which were never altered,  *)
(* and a mutable object makes itself their owner.                          *)
Compacted(o, k) ==
    LET left == Filtered(o, k)
    IN  [o EXCEPT !.list = left,
                  !.map = Flip(left),
                  !.mapAltered = FALSE, !.listAltered = left # <<>>,
                  !.spoils = left = <<>> /\ o.owner # NoOwner]

(* More than half of a long list are holes, as the next removal counts. *)
NeedsCompaction(o) ==
    Len(o.list) >= SIZE /\ Len(o.list) >= 2 * OrderedSize(o)

(* updateOrderedMap of a key that is removed: the last entry is popped,    *)
(* any other leaves a hole.                                                *)
RemoveKey(o, k) ==
    IF k \notin DOMAIN o.map THEN o
    ELSE IF NeedsCompaction(o) THEN Compacted(o, k)
    ELSE [o EXCEPT !.map = [key \in DOMAIN @ \ {k} |-> @[key]],
                   !.list = IF o.map[k] = Len(@) - 1
                            THEN SubSeq(@, 1, Len(@) - 1) ELSE Blanked(o, k),
                   !.mapAltered = TRUE, !.listAltered = TRUE]

ClearOrdered(o) ==
    IF OrderedSize(o) = 0 THEN o
    ELSE IF o.owner = NoOwner THEN EmptyOrdered(o.set)
    ELSE [EmptyOrdered(o.set) EXCEPT !.owner = o.owner,
                                     !.mapAltered = TRUE, !.listAltered = TRUE]

(* updateSet: an immutable set that becomes empty is the empty set. *)
UpdateSet(o, new) ==
    IF o.set /\ o.owner = NoOwner /\ new # o /\ OrderedSize(new) = 0
    THEN EmptySet
    ELSE new

MutableCopy(o, fresh) ==
    IF o.owner # NoOwner THEN o
    ELSE [o EXCEPT !.owner = fresh, !.mapAltered = FALSE, !.listAltered = FALSE]

(* withMutations: the mutable copy m of o after its changes, if it says    *)
(* that it was altered.                                                    *)
Mutated(o, m) ==
    IF o.owner # NoOwner THEN m
    ELSE IF WasAltered(m) THEN [m EXCEPT !.owner = NoOwner] ELSE o

(* merge of a map, union of a set, and both constructors. *)
SetKeys(o, fresh, keys, x) ==
    LET m[n \in 0..Len(keys)] ==
            IF n = 0 THEN MutableCopy(o, fresh) ELSE SetKey(m[n - 1], keys[n], x)
    IN  Mutated(o, m[Len(keys)])

(* The mutable copy of subtract and intersect after what they do: what the *)
(* set shows is gone through in order.                                     *)
RemoveKeys(o, fresh, keys) ==
    LET dropped(e) == e # Undefined /\ e[1] \in keys
        m[n \in 0..Len(o.list)] ==
            IF n = 0 THEN MutableCopy(o, fresh)
            ELSE IF dropped(o.list[n]) THEN RemoveKey(m[n - 1], o.list[n][1])
            ELSE m[n - 1]
    IN  m[Len(o.list)]

-----------------------------------------------------------------------------

OrderedVersion == 1..Len(omaps)

FreshOrderedOwner == omapOps + 2

(* The operation with result new on version v, which should show entries.  *)
(* What the library does after the shared objects got an owner is left     *)
(* out.                                                                    *)
OrderedChange(v, new, entries) ==
    /\ ~emptied
    /\ omapOps < MaxOrderedOps
    /\ omapOps' = omapOps + 1
    /\ IF new.owner # NoOwner
       THEN /\ omaps' = [omaps EXCEPT ![v] = new]
            /\ omapValues' = [omapValues EXCEPT ![v] = entries]
       ELSE IF new = omaps[v] /\ entries = omapValues[v]
       THEN UNCHANGED <<omaps, omapValues>>
       ELSE /\ Len(omaps) < MaxOrdered
            /\ omaps' = Append(omaps, new)
            /\ omapValues' = Append(omapValues, entries)

EntriesSet(entries, k, x) ==
    IF \E i \in DOMAIN entries : entries[i][1] = k
    THEN [i \in DOMAIN entries |-> IF entries[i][1] = k THEN <<k, x>> ELSE entries[i]]
    ELSE Append(entries, <<k, x>>)

EntriesMerged(entries, keys, x) ==
    LET merged[n \in 0..Len(keys)] ==
            IF n = 0 THEN entries ELSE EntriesSet(merged[n - 1], keys[n], x)
    IN  merged[Len(keys)]

EntriesWithout(entries, keys) == Dropping(entries, keys \X OrderedMapped)

ValuesOf(o) == IF o.set THEN {Present} ELSE OrderedValue

(* The constructors. *)
OrderedMapOf(keys, x) == SetKeys(EmptyOrdered(FALSE), 1, keys, x)
OrderedSetOf(keys) == SetKeys(EmptySet, 1, keys, Present)

OrderedInit ==
    \E keys \in FirstOrdered, set \in BOOLEAN :
        LET x == IF set THEN Present ELSE CHOOSE y \in OrderedValue : TRUE
        IN  /\ omaps = <<IF set THEN OrderedSetOf(keys) ELSE OrderedMapOf(keys, x)>>
            /\ omapValues = <<EntriesMerged(<<>>, keys, x)>>
            /\ emptied = FALSE
            /\ omapOps = 0

(* set, and add of a set. *)
OrderedSetKey(v, k) ==
    \E x \in ValuesOf(omaps[v]) :
        /\ OrderedChange(v, UpdateSet(omaps[v], SetKey(omaps[v], k, x)),
                         EntriesSet(omapValues[v], k, x))
        /\ UNCHANGED emptied

OrderedRemove(v, k) ==
    LET new == RemoveKey(omaps[v], k)
    IN  /\ OrderedChange(v, UpdateSet(omaps[v], new), EntriesWithout(omapValues[v], {k}))
        /\ emptied' = new.spoils

OrderedClear(v) ==
    /\ OrderedChange(v, ClearOrdered(omaps[v]), <<>>)
    /\ UNCHANGED emptied

OrderedMerge(v, keys) ==
    \E x \in ValuesOf(omaps[v]) :
        /\ OrderedChange(v, SetKeys(omaps[v], FreshOrderedOwner, keys, x),
                         EntriesMerged(omapValues[v], keys, x))
        /\ UNCHANGED emptied

OrderedSubtract(v, keys) ==
    /\ omaps[v].set
    /\ LET m == RemoveKeys(omaps[v], FreshOrderedOwner, keys)
       IN  /\ OrderedChange(v, Mutated(omaps[v], m), EntriesWithout(omapValues[v], keys))
           /\ emptied' = m.spoils

OrderedAsMutable(v) ==
    /\ omaps[v].owner = NoOwner
    /\ Len(omaps) < MaxOrdered
    /\ omapOps < MaxOrderedOps
    /\ omapOps' = omapOps + 1
    /\ omaps' = Append(omaps, MutableCopy(omaps[v], FreshOrderedOwner))
    /\ omapValues' = Append(omapValues, omapValues[v])
    /\ UNCHANGED emptied

OrderedAsImmutable(v) ==
    /\ omaps[v].owner # NoOwner
    /\ omaps' = [omaps EXCEPT ![v].owner = NoOwner]
    /\ UNCHANGED <<omapValues, emptied, omapOps>>

OrderedNext ==
    \E v \in OrderedVersion :
        \/ \E k \in OrderedKey : OrderedSetKey(v, k) \/ OrderedRemove(v, k)
        \/ \E keys \in FirstOrdered :
               OrderedMerge(v, keys) \/ OrderedSubtract(v, {keys[i] : i \in DOMAIN keys})
        \/ OrderedClear(v) \/ OrderedAsMutable(v) \/ OrderedAsImmutable(v)

OrderedSpec == OrderedInit /\ [][OrderedNext]_orderedVars

-----------------------------------------------------------------------------
(* Properties.                                                             *)

(* The map has the positions of the entries in the list, and the list has  *)
(* holes everywhere else.                                                  *)
OrderedTypeOK ==
    \A v \in OrderedVersion :
        LET o == omaps[v]
        IN  /\ \A k \in DOMAIN o.map :
                  o.map[k] + 1 \in DOMAIN o.list /\ EntryAt(o, k)[1] = k
            /\ OrderedSize(o) = Len(ShownInOrder(o))

(* A version shows its entries in the order of insertion, through holes,   *)
(* compactions and changes of its mutable copies: in particular a change   *)
(* made inside withMutations is never taken for none, although a           *)
(* compaction forgets that the map was altered.  The exception is emptied. *)
OrderedKept ==
    ~emptied => \A v \in OrderedVersion : ShownInOrder(omaps[v]) = omapValues[v]
=============================================================================
