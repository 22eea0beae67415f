-------------------------------- MODULE Trie --------------------------------
(***************************************************************************)
(* What List and Map of immutable.js (src/static/drf-yasg) share: the      *)
(* digits of an index or hash, JavaScript arrays, and nodes as objects     *)
(* with an owner.  A heap is a sequence of nodes, a reference is a         *)
(* position in it, so two versions of a collection may share a node and an *)
(* edit in place is seen by all that share it.                             *)
(***************************************************************************)
EXTENDS Integers, Sequences

CONSTANTS
    SHIFT,          \* bits of a digit (5 in the source)
    Undefined       \* the value undefined, also a missing node

ASSUME TrieAssumption == SHIFT \in Nat \ {0}

SIZE == 2^SHIFT

(* The owner of a collection or node that nobody may edit. *)
NoOwner == 0

(* (index >>> level) & MASK *)
Digit(index, level) == (index \div 2^level) % SIZE

(* arr[i] of a JavaScript array, which may end before i. *)
At(arr, i) == IF i < Len(arr) THEN arr[i + 1] ELSE Undefined

(* arr[i] = x, which may extend the array. *)
Put(arr, i, x) ==
    [j \in 1..(IF i < Len(arr) THEN Len(arr) ELSE i + 1) |->
        IF j = i + 1 THEN x ELSE At(arr, j - 1)]

Ref(heap, node) == [heap |-> heap, node |-> node]

Alloc(heap, object) == Ref(Append(heap, object), Len(heap) + 1)

(* A node may be edited in place by the collection that created it. *)
Owned(heap, node, owner) ==
    owner # NoOwner /\ node # Undefined /\ heap[node].owner = owner

-----------------------------------------------------------------------------
(* Arguments of slice and get (wrapIndex, resolveIndex); undefined begins  *)
(* at 0 and ends at the size.                                              *)

Clip(i, low, high) == IF i < low THEN low ELSE IF i > high THEN high ELSE i

WrapIndex(size, index) == IF index < 0 THEN size + index ELSE index

ResolveIndex(index, size, default) ==
    IF index = Undefined THEN default ELSE Clip(WrapIndex(size, index), 0, size)

ResolveBegin(begin, size) == ResolveIndex(begin, size, 0)
ResolveEnd(end, size) == ResolveIndex(end, size, size)
=============================================================================
