------------------------------- MODULE MCBrowser -------------------------------
(***************************************************************************)
(* The scripts of the API documentation page for TLC, in one run: a        *)
(* behaviour is one of PersistentList, PersistentMap, OrderedMap or        *)
(* SpecLoader (no two share state), the others rest in an initial state.   *)
(***************************************************************************)
EXTENDS PersistentList, PersistentMap, OrderedMap, SpecLoader, TLC

VARIABLE part       \* the component that runs

(* Arguments of slice, set and remove: -4 is before the start of a list of *)
(* three, 2 inside one, 6 beyond its end.                                  *)
MCListIndex == {Undefined, -4, 2, 6}

(* Keys 1 and 2 collide, and 3 agrees with them in its first digit.        *)
MCHash == [k \in 1..6 |-> CASE k \in {1, 2} -> 0 [] k = 3 -> 4 [] OTHER -> k - 3]

(* An empty map, one with a collision, one with a long path, and all keys. *)
MCFirstMaps == {[k \in keys |-> 0] : keys \in {{}, {1, 2, 4}, {1, 3, 4}, 1..6}}

MCFirstOrdered == {<<1, 2, 3, 4>>, <<2, 1>>, <<5, 4>>}

(* A scheme with a query parameter and one without. *)
MCKindOf == "q" :> "query" @@ "o" :> "oauth2"

MCFirstStored == {<<>>, Corrupt, "q" :> "k1"}

BrowserInit ==
    /\ part \in {"list", "map", "ordered", "loader"}
    /\ ListInit /\ MapInit /\ OrderedInit /\ SpecInit
    /\ part # "list" => Len(listValues[1]) = 3
    /\ part # "map" => mapValues[1] = <<>>
    /\ part # "ordered" => Len(omapValues[1]) = 4 /\ omaps[1].set
    /\ part # "loader" => stored = <<>> /\ settings.persistAuth /\ settings.refetchWithAuth

BrowserNext ==
    \/ part = "list" /\ ListNext /\ UNCHANGED <<part, mapVars, orderedVars, specVars>>
    \/ part = "map" /\ MapNext /\ UNCHANGED <<part, listVars, orderedVars, specVars>>
    \/ part = "ordered" /\ OrderedNext /\ UNCHANGED <<part, listVars, mapVars, specVars>>
    \/ part = "loader" /\ SpecNext /\ UNCHANGED <<part, listVars, mapVars, orderedVars>>

BrowserSpec ==
    BrowserInit /\ [][BrowserNext]_<<part, listVars, mapVars, orderedVars, specVars>>
=============================================================================
