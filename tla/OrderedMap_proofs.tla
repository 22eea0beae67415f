-------------------------- MODULE OrderedMap_proofs ---------------------------
(***************************************************************************)
(* Ordered maps and sets of any keys and values keep the order of their    *)
(* entries, whatever the operations.                                       *)
(***************************************************************************)
EXTENDS OrderedMap, FiniteSetTheorems, SequenceTheorems, WellFoundedInduction, TLAPS

-----------------------------------------------------------------------------
(* Induction over numbers and sequences, with a set for the property; and  *)
(* what a recursive function over 0..N is, with a function for its step.   *)

LEMMA NatSetInduction ==
    ASSUME NEW A, 0 \in A, \A n \in Nat \cap A : n + 1 \in A
    PROVE  Nat \subseteq A
<1> DEFINE out == Nat \ A
<1> SUFFICES ASSUME out # {} PROVE FALSE OBVIOUS
<1>1. PICK n \in out : \A m \in out : <<m, n>> \notin OpToRel(<, Nat)
    BY NatLessThanWellFounded, WFMin
<1>2. n # 0 /\ n - 1 \in Nat OBVIOUS
<1>3. n - 1 \notin out
    <2>1. <<n - 1, n>> \in OpToRel(<, Nat) BY <1>2 DEF OpToRel
    <2> QED BY <1>1, <2>1
<1>4. n - 1 \in A BY <1>2, <1>3
<1>5. (n - 1) + 1 \in A BY <1>2, <1>4
<1> QED BY <1>5

LEMMA SeqSetInduction ==
    ASSUME NEW S, NEW A, <<>> \in A, \A s \in Seq(S) \cap A, e \in S : Append(s, e) \in A
    PROVE  Seq(S) \subseteq A
<1> DEFINE good == {n \in Nat : \A s \in Seq(S) : Len(s) = n => s \in A}
<1>1. 0 \in good BY EmptySeq
<1>2. ASSUME NEW n \in Nat \cap good PROVE n + 1 \in good
    <2>1. SUFFICES ASSUME NEW s \in Seq(S), Len(s) = n + 1 PROVE s \in A OBVIOUS
    <2>2. s # <<>> BY <2>1, EmptySeq
    <2>3. PICK t \in Seq(S), e \in S : s = Append(t, e) BY <2>2, SequenceEmptyOrAppend
    <2>4. Len(s) = Len(t) + 1 /\ Len(t) \in Nat BY <2>3, AppendProperties, LenProperties
    <2>5. t \in A BY <2>1, <2>4
    <2> QED BY <2>3, <2>5
<1>3. Nat \subseteq good
    <2> HIDE DEF good
    <2> QED BY <1>1, <1>2, NatSetInduction
<1> QED BY <1>3, LenProperties

Steps(X, N) == [X \X (1..N) -> X]

Follows(f, base, step, N) ==
    f[0] = base /\ \A n \in 1..N : f[n] = step[<<f[n - 1], n>>]

LEMMA RecursionExists ==
    ASSUME NEW X, NEW base \in X, NEW N \in Nat, NEW step \in Steps(X, N)
    PROVE  \E f \in [0..N -> X] : Follows(f, base, step, N)
<1> USE DEF Steps, Follows
<1> DEFINE Good(f, k) == f[0] = base /\ \A n \in 1..k : f[n] = step[<<f[n - 1], n>>]
           done == {k \in Nat : k <= N => \E f \in [0..k -> X] : Good(f, k)}
<1>1. 0 \in done
    <2>1. [n \in 0..0 |-> base] \in [0..0 -> X] /\ Good([n \in 0..0 |-> base], 0)
        OBVIOUS
    <2> QED BY <2>1
<1>2. ASSUME NEW k \in Nat \cap done PROVE k + 1 \in done
    <2>1. SUFFICES ASSUME k + 1 <= N PROVE \E f \in [0..(k + 1) -> X] : Good(f, k + 1)
        OBVIOUS
    <2>2. PICK f \in [0..k -> X] : Good(f, k) BY <2>1
    <2> DEFINE last == step[<<f[k], k + 1>>]
               g == [n \in 0..(k + 1) |-> IF n = k + 1 THEN last ELSE f[n]]
    <2>3. last \in X BY <2>1
    <2>4. g \in [0..(k + 1) -> X] BY <2>3
    <2>5. g[0] = base BY <2>2
    <2>6. ASSUME NEW n \in 1..(k + 1) PROVE g[n] = step[<<g[n - 1], n>>]
        <3>1. n - 1 \in 0..k /\ g[n - 1] = f[n - 1] OBVIOUS
        <3>2. CASE n = k + 1
            <4>1. n - 1 = k /\ g[n] = last BY <3>2
            <4> QED BY <3>1, <3>2, <4>1
        <3>3. CASE n # k + 1 BY <2>2, <3>1, <3>3
        <3> QED BY <3>2, <3>3
    <2> QED BY <2>4, <2>5, <2>6
<1>3. N \in done
    <2> HIDE DEF done
    <2> QED BY <1>1, <1>2, NatSetInduction
<1> QED BY <1>3

-----------------------------------------------------------------------------
(* Filters.                                                                *)

(* left[n] is what is left of the first n of s, sequences of members of S. *)
LeftOf(left, s, S, D) ==
    /\ left \in [0..Len(s) -> Seq(S)]
    /\ left[0] = <<>>
    /\ \A n \in 1..Len(s) :
           left[n] = IF s[n] \in D THEN left[n - 1] ELSE Append(left[n - 1], s[n])

LEMMA DroppingIs ==
    ASSUME NEW S, NEW s \in Seq(S), NEW D
    PROVE  \E left : LeftOf(left, s, S, D) /\ Dropping(s, D) = left[Len(s)]
<1> DEFINE N == Len(s)
           step == [p \in Seq(S) \X (1..N) |->
                       IF s[p[2]] \in D THEN p[1] ELSE Append(p[1], s[p[2]])]
           Rec(g) == [n \in 0..N |->
                          IF n = 0 THEN <<>>
                          ELSE IF s[n] \in D THEN g[n - 1]
                          ELSE Append(g[n - 1], s[n])]
<1>1. N \in Nat /\ <<>> \in Seq(S) /\ \A n \in 1..N : s[n] \in S
    BY EmptySeq, LenProperties, ElementOfSeq
<1>2. step \in [Seq(S) \X (1..N) -> Seq(S)] BY <1>1, AppendProperties
<1>3. PICK f \in [0..N -> Seq(S)] :
          f[0] = <<>> /\ \A n \in 1..N : f[n] = step[<<f[n - 1], n>>]
    <2> DEFINE X == Seq(S)
               base == <<>>
    <2>1. N \in Nat /\ base \in X /\ step \in [X \X (1..N) -> X] BY <1>1, <1>2
    <2>2. \E f \in [0..N -> X] : Follows(f, base, step, N)
        <3>1. step \in Steps(X, N) BY <2>1 DEF Steps
        <3> HIDE DEF step, N, X, base
        <3> QED BY <2>1, <3>1, RecursionExists
    <2> QED BY <2>2 DEF Follows
<1>4. \A n \in 1..N : f[n] = IF s[n] \in D THEN f[n - 1] ELSE Append(f[n - 1], s[n])
    <2>1. \A n \in 1..N : f[n - 1] \in Seq(S) BY <1>1
    <2> QED BY <1>3, <2>1
<1>5. f = Rec(f)
    <2>1. \A n \in 0..N : f[n] = Rec(f)[n]
        <3> SUFFICES ASSUME NEW n \in 0..N PROVE f[n] = Rec(f)[n] OBVIOUS
        <3>1. CASE n = 0 BY <1>3, <3>1
        <3>2. CASE n # 0
            <4>1. n \in 1..N BY <1>1, <3>2
            <4> QED BY <1>4, <3>2, <4>1
        <3> QED BY <3>1, <3>2
    <2> QED BY <2>1
<1> DEFINE left == CHOOSE g : g = Rec(g)
<1>6. left = Rec(left) BY <1>5
<1>7. Dropping(s, D) = left[N] BY DEF Dropping
<1>8. left[0] = <<>> /\ \A n \in 1..N :
          left[n] = IF s[n] \in D THEN left[n - 1] ELSE Append(left[n - 1], s[n])
    <2>1. \A n \in 0..N : left[n] = Rec(left)[n]
        <3> HIDE DEF left, Rec
        <3> QED BY <1>6
    <2> HIDE DEF left
    <2> QED BY <1>1, <2>1
<1>9. \A n \in 0..N : left[n] \in Seq(S)
    <2> DEFINE typed == {n \in Nat : n <= N => left[n] \in Seq(S)}
    <2> HIDE DEF left
    <2>1. 0 \in typed BY <1>1, <1>8
    <2>2. ASSUME NEW n \in Nat \cap typed PROVE n + 1 \in typed
        <3> SUFFICES ASSUME n + 1 <= N PROVE left[n + 1] \in Seq(S) OBVIOUS
        <3>1. n + 1 \in 1..N /\ (n + 1) - 1 = n /\ left[n] \in Seq(S) BY <1>1
        <3>2. s[n + 1] \in S BY <1>1, <3>1
        <3>3. Append(left[n], s[n + 1]) \in Seq(S) BY <3>1, <3>2, AppendProperties
        <3>4. left[n + 1] = IF s[n + 1] \in D THEN left[n] ELSE Append(left[n], s[n + 1])
            BY <1>8, <3>1
        <3> QED BY <3>1, <3>3, <3>4
    <2>3. Nat \subseteq typed
        <3> HIDE DEF typed
        <3> QED BY <2>1, <2>2, NatSetInduction
    <2> QED BY <1>1, <2>3
<1>10. left \in [0..N -> Seq(S)]
    <2> HIDE DEF left
    <2>1. left = [n \in 0..N |-> left[n]] BY <1>6
    <2> QED BY <1>9, <2>1
<1>11. LeftOf(left, s, S, D) BY <1>8, <1>10 DEF LeftOf
<1> QED BY <1>7, <1>11
LEMMA DroppingType ==
    ASSUME NEW S, NEW s \in Seq(S), NEW D
    PROVE  Dropping(s, D) \in Seq(S)
<1>1. PICK left : LeftOf(left, s, S, D) /\ Dropping(s, D) = left[Len(s)] BY DroppingIs
<1>2. Len(s) \in 0..Len(s) BY LenProperties
<1> QED BY <1>1, <1>2 DEF LeftOf

LEMMA DroppingEmpty ==
    ASSUME NEW D
    PROVE  Dropping(<<>>, D) = <<>>
<1> DEFINE S == {0}
           none == <<>>
<1>1. none \in Seq(S) /\ Len(none) = 0 BY EmptySeq
<1>2. PICK left : LeftOf(left, none, S, D) /\ Dropping(none, D) = left[Len(none)]
    <2> HIDE DEF S, none
    <2> QED BY <1>1, DroppingIs
<1> QED BY <1>1, <1>2 DEF LeftOf

LEMMA DroppingAppend ==
    ASSUME NEW S, NEW s \in Seq(S), NEW e \in S, NEW D
    PROVE  Dropping(Append(s, e), D) =
               IF e \in D THEN Dropping(s, D) ELSE Append(Dropping(s, D), e)
<1> DEFINE t == Append(s, e)
           N == Len(s)
<1>1. /\ t \in Seq(S) /\ N \in Nat /\ Len(t) = N + 1
      /\ t[N + 1] = e /\ \A n \in 1..N : t[n] = s[n]
    BY AppendProperties, LenProperties
<1> HIDE DEF t, N
<1>2. PICK f : LeftOf(f, s, S, D) /\ Dropping(s, D) = f[N] BY DroppingIs DEF N
<1>3. PICK g : LeftOf(g, t, S, D) /\ Dropping(t, D) = g[Len(t)] BY <1>1, DroppingIs
<1> USE DEF LeftOf
<1> DEFINE same == {n \in Nat : n <= N => f[n] = g[n]}
<1>4. 0 \in same BY <1>2, <1>3
<1>5. ASSUME NEW n \in Nat \cap same PROVE n + 1 \in same
    <2> SUFFICES ASSUME n + 1 <= N PROVE f[n + 1] = g[n + 1] OBVIOUS
    <2>1. n + 1 \in 1..N /\ n + 1 \in 1..Len(t) /\ (n + 1) - 1 = n /\ f[n] = g[n]
        BY <1>1
    <2>2. t[n + 1] = s[n + 1] BY <1>1, <2>1
    <2>3. f[n + 1] = IF s[n + 1] \in D THEN f[n] ELSE Append(f[n], s[n + 1])
        BY <1>2, <2>1 DEF N
    <2>4. g[n + 1] = IF t[n + 1] \in D THEN g[n] ELSE Append(g[n], t[n + 1]) BY <1>3, <2>1
    <2> QED BY <2>1, <2>2, <2>3, <2>4
<1>6. Nat \subseteq same
    <2> HIDE DEF same
    <2> QED BY <1>4, <1>5, NatSetInduction
<1>7. f[N] = g[N] BY <1>1, <1>6
<1>8. N + 1 \in 1..Len(t) /\ (N + 1) - 1 = N BY <1>1
<1>9. g[N + 1] = IF t[N + 1] \in D THEN g[N] ELSE Append(g[N], t[N + 1])
    BY <1>3, <1>8
<1> QED BY <1>1, <1>2, <1>3, <1>7, <1>9 DEF t

(* What is dropped is gone and the rest is there. *)
LEMMA DroppingMembers ==
    ASSUME NEW S, NEW D
    PROVE  \A s \in Seq(S) : \A e :
               (\E i \in 1..Len(Dropping(s, D)) : Dropping(s, D)[i] = e)
                   <=> (e \notin D /\ \E i \in 1..Len(s) : s[i] = e)
<1> DEFINE Has(s, e) == \E i \in 1..Len(s) : s[i] = e
           good == {s \in Seq(S) : \A e : Has(Dropping(s, D), e) <=> (e \notin D /\ Has(s, e))}
<1>1. <<>> \in good
    <2>1. <<>> \in Seq(S) /\ Dropping(<<>>, D) = <<>> /\ \A e : ~Has(<<>>, e)
        BY EmptySeq, DroppingEmpty
    <2> QED BY <2>1
<1>2. ASSUME NEW s \in Seq(S), NEW e \in S
      PROVE  Append(s, e) \in Seq(S) /\ \A x : Has(Append(s, e), x) <=> (Has(s, x) \/ x = e)
    <2> DEFINE t == Append(s, e)
    <2>1. /\ t \in Seq(S) /\ Len(s) \in Nat /\ Len(t) = Len(s) + 1
          /\ t[Len(s) + 1] = e /\ \A n \in 1..Len(s) : t[n] = s[n]
        BY AppendProperties, LenProperties
    <2> HIDE DEF t
    <2>2. \A x : Has(t, x) <=> (Has(s, x) \/ x = e)
        <3>1. \A i \in 1..Len(t) : i \in 1..Len(s) \/ i = Len(s) + 1 BY <2>1
        <3>2. \A i \in 1..Len(s) : i \in 1..Len(t) BY <2>1
        <3>3. Len(s) + 1 \in 1..Len(t) BY <2>1
        <3> QED BY <2>1, <3>1, <3>2, <3>3
    <2> QED BY <2>1, <2>2 DEF t
<1>3. ASSUME NEW s \in Seq(S) \cap good, NEW e \in S PROVE Append(s, e) \in good
    <2>1. Dropping(s, D) \in Seq(S) BY DroppingType
    <2>2. \A x : Has(Dropping(s, D), x) <=> (x \notin D /\ Has(s, x)) OBVIOUS
    <2>3. Append(s, e) \in Seq(S) /\ \A x : Has(Append(s, e), x) <=> (Has(s, x) \/ x = e)
        BY <1>2
    <2>4. \A x : Has(Append(Dropping(s, D), e), x) <=> (Has(Dropping(s, D), x) \/ x = e)
        BY <1>2, <2>1
    <2>5. Dropping(Append(s, e), D) =
              IF e \in D THEN Dropping(s, D) ELSE Append(Dropping(s, D), e)
        BY DroppingAppend
    <2> HIDE DEF Has
    <2>6. \A x : Has(Dropping(Append(s, e), D), x) <=> (x \notin D /\ Has(Append(s, e), x))
        BY <2>2, <2>3, <2>4, <2>5
    <2> QED BY <2>3, <2>6
<1>4. Seq(S) \subseteq good
    <2> HIDE DEF good
    <2> QED BY <1>1, <1>3, SeqSetInduction
<1> QED BY <1>4
LEMMA DroppingTwice ==
    ASSUME NEW S, NEW D, NEW E
    PROVE  \A s \in Seq(S) : Dropping(Dropping(s, D), E) = Dropping(s, D \cup E)
<1> DEFINE good == {s \in Seq(S) : Dropping(Dropping(s, D), E) = Dropping(s, D \cup E)}
<1>1. <<>> \in good BY EmptySeq, DroppingEmpty
<1>2. ASSUME NEW s \in Seq(S) \cap good, NEW e \in S PROVE Append(s, e) \in good
    <2>1. Append(s, e) \in Seq(S) BY AppendProperties
    <2>2. Dropping(s, D) \in Seq(S) BY DroppingType
    <2>3. Dropping(Append(s, e), D) =
              IF e \in D THEN Dropping(s, D) ELSE Append(Dropping(s, D), e)
        BY DroppingAppend
    <2>4. Dropping(Append(s, e), D \cup E) =
              IF e \in D \cup E THEN Dropping(s, D \cup E)
              ELSE Append(Dropping(s, D \cup E), e)
        BY DroppingAppend
    <2>5. Dropping(Append(Dropping(s, D), e), E) =
              IF e \in E THEN Dropping(Dropping(s, D), E)
              ELSE Append(Dropping(Dropping(s, D), E), e)
        <3> DEFINE d == Dropping(s, D)
        <3>1. d \in Seq(S) /\ e \in S BY <2>2
        <3> HIDE DEF d
        <3>2. Dropping(Append(d, e), E) =
                  IF e \in E THEN Dropping(d, E) ELSE Append(Dropping(d, E), e)
            BY <3>1, DroppingAppend
        <3> QED BY <3>2 DEF d
    <2> QED BY <2>1, <2>3, <2>4, <2>5
<1>3. Seq(S) \subseteq good
    <2> HIDE DEF good
    <2> QED BY <1>1, <1>2, SeqSetInduction
<1> QED BY <1>3

(* g of each member of a sequence. *)
Each(s, g) == [i \in 1..Len(s) |-> g[s[i]]]

LEMMA EachType ==
    ASSUME NEW S, NEW g \in [S -> S], NEW s \in Seq(S)
    PROVE  /\ Each(s, g) \in Seq(S) /\ Len(Each(s, g)) = Len(s)
           /\ Each(<<>>, g) = <<>>
           /\ \A e \in S : Each(Append(s, e), g) = Append(Each(s, g), g[e])
<1>1. Len(s) \in Nat /\ \A i \in 1..Len(s) : s[i] \in S BY LenProperties, ElementOfSeq
<1>2. Each(s, g) \in Seq(S) /\ Len(Each(s, g)) = Len(s) BY <1>1 DEF Each
<1>3. Each(<<>>, g) = <<>>
    <2>1. Len(<<>>) = 0 /\ 1..0 = {} BY EmptySeq
    <2> QED BY <2>1 DEF Each
<1>4. ASSUME NEW e \in S PROVE Each(Append(s, e), g) = Append(Each(s, g), g[e])
    <2> DEFINE t == Append(s, e)
               u == Append(Each(s, g), g[e])
    <2>1. /\ t \in Seq(S) /\ Len(t) = Len(s) + 1
          /\ t[Len(s) + 1] = e /\ \A n \in 1..Len(s) : t[n] = s[n]
        BY AppendProperties
    <2>2. /\ u \in Seq(S) /\ Len(u) = Len(s) + 1
          /\ u[Len(s) + 1] = g[e] /\ \A n \in 1..Len(s) : u[n] = Each(s, g)[n]
        BY <1>2, AppendProperties
    <2> HIDE DEF t, u
    <2>3. Each(t, g) \in Seq(S) /\ Len(Each(t, g)) = Len(s) + 1
        <3>1. \A i \in 1..Len(t) : t[i] \in S BY <2>1, ElementOfSeq
        <3> QED BY <1>1, <2>1, <3>1 DEF Each
    <2>4. \A i \in 1..(Len(s) + 1) : Each(t, g)[i] = u[i]
        <3> SUFFICES ASSUME NEW i \in 1..(Len(s) + 1) PROVE Each(t, g)[i] = u[i] OBVIOUS
        <3>1. Each(t, g)[i] = g[t[i]] BY <2>1 DEF Each
        <3>2. CASE i = Len(s) + 1 BY <2>1, <2>2, <3>1, <3>2
        <3>3. CASE i # Len(s) + 1
            <4>1. i \in 1..Len(s) BY <1>1, <3>3
            <4> QED BY <2>1, <2>2, <3>1, <4>1 DEF Each
        <3> QED BY <3>2, <3>3
    <2>5. Each(t, g) = u BY <2>2, <2>3, <2>4, SeqEqual
    <2> QED BY <2>5 DEF t, u
<1> QED BY <1>2, <1>3, <1>4

LEMMA EachSame ==
    ASSUME NEW S, NEW g \in [S -> S], NEW s \in Seq(S), \A i \in 1..Len(s) : g[s[i]] = s[i]
    PROVE  Each(s, g) = s
<1>1. Each(s, g) \in Seq(S) /\ Len(Each(s, g)) = Len(s) BY EachType
<1>2. \A i \in 1..Len(s) : Each(s, g)[i] = s[i] BY DEF Each
<1> QED BY <1>1, <1>2, SeqEqual

(* What drops of the sequence g makes is known from the sequence. *)
LEMMA DroppingEach ==
    ASSUME NEW S, NEW g \in [S -> S], NEW D, NEW E, \A e \in S : g[e] \in D <=> e \in E
    PROVE  \A s \in Seq(S) : Dropping(Each(s, g), D) = Each(Dropping(s, E), g)
<1> DEFINE good == {s \in Seq(S) : Dropping(Each(s, g), D) = Each(Dropping(s, E), g)}
<1>1. <<>> \in good
    <2>1. <<>> \in Seq(S) BY EmptySeq
    <2>2. Each(<<>>, g) = <<>> BY <2>1, EachType
    <2> QED BY <2>1, <2>2, DroppingEmpty
<1>2. ASSUME NEW s \in Seq(S) \cap good, NEW e \in S PROVE Append(s, e) \in good
    <2>1. Append(s, e) \in Seq(S) /\ g[e] \in S BY AppendProperties
    <2>2. Dropping(s, E) \in Seq(S) BY DroppingType
    <2>3. Each(s, g) \in Seq(S) /\ Each(Append(s, e), g) = Append(Each(s, g), g[e])
        BY EachType
    <2>4. Dropping(Append(Each(s, g), g[e]), D) =
              IF g[e] \in D THEN Dropping(Each(s, g), D)
              ELSE Append(Dropping(Each(s, g), D), g[e])
        BY <2>1, <2>3, DroppingAppend
    <2>5. Dropping(Append(s, e), E) =
              IF e \in E THEN Dropping(s, E) ELSE Append(Dropping(s, E), e)
        BY DroppingAppend
    <2>6. Each(Append(Dropping(s, E), e), g) = Append(Each(Dropping(s, E), g), g[e])
        BY <2>2, EachType
    <2> QED BY <2>1, <2>3, <2>4, <2>5, <2>6
<1>3. Seq(S) \subseteq good
    <2> HIDE DEF good
    <2> QED BY <1>1, <1>2, SeqSetInduction
<1> QED BY <1>3

(* Only the members of a sequence matter. *)
LEMMA DroppingAgrees ==
    ASSUME NEW S, NEW s \in Seq(S), NEW D, NEW E,
           \A i \in 1..Len(s) : s[i] \in D <=> s[i] \in E
    PROVE  Dropping(s, D) = Dropping(s, E)
<1> DEFINE R == {s[i] : i \in 1..Len(s)}
           same == [e \in R |-> e]
<1>1. s \in Seq(R)
    <2>1. Len(s) \in Nat /\ s = [i \in 1..Len(s) |-> s[i]] BY LenProperties
    <2>2. \A i \in 1..Len(s) : s[i] \in R OBVIOUS
    <2> HIDE DEF R
    <2> QED BY <2>1, <2>2
<1>2. same \in [R -> R] /\ \A e \in R : same[e] \in D <=> e \in E OBVIOUS
<1>3. \A e \in R : same[e] = e OBVIOUS
<1>4. Each(s, same) = s
    <2>1. \A i \in 1..Len(s) : same[s[i]] = s[i] OBVIOUS
    <2> HIDE DEF R, same
    <2> QED BY <1>1, <1>2, <2>1, EachSame
<1> HIDE DEF R, same
<1>5. Dropping(s, E) \in Seq(R) BY <1>1, DroppingType
<1>6. Each(Dropping(s, E), same) = Dropping(s, E)
    <2>1. \A i \in 1..Len(Dropping(s, E)) : Dropping(s, E)[i] \in R BY <1>5, ElementOfSeq
    <2> QED BY <1>2, <1>3, <1>5, <2>1, EachSame
<1>7. Dropping(Each(s, same), D) = Each(Dropping(s, E), same) BY <1>1, <1>2, DroppingEach
<1> QED BY <1>4, <1>6, <1>7
-----------------------------------------------------------------------------
(* Lists, and maps that fit them.                                          *)

Slot == OrderedEntry \cup {Undefined}

KeysApart(list) ==
    \A i, j \in 1..Len(list) :
        list[i] # Undefined /\ list[j] # Undefined /\ list[i][1] = list[j][1] => i = j

(* A map has the position of every entry of a list, and nothing else. *)
Fits(map, list) ==
    /\ \A k \in DOMAIN map :
           /\ map[k] + 1 \in 1..Len(list)
           /\ list[map[k] + 1] # Undefined /\ list[map[k] + 1][1] = k
    /\ \A i \in 1..Len(list) :
           list[i] # Undefined => list[i][1] \in DOMAIN map /\ map[list[i][1]] = i - 1

Positions == UNION {[K -> Nat] : K \in SUBSET OrderedKey}

LEMMA SlotType ==
    /\ Undefined \notin OrderedEntry /\ Undefined \in Slot
    /\ \A e \in Slot : e # Undefined =>
           e \in OrderedEntry /\ e[1] \in OrderedKey /\ e[2] \in OrderedMapped /\ e = <<e[1], e[2]>>
    /\ \A k \in OrderedKey, x \in OrderedMapped : <<k, x>> \in OrderedEntry /\ <<k, x>> \in Slot
BY OrderedAssumption DEF Slot, OrderedEntry

LEMMA FitsApart ==
    ASSUME NEW map, NEW list, Fits(map, list)
    PROVE  KeysApart(list)
<1> SUFFICES ASSUME NEW i \in 1..Len(list), NEW j \in 1..Len(list),
                    list[i] # Undefined, list[j] # Undefined, list[i][1] = list[j][1]
             PROVE  i = j
    BY DEF KeysApart
<1>1. map[list[i][1]] = i - 1 /\ map[list[j][1]] = j - 1 BY DEF Fits
<1>2. i - 1 = j - 1 BY <1>1
<1> QED BY <1>2

LEMMA ApartKept ==
    ASSUME NEW D
    PROVE  \A s \in Seq(Slot) : KeysApart(s) => KeysApart(Dropping(s, D))
<1> DEFINE good == {s \in Seq(Slot) : KeysApart(s) => KeysApart(Dropping(s, D))}
<1>1. <<>> \in good
    <2>1. <<>> \in Seq(Slot) /\ Len(<<>>) = 0 BY EmptySeq
    <2>2. KeysApart(<<>>) BY <2>1 DEF KeysApart
    <2> QED BY <2>1, <2>2, DroppingEmpty
<1>2. ASSUME NEW s \in Seq(Slot) \cap good, NEW e \in Slot PROVE Append(s, e) \in good
    <2> DEFINE t == Append(s, e)
               d == Dropping(s, D)
               u == Append(d, e)
    <2>1. /\ t \in Seq(Slot) /\ Len(t) = Len(s) + 1 /\ Len(s) \in Nat
          /\ t[Len(s) + 1] = e /\ \A n \in 1..Len(s) : t[n] = s[n]
        BY AppendProperties, LenProperties
    <2>2. d \in Seq(Slot) BY DroppingType
    <2>3. /\ u \in Seq(Slot) /\ Len(u) = Len(d) + 1 /\ Len(d) \in Nat
          /\ u[Len(d) + 1] = e /\ \A n \in 1..Len(d) : u[n] = d[n]
        BY <2>2, AppendProperties, LenProperties
    <2>4. Dropping(t, D) = IF e \in D THEN d ELSE u BY DroppingAppend
    <2>5. \A n \in 1..Len(d) : \E i \in 1..Len(s) : s[i] = d[n] BY DroppingMembers
    <2>6. s \in good OBVIOUS
    <2> HIDE DEF t, u, d
    <2>7. ASSUME KeysApart(t) PROVE KeysApart(d)
        <3>1. KeysApart(s) BY <2>1, <2>7 DEF KeysApart
        <3> QED BY <2>6, <3>1 DEF d
    <2>8. ASSUME KeysApart(t) PROVE KeysApart(u)
        <3>1. KeysApart(d) BY <2>7, <2>8
        <3>2. ASSUME NEW n \in 1..Len(d), d[n] # Undefined, e # Undefined, d[n][1] = e[1]
              PROVE  FALSE
            <4>1. PICK i \in 1..Len(s) : s[i] = d[n] BY <2>5
            <4>2. i \in 1..Len(t) /\ Len(s) + 1 \in 1..Len(t) /\ i # Len(s) + 1 BY <2>1
            <4> QED BY <2>1, <2>8, <3>2, <4>1, <4>2 DEF KeysApart
        <3>3. \A i \in 1..Len(u) : i \in 1..Len(d) \/ i = Len(d) + 1 BY <2>3
        <3> QED BY <2>3, <3>1, <3>2, <3>3 DEF KeysApart
    <2>9. KeysApart(t) => KeysApart(Dropping(t, D)) BY <2>4, <2>7, <2>8
    <2> QED BY <2>1, <2>9 DEF t
<1>3. Seq(Slot) \subseteq good
    <2> HIDE DEF good
    <2> QED BY <1>1, <1>2, SeqSetInduction
<1> QED BY <1>3

(* The entries of a list are those it shows. *)
LEMMA ShownMembers ==
    ASSUME NEW list \in Seq(Slot)
    PROVE  /\ Dropping(list, {Undefined}) \in Seq(Slot)
           /\ \A n \in 1..Len(Dropping(list, {Undefined})) :
                  /\ Dropping(list, {Undefined})[n] # Undefined
                  /\ \E i \in 1..Len(list) : list[i] = Dropping(list, {Undefined})[n]
           /\ \A i \in 1..Len(list) : list[i] # Undefined =>
                  \E n \in 1..Len(Dropping(list, {Undefined})) :
                      Dropping(list, {Undefined})[n] = list[i]
<1> DEFINE d == Dropping(list, {Undefined})
<1>1. d \in Seq(Slot) BY DroppingType
<1>2. \A e : (\E i \in 1..Len(d) : d[i] = e)
                <=> (e \notin {Undefined} /\ \E i \in 1..Len(list) : list[i] = e)
    BY DroppingMembers
<1> HIDE DEF d
<1>3. \A n \in 1..Len(d) : d[n] # Undefined /\ \E i \in 1..Len(list) : list[i] = d[n]
    BY <1>2
<1>4. \A i \in 1..Len(list) : list[i] # Undefined => \E n \in 1..Len(d) : d[n] = list[i]
    BY <1>2
<1> QED BY <1>1, <1>3, <1>4 DEF d

(* A map has as many keys as the list it fits shows entries. *)
LEMMA SizeIsShown ==
    ASSUME NEW map, NEW list \in Seq(Slot), Fits(map, list)
    PROVE  /\ IsFiniteSet(DOMAIN map)
           /\ Cardinality(DOMAIN map) = Len(Dropping(list, {Undefined}))
<1> DEFINE d == Dropping(list, {Undefined})
           key == [n \in 1..Len(d) |-> d[n][1]]
<1>1. /\ d \in Seq(Slot)
      /\ \A n \in 1..Len(d) : d[n] # Undefined /\ \E i \in 1..Len(list) : list[i] = d[n]
      /\ \A i \in 1..Len(list) : list[i] # Undefined => \E n \in 1..Len(d) : d[n] = list[i]
    BY ShownMembers
<1>2. KeysApart(d) BY FitsApart, ApartKept
<1>3. Len(d) \in Nat BY <1>1, LenProperties
<1> HIDE DEF d
<1>4. key \in [1..Len(d) -> DOMAIN map]
    <2>1. \A n \in 1..Len(d) : d[n][1] \in DOMAIN map BY <1>1 DEF Fits
    <2> QED BY <2>1
<1>5. \A m, n \in 1..Len(d) : key[m] = key[n] => m = n BY <1>1, <1>2 DEF KeysApart
<1>6. \A k \in DOMAIN map : \E n \in 1..Len(d) : key[n] = k
    <2> SUFFICES ASSUME NEW k \in DOMAIN map PROVE \E n \in 1..Len(d) : key[n] = k OBVIOUS
    <2>1. map[k] + 1 \in 1..Len(list) /\ list[map[k] + 1] # Undefined /\ list[map[k] + 1][1] = k
        BY DEF Fits
    <2>2. PICK n \in 1..Len(d) : d[n] = list[map[k] + 1] BY <1>1, <2>1
    <2> QED BY <2>1, <2>2
<1>7. key \in Bijection(1..Len(d), DOMAIN map)
    <2> HIDE DEF key
    <2> QED BY <1>4, <1>5, <1>6 DEF Bijection, Injection, Surjection, IsInjective
<1>8. IsFiniteSet(1..Len(d)) /\ Cardinality(1..Len(d)) = Len(d)
    <2> DEFINE one == 1
               n == Len(d)
    <2>1. one \in Int /\ n \in Int BY <1>3
    <2>2. /\ IsFiniteSet(one..n)
          /\ Cardinality(one..n) = IF one > n THEN 0 ELSE n - one + 1
        <3> HIDE DEF one, n
        <3> QED BY <2>1, FS_Interval
    <2> QED BY <1>3, <2>2
<1>9. ExistsBijection(1..Len(d), DOMAIN map) BY <1>7 DEF ExistsBijection
<1> QED BY <1>8, <1>9, FS_Bijection DEF d

(* The map made of a list of entries fits it. *)
LEMMA FlipFits ==
    ASSUME NEW list \in Seq(Slot), KeysApart(list), \A i \in 1..Len(list) : list[i] # Undefined
    PROVE  Flip(list) \in Positions /\ Fits(Flip(list), list)
<1> DEFINE K == {list[i][1] : i \in 1..Len(list)}
           Pos(k) == CHOOSE i \in 1..Len(list) : list[i][1] = k
<1>1. DOMAIN list = 1..Len(list) /\ Len(list) \in Nat /\ \A i \in 1..Len(list) : list[i] \in Slot
    BY LenProperties, ElementOfSeq
<1>2. \A k \in K : Pos(k) \in 1..Len(list) /\ list[Pos(k)][1] = k OBVIOUS
<1>3. \A i \in 1..Len(list) : Pos(list[i][1]) = i BY <1>2 DEF KeysApart
<1>4. Flip(list) = [k \in K |-> Pos(k) - 1] BY <1>1 DEF Flip
<1>5. K \subseteq OrderedKey BY <1>1, SlotType
<1> HIDE DEF Pos
<1>6. \A k \in K : Pos(k) - 1 \in Nat /\ (Pos(k) - 1) + 1 = Pos(k) BY <1>1, <1>2
<1>7. Flip(list) \in [K -> Nat]
    <2> HIDE DEF K
    <2> QED BY <1>4, <1>6
<1>8. Flip(list) \in Positions BY <1>5, <1>7 DEF Positions
<1>9. Fits(Flip(list), list)
    <2>1. \A i \in 1..Len(list) : list[i][1] \in K OBVIOUS
    <2> HIDE DEF K
    <2> QED BY <1>2, <1>3, <1>4, <1>6, <2>1 DEF Fits
<1> QED BY <1>8, <1>9
-----------------------------------------------------------------------------
(* A key that is set or removed, in a list and in what it shows.           *)

Renew(k, x) == [e \in Slot |-> IF e # Undefined /\ e[1] = k THEN <<k, x>> ELSE e]

Blank(k) == [e \in Slot |-> IF e # Undefined /\ e[1] = k THEN Undefined ELSE e]

LEMMA RenewBlank ==
    ASSUME NEW k \in OrderedKey
    PROVE  /\ \A x \in OrderedMapped : Renew(k, x) \in [Slot -> Slot]
           /\ Blank(k) \in [Slot -> Slot]
           /\ \A e \in Slot : Blank(k)[e] \in {Undefined} <=>
                                  e \in {Undefined} \cup ({k} \X OrderedMapped)
           /\ \A e \in Slot, x \in OrderedMapped : Renew(k, x)[e] \in {Undefined} <=> e \in {Undefined}
<1>1. \A x \in OrderedMapped : Renew(k, x) \in [Slot -> Slot] BY SlotType DEF Renew
<1>2. Blank(k) \in [Slot -> Slot] BY SlotType DEF Blank
<1>3. ASSUME NEW e \in Slot
      PROVE  Blank(k)[e] \in {Undefined} <=> e \in {Undefined} \cup ({k} \X OrderedMapped)
    <2>1. CASE e = Undefined BY <2>1 DEF Blank
    <2>2. CASE e # Undefined
        <3>1. e[1] \in OrderedKey /\ e[2] \in OrderedMapped /\ e = <<e[1], e[2]>>
            BY <2>2, SlotType
        <3>2. e \in {k} \X OrderedMapped <=> e[1] = k BY <3>1
        <3> QED BY <2>2, <3>2 DEF Blank
    <2> QED BY <2>1, <2>2
<1>4. ASSUME NEW e \in Slot, NEW x \in OrderedMapped
      PROVE  Renew(k, x)[e] \in {Undefined} <=> e \in {Undefined}
    BY SlotType DEF Renew
<1> QED BY <1>1, <1>2, <1>3, <1>4

LEMMA EntriesSetIs ==
    ASSUME NEW s \in Seq(Slot), \A i \in 1..Len(s) : s[i] # Undefined,
           NEW k \in OrderedKey, NEW x \in OrderedMapped
    PROVE  EntriesSet(s, k, x) = IF \E i \in 1..Len(s) : s[i][1] = k
                                 THEN Each(s, Renew(k, x)) ELSE Append(s, <<k, x>>)
<1>1. DOMAIN s = 1..Len(s) /\ \A i \in 1..Len(s) : s[i] \in Slot BY LenProperties, ElementOfSeq
<1>2. [i \in 1..Len(s) |-> IF s[i][1] = k THEN <<k, x>> ELSE s[i]] = Each(s, Renew(k, x))
    BY <1>1 DEF Each, Renew
<1> QED BY <1>1, <1>2 DEF EntriesSet

LEMMA RenewShown ==
    ASSUME NEW list \in Seq(Slot), NEW k \in OrderedKey, NEW x \in OrderedMapped
    PROVE  Dropping(Each(list, Renew(k, x)), {Undefined}) =
               Each(Dropping(list, {Undefined}), Renew(k, x))
<1> DEFINE g == Renew(k, x)
           U == {Undefined}
<1>1. g \in [Slot -> Slot] /\ \A e \in Slot : g[e] \in U <=> e \in U BY RenewBlank
<1> HIDE DEF g, U
<1>2. \A s \in Seq(Slot) : Dropping(Each(s, g), U) = Each(Dropping(s, U), g)
    BY <1>1, DroppingEach
<1> QED BY <1>2 DEF g, U

LEMMA BlankShown ==
    ASSUME NEW list \in Seq(Slot), NEW k \in OrderedKey
    PROVE  Dropping(Each(list, Blank(k)), {Undefined}) =
               EntriesWithout(Dropping(list, {Undefined}), {k})
<1> DEFINE g == Blank(k)
           U == {Undefined}
           V == {k} \X OrderedMapped
           W == U \cup V
           d == Dropping(list, W)
<1>1. g \in [Slot -> Slot] /\ \A e \in Slot : g[e] \in U <=> e \in W BY RenewBlank
<1>2. \A e \in Slot : e \notin W => g[e] = e BY <1>1 DEF Blank
<1> HIDE DEF g, U, V, W
<1>3. \A s \in Seq(Slot) : Dropping(Each(s, g), U) = Each(Dropping(s, W), g)
    BY <1>1, DroppingEach
<1>4. d \in Seq(Slot) BY DroppingType
<1>5. \A e : (\E i \in 1..Len(d) : d[i] = e) <=> (e \notin W /\ \E i \in 1..Len(list) : list[i] = e)
    BY DroppingMembers
<1> HIDE DEF d
<1>6. \A i \in 1..Len(d) : g[d[i]] = d[i] BY <1>2, <1>4, <1>5, ElementOfSeq
<1>7. Each(d, g) = d BY <1>1, <1>4, <1>6, EachSame
<1>8. Dropping(Dropping(list, U), V) = Dropping(list, U \cup V) BY DroppingTwice
<1> QED BY <1>3, <1>7, <1>8 DEF d, g, U, V, W, EntriesWithout

(* The list of an object with the entry of k replaced by e. *)
LEMMA ReplacedIsEach ==
    ASSUME NEW map \in Positions, NEW list \in Seq(Slot), Fits(map, list),
           NEW k \in DOMAIN map, NEW g \in [Slot -> Slot], NEW e \in Slot,
           \A y \in Slot : g[y] = IF y # Undefined /\ y[1] = k THEN e ELSE y
    PROVE  [list EXCEPT ![map[k] + 1] = e] = Each(list, g)
<1> DEFINE r == [list EXCEPT ![map[k] + 1] = e]
<1>1. DOMAIN list = 1..Len(list) /\ list = [i \in 1..Len(list) |-> list[i]]
      /\ \A i \in 1..Len(list) : list[i] \in Slot
    BY LenProperties, ElementOfSeq
<1>2. map[k] + 1 \in 1..Len(list) /\ list[map[k] + 1] # Undefined /\ list[map[k] + 1][1] = k
    BY DEF Fits
<1>3. map[k] \in Nat BY DEF Positions
<1>4. \A i \in 1..Len(list) : (list[i] # Undefined /\ list[i][1] = k) => i = map[k] + 1
    <2> SUFFICES ASSUME NEW i \in 1..Len(list), list[i] # Undefined, list[i][1] = k
                 PROVE  i = map[k] + 1
        OBVIOUS
    <2>1. map[k] = i - 1 BY DEF Fits
    <2> QED BY <2>1
<1>5. r = [i \in 1..Len(list) |-> IF i = map[k] + 1 THEN e ELSE list[i]] BY <1>1
<1>6. \A i \in 1..Len(list) : g[list[i]] = IF i = map[k] + 1 THEN e ELSE list[i]
    BY <1>1, <1>2, <1>4
<1> QED BY <1>5, <1>6 DEF Each
LEMMA RenewFits ==
    ASSUME NEW map, NEW list \in Seq(Slot), Fits(map, list),
           NEW k \in OrderedKey, NEW x \in OrderedMapped
    PROVE  Fits(map, Each(list, Renew(k, x)))
<1> DEFINE g == Renew(k, x)
           r == Each(list, g)
<1>1. Len(r) = Len(list) /\ \A i \in 1..Len(list) : r[i] = g[list[i]] /\ list[i] \in Slot
    BY RenewBlank, EachType, ElementOfSeq DEF Each
<1>2. \A e \in Slot : e # Undefined => g[e] # Undefined /\ g[e][1] = e[1]
    BY SlotType DEF Renew
<1>3. \A e \in Slot : g[e] # Undefined => e # Undefined BY SlotType DEF Renew
<1> HIDE DEF g, r
<1>4. ASSUME NEW y \in DOMAIN map
      PROVE  map[y] + 1 \in 1..Len(r) /\ r[map[y] + 1] # Undefined /\ r[map[y] + 1][1] = y
    <2>1. /\ map[y] + 1 \in 1..Len(list)
          /\ list[map[y] + 1] # Undefined /\ list[map[y] + 1][1] = y
        BY DEF Fits
    <2> QED BY <1>1, <1>2, <2>1
<1>5. ASSUME NEW i \in 1..Len(r), r[i] # Undefined
      PROVE  r[i][1] \in DOMAIN map /\ map[r[i][1]] = i - 1
    <2>1. i \in 1..Len(list) /\ list[i] # Undefined /\ r[i][1] = list[i][1]
        BY <1>1, <1>2, <1>3, <1>5
    <2> QED BY <2>1 DEF Fits
<1> QED BY <1>4, <1>5 DEF Fits, r, g

LEMMA AppendFits ==
    ASSUME NEW map \in Positions, NEW list \in Seq(Slot), Fits(map, list),
           NEW k \in OrderedKey, k \notin DOMAIN map, NEW x \in OrderedMapped
    PROVE  LET new == [key \in DOMAIN map \cup {k} |->
                           IF key = k THEN Len(list) ELSE map[key]]
           IN  new \in Positions /\ Fits(new, Append(list, <<k, x>>))
<1> DEFINE new == [key \in DOMAIN map \cup {k} |-> IF key = k THEN Len(list) ELSE map[key]]
           e == <<k, x>>
           t == Append(list, e)
<1>1. e \in Slot /\ e # Undefined /\ e[1] = k BY SlotType
<1>2. /\ t \in Seq(Slot) /\ Len(t) = Len(list) + 1 /\ Len(list) \in Nat
      /\ t[Len(list) + 1] = e /\ \A n \in 1..Len(list) : t[n] = list[n]
    BY <1>1, AppendProperties, LenProperties
<1>3. PICK K \in SUBSET OrderedKey : map \in [K -> Nat] BY DEF Positions
<1>4. new \in Positions
    <2>1. new \in [K \cup {k} -> Nat] BY <1>2, <1>3
    <2>2. K \cup {k} \in SUBSET OrderedKey OBVIOUS
    <2> HIDE DEF new
    <2> QED BY <2>1, <2>2 DEF Positions
<1>5. DOMAIN new = DOMAIN map \cup {k} /\ new[k] = Len(list) /\ \A y \in DOMAIN map : new[y] = map[y]
    OBVIOUS
<1> HIDE DEF new, e, t
<1>6. ASSUME NEW y \in DOMAIN new
      PROVE  new[y] + 1 \in 1..Len(t) /\ t[new[y] + 1] # Undefined /\ t[new[y] + 1][1] = y
    <2>1. CASE y = k BY <1>1, <1>2, <1>5, <2>1
    <2>2. CASE y # k
        <3>1. y \in DOMAIN map /\ new[y] = map[y] BY <1>5, <2>2
        <3>2. /\ map[y] + 1 \in 1..Len(list)
              /\ list[map[y] + 1] # Undefined /\ list[map[y] + 1][1] = y
            BY <3>1 DEF Fits
        <3> QED BY <1>2, <3>1, <3>2
    <2> QED BY <2>1, <2>2
<1>7. ASSUME NEW i \in 1..Len(t), t[i] # Undefined
      PROVE  t[i][1] \in DOMAIN new /\ new[t[i][1]] = i - 1
    <2>1. CASE i = Len(list) + 1 BY <1>1, <1>2, <1>5, <2>1
    <2>2. CASE i # Len(list) + 1
        <3>1. i \in 1..Len(list) /\ t[i] = list[i] BY <1>2, <2>2
        <3>2. list[i][1] \in DOMAIN map /\ map[list[i][1]] = i - 1 BY <1>7, <3>1 DEF Fits
        <3> QED BY <1>5, <3>1, <3>2
    <2> QED BY <2>1, <2>2
<1> QED BY <1>4, <1>6, <1>7 DEF Fits, new, e, t

LEMMA BlankFits ==
    ASSUME NEW map \in Positions, NEW list \in Seq(Slot), Fits(map, list), NEW k \in OrderedKey
    PROVE  LET new == [key \in DOMAIN map \ {k} |-> map[key]]
           IN  new \in Positions /\ Fits(new, Each(list, Blank(k)))
<1> DEFINE new == [key \in DOMAIN map \ {k} |-> map[key]]
           g == Blank(k)
           r == Each(list, g)
<1>1. PICK K \in SUBSET OrderedKey : map \in [K -> Nat] BY DEF Positions
<1>2. new \in Positions
    <2>1. new \in [K \ {k} -> Nat] BY <1>1
    <2>2. K \ {k} \in SUBSET OrderedKey OBVIOUS
    <2> HIDE DEF new
    <2> QED BY <2>1, <2>2 DEF Positions
<1>3. Len(r) = Len(list) /\ \A i \in 1..Len(list) : r[i] = g[list[i]] /\ list[i] \in Slot
    BY RenewBlank, EachType, ElementOfSeq DEF Each
<1>4. \A e \in Slot : g[e] = IF e # Undefined /\ e[1] = k THEN Undefined ELSE e
    BY DEF Blank
<1>5. DOMAIN new = DOMAIN map \ {k} /\ \A y \in DOMAIN new : new[y] = map[y] OBVIOUS
<1> HIDE DEF new, g, r
<1>6. Fits(new, r)
    <2>1. ASSUME NEW y \in DOMAIN new
          PROVE  new[y] + 1 \in 1..Len(r) /\ r[new[y] + 1] # Undefined /\ r[new[y] + 1][1] = y
        <3>1. /\ map[y] + 1 \in 1..Len(list)
              /\ list[map[y] + 1] # Undefined /\ list[map[y] + 1][1] = y
            BY <1>5 DEF Fits
        <3> QED BY <1>3, <1>4, <1>5, <3>1
    <2>2. ASSUME NEW i \in 1..Len(r), r[i] # Undefined
          PROVE  r[i][1] \in DOMAIN new /\ new[r[i][1]] = i - 1
        <3>1. i \in 1..Len(list) /\ list[i] # Undefined /\ r[i] = list[i] /\ list[i][1] # k
            BY <1>3, <1>4, <2>2
        <3>2. list[i][1] \in DOMAIN map /\ map[list[i][1]] = i - 1 BY <3>1 DEF Fits
        <3> QED BY <1>5, <3>1, <3>2
    <2> QED BY <2>1, <2>2 DEF Fits
<1> QED BY <1>2, <1>6 DEF new, r, g

(* A hole at the end may go. *)
LEMMA PoppedFits ==
    ASSUME NEW map, NEW list \in Seq(Slot), Fits(map, Append(list, Undefined))
    PROVE  /\ Fits(map, list)
           /\ Dropping(Append(list, Undefined), {Undefined}) = Dropping(list, {Undefined})
<1> DEFINE t == Append(list, Undefined)
<1>1. /\ t \in Seq(Slot) /\ Len(t) = Len(list) + 1 /\ Len(list) \in Nat
      /\ t[Len(list) + 1] = Undefined /\ \A n \in 1..Len(list) : t[n] = list[n]
    BY SlotType, AppendProperties, LenProperties
<1>2. Dropping(t, {Undefined}) = Dropping(list, {Undefined})
    <2> DEFINE U == {Undefined}
               e == Undefined
    <2>1. e \in Slot /\ e \in U BY SlotType
    <2> HIDE DEF U, e
    <2>2. Dropping(Append(list, e), U) =
              IF e \in U THEN Dropping(list, U) ELSE Append(Dropping(list, U), e)
        BY <2>1, DroppingAppend
    <2> QED BY <2>1, <2>2 DEF U, e
<1> HIDE DEF t
<1>3. ASSUME NEW y \in DOMAIN map
      PROVE  map[y] + 1 \in 1..Len(list) /\ list[map[y] + 1] # Undefined /\ list[map[y] + 1][1] = y
    <2>1. map[y] + 1 \in 1..Len(t) /\ t[map[y] + 1] # Undefined /\ t[map[y] + 1][1] = y
        BY DEF Fits, t
    <2>2. map[y] + 1 # Len(list) + 1 BY <1>1, <2>1
    <2>3. map[y] + 1 \in 1..Len(list) BY <1>1, <2>1, <2>2
    <2> QED BY <1>1, <2>1, <2>3
<1>4. ASSUME NEW i \in 1..Len(list), list[i] # Undefined
      PROVE  list[i][1] \in DOMAIN map /\ map[list[i][1]] = i - 1
    <2>1. i \in 1..Len(t) /\ t[i] = list[i] BY <1>1
    <2> QED BY <1>4, <2>1 DEF Fits, t
<1> QED BY <1>2, <1>3, <1>4 DEF Fits, t
-----------------------------------------------------------------------------
(* Objects.                                                                *)

OrderedObject ==
    [map : Positions, list : Seq(Slot), owner : Nat, set : BOOLEAN,
     mapAltered : BOOLEAN, listAltered : BOOLEAN, spoils : BOOLEAN]

ObjectOK(o) == o \in OrderedObject /\ Fits(o.map, o.list)

LEMMA ObjectShows ==
    ASSUME NEW o, ObjectOK(o)
    PROVE  /\ ShownInOrder(o) \in Seq(Slot)
           /\ \A n \in 1..Len(ShownInOrder(o)) : ShownInOrder(o)[n] # Undefined
           /\ \A k : (\E n \in 1..Len(ShownInOrder(o)) : ShownInOrder(o)[n][1] = k)
                         <=> k \in DOMAIN o.map
           /\ OrderedSize(o) = Len(ShownInOrder(o))
<1> DEFINE list == o.list
           map == o.map
           d == Dropping(list, {Undefined})
<1>1. list \in Seq(Slot) /\ Fits(map, list) BY DEF ObjectOK, OrderedObject
<1> HIDE DEF list, map
<1>2. /\ d \in Seq(Slot)
      /\ \A n \in 1..Len(d) : d[n] # Undefined /\ \E i \in 1..Len(list) : list[i] = d[n]
      /\ \A i \in 1..Len(list) : list[i] # Undefined => \E n \in 1..Len(d) : d[n] = list[i]
    BY <1>1, ShownMembers
<1>3. Cardinality(DOMAIN map) = Len(d) BY <1>1, SizeIsShown
<1> HIDE DEF d
<1>4. \A k : (\E n \in 1..Len(d) : d[n][1] = k) <=> k \in DOMAIN map
    <2>1. ASSUME NEW n \in 1..Len(d) PROVE d[n][1] \in DOMAIN map
        <3>1. PICK i \in 1..Len(list) : list[i] = d[n] BY <1>2
        <3> QED BY <1>1, <1>2, <3>1 DEF Fits
    <2>2. ASSUME NEW k \in DOMAIN map PROVE \E n \in 1..Len(d) : d[n][1] = k
        <3>1. map[k] + 1 \in 1..Len(list) /\ list[map[k] + 1] # Undefined
              /\ list[map[k] + 1][1] = k
            BY <1>1 DEF Fits
        <3>2. PICK n \in 1..Len(d) : d[n] = list[map[k] + 1] BY <1>2, <3>1
        <3> QED BY <3>1, <3>2
    <2> QED BY <2>1, <2>2
<1> QED BY <1>2, <1>3, <1>4 DEF d, list, map, ShownInOrder, OrderedSize

LEMMA SetKeyOK ==
    ASSUME NEW o, ObjectOK(o), NEW k \in OrderedKey, NEW x \in OrderedMapped
    PROVE  /\ ObjectOK(SetKey(o, k, x))
           /\ ShownInOrder(SetKey(o, k, x)) = EntriesSet(ShownInOrder(o), k, x)
           /\ SetKey(o, k, x).owner = o.owner /\ SetKey(o, k, x).set = o.set
           /\ SetKey(o, k, x) = o \/ WasAltered(SetKey(o, k, x))
<1> DEFINE new == SetKey(o, k, x)
           list == o.list
           map == o.map
           g == Renew(k, x)
           d == Dropping(list, {Undefined})
<1>1. /\ o \in OrderedObject /\ list \in Seq(Slot) /\ map \in Positions /\ Fits(map, list)
      /\ <<k, x>> \in Slot /\ <<k, x>> # Undefined
    BY SlotType DEF ObjectOK, OrderedObject
<1>2. EntriesSet(d, k, x) = IF k \in DOMAIN map THEN Each(d, g) ELSE Append(d, <<k, x>>)
    <2>1. d \in Seq(Slot) /\ \A n \in 1..Len(d) : d[n] # Undefined BY ObjectShows DEF ShownInOrder
    <2>2. (\E n \in 1..Len(d) : d[n][1] = k) <=> k \in DOMAIN map
        BY ObjectShows DEF ShownInOrder
    <2> HIDE DEF d, map, g
    <2>3. EntriesSet(d, k, x) = IF \E i \in 1..Len(d) : d[i][1] = k
                                THEN Each(d, g) ELSE Append(d, <<k, x>>)
        BY <2>1, EntriesSetIs DEF g
    <2> QED BY <2>2, <2>3
<1>3. CASE k \in DOMAIN map
    <2>1. g \in [Slot -> Slot]
          /\ \A y \in Slot : g[y] = IF y # Undefined /\ y[1] = k THEN <<k, x>> ELSE y
        BY RenewBlank DEF Renew
    <2>2. [list EXCEPT ![map[k] + 1] = <<k, x>>] = Each(list, g)
        <3> HIDE DEF g, map, list
        <3> QED BY <1>1, <1>3, <2>1, ReplacedIsEach
    <2>3. Fits(map, Each(list, g)) /\ Each(list, g) \in Seq(Slot)
        <3>1. Fits(map, Each(list, g)) BY <1>1, RenewFits
        <3>2. Each(list, g) \in Seq(Slot) BY <1>1, <2>1, EachType
        <3> QED BY <3>1, <3>2
    <2>4. Dropping(Each(list, g), {Undefined}) = Each(d, g) BY <1>1, RenewShown
    <2>5. CASE list[map[k] + 1] = <<k, x>>
        <3>1. new = o BY <1>3, <2>5 DEF SetKey, EntryAt
        <3>2. Each(list, g) = list
            <4>1. DOMAIN list = 1..Len(list) /\ list = [i \in DOMAIN list |-> list[i]]
                BY <1>1, LenProperties
            <4>2. [list EXCEPT ![map[k] + 1] = <<k, x>>] = list
                <5> HIDE DEF list, map
                <5> QED BY <2>5, <4>1
            <4> QED BY <2>2, <4>2
        <3> QED BY <1>2, <1>3, <2>4, <3>1, <3>2 DEF ShownInOrder
    <2>6. CASE list[map[k] + 1] # <<k, x>>
        <3>1. new = [o EXCEPT !.list = Each(list, g), !.listAltered = TRUE]
            BY <1>1, <1>3, <2>2, <2>6 DEF SetKey, EntryAt, OrderedObject
        <3>2. new \in OrderedObject /\ new.map = map /\ new.list = Each(list, g)
              /\ new.owner = o.owner /\ new.set = o.set /\ new.listAltered
            BY <1>1, <2>3, <3>1 DEF OrderedObject
        <3> HIDE DEF new, g, map, list, d
        <3> QED BY <1>2, <1>3, <2>3, <2>4, <3>2 DEF ObjectOK, WasAltered, ShownInOrder, new, d, list
    <2> QED BY <2>5, <2>6
<1>4. CASE k \notin DOMAIN map
    <2> DEFINE m == [key \in DOMAIN map \cup {k} |-> IF key = k THEN Len(list) ELSE map[key]]
               l == Append(list, <<k, x>>)
    <2>1. m \in Positions /\ Fits(m, l)
        <3> HIDE DEF map, list
        <3> QED BY <1>1, <1>4, AppendFits
    <2>2. l \in Seq(Slot) BY <1>1, AppendProperties
    <2>3. Dropping(l, {Undefined}) = Append(d, <<k, x>>)
        <3> DEFINE U == {Undefined}
                   e == <<k, x>>
        <3>1. e \in Slot /\ e \notin U BY <1>1
        <3> HIDE DEF list, U, e
        <3>2. Dropping(Append(list, e), U) =
                  IF e \in U THEN Dropping(list, U) ELSE Append(Dropping(list, U), e)
            BY <1>1, <3>1, DroppingAppend
        <3> QED BY <3>1, <3>2 DEF U, e
    <2>4. new = [o EXCEPT !.map = m, !.list = l, !.mapAltered = TRUE, !.listAltered = TRUE]
        BY <1>4 DEF SetKey
    <2> HIDE DEF m, l
    <2>5. new \in OrderedObject /\ new.map = m /\ new.list = l
          /\ new.owner = o.owner /\ new.set = o.set /\ new.listAltered
        BY <1>1, <2>1, <2>2, <2>4 DEF OrderedObject
    <2> HIDE DEF new, g, map, list, d
    <2> QED BY <1>2, <1>4, <2>1, <2>3, <2>5 DEF ObjectOK, WasAltered, ShownInOrder, new, d, list
<1> QED BY <1>3, <1>4
(* A removal that leaves no entry of k leaves the others.                  *)
LEMMA AbsentEntries ==
    ASSUME NEW o, ObjectOK(o), NEW k, k \notin DOMAIN o.map
    PROVE  EntriesWithout(ShownInOrder(o), {k}) = ShownInOrder(o)
<1> DEFINE d == ShownInOrder(o)
           V == {k} \X OrderedMapped
           none == {}
<1>1. d \in Seq(Slot) /\ \A n \in 1..Len(d) : d[n] # Undefined /\ d[n][1] # k BY ObjectShows
<1>2. \A n \in 1..Len(d) : d[n] \notin V BY <1>1
<1>3. \A n \in 1..Len(d) : d[n] \in V <=> d[n] \in none BY <1>2
<1> HIDE DEF d, V, none
<1>4. Dropping(d, V) = Dropping(d, none) BY <1>1, <1>3, DroppingAgrees
<1>5. Dropping(d, none) = d
    <2>1. d = Dropping(o.list, {Undefined}) /\ o.list \in Seq(Slot)
        BY DEF d, ShownInOrder, ObjectOK, OrderedObject
    <2> DEFINE U == {Undefined}
               list == o.list
    <2> HIDE DEF U, list
    <2>2. Dropping(Dropping(list, U), {}) = Dropping(list, U \cup {})
        BY <2>1, DroppingTwice DEF list
    <2>3. U \cup {} = U OBVIOUS
    <2> QED BY <2>1, <2>2, <2>3 DEF U, list, none
<1> QED BY <1>4, <1>5 DEF d, V, EntriesWithout

LEMMA RemoveKeyOK ==
    ASSUME NEW o, ObjectOK(o), NEW k \in OrderedKey
    PROVE  /\ ObjectOK(RemoveKey(o, k))
           /\ ShownInOrder(RemoveKey(o, k)) = EntriesWithout(ShownInOrder(o), {k})
           /\ RemoveKey(o, k).owner = o.owner /\ RemoveKey(o, k).set = o.set
           /\ \/ RemoveKey(o, k) = o
              \/ WasAltered(RemoveKey(o, k))
              \/ /\ DOMAIN RemoveKey(o, k).map = {}
                 /\ RemoveKey(o, k).spoils = (o.owner # NoOwner)
<1> DEFINE new == RemoveKey(o, k)
           list == o.list
           map == o.map
           holed == Each(list, Blank(k))
           rest == [key \in DOMAIN map \ {k} |-> map[key]]
           d == Dropping(list, {Undefined})
<1>1. o \in OrderedObject /\ list \in Seq(Slot) /\ map \in Positions /\ Fits(map, list)
    BY DEF ObjectOK, OrderedObject
<1>2. CASE k \notin DOMAIN map
    <2>1. new = o BY <1>2 DEF RemoveKey
    <2> QED BY <1>2, <2>1, AbsentEntries
<1>3. CASE k \in DOMAIN map
    <2>1. Blanked(o, k) = holed
        <3>1. Blank(k) \in [Slot -> Slot] BY RenewBlank
        <3>2. Undefined \in Slot BY SlotType
        <3>3. \A y \in Slot : Blank(k)[y] = IF y # Undefined /\ y[1] = k THEN Undefined ELSE y
            BY DEF Blank
        <3>4. [list EXCEPT ![map[k] + 1] = Undefined] = holed
            <4> DEFINE g == Blank(k)
                       e == Undefined
            <4> HIDE DEF map, list, g, e
            <4>1. g \in [Slot -> Slot] /\ e \in Slot
                  /\ \A y \in Slot : g[y] = IF y # Undefined /\ y[1] = k THEN e ELSE y
                BY <3>1, <3>2, <3>3 DEF g, e
            <4>2. [list EXCEPT ![map[k] + 1] = e] = Each(list, g)
                BY <1>1, <1>3, <4>1, ReplacedIsEach
            <4> QED BY <4>2 DEF g, e
        <3> QED BY <3>4 DEF Blanked
    <2>2. holed \in Seq(Slot) /\ Len(holed) = Len(list) BY <1>1, RenewBlank, EachType
    <2>3. rest \in Positions /\ Fits(rest, holed)
        <3> HIDE DEF map, list
        <3> QED BY <1>1, BlankFits
    <2>4. Dropping(holed, {Undefined}) = EntriesWithout(d, {k}) BY <1>1, BlankShown
    <2>5. CASE NeedsCompaction(o)
        <3> DEFINE left == Dropping(holed, {Undefined})
        <3>1. left \in Seq(Slot) /\ \A n \in 1..Len(left) : left[n] # Undefined
            BY <2>2, ShownMembers
        <3>2. KeysApart(left) BY <2>2, <2>3, FitsApart, ApartKept
        <3>3. Flip(left) \in Positions /\ Fits(Flip(left), left)
            <4> HIDE DEF left
            <4> QED BY <3>1, <3>2, FlipFits
        <3>4. Dropping(left, {Undefined}) = left
            <4> DEFINE U == {Undefined}
            <4> HIDE DEF U, holed
            <4>1. Dropping(Dropping(holed, U), U) = Dropping(holed, U \cup U)
                BY <2>2, DroppingTwice
            <4>2. U \cup U = U OBVIOUS
            <4> QED BY <4>1, <4>2 DEF U
        <3>5. new = [o EXCEPT !.list = left, !.map = Flip(left), !.mapAltered = FALSE,
                              !.listAltered = left # <<>>,
                              !.spoils = left = <<>> /\ o.owner # NoOwner]
            BY <1>3, <2>1, <2>5 DEF RemoveKey, Compacted, Filtered
        <3> HIDE DEF left
        <3>6. new \in OrderedObject /\ new.map = Flip(left) /\ new.list = left
              /\ new.owner = o.owner /\ new.set = o.set
              /\ new.listAltered = (left # <<>>)
              /\ new.spoils = (left = <<>> /\ o.owner # NoOwner)
            BY <1>1, <3>1, <3>3, <3>5 DEF OrderedObject
        <3>7. left = <<>> => DOMAIN Flip(left) = {}
            <4> SUFFICES ASSUME left = <<>> PROVE DOMAIN Flip(left) = {} OBVIOUS
            <4>1. DOMAIN left = {} BY EmptySeq, LenProperties
            <4> QED BY <4>1 DEF Flip
        <3> HIDE DEF new, holed, list, d
        <3> QED BY <2>4, <3>3, <3>4, <3>6, <3>7
            DEF ObjectOK, WasAltered, ShownInOrder, new, left, d, list
    <2>6. CASE ~NeedsCompaction(o) /\ map[k] = Len(list) - 1
        <3> DEFINE l == SubSeq(list, 1, Len(list) - 1)
        <3>1. /\ Len(list) \in Nat \ {0} /\ map[k] + 1 = Len(list)
              /\ list[Len(list)] # Undefined /\ list[Len(list)][1] = k
            <4>1. map[k] + 1 \in 1..Len(list) /\ list[map[k] + 1] # Undefined
                  /\ list[map[k] + 1][1] = k
                BY <1>1, <1>3 DEF Fits
            <4>2. Len(list) \in Nat BY <1>1, LenProperties
            <4> QED BY <2>6, <4>1, <4>2
        <3>2. /\ l \in Seq(Slot) /\ Len(l) = Len(list) - 1
              /\ \A i \in 1..(Len(list) - 1) : l[i] = list[i]
            <4> DEFINE one == 1
                       n == Len(list) - 1
            <4>1. one \in Int /\ n \in Int /\ \A i \in one..n : list[i] \in Slot
                BY <1>1, <3>1, ElementOfSeq
            <4>2. /\ SubSeq(list, one, n) \in Seq(Slot)
                  /\ Len(SubSeq(list, one, n)) = IF one <= n THEN n - one + 1 ELSE 0
                  /\ \A i \in 1..(n - one + 1) : SubSeq(list, one, n)[i] = list[one + i - 1]
                <5> HIDE DEF one, n, list
                <5> QED BY <4>1, SubSeqProperties
            <4> QED BY <3>1, <4>2
        <3>3. holed = Append(l, Undefined)
            <4> DEFINE t == Append(l, Undefined)
            <4>1. /\ t \in Seq(Slot) /\ Len(t) = Len(list) /\ t[Len(list)] = Undefined
                  /\ \A i \in 1..(Len(list) - 1) : t[i] = list[i]
                BY <3>1, <3>2, SlotType, AppendProperties
            <4>2. Undefined \in Slot BY SlotType
            <4>3. holed = [list EXCEPT ![Len(list)] = Undefined] BY <2>1, <3>1 DEF Blanked
            <4>4. DOMAIN list = 1..Len(list) BY <1>1, LenProperties
            <4>5. \A i \in 1..Len(list) : holed[i] = IF i = Len(list) THEN Undefined ELSE list[i]
                <5> HIDE DEF holed, list
                <5> QED BY <4>3, <4>4
            <4> HIDE DEF t, holed, list, l
            <4>6. \A i \in 1..Len(list) : holed[i] = t[i] BY <3>1, <4>1, <4>5
            <4>7. holed = t BY <2>2, <4>1, <4>6, SeqEqual
            <4> QED BY <4>7 DEF t
        <3>4. Fits(rest, l) /\ Dropping(holed, {Undefined}) = Dropping(l, {Undefined})
            <4> HIDE DEF holed, rest, l
            <4> QED BY <2>3, <3>2, <3>3, PoppedFits
        <3>5. new = [o EXCEPT !.map = rest, !.list = l, !.mapAltered = TRUE, !.listAltered = TRUE]
            BY <1>3, <2>6 DEF RemoveKey
        <3> HIDE DEF l, rest
        <3>6. new \in OrderedObject /\ new.map = rest /\ new.list = l
              /\ new.owner = o.owner /\ new.set = o.set /\ new.listAltered
            BY <1>1, <2>3, <3>2, <3>5 DEF OrderedObject
        <3> HIDE DEF new, holed, list, d
        <3> QED BY <2>4, <3>4, <3>6 DEF ObjectOK, WasAltered, ShownInOrder, new, d, list
    <2>7. CASE ~NeedsCompaction(o) /\ map[k] # Len(list) - 1
        <3>1. new = [o EXCEPT !.map = rest, !.list = holed,
                              !.mapAltered = TRUE, !.listAltered = TRUE]
            BY <1>3, <2>1, <2>7 DEF RemoveKey
        <3> HIDE DEF holed, rest
        <3>2. new \in OrderedObject /\ new.map = rest /\ new.list = holed
              /\ new.owner = o.owner /\ new.set = o.set /\ new.listAltered
            BY <1>1, <2>2, <2>3, <3>1 DEF OrderedObject
        <3> HIDE DEF new, list, d
        <3> QED BY <2>3, <2>4, <3>2 DEF ObjectOK, WasAltered, ShownInOrder, new, d, list
    <2> QED BY <2>5, <2>6, <2>7
<1> QED BY <1>2, <1>3
-----------------------------------------------------------------------------
(* withMutations.                                                          *)

LEMMA CopyOK ==
    ASSUME NEW o, ObjectOK(o), NEW fresh \in Nat \ {NoOwner}
    PROVE  /\ ObjectOK(MutableCopy(o, fresh))
           /\ ShownInOrder(MutableCopy(o, fresh)) = ShownInOrder(o)
           /\ MutableCopy(o, fresh).map = o.map /\ MutableCopy(o, fresh).list = o.list
           /\ MutableCopy(o, fresh).owner # NoOwner
           /\ MutableCopy(o, fresh).set = o.set
BY DEF ObjectOK, OrderedObject, MutableCopy, ShownInOrder, NoOwner

LEMMA MutatedOK ==
    ASSUME NEW o, ObjectOK(o), NEW m, ObjectOK(m), NEW fresh \in Nat \ {NoOwner},
           m.set = o.set, m = MutableCopy(o, fresh) \/ WasAltered(m) \/ o.owner # NoOwner
    PROVE  /\ ObjectOK(Mutated(o, m))
           /\ ShownInOrder(Mutated(o, m)) = ShownInOrder(m)
           /\ Mutated(o, m).set = o.set
<1>1. CASE o.owner # NoOwner BY <1>1 DEF Mutated
<1>2. CASE o.owner = NoOwner /\ WasAltered(m)
    <2>1. Mutated(o, m) = [m EXCEPT !.owner = NoOwner] BY <1>2 DEF Mutated
    <2> QED BY <2>1 DEF ObjectOK, OrderedObject, ShownInOrder, NoOwner
<1>3. CASE o.owner = NoOwner /\ ~WasAltered(m)
    <2>1. Mutated(o, m) = o /\ m = MutableCopy(o, fresh) BY <1>3 DEF Mutated
    <2> QED BY <2>1, CopyOK
<1> QED BY <1>1, <1>2, <1>3

Objects == {o \in OrderedObject : Fits(o.map, o.list)}

LEMMA ObjectsAreOK == \A o : o \in Objects <=> ObjectOK(o)
BY DEF Objects, ObjectOK

(* The mutable copy after each of a sequence of changes. *)
LEMMA SetKeysAre ==
    ASSUME NEW o, ObjectOK(o), NEW fresh \in Nat \ {NoOwner},
           NEW keys \in Seq(OrderedKey), NEW x \in OrderedMapped
    PROVE  \E m : /\ m \in [0..Len(keys) -> Objects]
                  /\ m[0] = MutableCopy(o, fresh)
                  /\ \A n \in 1..Len(keys) : m[n] = SetKey(m[n - 1], keys[n], x)
                  /\ SetKeys(o, fresh, keys, x) = Mutated(o, m[Len(keys)])
<1> DEFINE N == Len(keys)
           base == MutableCopy(o, fresh)
           step == [p \in Objects \X (1..N) |-> SetKey(p[1], keys[p[2]], x)]
           Rec(g) == [n \in 0..N |-> IF n = 0 THEN base ELSE SetKey(g[n - 1], keys[n], x)]
<1>1. /\ N \in Nat /\ base \in Objects
      /\ \A n \in 1..N : keys[n] \in OrderedKey
      /\ \A y \in Objects, n \in 1..N : SetKey(y, keys[n], x) \in Objects
    <2>1. N \in Nat /\ \A n \in 1..N : keys[n] \in OrderedKey BY LenProperties, ElementOfSeq
    <2>2. base \in Objects BY CopyOK, ObjectsAreOK
    <2>3. ASSUME NEW y \in Objects, NEW n \in 1..N PROVE SetKey(y, keys[n], x) \in Objects
        BY <2>1, ObjectsAreOK, SetKeyOK
    <2> QED BY <2>1, <2>2, <2>3
<1>2. step \in Steps(Objects, N) BY <1>1 DEF Steps
<1>3. PICK f \in [0..N -> Objects] : Follows(f, base, step, N)
    <2> HIDE DEF step, base, N
    <2> QED BY <1>1, <1>2, RecursionExists
<1>4. \A n \in 0..N : f[n] = Rec(f)[n]
    <2> SUFFICES ASSUME NEW n \in 0..N PROVE f[n] = Rec(f)[n] OBVIOUS
    <2>1. CASE n = 0 BY <1>3, <2>1 DEF Follows
    <2>2. CASE n # 0
        <3>1. n \in 1..N /\ f[n - 1] \in Objects BY <1>1, <2>2
        <3>2. f[n] = step[<<f[n - 1], n>>] BY <1>3, <3>1 DEF Follows
        <3> HIDE DEF base
        <3> QED BY <2>2, <3>1, <3>2
    <2> QED BY <2>1, <2>2
<1>5. f = Rec(f)
    <2> HIDE DEF base
    <2>1. f = [n \in 0..N |-> f[n]] BY <1>3
    <2>2. Rec(f) = [n \in 0..N |-> Rec(f)[n]] OBVIOUS
    <2> HIDE DEF Rec
    <2> QED BY <1>4, <2>1, <2>2
<1> DEFINE m == CHOOSE g : g = Rec(g)
<1>6. m = Rec(m) BY <1>5
<1>7. SetKeys(o, fresh, keys, x) = Mutated(o, m[N]) BY DEF SetKeys
<1> HIDE DEF m
<1>8. m[0] = base /\ \A n \in 1..N : m[n] = SetKey(m[n - 1], keys[n], x)
    <2>1. \A n \in 0..N : m[n] = Rec(m)[n]
        <3> HIDE DEF Rec
        <3> QED BY <1>6
    <2> HIDE DEF base
    <2> QED BY <1>1, <2>1
<1>9. \A n \in 0..N : m[n] \in Objects
    <2> DEFINE typed == {n \in Nat : n <= N => m[n] \in Objects}
    <2> HIDE DEF base
    <2>1. 0 \in typed BY <1>1, <1>8
    <2>2. ASSUME NEW n \in Nat \cap typed PROVE n + 1 \in typed
        <3> SUFFICES ASSUME n + 1 <= N PROVE m[n + 1] \in Objects OBVIOUS
        <3>1. n + 1 \in 1..N /\ (n + 1) - 1 = n /\ m[n] \in Objects BY <1>1
        <3>2. m[n + 1] = SetKey(m[n], keys[n + 1], x) BY <1>8, <3>1
        <3> QED BY <1>1, <3>1, <3>2
    <2>3. Nat \subseteq typed
        <3> HIDE DEF typed
        <3> QED BY <2>1, <2>2, NatSetInduction
    <2> QED BY <1>1, <2>3
<1>10. m \in [0..N -> Objects]
    <2>1. m = [n \in 0..N |-> m[n]] BY <1>6
    <2> QED BY <1>9, <2>1
<1> QED BY <1>7, <1>8, <1>10

LEMMA SetKeysOK ==
    ASSUME NEW o, ObjectOK(o), NEW fresh \in Nat \ {NoOwner},
           NEW keys \in Seq(OrderedKey), NEW x \in OrderedMapped
    PROVE  /\ ObjectOK(SetKeys(o, fresh, keys, x))
           /\ ShownInOrder(SetKeys(o, fresh, keys, x)) = EntriesMerged(ShownInOrder(o), keys, x)
           /\ SetKeys(o, fresh, keys, x).set = o.set
<1> DEFINE N == Len(keys)
           base == MutableCopy(o, fresh)
           shown == ShownInOrder(o)
           Rec(g) == [n \in 0..N |-> IF n = 0 THEN shown ELSE EntriesSet(g[n - 1], keys[n], x)]
<1>1. PICK m : /\ m \in [0..N -> Objects] /\ m[0] = base
               /\ \A n \in 1..N : m[n] = SetKey(m[n - 1], keys[n], x)
               /\ SetKeys(o, fresh, keys, x) = Mutated(o, m[N])
    BY SetKeysAre
<1>2. N \in Nat /\ \A n \in 1..N : keys[n] \in OrderedKey BY LenProperties, ElementOfSeq
<1>3. ObjectOK(base) /\ ShownInOrder(base) = shown /\ base.set = o.set BY CopyOK
<1> HIDE DEF base, shown
<1>4. ASSUME NEW n \in 1..N
      PROVE  /\ ObjectOK(m[n - 1]) /\ ObjectOK(m[n])
             /\ ShownInOrder(m[n]) = EntriesSet(ShownInOrder(m[n - 1]), keys[n], x)
             /\ m[n].set = m[n - 1].set
             /\ m[n] = m[n - 1] \/ WasAltered(m[n])
    <2>1. n - 1 \in 0..N /\ n \in 0..N BY <1>2
    <2>2. ObjectOK(m[n - 1]) /\ ObjectOK(m[n]) BY <1>1, <2>1, ObjectsAreOK
    <2>3. m[n] = SetKey(m[n - 1], keys[n], x) BY <1>1
    <2> QED BY <1>2, <2>2, <2>3, SetKeyOK
<1> DEFINE f == [n \in 0..N |-> ShownInOrder(m[n])]
           merged == CHOOSE g : g = Rec(g)
<1>5. f = Rec(f)
    <2>1. \A n \in 0..N : f[n] = Rec(f)[n]
        <3> SUFFICES ASSUME NEW n \in 0..N PROVE f[n] = Rec(f)[n] OBVIOUS
        <3>1. CASE n = 0 BY <1>1, <1>3, <3>1
        <3>2. CASE n # 0
            <4>1. n \in 1..N /\ n - 1 \in 0..N BY <1>2, <3>2
            <4> QED BY <1>4, <3>2, <4>1
        <3> QED BY <3>1, <3>2
    <2> QED BY <2>1
<1>6. merged = Rec(merged)
    <2> HIDE DEF f
    <2> QED BY <1>5
<1>7. EntriesMerged(shown, keys, x) = merged[N] BY DEF EntriesMerged
<1> HIDE DEF merged, f
<1>8. merged[0] = shown /\ \A n \in 1..N : merged[n] = EntriesSet(merged[n - 1], keys[n], x)
    <2>1. \A n \in 0..N : merged[n] = Rec(merged)[n]
        <3> HIDE DEF Rec
        <3> QED BY <1>6
    <2> QED BY <1>2, <2>1
<1> DEFINE Good(n) == /\ merged[n] = ShownInOrder(m[n])
                      /\ m[n].set = o.set
                      /\ m[n] = base \/ WasAltered(m[n])
           good == {n \in Nat : n <= N => Good(n)}
<1>9. 0 \in good BY <1>1, <1>3, <1>8
<1>10. ASSUME NEW n \in Nat \cap good PROVE n + 1 \in good
    <2> SUFFICES ASSUME n + 1 <= N PROVE Good(n + 1) OBVIOUS
    <2>1. n + 1 \in 1..N /\ (n + 1) - 1 = n /\ Good(n) BY <1>2
    <2> QED BY <1>4, <1>8, <2>1
<1>11. Good(N)
    <2>1. Nat \subseteq good
        <3> HIDE DEF good
        <3> QED BY <1>9, <1>10, NatSetInduction
    <2> QED BY <1>2, <2>1
<1>12. ObjectOK(m[N])
    <2>1. N \in 0..N BY <1>2
    <2> QED BY <1>1, <2>1, ObjectsAreOK
<1>13. /\ ObjectOK(Mutated(o, m[N]))
       /\ ShownInOrder(Mutated(o, m[N])) = ShownInOrder(m[N])
       /\ Mutated(o, m[N]).set = o.set
    BY <1>11, <1>12, MutatedOK DEF base
<1> QED BY <1>1, <1>7, <1>11, <1>13 DEF shown
Dropped(e, keys) == e # Undefined /\ e[1] \in keys

LEMMA RemoveKeysAre ==
    ASSUME NEW o, ObjectOK(o), NEW fresh \in Nat \ {NoOwner}, NEW keys
    PROVE  \E m : /\ m \in [0..Len(o.list) -> Objects]
                  /\ m[0] = MutableCopy(o, fresh)
                  /\ \A n \in 1..Len(o.list) :
                         m[n] = IF Dropped(o.list[n], keys)
                                THEN RemoveKey(m[n - 1], o.list[n][1]) ELSE m[n - 1]
                  /\ RemoveKeys(o, fresh, keys) = m[Len(o.list)]
<1> DEFINE list == o.list
           N == Len(list)
           base == MutableCopy(o, fresh)
           After(y, n) == IF Dropped(list[n], keys) THEN RemoveKey(y, list[n][1]) ELSE y
           step == [p \in Objects \X (1..N) |-> After(p[1], p[2])]
           Rec(g) == [n \in 0..N |->
                          IF n = 0 THEN base
                          ELSE IF Dropped(list[n], keys) THEN RemoveKey(g[n - 1], list[n][1])
                          ELSE g[n - 1]]
<1>1. /\ N \in Nat /\ base \in Objects
      /\ \A y \in Objects, n \in 1..N : After(y, n) \in Objects
    <2>1. N \in Nat /\ \A n \in 1..N : list[n] \in Slot
        BY LenProperties, ElementOfSeq DEF ObjectOK, OrderedObject
    <2>2. base \in Objects BY CopyOK, ObjectsAreOK
    <2>3. ASSUME NEW y \in Objects, NEW n \in 1..N PROVE After(y, n) \in Objects
        <3>1. CASE Dropped(list[n], keys)
            <4>1. list[n][1] \in OrderedKey BY <2>1, <3>1, SlotType DEF Dropped
            <4> HIDE DEF list
            <4>2. RemoveKey(y, list[n][1]) \in Objects BY <4>1, ObjectsAreOK, RemoveKeyOK
            <4> QED BY <3>1, <4>2
        <3>2. CASE ~Dropped(list[n], keys) BY <3>2
        <3> QED BY <3>1, <3>2
    <2> QED BY <2>1, <2>2, <2>3
<1> HIDE DEF list
<1>2. step \in Steps(Objects, N)
    <2> HIDE DEF After
    <2> QED BY <1>1 DEF Steps
<1>3. PICK f \in [0..N -> Objects] : Follows(f, base, step, N)
    <2> HIDE DEF step, base, N
    <2> QED BY <1>1, <1>2, RecursionExists
<1>4. \A n \in 0..N : f[n] = Rec(f)[n]
    <2> SUFFICES ASSUME NEW n \in 0..N PROVE f[n] = Rec(f)[n] OBVIOUS
    <2>1. CASE n = 0 BY <1>3, <2>1 DEF Follows
    <2>2. CASE n # 0
        <3>1. n \in 1..N /\ f[n - 1] \in Objects BY <1>1, <2>2
        <3>2. f[n] = step[<<f[n - 1], n>>] BY <1>3, <3>1 DEF Follows
        <3>3. f[n] = After(f[n - 1], n)
            <4> HIDE DEF After
            <4> QED BY <3>1, <3>2
        <3> HIDE DEF base
        <3> QED BY <2>2, <3>3
    <2> QED BY <2>1, <2>2
<1>5. f = Rec(f)
    <2> HIDE DEF base
    <2>1. f = [n \in 0..N |-> f[n]] BY <1>3
    <2>2. Rec(f) = [n \in 0..N |-> Rec(f)[n]] OBVIOUS
    <2> HIDE DEF Rec
    <2> QED BY <1>4, <2>1, <2>2
<1> DEFINE m == CHOOSE g : g = Rec(g)
<1>6. m = Rec(m) BY <1>5
<1>7. RemoveKeys(o, fresh, keys) = m[N] BY DEF RemoveKeys, Dropped, list
<1> HIDE DEF m
<1>8. m[0] = base /\ \A n \in 1..N : m[n] = After(m[n - 1], n)
    <2>1. \A n \in 0..N : m[n] = Rec(m)[n]
        <3> HIDE DEF Rec
        <3> QED BY <1>6
    <2> HIDE DEF base
    <2> QED BY <1>1, <2>1
<1>9. \A n \in 0..N : m[n] \in Objects
    <2> DEFINE typed == {n \in Nat : n <= N => m[n] \in Objects}
    <2> HIDE DEF base, After
    <2>1. 0 \in typed BY <1>1, <1>8
    <2>2. ASSUME NEW n \in Nat \cap typed PROVE n + 1 \in typed
        <3> SUFFICES ASSUME n + 1 <= N PROVE m[n + 1] \in Objects OBVIOUS
        <3>1. n + 1 \in 1..N /\ (n + 1) - 1 = n /\ m[n] \in Objects BY <1>1
        <3>2. m[n + 1] = After(m[n], n + 1) BY <1>8, <3>1
        <3> QED BY <1>1, <3>1, <3>2
    <2>3. Nat \subseteq typed
        <3> HIDE DEF typed
        <3> QED BY <2>1, <2>2, NatSetInduction
    <2> QED BY <1>1, <2>3
<1>10. m \in [0..N -> Objects]
    <2>1. m = [n \in 0..N |-> m[n]] BY <1>6
    <2> QED BY <1>9, <2>1
<1> QED BY <1>7, <1>8, <1>10 DEF list

LEMMA WithoutTwice ==
    ASSUME NEW s \in Seq(Slot), NEW R, NEW k
    PROVE  EntriesWithout(EntriesWithout(s, R), {k}) = EntriesWithout(s, R \cup {k})
<1> DEFINE D == R \X OrderedMapped
           E == {k} \X OrderedMapped
           F == (R \cup {k}) \X OrderedMapped
<1>1. F = D \cup E OBVIOUS
<1> HIDE DEF D, E, F
<1>2. Dropping(Dropping(s, D), E) = Dropping(s, D \cup E) BY DroppingTwice
<1> QED BY <1>1, <1>2 DEF D, E, F, EntriesWithout

LEMMA WithoutNone ==
    ASSUME NEW o, ObjectOK(o)
    PROVE  EntriesWithout(ShownInOrder(o), {}) = ShownInOrder(o)
<1> DEFINE D == {} \X OrderedMapped
           U == {Undefined}
           list == o.list
<1>1. U \cup D = U /\ list \in Seq(Slot) BY DEF ObjectOK, OrderedObject
<1> HIDE DEF D, U, list
<1>2. Dropping(Dropping(list, U), D) = Dropping(list, U \cup D) BY <1>1, DroppingTwice
<1> QED BY <1>1, <1>2 DEF D, U, list, EntriesWithout, ShownInOrder

LEMMA RemoveKeysOK ==
    ASSUME NEW o, ObjectOK(o), NEW fresh \in Nat \ {NoOwner}, NEW keys
    PROVE  /\ ObjectOK(RemoveKeys(o, fresh, keys))
           /\ ShownInOrder(RemoveKeys(o, fresh, keys)) = EntriesWithout(ShownInOrder(o), keys)
           /\ RemoveKeys(o, fresh, keys).set = o.set
           /\ \/ RemoveKeys(o, fresh, keys) = MutableCopy(o, fresh)
              \/ WasAltered(RemoveKeys(o, fresh, keys))
              \/ RemoveKeys(o, fresh, keys).spoils
<1> DEFINE list == o.list
           N == Len(list)
           base == MutableCopy(o, fresh)
           shown == ShownInOrder(o)
           R(n) == {list[i][1] : i \in {j \in 1..n : list[j] # Undefined}} \cap keys
<1>1. PICK m : /\ m \in [0..N -> Objects] /\ m[0] = base
               /\ \A n \in 1..N : m[n] = IF Dropped(list[n], keys)
                                         THEN RemoveKey(m[n - 1], list[n][1]) ELSE m[n - 1]
               /\ RemoveKeys(o, fresh, keys) = m[N]
    BY RemoveKeysAre
<1>2. /\ N \in Nat /\ \A n \in 1..N : list[n] \in Slot
      /\ list \in Seq(Slot)
    BY LenProperties, ElementOfSeq DEF ObjectOK, OrderedObject
<1>3. ObjectOK(base) /\ ShownInOrder(base) = shown /\ base.set = o.set /\ base.owner # NoOwner
    BY CopyOK
<1>4. shown \in Seq(Slot) /\ EntriesWithout(shown, {}) = shown BY ObjectShows, WithoutNone
<1> DEFINE Good(n) == /\ ShownInOrder(m[n]) = EntriesWithout(shown, R(n))
                      /\ m[n].set = o.set /\ m[n].owner # NoOwner
                      /\ \/ m[n] = base
                         \/ WasAltered(m[n])
                         \/ DOMAIN m[n].map = {} /\ m[n].spoils
           good == {n \in Nat : n <= N => Good(n)}
<1>5. 0 \in good
    <2>1. R(0) = {} OBVIOUS
    <2> HIDE DEF R, base, shown
    <2> QED BY <1>1, <1>3, <1>4, <2>1
<1>6. ASSUME NEW n \in Nat \cap good PROVE n + 1 \in good
    <2> SUFFICES ASSUME n + 1 <= N PROVE Good(n + 1) OBVIOUS
    <2>1. n + 1 \in 1..N /\ (n + 1) - 1 = n /\ Good(n) BY <1>2
    <2>2. ObjectOK(m[n])
        <3>1. n \in 0..N BY <1>2
        <3> QED BY <1>1, <3>1, ObjectsAreOK
    <2> DEFINE k == list[n + 1][1]
    <2>3. m[n + 1] = IF Dropped(list[n + 1], keys) THEN RemoveKey(m[n], k) ELSE m[n]
        BY <1>1, <2>1
    <2>4. R(n + 1) = IF Dropped(list[n + 1], keys) THEN R(n) \cup {k} ELSE R(n)
        <3>1. 1..(n + 1) = 1..n \cup {n + 1} OBVIOUS
        <3>2. {j \in 1..(n + 1) : list[j] # Undefined} =
                  {j \in 1..n : list[j] # Undefined} \cup
                  (IF list[n + 1] # Undefined THEN {n + 1} ELSE {})
            BY <3>1
        <3> QED BY <3>2 DEF Dropped
    <2>5. CASE Dropped(list[n + 1], keys)
        <3>1. k \in OrderedKey BY <1>2, <2>1, <2>5, SlotType DEF Dropped
        <3> HIDE DEF k, R, base, shown, list
        <3>2. /\ ShownInOrder(RemoveKey(m[n], k)) = EntriesWithout(ShownInOrder(m[n]), {k})
              /\ RemoveKey(m[n], k).owner = m[n].owner /\ RemoveKey(m[n], k).set = m[n].set
              /\ \/ RemoveKey(m[n], k) = m[n]
                 \/ WasAltered(RemoveKey(m[n], k))
                 \/ /\ DOMAIN RemoveKey(m[n], k).map = {}
                    /\ RemoveKey(m[n], k).spoils = (m[n].owner # NoOwner)
            BY <2>2, <3>1, RemoveKeyOK
        <3>3. DOMAIN m[n].map = {} => RemoveKey(m[n], k) = m[n] BY DEF RemoveKey
        <3>4. EntriesWithout(EntriesWithout(shown, R(n)), {k}) = EntriesWithout(shown, R(n) \cup {k})
            BY <1>4, WithoutTwice
        <3>5. m[n + 1] = RemoveKey(m[n], k) /\ R(n + 1) = R(n) \cup {k} BY <2>3, <2>4, <2>5
        <3>6. ShownInOrder(m[n + 1]) = EntriesWithout(shown, R(n + 1)) BY <2>1, <3>2, <3>4, <3>5
        <3> QED BY <2>1, <3>2, <3>3, <3>5, <3>6
    <2>6. CASE ~Dropped(list[n + 1], keys)
        <3> HIDE DEF k, R, base, shown, list
        <3> QED BY <2>1, <2>3, <2>4, <2>6
    <2> QED BY <2>5, <2>6
<1>7. Good(N)
    <2>1. Nat \subseteq good
        <3> HIDE DEF good
        <3> QED BY <1>5, <1>6, NatSetInduction
    <2> HIDE DEF Good
    <2> QED BY <1>2, <2>1
<1>8. EntriesWithout(shown, R(N)) = EntriesWithout(shown, keys)
    <2> DEFINE D == R(N) \X OrderedMapped
               E == keys \X OrderedMapped
    <2>1. \A i \in 1..Len(shown) : shown[i] # Undefined /\ \E j \in 1..N : list[j] = shown[i]
        BY <1>2, ShownMembers DEF ShownInOrder
    <2>2. ASSUME NEW i \in 1..Len(shown) PROVE shown[i] \in D <=> shown[i] \in E
        <3>1. PICK j \in 1..N : list[j] = shown[i] BY <2>1
        <3>2. shown[i] # Undefined BY <2>1
        <3>3. shown[i][1] \in R(N) <=> shown[i][1] \in keys BY <3>1, <3>2
        <3> HIDE DEF R, shown
        <3> QED BY <3>3
    <2> HIDE DEF D, E, shown
    <2>3. Dropping(shown, D) = Dropping(shown, E) BY <1>4, <2>2, DroppingAgrees
    <2> QED BY <2>3 DEF D, E, EntriesWithout
<1>9. ObjectOK(m[N])
    <2>1. N \in 0..N BY <1>2
    <2> QED BY <1>1, <2>1, ObjectsAreOK
<1> HIDE DEF R, N, base
<1> QED BY <1>1, <1>7, <1>8, <1>9 DEF base
LEMMA EmptyOrderedOK ==
    ASSUME NEW set \in BOOLEAN
    PROVE  ObjectOK(EmptyOrdered(set)) /\ ShownInOrder(EmptyOrdered(set)) = <<>>
           /\ EmptyOrdered(set).set = set
<1> DEFINE o == EmptyOrdered(set)
           none == <<>>
<1>1. none \in Seq(Slot) /\ Len(none) = 0 /\ DOMAIN none = {}
    <2>1. none \in Seq(Slot) /\ Len(none) = 0 BY EmptySeq
    <2>2. DOMAIN none = 1..0 /\ 1..0 = {}
        <3> HIDE DEF none
        <3>1. DOMAIN none = 1..Len(none) BY <2>1, LenProperties
        <3> QED BY <2>1, <3>1
    <2> QED BY <2>1, <2>2
<1>2. none \in Positions
    <2>1. none \in Seq(Nat) /\ Len(none) = 0 BY EmptySeq
    <2>2. none \in [1..0 -> Nat]
        <3> HIDE DEF none
        <3>1. none \in [1..Len(none) -> Nat] BY <2>1, LenProperties
        <3> QED BY <2>1, <3>1
    <2>3. 1..0 = {} /\ {} \in SUBSET OrderedKey OBVIOUS
    <2> HIDE DEF none
    <2> QED BY <2>2, <2>3 DEF Positions
<1>3. Fits(none, none)
    <2> HIDE DEF none
    <2> QED BY <1>1 DEF Fits
<1>4. Dropping(none, {Undefined}) = none BY DroppingEmpty
<1>5. o = [map |-> none, list |-> none, owner |-> NoOwner, set |-> set,
           mapAltered |-> FALSE, listAltered |-> FALSE, spoils |-> FALSE]
    BY Zenon DEF EmptyOrdered
<1> HIDE DEF none, o
<1>6. o \in OrderedObject /\ o.map = none /\ o.list = none /\ o.set = set
    BY <1>1, <1>2, <1>5 DEF OrderedObject, NoOwner
<1>7. ObjectOK(o) BY <1>3, <1>6 DEF ObjectOK
<1>8. ShownInOrder(o) = none BY <1>4, <1>6 DEF ShownInOrder
<1> QED BY <1>6, <1>7, <1>8 DEF o, none

LEMMA EmptyOwnedOK ==
    ASSUME NEW set \in BOOLEAN, NEW owner \in Nat
    PROVE  LET o == [EmptyOrdered(set) EXCEPT !.owner = owner,
                                              !.mapAltered = TRUE, !.listAltered = TRUE]
           IN  ObjectOK(o) /\ ShownInOrder(o) = <<>>
<1> DEFINE e == EmptyOrdered(set)
<1>1. ObjectOK(e) /\ ShownInOrder(e) = <<>> BY EmptyOrderedOK
<1> HIDE DEF e
<1> DEFINE o == [e EXCEPT !.owner = owner, !.mapAltered = TRUE, !.listAltered = TRUE]
<1>2. o \in OrderedObject /\ o.map = e.map /\ o.list = e.list
    BY <1>1 DEF ObjectOK, OrderedObject
<1> HIDE DEF o
<1>3. ObjectOK(o) /\ ShownInOrder(o) = <<>> BY <1>1, <1>2 DEF ObjectOK, ShownInOrder
<1> QED BY <1>3 DEF o, e

LEMMA SizeNothing ==
    ASSUME NEW o, ObjectOK(o), OrderedSize(o) = 0
    PROVE  ShownInOrder(o) = <<>>
BY ObjectShows, EmptySeq

LEMMA UpdateSetOK ==
    ASSUME NEW o, ObjectOK(o), NEW new, ObjectOK(new)
    PROVE  ObjectOK(UpdateSet(o, new)) /\ ShownInOrder(UpdateSet(o, new)) = ShownInOrder(new)
BY EmptyOrderedOK, SizeNothing DEF UpdateSet, EmptySet

LEMMA ClearOK ==
    ASSUME NEW o, ObjectOK(o)
    PROVE  ObjectOK(ClearOrdered(o)) /\ ShownInOrder(ClearOrdered(o)) = <<>>
<1>1. o.set \in BOOLEAN /\ o.owner \in Nat BY DEF ObjectOK, OrderedObject
<1>2. CASE OrderedSize(o) = 0 BY <1>2, SizeNothing DEF ClearOrdered
<1>3. CASE OrderedSize(o) # 0 /\ o.owner = NoOwner BY <1>1, <1>3, EmptyOrderedOK DEF ClearOrdered
<1>4. CASE OrderedSize(o) # 0 /\ o.owner # NoOwner BY <1>1, <1>4, EmptyOwnedOK DEF ClearOrdered
<1> QED BY <1>2, <1>3, <1>4

-----------------------------------------------------------------------------
(* All versions.                                                           *)

OrderedInv ==
    /\ omapOps \in Nat
    /\ omaps \in Seq(Objects)
    /\ omapValues \in Seq(Seq(Slot))
    /\ Len(omapValues) = Len(omaps)
    /\ ~emptied => \A v \in OrderedVersion : ShownInOrder(omaps[v]) = omapValues[v]

LEMMA ChangeOK ==
    ASSUME OrderedInv, NEW v \in OrderedVersion, NEW new, ObjectOK(new),
           NEW entries \in Seq(Slot), OrderedChange(v, new, entries),
           ~emptied' => ShownInOrder(new) = entries
    PROVE  OrderedInv'
<1>1. /\ omapOps \in Nat /\ omaps \in Seq(Objects) /\ omapValues \in Seq(Seq(Slot))
      /\ Len(omapValues) = Len(omaps) /\ Len(omaps) \in Nat
      /\ \A u \in 1..Len(omaps) : ShownInOrder(omaps[u]) = omapValues[u]
    BY LenProperties DEF OrderedInv, OrderedChange, OrderedVersion
<1>2. new \in Objects BY ObjectsAreOK
<1>3. omapOps' \in Nat BY <1>1 DEF OrderedChange
<1>4. CASE new.owner # NoOwner
    <2>1. omaps' = [omaps EXCEPT ![v] = new] /\ omapValues' = [omapValues EXCEPT ![v] = entries]
        BY <1>4 DEF OrderedChange
    <2>2. v \in 1..Len(omaps) BY DEF OrderedVersion
    <2>3. omaps' \in Seq(Objects) /\ Len(omaps') = Len(omaps)
          /\ \A u \in 1..Len(omaps) : omaps'[u] = IF u = v THEN new ELSE omaps[u]
        BY <1>1, <1>2, <2>1, <2>2, ExceptSeq
    <2>4. omapValues' \in Seq(Seq(Slot)) /\ Len(omapValues') = Len(omapValues)
          /\ \A u \in 1..Len(omapValues) :
                 omapValues'[u] = IF u = v THEN entries ELSE omapValues[u]
        <3> DEFINE S == Seq(Slot)
        <3>1. omapValues \in Seq(S) /\ v \in 1..Len(omapValues) /\ entries \in S BY <1>1, <2>2
        <3> HIDE DEF S
        <3>2. omapValues' \in Seq(S) /\ Len(omapValues') = Len(omapValues)
              /\ \A u \in 1..Len(omapValues) :
                     omapValues'[u] = IF u = v THEN entries ELSE omapValues[u]
            BY <2>1, <3>1, ExceptSeq
        <3> QED BY <3>2 DEF S
    <2>5. ~emptied' => \A u \in 1..Len(omaps') : ShownInOrder(omaps'[u]) = omapValues'[u]
        BY <1>1, <2>3, <2>4
    <2> QED BY <1>1, <1>3, <2>3, <2>4, <2>5 DEF OrderedInv, OrderedVersion, ShownInOrder
<1>5. CASE new.owner = NoOwner /\ new = omaps[v] /\ entries = omapValues[v]
    <2>1. omaps' = omaps /\ omapValues' = omapValues BY <1>5 DEF OrderedChange
    <2> QED BY <1>1, <1>3, <2>1 DEF OrderedInv, OrderedVersion, ShownInOrder
<1>6. CASE new.owner = NoOwner /\ ~(new = omaps[v] /\ entries = omapValues[v])
    <2>1. omaps' = Append(omaps, new) /\ omapValues' = Append(omapValues, entries)
        BY <1>6 DEF OrderedChange
    <2>2. omaps' \in Seq(Objects) /\ Len(omaps') = Len(omaps) + 1
          /\ omaps'[Len(omaps) + 1] = new /\ \A u \in 1..Len(omaps) : omaps'[u] = omaps[u]
        BY <1>1, <1>2, <2>1, AppendProperties
    <2>3. omapValues' \in Seq(Seq(Slot)) /\ Len(omapValues') = Len(omaps) + 1
          /\ omapValues'[Len(omaps) + 1] = entries
          /\ \A u \in 1..Len(omaps) : omapValues'[u] = omapValues[u]
        <3> DEFINE S == Seq(Slot)
        <3>1. omapValues \in Seq(S) /\ entries \in S BY <1>1
        <3> HIDE DEF S
        <3>2. omapValues' \in Seq(S) /\ Len(omapValues') = Len(omaps) + 1
              /\ omapValues'[Len(omaps) + 1] = entries
              /\ \A u \in 1..Len(omaps) : omapValues'[u] = omapValues[u]
            BY <1>1, <2>1, <3>1, AppendProperties
        <3> QED BY <3>2 DEF S
    <2>4. ~emptied' => \A u \in 1..Len(omaps') : ShownInOrder(omaps'[u]) = omapValues'[u]
        <3> SUFFICES ASSUME ~emptied', NEW u \in 1..Len(omaps')
                     PROVE  ShownInOrder(omaps'[u]) = omapValues'[u]
            OBVIOUS
        <3>1. u \in 1..Len(omaps) \/ u = Len(omaps) + 1 BY <1>1, <2>2
        <3> QED BY <1>1, <2>2, <2>3, <3>1
    <2> QED BY <1>1, <1>3, <2>2, <2>3, <2>4 DEF OrderedInv, OrderedVersion, ShownInOrder
<1> QED BY <1>4, <1>5, <1>6

LEMMA OrderedInvInit == OrderedInit => OrderedInv
<1> SUFFICES ASSUME OrderedInit PROVE OrderedInv OBVIOUS
<1>1. PICK keys \in FirstOrdered, set \in BOOLEAN :
          LET x == IF set THEN Present ELSE CHOOSE y \in OrderedValue : TRUE
          IN  /\ omaps = <<IF set THEN OrderedSetOf(keys) ELSE OrderedMapOf(keys, x)>>
              /\ omapValues = <<EntriesMerged(<<>>, keys, x)>>
              /\ emptied = FALSE
              /\ omapOps = 0
    BY DEF OrderedInit
<1> DEFINE x == IF set THEN Present ELSE CHOOSE y \in OrderedValue : TRUE
           e == EmptyOrdered(set)
           new == SetKeys(e, 1, keys, x)
           entries == EntriesMerged(<<>>, keys, x)
<1>2. x \in OrderedMapped /\ keys \in Seq(OrderedKey) BY OrderedAssumption DEF OrderedMapped
<1>3. omaps = <<new>> /\ omapValues = <<entries>> /\ emptied = FALSE /\ omapOps = 0
    <2>1. /\ omaps = <<IF set THEN OrderedSetOf(keys) ELSE OrderedMapOf(keys, x)>>
          /\ omapValues = <<entries>> /\ emptied = FALSE /\ omapOps = 0
        BY <1>1
    <2>2. CASE set
        <3>1. x = Present /\ e = EmptySet BY <2>2 DEF EmptySet
        <3> HIDE DEF x, e, entries
        <3> QED BY <2>1, <2>2, <3>1 DEF OrderedSetOf
    <2>3. CASE ~set
        <3>1. e = EmptyOrdered(FALSE) BY <2>3
        <3> HIDE DEF x, e, entries
        <3> QED BY <2>1, <2>3, <3>1 DEF OrderedMapOf
    <2> QED BY <2>2, <2>3
<1>4. ObjectOK(e) /\ ShownInOrder(e) = <<>> BY EmptyOrderedOK
<1> HIDE DEF x, e
<1>5. ObjectOK(new) /\ ShownInOrder(new) = entries
    <2>1. 1 \in Nat \ {NoOwner} BY DEF NoOwner
    <2> QED BY <1>2, <1>4, <2>1, SetKeysOK
<1>6. entries \in Seq(Slot) BY <1>5, ObjectShows
<1> HIDE DEF new, entries
<1>7. new \in Objects BY <1>5, ObjectsAreOK
<1> QED BY <1>3, <1>5, <1>6, <1>7 DEF OrderedInv, OrderedVersion

LEMMA OrderedInvNext == OrderedInv /\ [OrderedNext]_orderedVars => OrderedInv'
<1> SUFFICES ASSUME OrderedInv, [OrderedNext]_orderedVars PROVE OrderedInv' OBVIOUS
<1>1. CASE UNCHANGED orderedVars
    BY <1>1 DEF orderedVars, OrderedInv, OrderedVersion, ShownInOrder
<1> USE DEF OrderedVersion
<1>2. ASSUME NEW v \in OrderedVersion
      PROVE  /\ ObjectOK(omaps[v]) /\ ValuesOf(omaps[v]) \subseteq OrderedMapped
             /\ FreshOrderedOwner \in Nat \ {NoOwner}
             /\ ~emptied => ShownInOrder(omaps[v]) = omapValues[v]
    <2>1. omaps \in Seq(Objects) /\ omapOps \in Nat BY DEF OrderedInv
    <2>2. omaps[v] \in Objects BY <2>1, ElementOfSeq
    <2> QED BY <2>1, <2>2, ObjectsAreOK
            DEF OrderedInv, ValuesOf, OrderedMapped, FreshOrderedOwner, NoOwner
<1>3. ASSUME NEW v \in OrderedVersion, NEW k \in OrderedKey, OrderedSetKey(v, k)
      PROVE  OrderedInv'
    <2>1. PICK x \in ValuesOf(omaps[v]) :
              OrderedChange(v, UpdateSet(omaps[v], SetKey(omaps[v], k, x)),
                            EntriesSet(omapValues[v], k, x))
        BY <1>3 DEF OrderedSetKey
    <2> DEFINE o == omaps[v]
               new == UpdateSet(o, SetKey(o, k, x))
               entries == EntriesSet(omapValues[v], k, x)
    <2>2. ObjectOK(o) /\ x \in OrderedMapped /\ ShownInOrder(o) = omapValues[v]
        BY <1>2, <2>1 DEF OrderedChange
    <2>3. ObjectOK(SetKey(o, k, x)) /\ ShownInOrder(SetKey(o, k, x)) = entries
        BY <2>2, SetKeyOK
    <2>4. ObjectOK(new) /\ ShownInOrder(new) = entries BY <2>2, <2>3, UpdateSetOK
    <2>5. entries \in Seq(Slot) BY <2>4, ObjectShows
    <2> QED BY <2>1, <2>4, <2>5, ChangeOK
<1>4. ASSUME NEW v \in OrderedVersion, NEW k \in OrderedKey, OrderedRemove(v, k)
      PROVE  OrderedInv'
    <2> DEFINE o == omaps[v]
               new == UpdateSet(o, RemoveKey(o, k))
               entries == EntriesWithout(omapValues[v], {k})
    <2>1. OrderedChange(v, new, entries) BY <1>4 DEF OrderedRemove
    <2>2. ObjectOK(o) /\ ShownInOrder(o) = omapValues[v] BY <1>2, <2>1 DEF OrderedChange
    <2>3. ObjectOK(RemoveKey(o, k)) /\ ShownInOrder(RemoveKey(o, k)) = entries
        BY <2>2, RemoveKeyOK
    <2>4. ObjectOK(new) /\ ShownInOrder(new) = entries BY <2>2, <2>3, UpdateSetOK
    <2>5. entries \in Seq(Slot) BY <2>4, ObjectShows
    <2> QED BY <2>1, <2>4, <2>5, ChangeOK
<1>5. ASSUME NEW v \in OrderedVersion, NEW keys \in FirstOrdered, OrderedMerge(v, keys)
      PROVE  OrderedInv'
    <2>1. PICK x \in ValuesOf(omaps[v]) :
              OrderedChange(v, SetKeys(omaps[v], FreshOrderedOwner, keys, x),
                            EntriesMerged(omapValues[v], keys, x))
        BY <1>5 DEF OrderedMerge
    <2> DEFINE o == omaps[v]
               new == SetKeys(o, FreshOrderedOwner, keys, x)
               entries == EntriesMerged(omapValues[v], keys, x)
    <2>2. ObjectOK(o) /\ x \in OrderedMapped /\ ShownInOrder(o) = omapValues[v]
        BY <1>2, <2>1 DEF OrderedChange
    <2>3. keys \in Seq(OrderedKey) BY OrderedAssumption
    <2>4. FreshOrderedOwner \in Nat \ {NoOwner} BY <1>2
    <2>5. ObjectOK(new) /\ ShownInOrder(new) = entries BY <2>2, <2>3, <2>4, SetKeysOK
    <2>6. entries \in Seq(Slot) BY <2>5, ObjectShows
    <2> QED BY <2>1, <2>5, <2>6, ChangeOK
<1>6. ASSUME NEW v \in OrderedVersion, NEW keys, OrderedSubtract(v, keys)
      PROVE  OrderedInv'
    <2> DEFINE o == omaps[v]
               m == RemoveKeys(o, FreshOrderedOwner, keys)
               new == Mutated(o, m)
               entries == EntriesWithout(omapValues[v], keys)
    <2>1. OrderedChange(v, new, entries) /\ emptied' = m.spoils BY <1>6 DEF OrderedSubtract
    <2>2. ObjectOK(o) /\ ShownInOrder(o) = omapValues[v] BY <1>2, <2>1 DEF OrderedChange
    <2>3. FreshOrderedOwner \in Nat \ {NoOwner} BY <1>2
    <2>4. /\ ObjectOK(m) /\ ShownInOrder(m) = entries /\ m.set = o.set
          /\ m = MutableCopy(o, FreshOrderedOwner) \/ WasAltered(m) \/ m.spoils
        BY <2>2, <2>3, RemoveKeysOK
    <2>5. entries \in Seq(Slot) BY <2>4, ObjectShows
    <2> HIDE DEF m
    <2>6. CASE m = MutableCopy(o, FreshOrderedOwner) \/ WasAltered(m) \/ o.owner # NoOwner
        <3>1. ObjectOK(new) /\ ShownInOrder(new) = entries BY <2>2, <2>3, <2>4, <2>6, MutatedOK
        <3> QED BY <2>1, <2>5, <3>1, ChangeOK
    <2>7. CASE m.spoils /\ ~WasAltered(m) /\ o.owner = NoOwner
        <3>1. new = o /\ emptied' BY <2>1, <2>4, <2>7 DEF Mutated
        <3> QED BY <2>1, <2>2, <2>5, <3>1, ChangeOK
    <2> QED BY <2>4, <2>6, <2>7
<1>7. ASSUME NEW v \in OrderedVersion, OrderedClear(v) PROVE OrderedInv'
    <2>1. OrderedChange(v, ClearOrdered(omaps[v]), <<>>) BY <1>7 DEF OrderedClear
    <2>2. ObjectOK(ClearOrdered(omaps[v])) /\ ShownInOrder(ClearOrdered(omaps[v])) = <<>>
        BY <1>2, ClearOK
    <2>3. <<>> \in Seq(Slot) BY EmptySeq
    <2> QED BY <2>1, <2>2, <2>3, ChangeOK
<1>8. ASSUME NEW v \in OrderedVersion, OrderedAsMutable(v) PROVE OrderedInv'
    <2> DEFINE new == MutableCopy(omaps[v], FreshOrderedOwner)
               entries == omapValues[v]
               S == Seq(Slot)
    <2>1. /\ omapOps \in Nat /\ omaps \in Seq(Objects) /\ omapValues \in Seq(S)
          /\ Len(omapValues) = Len(omaps) /\ Len(omaps) \in Nat
        BY LenProperties DEF OrderedInv
    <2>2. /\ omaps' = Append(omaps, new) /\ omapValues' = Append(omapValues, entries)
          /\ emptied' = emptied /\ omapOps' = omapOps + 1
        BY <1>8 DEF OrderedAsMutable
    <2>3. new \in Objects /\ ShownInOrder(new) = ShownInOrder(omaps[v])
        BY <1>2, CopyOK, ObjectsAreOK
    <2>4. entries \in S
        <3> HIDE DEF S
        <3> QED BY <2>1, ElementOfSeq
    <2>5. omaps' \in Seq(Objects) /\ Len(omaps') = Len(omaps) + 1
          /\ omaps'[Len(omaps) + 1] = new /\ \A u \in 1..Len(omaps) : omaps'[u] = omaps[u]
        <3> HIDE DEF new
        <3> QED BY <2>1, <2>2, <2>3, AppendProperties
    <2>6. omapValues' \in Seq(S) /\ Len(omapValues') = Len(omaps) + 1
          /\ omapValues'[Len(omaps) + 1] = entries
          /\ \A u \in 1..Len(omaps) : omapValues'[u] = omapValues[u]
        <3> HIDE DEF S, entries
        <3> QED BY <2>1, <2>2, <2>4, AppendProperties
    <2>7. ~emptied' => \A u \in 1..Len(omaps') : ShownInOrder(omaps'[u]) = omapValues'[u]
        <3> SUFFICES ASSUME ~emptied', NEW u \in 1..Len(omaps')
                     PROVE  ShownInOrder(omaps'[u]) = omapValues'[u]
            OBVIOUS
        <3>1. u \in 1..Len(omaps) \/ u = Len(omaps) + 1
            <4>1. Len(omaps) \in Nat /\ Len(omaps') = Len(omaps) + 1 BY <2>1, <2>5
            <4> QED BY <4>1
        <3>2. \A w \in 1..Len(omaps) : ShownInOrder(omaps[w]) = omapValues[w]
            BY <2>2 DEF OrderedInv
        <3> QED BY <2>3, <2>5, <2>6, <3>1, <3>2
    <2>8. /\ omapOps' \in Nat /\ omaps' \in Seq(Objects)
          /\ omapValues' \in Seq(Seq(Slot)) /\ Len(omapValues') = Len(omaps')
        BY <2>1, <2>2, <2>5, <2>6
    <2> HIDE DEF new, entries, S
    <2> QED BY <2>7, <2>8 DEF OrderedInv, ShownInOrder
<1>9. ASSUME NEW v \in OrderedVersion, OrderedAsImmutable(v) PROVE OrderedInv'
    <2> DEFINE new == [omaps[v] EXCEPT !.owner = NoOwner]
    <2>1. omaps \in Seq(Objects) /\ UNCHANGED <<omapValues, emptied, omapOps>>
        BY <1>9 DEF OrderedInv, OrderedAsImmutable
    <2>2. omaps' = [omaps EXCEPT ![v] = new] BY <1>9 DEF OrderedAsImmutable
    <2>3. ObjectOK(new) /\ ShownInOrder(new) = ShownInOrder(omaps[v])
        BY <1>2 DEF ObjectOK, OrderedObject, ShownInOrder, NoOwner
    <2>4. new \in Objects BY <2>3, ObjectsAreOK
    <2>5. omaps' \in Seq(Objects) /\ Len(omaps') = Len(omaps)
          /\ \A u \in 1..Len(omaps) : omaps'[u] = IF u = v THEN new ELSE omaps[u]
        <3> HIDE DEF new
        <3> QED BY <2>1, <2>2, <2>4, ExceptSeq
    <2>6. ~emptied' => \A u \in 1..Len(omaps') : ShownInOrder(omaps'[u]) = omapValues'[u]
        BY <2>1, <2>3, <2>5 DEF OrderedInv
    <2> QED BY <2>1, <2>5, <2>6 DEF OrderedInv, ShownInOrder
<1>10. CASE OrderedNext BY <1>3, <1>4, <1>5, <1>6, <1>7, <1>8, <1>9, <1>10 DEF OrderedNext
<1> QED BY <1>1, <1>10

LEMMA OrderedInvTypes == OrderedInv => OrderedTypeOK
<1> SUFFICES ASSUME OrderedInv, NEW v \in OrderedVersion
             PROVE  /\ \A k \in DOMAIN omaps[v].map :
                          omaps[v].map[k] + 1 \in DOMAIN omaps[v].list /\ EntryAt(omaps[v], k)[1] = k
                    /\ OrderedSize(omaps[v]) = Len(ShownInOrder(omaps[v]))
    BY DEF OrderedTypeOK
<1> DEFINE o == omaps[v]
<1>1. ObjectOK(o) BY ElementOfSeq, ObjectsAreOK DEF OrderedInv, OrderedVersion
<1> HIDE DEF o
<1>2. o.list \in Seq(Slot) /\ Fits(o.map, o.list) BY <1>1 DEF ObjectOK, OrderedObject
<1>3. DOMAIN o.list = 1..Len(o.list) BY <1>2, LenProperties
<1>4. OrderedSize(o) = Len(ShownInOrder(o)) BY <1>1, ObjectShows
<1> QED BY <1>2, <1>3, <1>4 DEF o, Fits, EntryAt

LEMMA OrderedInvAlways == OrderedSpec => []OrderedInv
BY OrderedInvInit, OrderedInvNext, PTL DEF OrderedSpec

(* Whatever is set, removed, merged, subtracted or cleared, and by whomever *)
(* the object is owned, updateOrderedMap leaves the map the positions of    *)
(* the entries of the list, and as many keys as the list shows entries.     *)
THEOREM OrderedTypeCorrect == OrderedSpec => []OrderedTypeOK
BY OrderedInvAlways, OrderedInvTypes, PTL

(* Every version shows its entries in the order of insertion, through holes *)
(* and compactions, and a change made inside withMutations is not taken for *)
(* none, as long as the shared empty list and map have no owner.            *)
THEOREM OrderIsKept == OrderedSpec => []OrderedKept
<1>1. OrderedInv => OrderedKept BY DEF OrderedInv, OrderedKept
<1> QED BY <1>1, OrderedInvAlways, PTL
=============================================================================
