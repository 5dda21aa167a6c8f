--------------------------- MODULE CountingLemmas ---------------------------
(***************************************************************************)
(* How the numbers of handles and of slots that are for given nodes change *)
(* when one handle or one root is rewritten.  Everything an operation of   *)
(* module CountedHeap does to the counts is a sum of such changes.         *)
(***************************************************************************)
EXTENDS CountedHeap, FiniteSetTheorems, TLAPS

IsRoot(s) == s \in Seq(Slot) /\ Len(s) <= MaxLength

\* 1 for a node of N, 0 for anything else.
In(x, N) == IF x \in N THEN 1 ELSE 0

Holders(f, N) == {h \in Handle : f[h] \in N}

Slots(v, N) == {p \in Cell \X Index : p[2] \in DOMAIN v[p[1]] /\ v[p[1]][p[2]] \in N}

SlotsIn(c, v, N) == {p \in Slots(v, N) : p[1] = c}

\* Disjoint finite sets count separately.
LEMMA CardinalityDisjoint ==
    ASSUME NEW S, NEW T, IsFiniteSet(S), IsFiniteSet(T), S \cap T = {}
    PROVE  /\ IsFiniteSet(S \cup T)
           /\ Cardinality(S \cup T) = Cardinality(S) + Cardinality(T)
<1>1. Cardinality(S) \in Nat /\ Cardinality(T) \in Nat
  BY FS_CardinalityType
<1>2. Cardinality(S \cap T) = 0
  BY FS_EmptySet
<1>3. /\ IsFiniteSet(S \cup T)
      /\ Cardinality(S \cup T) = Cardinality(S) + Cardinality(T) - Cardinality(S \cap T)
  BY FS_Union
<1> QED
  BY <1>1, <1>2, <1>3

\* The occurrences in a sequence are counted by a natural number.
LEMMA OccurrencesNat ==
    ASSUME NEW S, NEW s \in Seq(S), NEW N
    PROVE  /\ IsFiniteSet({i \in DOMAIN s : s[i] \in N})
           /\ Occurrences(s, N) \in Nat
<1> DEFINE At == {i \in DOMAIN s : s[i] \in N}
<1>1. DOMAIN s = 1..Len(s) /\ Len(s) \in Nat
  OBVIOUS
<1>2. IsFiniteSet(1..Len(s))
  BY <1>1, FS_Interval
<1>3. At \in SUBSET (1..Len(s))
  BY <1>1
<1>4. IsFiniteSet(At)
  BY <1>2, <1>3, FS_Subset
<1> QED
  BY <1>4, FS_CardinalityType DEF Occurrences

\* No slot, no occurrence; one slot, at most one.
LEMMA OccurrencesSmall ==
    ASSUME NEW N, NEW e
    PROVE  Occurrences(<<>>, N) = 0 /\ Occurrences(<<e>>, N) = In(e, N)
<1>1. {i \in DOMAIN <<>> : <<>>[i] \in N} = {}
  OBVIOUS
<1>2. DOMAIN <<e>> = {1} /\ <<e>>[1] = e
  OBVIOUS
<1>3. {i \in DOMAIN <<e>> : <<e>>[i] \in N} = IF e \in N THEN {1} ELSE {}
  BY <1>2
<1> QED
  BY <1>1, <1>3, FS_EmptySet, FS_Singleton DEF Occurrences, In

\* The occurrences in a concatenation are those of its parts.
LEMMA OccurrencesConcat ==
    ASSUME NEW S, NEW s \in Seq(S), NEW t \in Seq(S), NEW N
    PROVE  Occurrences(s \o t, N) = Occurrences(s, N) + Occurrences(t, N)
<1> DEFINE A == {i \in DOMAIN s : s[i] \in N}
           B == {i \in DOMAIN t : t[i] \in N}
           C == {i \in DOMAIN (s \o t) : (s \o t)[i] \in N}
           D == {i \in C : i > Len(s)}
           f == [i \in B |-> i + Len(s)]
<1>1. /\ Len(s) \in Nat /\ Len(t) \in Nat
      /\ DOMAIN s = 1..Len(s) /\ DOMAIN t = 1..Len(t)
      /\ DOMAIN (s \o t) = 1..(Len(s) + Len(t))
      /\ \A i \in 1..(Len(s) + Len(t)) :
            (s \o t)[i] = IF i <= Len(s) THEN s[i] ELSE t[i - Len(s)]
  OBVIOUS
<1>2. C = A \cup D
  BY <1>1
<1>3. A \cap D = {}
  BY <1>1
<1>4. f \in Bijection(B, D)
  <2>1. f \in [B -> D]
    BY <1>1
  <2>2. \A i, j \in B : f[i] = f[j] => i = j
    BY <1>1
  <2>3. \A d \in D : \E i \in B : f[i] = d
    <3> TAKE d \in D
    <3>1. d - Len(s) \in B
      BY <1>1
    <3> QED
      BY <1>1, <3>1
  <2> QED
    BY <2>1, <2>2, <2>3 DEF Bijection, Injection, Surjection, IsInjective
<1>5. IsFiniteSet(A) /\ IsFiniteSet(B) /\ Cardinality(A) \in Nat /\ Cardinality(B) \in Nat
  BY OccurrencesNat, FS_CardinalityType
<1>6. IsFiniteSet(D) /\ Cardinality(D) = Cardinality(B)
  BY <1>4, <1>5, FS_Bijection DEF ExistsBijection
<1>7. Cardinality(C) = Cardinality(A) + Cardinality(D)
  <2> HIDE DEF A, C, D
  <2> QED
    BY <1>2, <1>3, <1>5, <1>6, CardinalityDisjoint
<1> QED
  BY <1>6, <1>7 DEF Occurrences
\* Replacing one slot.
LEMMA OccurrencesExcept ==
    ASSUME NEW S, NEW s \in Seq(S), NEW i \in DOMAIN s, NEW e, NEW N
    PROVE  Occurrences([s EXCEPT ![i] = e], N) = Occurrences(s, N) - In(s[i], N) + In(e, N)
<1> DEFINE t == [s EXCEPT ![i] = e]
           A == {j \in DOMAIN s : s[j] \in N}
           B == {j \in DOMAIN t : t[j] \in N}
<1>1. IsFiniteSet(A) /\ Cardinality(A) \in Nat
  BY OccurrencesNat, FS_CardinalityType
<1>2. B = IF e \in N THEN (A \ {i}) \cup {i} ELSE A \ {i}
  OBVIOUS
<1>3. i \in A <=> s[i] \in N
  OBVIOUS
<1> HIDE DEF A, B
<1>4. /\ IsFiniteSet(A \ {i})
      /\ Cardinality(A \ {i}) = Cardinality(A) - In(s[i], N)
  BY <1>1, <1>3, FS_RemoveElement DEF In
<1>5. i \notin A \ {i}
  OBVIOUS
<1>6. Cardinality((A \ {i}) \cup {i}) = Cardinality(A \ {i}) + 1
  BY <1>4, <1>5, FS_AddElement
<1>7. Cardinality(B) = Cardinality(A) - In(s[i], N) + In(e, N)
  <2>1. CASE e \in N
    BY <2>1, <1>2, <1>4, <1>6 DEF In
  <2>2. CASE e \notin N
    BY <2>2, <1>1, <1>2, <1>4 DEF In
  <2> QED
    BY <2>1, <2>2
<1> QED
  BY <1>7 DEF A, B, Occurrences

\* The handles that hold a node of N are finitely many.
LEMMA HoldersNat ==
    ASSUME NEW f, NEW N
    PROVE  IsFiniteSet(Holders(f, N)) /\ Cardinality(Holders(f, N)) \in Nat
<1>1. Holders(f, N) \in SUBSET Handle
  BY DEF Holders
<1>2. IsFiniteSet(Holders(f, N))
  BY <1>1, NodeAssumption, FS_Subset
<1> QED
  BY <1>2, FS_CardinalityType

\* Rebinding one handle.
LEMMA HoldersExcept ==
    ASSUME NEW f, NEW g, NEW h \in Handle, NEW N,
           \A k \in Handle : k # h => g[k] = f[k]
    PROVE  Cardinality(Holders(g, N)) = Cardinality(Holders(f, N)) - In(f[h], N) + In(g[h], N)
<1> DEFINE A == Holders(f, N)
           B == Holders(g, N)
<1>1. IsFiniteSet(A) /\ Cardinality(A) \in Nat
  BY HoldersNat
<1>2. B = IF g[h] \in N THEN (A \ {h}) \cup {h} ELSE A \ {h}
  BY DEF Holders
<1>3. h \in A <=> f[h] \in N
  BY DEF Holders
<1> HIDE DEF A, B
<1>4. /\ IsFiniteSet(A \ {h})
      /\ Cardinality(A \ {h}) = Cardinality(A) - In(f[h], N)
  BY <1>1, <1>3, FS_RemoveElement DEF In
<1>5. Cardinality((A \ {h}) \cup {h}) = Cardinality(A \ {h}) + 1
  BY <1>4, FS_AddElement, h \notin A \ {h}
<1>6. Cardinality(B) = Cardinality(A) - In(f[h], N) + In(g[h], N)
  <2>1. CASE g[h] \in N
    BY <2>1, <1>2, <1>4, <1>5 DEF In
  <2>2. CASE g[h] \notin N
    BY <2>2, <1>1, <1>2, <1>4 DEF In
  <2> QED
    BY <2>1, <2>2
<1> QED
  BY <1>6 DEF A, B

\* The handles a construction takes, and the nodes they were for.
Taken(f, hs) == [k \in Handle |-> IF \E i \in DOMAIN hs : hs[i] = k THEN None ELSE f[k]]

Payloads(f, hs) == [i \in DOMAIN hs |-> f[hs[i]]]

\* A construction that names each handle once takes as many as it stores.
LEMMA HoldersTaken ==
    ASSUME NEW S, NEW f \in [Handle -> S], NEW N, None \notin N,
           NEW hs \in Seq(Handle), \A i, j \in DOMAIN hs : hs[i] = hs[j] => i = j
    PROVE  Cardinality(Holders(Taken(f, hs), N))
              = Cardinality(Holders(f, N)) - Occurrences(Payloads(f, hs), N)
<1> DEFINE s == Payloads(f, hs)
           g == Taken(f, hs)
           A == {i \in DOMAIN s : s[i] \in N}
           B == {h \in Holders(f, N) : \E i \in DOMAIN hs : hs[i] = h}
           m == [i \in A |-> hs[i]]
<1>1. DOMAIN hs = 1..Len(hs) /\ Len(hs) \in Nat /\ \A i \in DOMAIN hs : hs[i] \in Handle
  OBVIOUS
<1>2. s \in Seq(S) /\ DOMAIN s = DOMAIN hs /\ \A i \in DOMAIN hs : s[i] = f[hs[i]]
  BY <1>1 DEF Payloads
<1>3. IsFiniteSet(A) /\ Cardinality(A) \in Nat
  BY <1>2, OccurrencesNat, FS_CardinalityType
<1>4. m \in Bijection(A, B)
  <2>1. m \in [A -> B]
    BY <1>1, <1>2 DEF Holders
  <2>2. \A i, j \in A : m[i] = m[j] => i = j
    BY <1>2
  <2>3. \A h \in B : \E i \in A : m[i] = h
    BY <1>1, <1>2 DEF Holders
  <2> QED
    BY <2>1, <2>2, <2>3 DEF Bijection, Injection, Surjection, IsInjective
<1>5. IsFiniteSet(B) /\ Cardinality(B) = Cardinality(A)
  BY <1>3, <1>4, FS_Bijection DEF ExistsBijection
<1>6. Holders(f, N) = Holders(g, N) \cup B
  BY DEF Holders, Taken
<1>7. Holders(g, N) \cap B = {}
  BY DEF Holders, Taken
<1> HIDE DEF A, B, g, s
<1>8. Cardinality(Holders(f, N)) = Cardinality(Holders(g, N)) + Cardinality(B)
  BY <1>5, <1>6, <1>7, HoldersNat, CardinalityDisjoint
<1>9. Cardinality(Holders(g, N)) \in Nat
  BY HoldersNat
<1>10. Cardinality(Holders(g, N)) = Cardinality(Holders(f, N)) - Cardinality(A)
  BY <1>3, <1>5, <1>8, <1>9
<1> QED
  BY <1>10 DEF A, g, s, Occurrences

\* The slots of a finite heap are finitely many.
LEMMA SlotsNat ==
    ASSUME NEW v, NEW N
    PROVE  IsFiniteSet(Slots(v, N)) /\ Cardinality(Slots(v, N)) \in Nat
<1>1. IsFiniteSet(Index)
  BY SizeAssumption, FS_Interval DEF Index
<1>2. IsFiniteSet(Cell \X Index)
  BY <1>1, NodeAssumption, FS_Product
<1>3. Slots(v, N) \in SUBSET (Cell \X Index)
  BY DEF Slots
<1>4. IsFiniteSet(Slots(v, N))
  BY <1>2, <1>3, FS_Subset
<1> QED
  BY <1>4, FS_CardinalityType

\* The slots of one root are its occurrences.
LEMMA SlotsAt ==
    ASSUME NEW v, NEW c \in Cell, IsRoot(v[c]), NEW N
    PROVE  /\ IsFiniteSet(SlotsIn(c, v, N))
           /\ Cardinality(SlotsIn(c, v, N)) = Occurrences(v[c], N)
<1> DEFINE At == {p \in Slots(v, N) : p[1] = c}
           A == {i \in DOMAIN v[c] : v[c][i] \in N}
           m == [i \in A |-> <<c, i>>]
<1>1. DOMAIN v[c] = 1..Len(v[c]) /\ Len(v[c]) \in Nat
  BY DEF IsRoot
<1>2. DOMAIN v[c] \subseteq Index
  BY <1>1, SizeAssumption DEF Index, IsRoot
<1>3. m \in Bijection(A, At)
  <2>1. m \in [A -> At]
    BY <1>2 DEF Slots
  <2>2. \A i, j \in A : m[i] = m[j] => i = j
    OBVIOUS
  <2>3. \A p \in At : \E i \in A : m[i] = p
    <3> TAKE p \in At
    <3>1. p[2] \in A /\ p = <<c, p[2]>>
      BY DEF Slots
    <3> QED
      BY <3>1
  <2> QED
    BY <2>1, <2>2, <2>3 DEF Bijection, Injection, Surjection, IsInjective
<1>4. IsFiniteSet(A)
  BY OccurrencesNat DEF IsRoot
<1> QED
  BY <1>3, <1>4, FS_Bijection DEF ExistsBijection, Occurrences, SlotsIn

\* Rewriting one root.
LEMMA SlotsExcept ==
    ASSUME NEW v, NEW w, NEW c \in Cell, NEW N,
           IsRoot(v[c]), IsRoot(w[c]),
           \A d \in Cell : d # c => w[d] = v[d]
    PROVE  Cardinality(Slots(w, N))
              = Cardinality(Slots(v, N)) - Occurrences(v[c], N) + Occurrences(w[c], N)
<1> DEFINE Rest == {p \in Slots(v, N) : p[1] # c}
           AtV == SlotsIn(c, v, N)
           AtW == SlotsIn(c, w, N)
<1>1. IsFiniteSet(AtV) /\ Cardinality(AtV) = Occurrences(v[c], N)
  BY SlotsAt
<1>2. IsFiniteSet(AtW) /\ Cardinality(AtW) = Occurrences(w[c], N)
  BY SlotsAt
<1>3. Slots(v, N) = Rest \cup AtV /\ Rest \cap AtV = {}
  BY DEF SlotsIn
<1>4. Slots(w, N) = Rest \cup AtW /\ Rest \cap AtW = {}
  <2>1. {p \in Slots(w, N) : p[1] # c} = Rest
    BY DEF Slots
  <2> QED
    BY <2>1 DEF SlotsIn
<1>5. IsFiniteSet(Rest) /\ Cardinality(Rest) \in Nat
  <2>1. Rest \in SUBSET Slots(v, N)
    OBVIOUS
  <2> QED
    BY <2>1, SlotsNat, FS_Subset, FS_CardinalityType
<1> HIDE DEF Rest, AtV, AtW
<1>6. Cardinality(Slots(v, N)) = Cardinality(Rest) + Cardinality(AtV)
  BY <1>1, <1>3, <1>5, CardinalityDisjoint
<1>7. Cardinality(Slots(w, N)) = Cardinality(Rest) + Cardinality(AtW)
  BY <1>2, <1>4, <1>5, CardinalityDisjoint
<1>8. Occurrences(v[c], N) \in Nat /\ Occurrences(w[c], N) \in Nat
  BY OccurrencesNat DEF IsRoot
<1> QED
  BY <1>1, <1>2, <1>5, <1>6, <1>7, <1>8

=============================================================================
