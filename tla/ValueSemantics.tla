--------------------------- MODULE ValueSemantics ---------------------------
(***************************************************************************)
(* What a Blorp program sees of its Strings, Lists and records: immutable  *)
(* values.  A handle is bound to a value; an operation binds its result to *)
(* a new handle, unbinds the handles it consumes, and changes the value of *)
(* no other.  There are no addresses, no counts and no updates in place.   *)
(***************************************************************************)
EXTENDS Integers, Sequences, FiniteSets

CONSTANTS Handle, Atom, None, MaxLength, Stores, Updatable

VARIABLE value  \* the value each bound handle has

\* A value of a type whose layout stores nothing managed holds atoms, any
\* other one values of the types its layout stores.
Structure(layout, elements) == [layout |-> layout, elements |-> elements]

Bound == {h \in Handle : value[h] # None}

Elements(v) == IF Stores[v.layout] = {} THEN {} ELSE {v.elements[i] : i \in DOMAIN v.elements}

\* The values inside v, v itself included.
RECURSIVE Parts(_)
Parts(v) == {v} \cup UNION {Parts(w) : w \in Elements(v)}

Visible(H) == UNION {Parts(value[h]) : h \in Bound \ H}

Operands(H) == {x \in Visible(H) : x.layout \in Updatable}

ElementsFor(layout, H) ==
    IF Stores[layout] = {} THEN Atom ELSE {v \in Visible(H) : v.layout \in Stores[layout]}

\* Handle r becomes bound to v and the handles H become unbound.
Produce(r, H, v) ==
    /\ Len(v.elements) <= MaxLength
    /\ value' = [h \in Handle |-> IF h = r THEN v ELSE IF h \in H THEN None ELSE value[h]]

Replaced(s, i, e) == [j \in DOMAIN s |-> IF j = i THEN e ELSE s[j]]

Make(r) ==
    \/ \E layout \in Updatable : Produce(r, {}, Structure(layout, <<>>))
    \/ \E layout \in Updatable, k \in 0..MaxLength :
          /\ Stores[layout] = {}
          /\ \E text \in [1..k -> Atom] : Produce(r, {}, Structure(layout, text))
    \/ \E x \in Visible({}) : Produce(r, {}, x)
    \/ \E layout \in DOMAIN Stores, k \in 1..MaxLength : \E hs \in [1..k -> Bound] :
          /\ \A i \in 1..k : value[hs[i]].layout \in Stores[layout]
          /\ \A i, j \in 1..k : hs[i] = hs[j] => i = j
          /\ Produce(r, {hs[i] : i \in 1..k},
                     Structure(layout, [i \in 1..k |-> value[hs[i]]]))
    \/ \E layout \in Updatable, count \in 0..MaxLength : \E e \in ElementsFor(layout, {}) :
          Produce(r, {}, Structure(layout, [i \in 1..count |-> e]))
    \/ \E x \in Operands({}), start \in 0..MaxLength :
          Produce(r, {}, Structure(x.layout, SubSeq(x.elements, start + 1, Len(x.elements))))

\* An update of x, which consumed the handles H (none when x is borrowed).
Update(r, H, x) ==
    /\ x.layout \in Updatable
    /\ \/ \E e \in ElementsFor(x.layout, H) :
             \/ Produce(r, H, Structure(x.layout, Append(x.elements, e)))
             \/ \E i \in 1..MaxLength :
                   Produce(r, H, Structure(x.layout, Replaced(x.elements, i, e)))
       \/ \E y \in Operands(H) :
             y.layout = x.layout /\ Produce(r, H, Structure(x.layout, x.elements \o y.elements))

Drop(h) == value' = [value EXCEPT ![h] = None]

Init == value = [h \in Handle |-> None]

Next ==
    \/ \E r \in Handle \ Bound :
          \/ Make(r)
          \/ \E x \in Operands({}) : Update(r, {}, x)
          \/ \E h \in Bound : Update(r, {h}, value[h])
    \/ \E h \in Bound : Drop(h)

Spec == Init /\ [][Next]_value

=============================================================================
