----------------------- MODULE EntityDerivationProofs -----------------------
(***************************************************************************)
(* What holds of every derivation, whatever the documents, their schemas   *)
(* and the words their segments are spelled with.                          *)
(***************************************************************************)
EXTENDS EntityDerivation, FunctionTheorems, FiniteSetTheorems, SequenceTheorems, WellFoundedInduction, TLAPS

(***************************************************************************)
(* Where the operations of a document are while they are gathered.         *)
(***************************************************************************)
Source    == UNION {Range(p.operations) : p \in Range(document.paths)}
Waiting   == UNION {Range(p.operations) : p \in Range(paths)}
Left      == Range(operations) \cup Waiting
Placed(e) == {e.at[r] : r \in Roles} \ {NoOp}
In(e)     == Placed(e) \cup Range(e.extra)

\* Whatever has a role stands in the position that claims it, and nothing that
\* has one is among the extra operations.
WellPlaced(e) ==
  /\ e = [item |-> e.item, at |-> [r \in Roles |-> e.at[r]], extra |-> e.extra]
  /\ e.extra \in Seq(Source)
  /\ \A r \in Roles : e.at[r] # NoOp => /\ e.at[r] \in Source
                                        /\ Position(e.at[r].method, IsItem(e.at[r].path)) = r
  /\ Placed(e) \cap Range(e.extra) = {}

\* What is left keeps the distinctions of the document.
Unfiled ==
  /\ document \in Loadable
  /\ paths \in Seq(Range(document.paths))
  /\ \A i, j \in DOMAIN paths : paths[i].path = paths[j].path => i = j
  /\ operations \in Seq(Source)
  /\ \A m, n \in DOMAIN operations : operations[m] = operations[n] => m = n
  /\ Range(operations) \cap Waiting = {}
  /\ \A op \in Range(operations) : Collection(op.path) \in DOMAIN found

\* Every operation is left or in the entity of its path, and never both.
Gathered ==
  /\ \A c \in DOMAIN found : WellPlaced(found[c]) /\ In(found[c]) \cap Left = {}
  /\ \A op \in Source \ Left : /\ Collection(op.path) \in DOMAIN found
                               /\ op \in In(found[Collection(op.path)])

\* What a kept entity's roles and extra operations make of what was found of it.
KeepsAll(c, e) ==
  /\ \A op \in In(e) : op \in Held(c) \cup Range(c.class.extra) \/ LostBySingleton(c, op)
  /\ Held(c) \cap Range(c.class.extra) = {}
  /\ \A r, q \in Roles : r # q /\ At(c, r) = At(c, q) => At(c, r) = NoOp

\* Entities are decided when nothing is left, each on what was found of it.
DecidedOnAll ==
  /\ phase # "gather" => paths = <<>> /\ operations = <<>>
  /\ phase = "gather" => kept = <<>>
  /\ kept \in Seq(Range(kept))
  /\ undecided \subseteq DOMAIN found
  /\ \A i \in DOMAIN kept : /\ kept[i].collection \in DOMAIN found
                            /\ KeepsAll(kept[i], found[kept[i].collection])

Carrying == Unfiled /\ Gathered /\ DecidedOnAll

-----------------------------------------------------------------------------
\* A sequence is its head and what is behind it.
LEMMA HeadAndTail ==
  ASSUME NEW S, NEW s \in Seq(S), s # <<>>
  PROVE  /\ Head(s) = s[1] /\ 1 \in DOMAIN s /\ Head(s) \in Range(s)
         /\ Tail(s) \in Seq(S)
         /\ \A i \in DOMAIN Tail(s) : i + 1 \in DOMAIN s /\ Tail(s)[i] = s[i + 1] /\ i \in Nat
         /\ Range(s) = {Head(s)} \cup Range(Tail(s))
<1>1. Len(s) \in Nat /\ DOMAIN s = 1 .. Len(s) /\ Len(s) # 0
  OBVIOUS
<1>2. /\ Tail(s) \in Seq(S) /\ Len(Tail(s)) = Len(s) - 1
      /\ \A i \in 1 .. Len(Tail(s)) : Tail(s)[i] = s[i + 1]
  BY HeadTailProperties
<1>3. DOMAIN Tail(s) = 1 .. (Len(s) - 1)
  BY <1>1, <1>2
<1>4. Head(s) = s[1] /\ 1 \in DOMAIN s
  BY <1>1
<1>5. ASSUME NEW i \in DOMAIN s, i # 1
      PROVE  i - 1 \in DOMAIN Tail(s) /\ Tail(s)[i - 1] = s[i]
  BY <1>1, <1>2, <1>3, <1>5
<1>6. Range(s) \subseteq {Head(s)} \cup Range(Tail(s))
  BY <1>4, <1>5 DEF Range
<1>7. \A i \in DOMAIN Tail(s) : i + 1 \in DOMAIN s /\ Tail(s)[i] = s[i + 1] /\ i \in Nat
  BY <1>1, <1>2, <1>3
<1>8. {Head(s)} \cup Range(Tail(s)) \subseteq Range(s)
  BY <1>4, <1>7 DEF Range
<1> QED
  BY <1>2, <1>4, <1>6, <1>7, <1>8 DEF Range

\* What an append adds.
LEMMA AppendedRange ==
  ASSUME NEW S, NEW s \in Seq(S), NEW x \in S
  PROVE  /\ Append(s, x) \in Seq(S)
         /\ DOMAIN Append(s, x) = DOMAIN s \cup {Len(s) + 1} /\ Len(s) + 1 \notin DOMAIN s
         /\ \A i \in DOMAIN s : Append(s, x)[i] = s[i]
         /\ Append(s, x)[Len(s) + 1] = x
         /\ Range(Append(s, x)) = Range(s) \cup {x}
<1>1. /\ Append(s, x) \in Seq(S) /\ Len(Append(s, x)) = Len(s) + 1
      /\ \A i \in 1 .. Len(s) : Append(s, x)[i] = s[i]
      /\ Append(s, x)[Len(s) + 1] = x
  BY AppendProperties
<1>2. Len(s) \in Nat /\ DOMAIN s = 1 .. Len(s) /\ DOMAIN Append(s, x) = 1 .. (Len(s) + 1)
  BY <1>1
<1>3. DOMAIN Append(s, x) = DOMAIN s \cup {Len(s) + 1} /\ Len(s) + 1 \notin DOMAIN s
  BY <1>2
<1>4. \A i \in DOMAIN s : Append(s, x)[i] = s[i]
  BY <1>1, <1>2
<1>5. Range(Append(s, x)) = Range(s) \cup {x}
  BY <1>1, <1>3, <1>4 DEF Range
<1> QED
  BY <1>1, <1>3, <1>4, <1>5

\* A position is a role or none.
LEMMA PositionType ==
  ASSUME NEW method, NEW item
  PROVE  Position(method, item) \in Roles \cup {"extra"} /\ "extra" \notin Roles
BY DEF Position, Roles

\* Filing an operation adds it to its entity, once, and takes nothing out.
LEMMA FiledOnce ==
  ASSUME NEW e, WellPlaced(e), NEW op \in Source, op # NoOp, op \notin In(e)
  PROVE  WellPlaced(assign(e, op)) /\ In(assign(e, op)) = In(e) \cup {op}
<1> DEFINE role == Position(op.method, IsItem(op.path))
           f == assign(e, op)
<1>1. role \in Roles \cup {"extra"} /\ "extra" \notin Roles
  BY PositionType
<1>2. f = IF role # "extra" /\ e.at[role] = NoOp
          THEN [e EXCEPT !.at[role] = op] ELSE [e EXCEPT !.extra = Append(@, op)]
  BY DEF assign, Filed
<1>3. CASE role # "extra" /\ e.at[role] = NoOp
  <2>1. role \in Roles
    BY <1>1, <1>3
  <2>2. f = [item |-> e.item, at |-> [r \in Roles |-> IF r = role THEN op ELSE e.at[r]], extra |-> e.extra]
    BY <1>2, <1>3, <2>1 DEF WellPlaced
  <2>3. /\ f.extra = e.extra
        /\ \A r \in Roles : f.at[r] = IF r = role THEN op ELSE e.at[r]
        /\ f = [item |-> f.item, at |-> [r \in Roles |-> f.at[r]], extra |-> f.extra]
    BY <2>2
  <2>4. Placed(f) = Placed(e) \cup {op}
    BY <1>3, <2>1, <2>3 DEF Placed
  <2>5. \A r \in Roles : f.at[r] # NoOp => /\ f.at[r] \in Source
                                           /\ Position(f.at[r].method, IsItem(f.at[r].path)) = r
    BY <2>3 DEF WellPlaced
  <2>6. Placed(f) \cap Range(f.extra) = {}
    BY <2>3, <2>4 DEF WellPlaced, In
  <2>7. WellPlaced(f)
    BY <2>3, <2>5, <2>6 DEF WellPlaced
  <2> QED
    BY <2>3, <2>4, <2>7 DEF In
<1>4. CASE ~(role # "extra" /\ e.at[role] = NoOp)
  <2>a. f = [e EXCEPT !.extra = Append(@, op)]
    BY <1>2, <1>4
  <2> HIDE DEF f
  <2>1. /\ f.extra = Append(e.extra, op) /\ f.at = e.at
        /\ f = [item |-> f.item, at |-> f.at, extra |-> f.extra]
    BY <2>a DEF WellPlaced
  <2>2. /\ f.extra = Append(e.extra, op)
        /\ \A r \in Roles : f.at[r] = e.at[r]
        /\ f = [item |-> f.item, at |-> [r \in Roles |-> f.at[r]], extra |-> f.extra]
    BY <2>1 DEF WellPlaced
  <2>3. f.extra \in Seq(Source) /\ Range(f.extra) = Range(e.extra) \cup {op}
    BY <2>2, AppendedRange DEF WellPlaced
  <2>4. Placed(f) = Placed(e)
    BY <2>2 DEF Placed
  <2>5. \A r \in Roles : f.at[r] # NoOp => /\ f.at[r] \in Source
                                           /\ Position(f.at[r].method, IsItem(f.at[r].path)) = r
    BY <2>2 DEF WellPlaced
  <2>6. Placed(f) \cap Range(f.extra) = {}
    BY <2>3, <2>4 DEF WellPlaced, In
  <2>7. WellPlaced(f)
    BY <2>2, <2>3, <2>5, <2>6 DEF WellPlaced
  <2> QED
    BY <2>3, <2>4, <2>7 DEF In, f
<1> QED
  BY <1>3, <1>4

\* An entity opens empty, and a further path of it changes at most its item path.
LEMMA OpenedWhole ==
  ASSUME NEW path, \A c \in DOMAIN found : WellPlaced(found[c])
  PROVE  /\ DOMAIN Opening(found, path) = DOMAIN found \cup {Collection(path)}
         /\ \A c \in DOMAIN Opening(found, path) :
              /\ WellPlaced(Opening(found, path)[c])
              /\ In(Opening(found, path)[c]) = IF c \in DOMAIN found THEN In(found[c]) ELSE {}
<1> DEFINE o == Opening(found, path)
<1>1. DOMAIN o = DOMAIN found \cup {Collection(path)}
  BY DEF Opening
<1>2. WellPlaced(NoEntity) /\ In(NoEntity) = {}
  <2>1. /\ NoEntity = [item |-> NoEntity.item, at |-> [r \in Roles |-> NoEntity.at[r]], extra |-> NoEntity.extra]
        /\ NoEntity.extra = <<>> /\ \A r \in Roles : NoEntity.at[r] = NoOp
    BY DEF NoEntity
  <2>2. Placed(NoEntity) = {} /\ Range(NoEntity.extra) = {}
    BY <2>1 DEF Placed, Range
  <2>3. NoEntity.extra \in Seq(Source)
    BY <2>1
  <2> QED
    BY <2>1, <2>2, <2>3 DEF WellPlaced, In
<1>3. ASSUME NEW e, WellPlaced(e)
      PROVE  WellPlaced(Itemed(e, path)) /\ In(Itemed(e, path)) = In(e)
  <2> DEFINE f == Itemed(e, path)
  <2>1. /\ f.extra = e.extra /\ f.at = e.at
        /\ f = [item |-> f.item, at |-> f.at, extra |-> f.extra]
        /\ f.at = [r \in Roles |-> f.at[r]]
    BY <1>3 DEF Itemed, WellPlaced
  <2> QED
    BY <1>3, <2>1 DEF WellPlaced, In, Placed
<1>4. ASSUME NEW c \in DOMAIN o
      PROVE  WellPlaced(o[c]) /\ In(o[c]) = IF c \in DOMAIN found THEN In(found[c]) ELSE {}
  <2>1. CASE c = Collection(path)
    <3>1. o[c] = Itemed(Known(found, c), path)
      BY <2>1 DEF Opening
    <3> QED
      BY <1>2, <1>3, <3>1 DEF Known
  <2>2. CASE c # Collection(path)
    BY <1>1, <2>2 DEF Opening
  <2> QED
    BY <2>1, <2>2
<1> QED
  BY <1>1, <1>4

-----------------------------------------------------------------------------
\* As many of a finite set of numbers come no later than one of them as stand in
\* one place of its order, and one number stands in every place.
LEMMA NthIsOne ==
  ASSUME NEW places, places \subseteq Nat, IsFiniteSet(places), NEW i \in 1 .. Cardinality(places)
  PROVE  /\ Nth(places, i) \in places
         /\ Cardinality({m \in places : m <= Nth(places, i)}) = i
<1> DEFINE upTo(n) == {m \in places : m <= n}
           rank == [n \in places |-> Cardinality(upTo(n))]
<1>1. ASSUME NEW n \in places
      PROVE  /\ IsFiniteSet(upTo(n)) /\ rank[n] = Cardinality(upTo(n))
             /\ rank[n] \in 1 .. Cardinality(places)
  <2>1. upTo(n) \subseteq places /\ n \in upTo(n)
    OBVIOUS
  <2>2. IsFiniteSet(upTo(n)) /\ Cardinality(upTo(n)) <= Cardinality(places)
    BY <2>1, FS_Subset
  <2>3. Cardinality(upTo(n)) \in Nat /\ Cardinality(places) \in Nat /\ Cardinality(upTo(n)) # 0
    BY <2>1, <2>2, FS_CardinalityType, FS_EmptySet
  <2> HIDE DEF upTo
  <2> QED
    BY <2>2, <2>3
<1>2. ASSUME NEW m \in places, NEW n \in places, m < n
      PROVE  rank[m] # rank[n]
  <2>1. upTo(m) \subseteq upTo(n) /\ n \in upTo(n) /\ n \notin upTo(m)
    <3>1. m \in Nat /\ n \in Nat /\ \A q \in places : q \in Nat
      OBVIOUS
    <3>2. \A q \in places : q <= m => q <= n
      BY <1>2, <3>1
    <3>3. n <= n /\ ~(n <= m)
      BY <1>2, <3>1
    <3> QED
      BY <3>2, <3>3
  <2> HIDE DEF upTo
  <2>2. Cardinality(upTo(n)) # Cardinality(upTo(m))
    BY <1>1, <2>1, FS_Subset
  <2> QED
    BY <1>1, <2>2
<1>3. \A m, n \in places : rank[m] = rank[n] => m = n
  BY <1>2
<1>4. rank \in Injection(places, 1 .. Cardinality(places))
  <2>1. rank \in [places -> 1 .. Cardinality(places)]
    BY <1>1
  <2> HIDE DEF rank
  <2> QED
    BY <1>3, <2>1 DEF Injection, IsInjective
<1>5. Cardinality(places) \in Nat
  BY FS_CardinalityType
<1>6. IsFiniteSet(1 .. Cardinality(places)) /\ Cardinality(1 .. Cardinality(places)) = Cardinality(places)
  BY <1>5, FS_Interval
<1>7. rank \in Surjection(places, 1 .. Cardinality(places))
  BY <1>4, <1>6, FS_Injection
<1>8. \E n \in places : rank[n] = i
  <2> HIDE DEF rank
  <2> QED
    BY <1>7 DEF Surjection
<1>9. \E n \in places : Cardinality({m \in places : m <= n}) = i
  BY <1>8
<1> QED
  BY <1>9 DEF Nth

\* What is in order holds each member of the set the order names, once, and
\* an earlier one before a later one.
LEMMA InOrderOnce ==
  ASSUME NEW S, NEW order, order \in Seq(Range(order)), \A i, j \in DOMAIN order : order[i] = order[j] => i = j,
         S \subseteq Range(order),
         NEW f, f = InOrder(S, order)
  PROVE  /\ f \in Seq(S) /\ Range(f) = S
         /\ \A i, j \in DOMAIN f : f[i] = f[j] => i = j
         /\ \A i, j \in DOMAIN f : i < j => Earlier(f[i], f[j], order)
<1> DEFINE places == Places(S, order)
           n == Cardinality(places)
           at(i) == Nth(places, i)
           upTo(q) == {m \in places : m <= q}
<1>1. Len(order) \in Nat /\ DOMAIN order = 1 .. Len(order)
  OBVIOUS
<1>2. /\ places \subseteq 1 .. Len(order) /\ places \subseteq Nat /\ IsFiniteSet(places) /\ n \in Nat
      /\ \A p \in places : p \in DOMAIN order /\ order[p] \in S
  <2>1. places \subseteq 1 .. Len(order) /\ \A p \in places : p \in DOMAIN order /\ order[p] \in S
    BY <1>1 DEF Places
  <2>2. IsFiniteSet(1 .. Len(order))
    BY <1>1, FS_Interval
  <2> HIDE DEF places
  <2>3. places \subseteq Nat
    BY <1>1, <2>1
  <2>4. IsFiniteSet(places)
    BY <2>1, <2>2, FS_Subset
  <2>5. n \in Nat
    BY <2>4, FS_CardinalityType
  <2> QED
    BY <2>1, <2>3, <2>4, <2>5
<1>3. DOMAIN f = 1 .. n /\ \A i \in 1 .. n : f[i] = order[at(i)]
  BY DEF InOrder
<1>p. \A p \in DOMAIN order : order[p] \in S => p \in places
  BY DEF Places
<1> HIDE DEF places
<1>4. \A i \in 1 .. n : at(i) \in places /\ Cardinality(upTo(at(i))) = i
  BY <1>2, NthIsOne
<1>u. \A q \in places : upTo(q) \subseteq places /\ q \in upTo(q) /\ IsFiniteSet(upTo(q))
  <2>1. ASSUME NEW q \in places PROVE upTo(q) \subseteq places /\ q \in upTo(q)
    BY <1>2
  <2> HIDE DEF upTo
  <2> QED
    BY <1>2, <2>1, FS_Subset
<1>v. \A q, r \in places : r <= q => upTo(r) \subseteq upTo(q)
  <2>1. \A p \in places : p \in Nat
    BY <1>2
  <2>2. \A q, r, p \in places : r <= q /\ p <= r => p <= q
    BY <2>1
  <2> QED
    BY <2>2
<1>w. \A q, r \in places : r \in upTo(q) => r <= q
  OBVIOUS
<1> HIDE DEF at, upTo
<1>5. \A i \in 1 .. n : f[i] \in S
  BY <1>2, <1>3, <1>4
<1>6. f \in Seq(S)
  <2>1. f = [i \in 1 .. n |-> order[Nth(places, i)]]
    BY DEF InOrder, places
  <2>2. f \in [1 .. n -> S]
    BY <1>3, <1>5, <2>1
  <2> QED
    BY <1>2, <2>2, SeqDef
<1>7. ASSUME NEW i \in DOMAIN f, NEW j \in DOMAIN f, f[i] = f[j]
      PROVE  i = j
  <2>1. at(i) = at(j)
    BY <1>2, <1>3, <1>4, <1>7
  <2> QED
    BY <1>3, <1>4, <2>1
<1>8. ASSUME NEW x \in S
      PROVE  x \in Range(f)
  <2>1. PICK p \in DOMAIN order : order[p] = x
    BY DEF Range
  <2>2. p \in places
    BY <1>p, <2>1
  <2>3. Cardinality(upTo(p)) \in 1 .. n
    <3>1. upTo(p) \subseteq places /\ p \in upTo(p)
      BY <1>u, <2>2
    <3>2. IsFiniteSet(upTo(p)) /\ Cardinality(upTo(p)) <= n
      BY <1>2, <3>1, FS_Subset
    <3>3. Cardinality(upTo(p)) \in Nat /\ Cardinality(upTo(p)) # 0
      BY <3>1, <3>2, FS_CardinalityType, FS_EmptySet
    <3> QED
      BY <1>2, <3>2, <3>3
  <2>4. PICK i \in 1 .. n : i = Cardinality(upTo(p))
    BY <2>3
  <2>5. Cardinality(upTo(at(i))) = Cardinality(upTo(p)) /\ at(i) \in places
    BY <1>4, <2>4
  <2>6. at(i) = p
    <3>1. at(i) \in Nat /\ p \in Nat
      BY <1>2, <2>2, <2>5
    <3>2. upTo(at(i)) \subseteq upTo(p) \/ upTo(p) \subseteq upTo(at(i))
      BY <1>v, <2>2, <2>5, <3>1
    <3>3. upTo(at(i)) = upTo(p)
      BY <1>u, <2>2, <2>5, <3>2, FS_Subset
    <3>4. at(i) <= p /\ p <= at(i)
      BY <1>u, <1>w, <2>2, <2>5, <3>3
    <3> QED
      BY <3>1, <3>4
  <2> QED
    BY <1>3, <2>1, <2>6 DEF Range
<1>9. ASSUME NEW i \in DOMAIN f, NEW j \in DOMAIN f, i < j
      PROVE  Earlier(f[i], f[j], order)
  <2>1. at(i) \in places /\ at(j) \in places /\ at(i) \in Nat /\ at(j) \in Nat
    BY <1>2, <1>3, <1>4
  <2>2. ASSUME at(j) <= at(i) PROVE FALSE
    <3>1. upTo(at(j)) \subseteq upTo(at(i))
      BY <1>v, <2>1, <2>2
    <3>2. Cardinality(upTo(at(j))) = j /\ Cardinality(upTo(at(i))) = i
      BY <1>3, <1>4
    <3>3. IsFiniteSet(upTo(at(i)))
      BY <1>u, <2>1
    <3>4. j <= i
      BY <3>1, <3>2, <3>3, FS_Subset
    <3> QED
      BY <1>3, <1>9, <3>4
  <2> QED
    BY <1>2, <1>3, <2>1, <2>2 DEF Earlier
<1>10. Range(f) = S
  BY <1>3, <1>5, <1>8 DEF Range
<1> QED
  BY <1>6, <1>7, <1>9, <1>10

\* A reference is read as a schema that refers there.
LEMMA Retargeted ==
  \A none, target, beside :
    [[type |-> none, ref |-> none, allOf |-> <<>>, items |-> none, values |-> none, union |-> <<>>,
      properties |-> <<>>, required |-> {}, flags |-> {}, extensions |-> <<>>]
      EXCEPT !.ref = target, !.extensions = beside].ref = target
OBVIOUS

\* A document that loads holds each path once, in the order of the paths, and of a
\* path an operation of each method at most, in the order of the methods and under
\* the path it was beside at, whatever order the author wrote them in; and every
\* reference a schema of it makes leads to a schema of it (paths, operation and
\* resolve, whose dangling pointers refuse the document).
THEOREM LoadedInOrder ==
  ASSUME NEW d \in Loadable
  PROVE  /\ d.paths \in Seq(Range(d.paths))
         /\ \A i, j \in DOMAIN d.paths : i < j => Earlier(d.paths[i].path, d.paths[j].path, Order)
         /\ \A i, j \in DOMAIN d.paths : d.paths[i].path = d.paths[j].path => i = j
         /\ \A p \in Range(d.paths) :
              /\ p.operations \in Seq(Range(p.operations))
              /\ \A op \in Range(p.operations) : op # NoOp /\ op.path = p.path /\ op.method \in Range(methods)
              /\ \A m, n \in DOMAIN p.operations :
                   m < n => Earlier(p.operations[m].method, p.operations[n].method, methods)
              /\ \A m, n \in DOMAIN p.operations : p.operations[m].method = p.operations[n].method => m = n
         /\ \A id \in DOMAIN d.schemas : d.schemas[id].ref # "" => d.schemas[id].ref \in DOMAIN d.schemas
<1>1. PICK w \in Documents : Loads(w) /\ d = Load(w)
  BY DEF Loadable
<1>2. d.paths = LoadedPaths(w) /\ d.schemas = [id \in Parsed(w) |-> schema(w.schemas[id])]
  BY <1>1 DEF Load
<1> DEFINE ps == InOrder(DOMAIN w.paths, Order)
<1>3. /\ ps \in Seq(DOMAIN w.paths) /\ Range(ps) = DOMAIN w.paths
      /\ \A i, j \in DOMAIN ps : ps[i] = ps[j] => i = j
      /\ \A i, j \in DOMAIN ps : i < j => Earlier(ps[i], ps[j], Order)
  BY DocumentsAssumption, InOrderOnce
<1>4. d.paths = [i \in DOMAIN ps |-> [path |-> ps[i], operations |-> OperationsOf(w, ps[i])]]
  BY <1>2 DEF LoadedPaths
<1> HIDE DEF ps
<1>5. /\ DOMAIN d.paths = DOMAIN ps /\ DOMAIN ps = 1 .. Len(ps) /\ Len(ps) \in Nat
      /\ \A i \in DOMAIN ps : /\ d.paths[i].path = ps[i] /\ ps[i] \in DOMAIN w.paths
                              /\ d.paths[i].operations = OperationsOf(w, ps[i])
  BY <1>3, <1>4
<1>6. d.paths \in Seq(Range(d.paths))
  <2>1. d.paths \in [1 .. Len(ps) -> Range(d.paths)]
    BY <1>4, <1>5 DEF Range
  <2> QED
    BY <1>5, <2>1, SeqDef
<1>7. ASSUME NEW p \in Range(d.paths)
      PROVE  /\ p.operations \in Seq(Range(p.operations))
             /\ \A op \in Range(p.operations) : op # NoOp /\ op.path = p.path /\ op.method \in Range(methods)
             /\ \A m, n \in DOMAIN p.operations :
                  m < n => Earlier(p.operations[m].method, p.operations[n].method, methods)
             /\ \A m, n \in DOMAIN p.operations : p.operations[m].method = p.operations[n].method => m = n
  <2>1. PICK path \in DOMAIN w.paths : p.path = path /\ p.operations = OperationsOf(w, path)
    BY <1>5, <1>7 DEF Range
  <2> DEFINE item == w.paths[path]
             ms == InOrder(DOMAIN item.operations, methods)
  <2>2. methods \in Seq(Range(methods)) /\ \A i, j \in DOMAIN methods : methods[i] = methods[j] => i = j
    <3>1. Len(methods) = 8 /\ DOMAIN methods = 1 .. 8
      BY DEF methods
    <3>2. \A i, j \in 1 .. 8 : methods[i] = methods[j] => i = j
      BY DEF methods
    <3>3. \A i \in 1 .. 8 : methods[i] \in Range(methods)
      BY <3>1 DEF Range
    <3>4. methods = [i \in 1 .. 8 |-> methods[i]]
      BY DEF methods
    <3>5. methods \in [1 .. 8 -> Range(methods)]
      BY <3>3, <3>4
    <3>6. [1 .. 8 -> Range(methods)] \in {[1 .. n -> Range(methods)] : n \in Nat}
      OBVIOUS
    <3> QED
      BY <3>1, <3>2, <3>5, <3>6, SeqDef
  <2>3. DOMAIN item.operations \subseteq Range(methods)
    BY DocumentsAssumption
  <2>4. /\ ms \in Seq(DOMAIN item.operations) /\ Range(ms) = DOMAIN item.operations
        /\ \A i, j \in DOMAIN ms : ms[i] = ms[j] => i = j
        /\ \A i, j \in DOMAIN ms : i < j => Earlier(ms[i], ms[j], methods)
    BY <2>2, <2>3, InOrderOnce
  <2>5. p.operations = [i \in DOMAIN ms |-> operation(w, path, ms[i], item.operations[ms[i]], item.parameters)]
    BY <2>1 DEF OperationsOf
  <2> HIDE DEF ms
  <2>6. /\ DOMAIN p.operations = DOMAIN ms /\ DOMAIN ms = 1 .. Len(ms) /\ Len(ms) \in Nat
        /\ \A i \in DOMAIN ms : /\ p.operations[i].method = ms[i] /\ p.operations[i].path = path
                                /\ ms[i] \in Range(methods)
    BY <2>3, <2>4, <2>5 DEF operation
  <2>7. p.operations \in Seq(Range(p.operations))
    <3>1. p.operations \in [1 .. Len(ms) -> Range(p.operations)]
      BY <2>5, <2>6 DEF Range
    <3> QED
      BY <2>6, <3>1, SeqDef
  <2>8. "" \notin Range(methods) /\ NoOp.method = ""
    <3>1. Range(methods) = {"GET", "PUT", "POST", "DELETE", "PATCH", "HEAD", "OPTIONS", "TRACE"}
      BY DEF methods, Range
    <3> QED
      BY <3>1, Zenon DEF NoOp
  <2>9. \A op \in Range(p.operations) : op # NoOp /\ op.path = p.path /\ op.method \in Range(methods)
    <3>1. ASSUME NEW op \in Range(p.operations)
          PROVE  op.path = p.path /\ op.method \in Range(methods)
      BY <2>1, <2>6 DEF Range
    <3> QED
      BY <2>8, <3>1, Zenon
  <2> QED
    BY <2>4, <2>6, <2>7, <2>9
<1>8. ASSUME NEW id \in DOMAIN d.schemas, d.schemas[id].ref # ""
      PROVE  d.schemas[id].ref \in DOMAIN d.schemas
  <2> DEFINE n == w.schemas[id]
  <2>1. id \in Parsed(w) /\ DOMAIN d.schemas = Parsed(w) /\ d.schemas[id] = schema(n)
    BY <1>2
  <2>2. n.kind # "scalar" /\ ByReference(n) /\ schema(n).ref = n.reference.name
    <3>1. Blank.ref = "" /\ Inlined(n).ref = ""
      BY Zenon DEF Blank, Inlined
    <3>2. schema(n).ref # ""
      BY <1>8, <2>1, Zenon
    <3>3. [Blank EXCEPT !.ref = n.reference.name, !.extensions = Flagging(n.extensions)].ref = n.reference.name
      BY Retargeted, Zenon DEF Blank
    <3> QED
      BY <3>1, <3>2, <3>3, Zenon DEF schema
  <2>3. SchemaFaults(w, n) = {}
    <3>1. NodeFaults(w) = {}
      BY <1>1 DEF Loads, Faults
    <3>2. SchemaFaults(w, n) \in {SchemaFaults(w, w.schemas[x]) : x \in Parsed(w)}
      BY <2>1
    <3> HIDE DEF n
    <3> QED
      BY <3>1, <3>2 DEF NodeFaults
  <2>4. n.kind = "mapping" /\ componentName(n.reference, "schemas", w.named) = {}
    BY <2>2, <2>3 DEF SchemaFaults, When
  <2>5. n.reference.name \in w.named
    BY <2>4 DEF componentName, When
  <2>6. w.named \ {""} \subseteq Parsed(w)
    BY DEF Parsed, Roots
  <2> QED
    BY <1>8, <2>1, <2>2, <2>5, <2>6
<1>9. /\ \A i, j \in DOMAIN d.paths : i < j => Earlier(d.paths[i].path, d.paths[j].path, Order)
      /\ \A i, j \in DOMAIN d.paths : d.paths[i].path = d.paths[j].path => i = j
  BY <1>3, <1>5
<1> QED
  BY <1>6, <1>7, <1>8, <1>9, Zenon

\* The operations of one path are different, and none is another path's.
LEMMA DocumentOnce ==
  ASSUME document \in Loadable
  PROVE  /\ document.paths \in Seq(Range(document.paths))
         /\ \A i, j \in DOMAIN document.paths : document.paths[i].path = document.paths[j].path => i = j
         /\ \A op \in Source : op # NoOp
         /\ \A p \in Range(document.paths) :
              /\ p.operations \in Seq(Source)
              /\ \A op \in Range(p.operations) : op.path = p.path
              /\ \A m, n \in DOMAIN p.operations : p.operations[m] = p.operations[n] => m = n
<1>1. ASSUME NEW p \in Range(document.paths)
      PROVE  /\ p.operations \in Seq(Source)
             /\ \A op \in Range(p.operations) : op # NoOp /\ op.path = p.path
             /\ \A m, n \in DOMAIN p.operations : p.operations[m] = p.operations[n] => m = n
  <2>1. /\ p.operations \in Seq(Range(p.operations))
        /\ \A op \in Range(p.operations) : op # NoOp /\ op.path = p.path
        /\ \A m, n \in DOMAIN p.operations : p.operations[m].method = p.operations[n].method => m = n
    BY LoadedInOrder
  <2>2. Range(p.operations) \subseteq Source
    BY DEF Source
  <2> QED
    BY <2>1, <2>2, SeqMonotonic
<1>2. /\ document.paths \in Seq(Range(document.paths))
      /\ \A i, j \in DOMAIN document.paths : document.paths[i].path = document.paths[j].path => i = j
  BY LoadedInOrder
<1>3. \A op \in Source : op # NoOp
  BY <1>1 DEF Source
<1> QED
  BY <1>1, <1>2, <1>3

LEMMA CarryingInit == Init => Carrying
<1> SUFFICES ASSUME Init PROVE Carrying
  OBVIOUS
<1> USE DEF Init
<1>1. Unfiled
  <2>1. Range(operations) = {}
    BY DEF Range
  <2> QED
    BY <2>1, DocumentOnce DEF Unfiled
<1>2. Gathered
  BY DEF Gathered, Left, Waiting, Source
<1>3. DecidedOnAll
  <2>1. <<>> \in Seq(Range(<<>>))
    OBVIOUS
  <2> QED
    BY <2>1 DEF DecidedOnAll
<1> QED
  BY <1>1, <1>2, <1>3 DEF Carrying

\* A path's entity opens with its operations left.
LEMMA GatherCarries == Carrying /\ Gather => Carrying'
<1> SUFFICES ASSUME Carrying, Gather PROVE Carrying'
  OBVIOUS
<1> DEFINE p == Head(paths)
<1> USE DEF Carrying
<1>0. /\ document \in Loadable /\ paths \in Seq(Range(document.paths)) /\ paths # <<>>
      /\ operations = <<>> /\ operations' = p.operations /\ paths' = Tail(paths)
      /\ found' = Opening(found, p.path) /\ document' = document
  BY DEF Gather, Unfiled
<1>1. /\ p = paths[1] /\ 1 \in DOMAIN paths /\ p \in Range(document.paths)
      /\ paths' \in Seq(Range(document.paths))
      /\ \A i \in DOMAIN paths' : i + 1 \in DOMAIN paths /\ paths'[i] = paths[i + 1] /\ i \in Nat
      /\ Range(paths) = {p} \cup Range(paths') /\ Range(paths') \subseteq Range(document.paths)
  <2> HIDE DEF p
  <2>1. Head(paths) \in Range(document.paths)
    BY <1>0
  <2> QED
    BY <1>0, <2>1, HeadAndTail, RangeOfSeq DEF p
<1>2. /\ p.operations \in Seq(Source) /\ Source' = Source
      /\ \A op \in Range(p.operations) : op.path = p.path
      /\ \A m, n \in DOMAIN p.operations : p.operations[m] = p.operations[n] => m = n
  BY <1>0, <1>1, DocumentOnce DEF Source
<1>3. DOMAIN found' = DOMAIN found \cup {Collection(p.path)}
  BY <1>0, OpenedWhole DEF Gathered
<1>4. Left' = Left
  <2>1. Range(operations) = {}
    BY <1>0 DEF Range
  <2> QED
    BY <1>0, <1>1, <2>1 DEF Left, Waiting
<1>5. \A q \in Range(paths') : q.path # p.path
  <2>1. \A i \in DOMAIN paths' : paths[i + 1].path # paths[1].path
    BY <1>1 DEF Unfiled
  <2> QED
    BY <1>1, <2>1 DEF Range
<1>6. Unfiled'
  <2>1. \A i, j \in DOMAIN paths' : paths'[i].path = paths'[j].path => i = j
    BY <1>1 DEF Unfiled
  <2>2. Range(operations') \cap Waiting' = {}
    BY <1>0, <1>1, <1>2, <1>5, DocumentOnce DEF Waiting
  <2> QED
    BY <1>0, <1>1, <1>2, <1>3, <2>1, <2>2 DEF Unfiled
<1>7. Gathered'
  <2>1. \A c \in DOMAIN found' : WellPlaced(found'[c]) /\ In(found'[c]) \cap Left = {}
    BY <1>0, <1>3, OpenedWhole DEF Gathered
  <2>2. \A e : WellPlaced(e)' <=> WellPlaced(e)
    BY <1>2 DEF WellPlaced
  <2>3. ASSUME NEW op \in Source \ Left
        PROVE  Collection(op.path) \in DOMAIN found' /\ op \in In(found'[Collection(op.path)])
    BY <1>0, <1>3, OpenedWhole DEF Gathered
  <2> QED
    BY <1>2, <1>4, <2>1, <2>2, <2>3 DEF Gathered, WellPlaced
<1>8. DecidedOnAll'
  BY <1>3 DEF Gather, naming, DecidedOnAll
<1> QED
  BY <1>6, <1>7, <1>8

\* An operation follows into its entity.
LEMMA AssignCarries == Carrying /\ Assign => Carrying'
<1> SUFFICES ASSUME Carrying, Assign PROVE Carrying'
  OBVIOUS
<1> DEFINE op == Head(operations)
           at == Collection(op.path)
<1> USE DEF Carrying
<1>0. /\ document \in Loadable /\ operations \in Seq(Source) /\ operations # <<>>
      /\ operations' = Tail(operations) /\ paths' = paths /\ document' = document
      /\ found' = [found EXCEPT ![at] = assign(@, op)]
  BY DEF Assign, Unfiled
<1>1. /\ op = operations[1] /\ 1 \in DOMAIN operations /\ op \in Range(operations) /\ op \in Source
      /\ operations' \in Seq(Source)
      /\ \A i \in DOMAIN operations' :
           i + 1 \in DOMAIN operations /\ operations'[i] = operations[i + 1] /\ i \in Nat
      /\ Range(operations) = {op} \cup Range(operations')
  <2>1. Head(operations) \in Source
    BY <1>0
  <2> QED
    BY <1>0, <2>1, HeadAndTail
<1>2. Source' = Source /\ Waiting' = Waiting /\ op # NoOp
  BY <1>0, <1>1, DocumentOnce DEF Source, Waiting
<1>3. op \notin Range(operations') /\ op \notin Waiting
  <2>1. \A i \in DOMAIN operations' : operations[i + 1] # operations[1]
    BY <1>1 DEF Unfiled
  <2> QED
    BY <1>1, <2>1 DEF Range, Unfiled
<1>4. Left' = Left \ {op}
  BY <1>0, <1>1, <1>2, <1>3 DEF Left
<1>5. at \in DOMAIN found /\ DOMAIN found' = DOMAIN found
  BY <1>0, <1>1 DEF Unfiled
<1>6. /\ found'[at] = assign(found[at], op)
      /\ \A c \in DOMAIN found : c # at => found'[c] = found[c]
  BY <1>0, <1>5
<1>7. op \notin In(found[at]) /\ op \in Left
  BY <1>1, <1>5 DEF Gathered, Left
<1>8. WellPlaced(found'[at]) /\ In(found'[at]) = In(found[at]) \cup {op}
  BY <1>1, <1>2, <1>5, <1>6, <1>7, FiledOnce DEF Gathered
<1>9. Unfiled'
  <2>1. \A m, n \in DOMAIN operations' : operations'[m] = operations'[n] => m = n
    BY <1>1 DEF Unfiled
  <2> QED
    BY <1>0, <1>1, <1>2, <1>5, <2>1 DEF Unfiled
<1>10. Gathered'
  <2>1. \A c \in DOMAIN found' : WellPlaced(found'[c]) /\ In(found'[c]) \cap Left' = {}
    BY <1>4, <1>5, <1>6, <1>8 DEF Gathered
  <2>2. ASSUME NEW o \in Source \ Left'
        PROVE  Collection(o.path) \in DOMAIN found' /\ o \in In(found'[Collection(o.path)])
    BY <1>4, <1>5, <1>6, <1>8 DEF Gathered
  <2> QED
    BY <1>2, <2>1, <2>2 DEF Gathered, WellPlaced
<1>11. DecidedOnAll'
  BY <1>0, <1>5 DEF Assign, naming, DecidedOnAll
<1> QED
  BY <1>9, <1>10, <1>11

\* The entities are decided once nothing is left.
LEMMA SortCarries == Carrying /\ Sort => Carrying'
<1> SUFFICES ASSUME Carrying, Sort PROVE Carrying'
  OBVIOUS
<1>1. UNCHANGED <<document, paths, operations, found, kept>> /\ undecided' = DOMAIN found
      /\ paths = <<>> /\ operations = <<>> /\ phase = "gather" /\ phase' = "name"
  BY DEF Sort, gathering
<1>2. Source' = Source /\ Left' = Left
  BY <1>1 DEF Source, Left, Waiting
<1>3. Unfiled'
  BY <1>1, <1>2 DEF Carrying, Unfiled, Waiting
<1>4. Gathered'
  BY <1>1, <1>2 DEF Carrying, Gathered, WellPlaced
<1>5. DecidedOnAll'
  BY <1>1 DEF Carrying, DecidedOnAll
<1> QED
  BY <1>3, <1>4, <1>5 DEF Carrying

\* Keeping an entity, or not, leaves what was kept before.
LEMMA KeptGrows ==
  ASSUME kept \in Seq(Range(kept)), NEW c \in undecided, Name(c), kept' # kept
  PROVE  LET one == KeptAs(c, disambiguateKey(deriveKey(c), c))
         IN /\ kept' \in Seq(Range(kept')) /\ kept'[Len(kept) + 1] = one
            /\ DOMAIN kept' = DOMAIN kept \cup {Len(kept) + 1} /\ Len(kept) + 1 \notin DOMAIN kept
            /\ \A i \in DOMAIN kept : kept'[i] = kept[i]
<1> DEFINE one == KeptAs(c, disambiguateKey(deriveKey(c), c))
<1>1. kept' = Append(kept, one)
  BY DEF Name, Claim
<1> HIDE DEF one
<1>2. kept \in Seq(Range(kept) \cup {one})
  BY SeqMonotonic
<1>3. /\ Append(kept, one) \in Seq(Range(kept) \cup {one})
      /\ Range(Append(kept, one)) = Range(kept) \cup {one}
  BY <1>2, AppendedRange
<1> QED
  BY <1>1, <1>2, <1>3, AppendedRange DEF one

\* Deciding what an entity can become gives each of its operations a role or
\* leaves it among the extra ones, but for the item write of a singleton.
LEMMA DecisionKeeps ==
  ASSUME NEW e, WellPlaced(e), document \in Loadable, NEW c, c.class = decide(e)
  PROVE  KeepsAll(c, e)
<1> DEFINE f == Arranged(e)
<1>0. /\ \A r \in Roles : At(c, r) = f.at[r]
      /\ c.class.extra = f.extra /\ c.class.singleton = singletonOK(e)
      /\ Held(c) = Placed(f)
  BY DEF decide, At, Held, Placed
<1>1. \A r, q \in Roles : r # q /\ e.at[r] = e.at[q] => e.at[r] = NoOp
  BY DEF WellPlaced
<1>2. NoOp \notin Range(e.extra) /\ NoOp \notin Source
  BY DocumentOnce, RangeOfSeq DEF WellPlaced
<1>3. CASE singletonOK(e)
  <2>1. /\ f.extra = e.extra
        /\ f.at = [r \in Roles |-> IF r = "read" THEN e.at["list"]
                                    ELSE IF r = "update" THEN e.at["collectionWrite"]
                                    ELSE IF r \in {"list", "collectionWrite"} THEN NoOp ELSE e.at[r]]
    BY <1>3 DEF Arranged, WellPlaced, Roles
  <2>2. e.at["read"] = NoOp
    BY <1>3 DEF singletonOK, hasSingletonOperations, hasListOnlyOperations, Has
  <2>3. Placed(f) = Placed(e) \ {e.at["update"]}
    BY <1>1, <2>1, <2>2 DEF Placed, Roles
  <2>4. e.at["update"] # NoOp => LostBySingleton(c, e.at["update"])
    BY <1>0, <1>3 DEF WellPlaced, Position, LostBySingleton, Roles
  <2>5. \A r, q \in Roles : r # q /\ f.at[r] = f.at[q] => f.at[r] = NoOp
    BY <1>1, <2>1, <2>2 DEF Roles
  <2>6. \A op \in In(e) : op \in Placed(f) \cup Range(f.extra) \/ (op # NoOp /\ op = e.at["update"])
    BY <2>1, <2>3 DEF In, WellPlaced, Placed
  <2>7. Placed(f) \cap Range(f.extra) = {}
    BY <2>1, <2>3 DEF WellPlaced
  <2> HIDE DEF f
  <2> QED
    BY <1>0, <2>4, <2>5, <2>6, <2>7 DEF KeepsAll
<1>4. CASE ~singletonOK(e) /\ loneWrite(e)
  <2>1. /\ f.extra = e.extra
        /\ f.at = [r \in Roles |-> IF r = "create" THEN firstOf(e.at["update"], e.at["collectionWrite"])
                                    ELSE IF r \in {"update", "collectionWrite"} THEN NoOp ELSE e.at[r]]
    BY <1>4 DEF Arranged, WellPlaced, Roles
  <2>2. /\ \A r \in {"create", "read", "list", "delete"} : e.at[r] = NoOp
        /\ e.at["update"] = NoOp \/ e.at["collectionWrite"] = NoOp
    BY <1>4 DEF loneWrite, Idle, Has
  <2>3. Placed(f) = Placed(e)
    BY <2>1, <2>2 DEF Placed, Roles, firstOf
  <2>4. \A r, q \in Roles : r # q /\ f.at[r] = f.at[q] => f.at[r] = NoOp
    BY <1>1, <2>1, <2>2 DEF Roles
  <2> QED
    BY <1>0, <2>1, <2>3, <2>4 DEF In, WellPlaced, KeepsAll
<1>5. CASE ~singletonOK(e) /\ ~loneWrite(e)
  <2>1. /\ f.extra = IF Has(e, "collectionWrite") THEN Append(e.extra, e.at["collectionWrite"]) ELSE e.extra
        /\ f.at = [r \in Roles |-> IF r = "collectionWrite" THEN NoOp ELSE e.at[r]]
    BY <1>5 DEF Arranged, WellPlaced, Roles
  <2>2. Placed(f) = Placed(e) \ {e.at["collectionWrite"]}
    BY <1>1, <2>1 DEF Placed, Roles
  <2>3. Range(f.extra) = Range(e.extra) \cup ({e.at["collectionWrite"]} \ {NoOp})
    <3>1. CASE Has(e, "collectionWrite")
      BY <2>1, <3>1, AppendedRange DEF Has, WellPlaced, Roles
    <3>2. CASE ~Has(e, "collectionWrite")
      BY <2>1, <3>2 DEF Has
    <3> QED
      BY <3>1, <3>2
  <2>4. \A r, q \in Roles : r # q /\ f.at[r] = f.at[q] => f.at[r] = NoOp
    BY <1>1, <2>1
  <2>5. Placed(f) \cap Range(f.extra) = {}
    BY <2>2, <2>3 DEF WellPlaced, Placed
  <2>6. \A op \in In(e) : op \in Placed(f) \cup Range(f.extra)
    BY <2>2, <2>3 DEF In, Placed
  <2> QED
    BY <1>0, <2>4, <2>5, <2>6 DEF KeepsAll
<1> QED
  BY <1>3, <1>4, <1>5

LEMMA DecideCarries ==
  ASSUME Carrying, NEW c \in undecided, Refuse(c) \/ Name(c)
  PROVE  Carrying'
<1>1. /\ UNCHANGED <<document, paths, operations, found, phase>> /\ undecided' = undecided \ {c}
      /\ phase = "name"
  BY DEF Refuse, Name, Turn, gathering
<1>2. Source' = Source /\ Left' = Left
  BY <1>1 DEF Source, Left, Waiting
<1>3. Unfiled'
  BY <1>1, <1>2 DEF Carrying, Unfiled, Waiting
<1>4. Gathered'
  BY <1>1, <1>2 DEF Carrying, Gathered, WellPlaced
<1>5. DecidedOnAll'
  <2>1. ASSUME kept' = kept
        PROVE  DecidedOnAll'
    BY <1>1, <2>1 DEF Carrying, DecidedOnAll
  <2>2. CASE Refuse(c)
    BY <2>1, <2>2 DEF Refuse
  <2>3. CASE Name(c) /\ kept' # kept
    <3> DEFINE n == Len(kept) + 1
    <3>1. /\ kept' \in Seq(Range(kept'))
          /\ DOMAIN kept' = DOMAIN kept \cup {n}
          /\ \A i \in DOMAIN kept : kept'[i] = kept[i]
          /\ kept'[n].collection = c /\ kept'[n].class = decide(found[c])
      <4>1. kept \in Seq(Range(kept))
        BY DEF Carrying, DecidedOnAll
      <4>2. Name(c) /\ kept' # kept
        BY <2>3
      <4>3. /\ kept' \in Seq(Range(kept')) /\ DOMAIN kept' = DOMAIN kept \cup {n}
            /\ kept'[n] = KeptAs(c, disambiguateKey(deriveKey(c), c))
            /\ \A i \in DOMAIN kept : kept'[i] = kept[i]
        BY <4>1, <4>2, KeptGrows
      <4> QED
        BY <4>3 DEF KeptAs
    <3> HIDE DEF n
    <3>2. c \in DOMAIN found /\ WellPlaced(found[c]) /\ document \in Loadable
      BY DEF Carrying, DecidedOnAll, Gathered, Unfiled
    <3>3. KeepsAll(kept'[n], found[c])
      BY <3>1, <3>2, DecisionKeeps
    <3>4. \A i \in DOMAIN kept' : /\ kept'[i].collection \in DOMAIN found
                                 /\ KeepsAll(kept'[i], found[kept'[i].collection])
      BY <3>1, <3>2, <3>3 DEF Carrying, DecidedOnAll
    <3> QED
      BY <1>1, <3>1, <3>4 DEF Carrying, DecidedOnAll
  <2> QED
    BY <2>1, <2>2, <2>3
<1> QED
  BY <1>3, <1>4, <1>5 DEF Carrying

\* Nothing the derivation does from there on touches what was gathered.
LEMMA BuildCarries ==
  ASSUME Carrying, Note \/ Begin \/ Grow \/ Finish \/ Done \/ UNCHANGED vars
  PROVE  Carrying'
<1>1. /\ UNCHANGED <<document, paths, operations, found, undecided, kept>>
      /\ phase' # "gather" <=> phase # "gather"
  BY DEF Note, Begin, Grow, Finish, Done, vars, gathering, naming
<1>2. Source' = Source /\ Left' = Left
  BY <1>1 DEF Source, Left, Waiting
<1>3. Unfiled'
  BY <1>1, <1>2 DEF Carrying, Unfiled, Waiting
<1>4. Gathered'
  BY <1>1, <1>2 DEF Carrying, Gathered, WellPlaced
<1>5. DecidedOnAll'
  BY <1>1 DEF Carrying, DecidedOnAll
<1> QED
  BY <1>3, <1>4, <1>5 DEF Carrying

LEMMA CarryingStep == Carrying /\ [Next]_vars => Carrying'
BY GatherCarries, AssignCarries, SortCarries, DecideCarries, BuildCarries DEF Next, Finished

-----------------------------------------------------------------------------
LEMMA CarriedThen == Carrying => EveryOperationCarried
<1> SUFFICES ASSUME Carrying, Named, NEW i \in DOMAIN kept
             PROVE  LET c == kept[i]
                        extra == Range(c.class.extra)
                    IN /\ \A op \in OperationsAt(c.collection) : op \in Held(c) \cup extra \/ LostBySingleton(c, op)
                       /\ Held(c) \cap extra = {}
                       /\ \A r, q \in Roles : r # q /\ At(c, r) = At(c, q) => At(c, r) = NoOp
  BY DEF EveryOperationCarried
<1> DEFINE c == kept[i]
           e == found[c.collection]
<1>1. /\ c.collection \in DOMAIN found /\ KeepsAll(c, e) /\ document \in Loadable
      /\ \A op \in Source : Collection(op.path) = c.collection => op \in In(e)
  <2>1. Left = {}
    BY DEF Carrying, DecidedOnAll, Named, Left, Waiting, Range
  <2> QED
    BY <2>1 DEF Carrying, DecidedOnAll, Gathered, Unfiled
<1> HIDE DEF e, c
<1>2. OperationsAt(c.collection) \subseteq In(e)
  <2>1. ASSUME NEW op \in OperationsAt(c.collection)
        PROVE  op \in Source /\ Collection(op.path) = c.collection
    <3>1. PICK p \in Range(document.paths) : Collection(p.path) = c.collection /\ op \in Range(p.operations)
      BY DEF OperationsAt
    <3>2. op.path = p.path /\ op \in Source
      BY <1>1, <3>1, DocumentOnce DEF Source
    <3> QED
      BY <3>1, <3>2
  <2> QED
    BY <1>1, <2>1
<1> QED
  BY <1>1, <1>2 DEF c, KeepsAll

\* Every operation of a kept entity's paths is in one role or among the extra
\* ones once the entities are named, whatever the document declares at its
\* paths and in whatever order, the item write beside a singleton excepted.
THEOREM NoOperationIsDropped == Spec => []EveryOperationCarried
<1>1. Spec => []Carrying
  BY CarryingInit, CarryingStep, PTL DEF Spec
<1> QED
  BY <1>1, CarriedThen, PTL

-----------------------------------------------------------------------------
(***************************************************************************)
(* The keys the entities answer to.                                        *)
(***************************************************************************)
\* A kept entity holds the claim on its key, and no two hold one.
Keyed ==
  /\ kept \in Seq(Range(kept))
  /\ \A i \in DOMAIN kept : /\ kept[i].key \in DOMAIN claimed /\ claimed[kept[i].key] = kept[i].collection
                            /\ kept[i].original = deriveKey(kept[i].collection)
  /\ \A i, j \in DOMAIN kept : kept[i].key = kept[j].key => i = j

\* The notes are of the entities kept.
Annotated ==
  Named => notes = [k \in KeysOf(DOMAIN kept) |-> UNION {Noted(i) : i \in {j \in DOMAIN kept : kept[j].key = k}}]

\* The ordinal taken is one that is free.
LEMMA OrdinalIsFree ==
  ASSUME NEW key, Free(key) # {}
  PROVE  Ordinal(key) \in Free(key)
<1> DEFINE Below == OpToRel(<, Nat)
<1>1. IsWellFoundedOn(Below, Nat)
  BY NatLessThanWellFounded
<1>2. Free(key) \subseteq Nat
  BY NumeralsAssumption DEF Free
<1> HIDE DEF Below
<1>3. PICK x \in Free(key) : \A y \in Free(key) : ~(<<y, x>> \in Below)
  BY <1>1, <1>2, WFMin
<1>4. \A y \in Free(key) : ~(y < x)
  BY <1>2, <1>3 DEF Below, OpToRel
<1>5. \A y \in Free(key) : x <= y
  BY <1>2, <1>4
<1> QED
  BY <1>5 DEF Ordinal

\* What a colliding key becomes nobody has claimed.
LEMMA Unclaimed ==
  ASSUME NEW key, NEW path, Countable(key, path)
  PROVE  disambiguateKey(key, path) \notin DOMAIN claimed
<1> DEFINE candidate == Contended(key, path)
<1>1. CASE key \notin DOMAIN claimed
  BY <1>1 DEF disambiguateKey
<1>2. CASE key \in DOMAIN claimed
  <2>1. Numbered(candidate, Ordinal(candidate)) \notin DOMAIN claimed
    BY <1>2, OrdinalIsFree DEF Countable, Free
  <2> QED
    BY <1>2, <2>1 DEF disambiguateKey, Freed
<1> QED
  BY <1>1, <1>2

LEMMA KeyedStep == Keyed /\ [Next]_vars => Keyed'
<1> SUFFICES ASSUME Keyed, [Next]_vars PROVE Keyed'
  OBVIOUS
<1>1. CASE UNCHANGED <<kept, claimed>>
  BY <1>1 DEF Keyed
<1>2. ASSUME NEW c \in undecided, Name(c)
      PROVE  Keyed'
  <2> DEFINE key == disambiguateKey(deriveKey(c), c)
             n == Len(kept) + 1
  <2>1. key \notin DOMAIN claimed
    BY <1>2, Unclaimed DEF Name
  <2>2. claimed' = Entered(claimed, key, c)
    BY <1>2 DEF Name, Claim
  <2> HIDE DEF key
  <2>3. /\ DOMAIN claimed' = DOMAIN claimed \cup {key} /\ claimed'[key] = c
        /\ \A k \in DOMAIN claimed : claimed'[k] = claimed[k]
    BY <2>1, <2>2 DEF Entered
  <2>4. CASE kept' = kept
    BY <2>3, <2>4 DEF Keyed
  <2>5. CASE kept' # kept
    <3>1. /\ kept' \in Seq(Range(kept')) /\ DOMAIN kept' = DOMAIN kept \cup {n} /\ n \notin DOMAIN kept
          /\ \A i \in DOMAIN kept : kept'[i] = kept[i]
          /\ kept'[n] = KeptAs(c, key)
      BY <1>2, <2>5, KeptGrows DEF Keyed, key
    <3> HIDE DEF n
    <3>2. kept'[n].key = key /\ kept'[n].collection = c /\ kept'[n].original = deriveKey(c)
      BY <3>1 DEF KeptAs
    <3> QED
      BY <2>1, <2>3, <3>1, <3>2 DEF Keyed
  <2> QED
    BY <2>4, <2>5
<1>3. CASE Gather \/ Assign \/ Sort \/ Note \/ Begin \/ Grow \/ Finish \/ Done
  BY <1>1, <1>3 DEF Gather, Assign, Sort, Note, Begin, Grow, Finish, Done, naming
<1>4. ASSUME NEW c \in undecided, Refuse(c)
      PROVE  Keyed'
  BY <1>1, <1>4 DEF Refuse
<1> QED
  BY <1>1, <1>2, <1>3, <1>4 DEF Next, Finished, vars, naming

LEMMA AnnotatedStep == Annotated /\ [Next]_vars => Annotated'
<1> SUFFICES ASSUME Annotated, [Next]_vars PROVE Annotated'
  OBVIOUS
<1>1. CASE Note
  BY <1>1 DEF Note, naming, Annotated, KeysOf, Noted, Family
<1>2. CASE UNCHANGED <<kept, notes>> /\ (Named' => Named)
  BY <1>2 DEF Annotated, KeysOf, Noted, Family
<1>3. CASE Gather \/ Assign \/ Sort \/ \E c \in undecided : Refuse(c) \/ Name(c)
  <2>1. ~Named'
    BY <1>3 DEF Gather, Assign, Sort, Refuse, Name, Turn, Named
  <2> QED
    BY <2>1 DEF Annotated
<1>4. CASE Begin \/ Grow \/ Finish \/ Done
  BY <1>2, <1>4 DEF Begin, Grow, Finish, Done, naming, Named
<1> QED
  BY <1>1, <1>2, <1>3, <1>4 DEF Next, Finished, vars, naming, Named

LEMMA ApartThen == Keyed /\ Annotated => FamiliesApart
<1> SUFFICES ASSUME Keyed, Annotated, Named, NEW i \in DOMAIN kept, NEW j \in DOMAIN kept
             PROVE  /\ claimed[kept[i].key] = kept[i].collection
                    /\ i # j => /\ kept[i].key # kept[j].key
                                /\ kept[j].key \in notes[kept[i].key]
                                   <=> deriveKey(kept[i].collection) = deriveKey(kept[j].collection)
  BY DEF FamiliesApart
<1>1. {h \in DOMAIN kept : kept[h].key = kept[i].key} = {i}
  BY DEF Keyed
<1>2. kept[i].key \in KeysOf(DOMAIN kept)
  BY DEF KeysOf
<1>3. notes[kept[i].key] = Noted(i)
  BY <1>1, <1>2 DEF Annotated
<1>4. kept[j].key \in Noted(i) <=> j \in Family(i) \ {i}
  BY DEF Keyed, Noted, KeysOf, Family
<1>5. j \in Family(i) <=> deriveKey(kept[i].collection) = deriveKey(kept[j].collection)
  BY DEF Keyed, Family
<1> QED
  BY <1>3, <1>4, <1>5 DEF Keyed

\* However many paths derive one key, and whatever the ordinals and the words
\* that would tell them apart have already been claimed by: no two entities
\* answer to one key, and each names exactly the others of its family.
THEOREM NoKeyIsShared == Spec => []FamiliesApart
<1>1. Init => Keyed /\ Annotated
  <2>1. <<>> \in Seq(Range(<<>>))
    OBVIOUS
  <2> QED
    BY <2>1 DEF Init, Keyed, Annotated, Named
<1>2. Spec => [](Keyed /\ Annotated)
  BY <1>1, KeyedStep, AnnotatedStep, PTL DEF Spec
<1> QED
  BY <1>2, ApartThen, PTL

-----------------------------------------------------------------------------
(***************************************************************************)
(* The names one level of a schema declares.                               *)
(***************************************************************************)
Lies(a)  == {"under", "name", "wire", "presence"} \subseteq DOMAIN a
OneName(t) == \A a, x \in t : a.under = x.under /\ a.name = x.name => a = x
Names(o)   == NamesOf(o.create) \cup NamesOf(o.read)
ShapeOf(o, n) == deriveType(Governing(Seen(o, n)), BelowOf(Seen(o, n), Presence(o, n, Seen(o, n))))

\* What the document has to keep apart: no object spells two properties, and no
\* union two branches, so that they are named alike; and no argument of a
\* companion is called what its list of objects is called, which nothing in the
\* code looks for.
SpelledApart ==
  /\ \A o \in work :
       /\ \A n, m \in Names(o) : WordsOf[n] = WordsOf[m] => n = m
       /\ \A n \in Names(o) : \A b, d \in Range(ShapeOf(o, n).variants) :
            WordsOf[Own(b).ref] = WordsOf[Own(d).ref] => b = d
  /\ phase = "grow" /\ Kind = "datasource" /\ ~Entity.class.lookupByKey =>
       \A a \in Arguments(Entity, WithID(Entity, tree)) : a.name # WordsOf["items"]

Sequential(u) == u \in Seq(Range(u))
Below(u, v)   == Len(u) <= Len(v) /\ \A i \in 1 .. Len(u) : u[i] = v[i]

\* The objects to be opened lie beneath nothing of each other's, nor of the tree.
Frontier(objects, t) ==
  /\ \A o \in objects : Sequential(o.under)
  /\ \A a \in t : Sequential(a.under) /\ Lies(a)
  /\ \A o, p \in objects : Below(o.under, p.under) => o = p
  /\ \A o \in objects : \A a \in t : ~Below(o.under, a.under)
  /\ OneName(t)

NamedOnce == Frontier(work, tree) /\ OneNameEach

\* One step down.
LEMMA Deeper ==
  ASSUME NEW u, Sequential(u), NEW x
  PROVE  /\ Sequential(Append(u, x)) /\ Len(u) \in Nat /\ Len(Append(u, x)) = Len(u) + 1
         /\ Below(u, Append(u, x)) /\ Append(u, x)[Len(u) + 1] = x
<1>1. u \in Seq(Range(u) \cup {x})
  BY SeqMonotonic DEF Sequential
<1>2. /\ Append(u, x) \in Seq(Range(u) \cup {x})
      /\ Range(Append(u, x)) = Range(u) \cup {x}
  BY <1>1, AppendedRange
<1>3. /\ Len(Append(u, x)) = Len(u) + 1 /\ Len(u) \in Nat
      /\ \A i \in 1 .. Len(u) : Append(u, x)[i] = u[i]
      /\ Append(u, x)[Len(u) + 1] = x
  BY <1>1, AppendProperties
<1> QED
  BY <1>2, <1>3 DEF Sequential, Below

\* What lies beneath what.
LEMMA BelowOrder ==
  ASSUME NEW u, NEW v, NEW w, Sequential(u), Sequential(v), Sequential(w)
  PROVE  /\ Below(u, u)
         /\ Below(u, v) /\ Below(v, w) => Below(u, w)
         /\ Below(u, w) /\ Below(v, w) => Below(u, v) \/ Below(v, u)
<1>1. Len(u) \in Nat /\ Len(v) \in Nat /\ Len(w) \in Nat
  BY DEF Sequential
<1> QED
  BY <1>1 DEF Below

\* A shape nests an object or has variants, and never both.
LEMMA NestsOrVaries ==
  ASSUME NEW id, NEW s
  PROVE  deriveType(id, s).nests => Range(deriveType(id, s).variants) = {}
<1> DEFINE d == deriveType(id, s)
           type == TypeOf(id)
<1>1. \A cause : ~Refused(cause).nests /\ Refused(cause).variants = <<>>
  BY DEF Refused
<1>2. Range(<<>>) = {}
  BY DEF Range
<1>3. \A t : ~Plain(t).nests
  BY DEF Plain, Refused
<1>4. \A x : Object(x).variants = <<>>
  BY DEF Object, Refused
<1>5. \A container, e : AsCollection(container, e).variants = <<>>
  BY <1>1 DEF AsCollection, Refused
<1>6. \A branches, x : ~deriveUnionType(branches, x).nests
  BY <1>1 DEF deriveUnionType, Refused
<1>7. \A i, x : deriveMapType(i, x).variants = <<>>
  BY <1>1, <1>5 DEF deriveMapType
<1>8. /\ ~Plain(type).nests
      /\ AsCollection("list", deriveElement[<<"list", EachItem(s)>>]).variants = <<>>
      /\ Object(s).variants = <<>> /\ deriveMapType(id, s).variants = <<>>
      /\ ~deriveUnionType(Branches(View(id)), s).nests
      /\ ~Refused("undeclaredType").nests /\ ~Refused("unsupportedType").nests
  BY <1>1, <1>3, <1>4, <1>5, <1>6, <1>7
<1>9. \/ d = Plain(type) \/ d = AsCollection("list", deriveElement[<<"list", EachItem(s)>>])
      \/ d = Object(s) \/ d = deriveMapType(id, s) \/ d = deriveUnionType(Branches(View(id)), s)
      \/ d = Refused("undeclaredType") \/ d = Refused("unsupportedType")
  BY DEF deriveType, TypedAs
<1> HIDE DEF d
<1>10. d.nests => Range(d.variants) = {}
  BY <1>2, <1>8, <1>9
<1> QED
  BY <1>10 DEF d

\* What opening an object makes of one of its properties.
Main(o, n) ==
  LET s == Seen(o, n)
      presence == Presence(o, n, s)
      shape == ShapeOf(o, n)
  IN [[Attribute(o.under, n, serverFilled(o, presence)) EXCEPT !.replace = RequiresReplace(o, s, presence)]
      EXCEPT !.type = shape.type, !.cause = shape.cause, !.levels = shape.levels]

VariantsOf(o, n) == {Variant(Append(o.under, n), b) : b \in Range(ShapeOf(o, n).variants)}
FillsBelow(o, n) == o.beneath \/ serverFilled(o, Presence(o, n, Seen(o, n))) = "computed_optional"
Nested(o, n) == Open(Append(o.under, n), ShapeOf(o, n).below, FALSE, FillsBelow(o, n))
OpensNested(o, n) == IF ShapeOf(o, n).nests THEN {Nested(o, n)} ELSE {}
OpensVariants(o, n) == {Open(Append(Append(o.under, n), Own(b).ref), Answered(b), FALSE, FillsBelow(o, n)) :
                          b \in Range(ShapeOf(o, n).variants)}

LEMMA OpenedInto ==
  ASSUME NEW o, NEW n
  PROVE  /\ Main(o, n).under = o.under /\ Main(o, n).name = WordsOf[n]
         /\ Lies(Main(o, n)) /\ \A a \in VariantsOf(o, n) : Lies(a)
         /\ buildAttribute(o, n).attributes = {Main(o, n)} \cup VariantsOf(o, n)
         /\ buildAttribute(o, n).below = OpensNested(o, n) \cup OpensVariants(o, n)
<1> DEFINE path == Append(o.under, n)
           made == buildAttribute(o, n)
           s == Seen(o, n)
           presence == Presence(o, n, s)
           a == [Attribute(o.under, n, serverFilled(o, presence)) EXCEPT !.replace = RequiresReplace(o, s, presence)]
<1>2. a.under = o.under /\ a.wire = n /\ a.name = WordsOf[n] /\ a.presence = serverFilled(o, presence)
  BY DEF Attribute
<1>1. made = Made(a, ShapeOf(o, n), FillsBelow(o, n))
  <2>1. made = Made(a, ShapeOf(o, n), o.beneath \/ a.presence = "computed_optional")
    BY DEF buildAttribute, Chosen, Decided, Filled, ShapeOf
  <2> HIDE DEF a, made
  <2> QED
    BY <1>2, <2>1 DEF FillsBelow
<1>3. Main(o, n) = [a EXCEPT !.type = ShapeOf(o, n).type, !.cause = ShapeOf(o, n).cause, !.levels = ShapeOf(o, n).levels]
  BY DEF Main
<1>4. Main(o, n).under = o.under /\ Main(o, n).name = WordsOf[n]
  BY DEF Main, Attribute
<1>5. Lies(Main(o, n)) /\ \A b : Lies(Variant(path, b))
  BY DEF Lies, Main, Variant, Attribute
<1> HIDE DEF a, made
<1>6. made.attributes = {Main(o, n)} \cup VariantsOf(o, n)
  <2> DEFINE there == Append(a.under, a.wire)
             one == [a EXCEPT !.type = ShapeOf(o, n).type, !.cause = ShapeOf(o, n).cause, !.levels = ShapeOf(o, n).levels]
  <2>1. there = path /\ one = Main(o, n)
    BY <1>2, <1>3
  <2>2. made.attributes = {one} \cup {Variant(there, b) : b \in Range(ShapeOf(o, n).variants)}
    BY <1>1 DEF Made
  <2> HIDE DEF there, one
  <2> QED
    BY <2>1, <2>2 DEF VariantsOf
<1>7. made.below = OpensNested(o, n) \cup OpensVariants(o, n)
  <2> DEFINE there == Append(a.under, a.wire)
  <2>1. there = path
    BY <1>2
  <2>2. made.below = (IF ShapeOf(o, n).nests THEN {Open(there, ShapeOf(o, n).below, FALSE, FillsBelow(o, n))} ELSE {})
                     \cup {Open(Append(there, Own(b).ref), Answered(b), FALSE, FillsBelow(o, n)) :
                              b \in Range(ShapeOf(o, n).variants)}
    BY <1>1 DEF Made
  <2> HIDE DEF there
  <2> QED
    BY <2>1, <2>2 DEF Nested, OpensNested, OpensVariants
<1>8. \A x \in VariantsOf(o, n) : Lies(x)
  BY <1>5 DEF VariantsOf
<1> QED
  BY <1>4, <1>5, <1>6, <1>7, <1>8 DEF made

\* Where a new attribute lies, where an object still to be opened, and what tells
\* two objects below one property apart.
AttributesLie(o, n) ==
  \A a \in buildAttribute(o, n).attributes :
    /\ Sequential(a.under) /\ Below(o.under, a.under) /\ Lies(a)
    /\ \/ a = Main(o, n) /\ a.under = o.under /\ a.name = WordsOf[n]
       \/ \E b \in Range(ShapeOf(o, n).variants) :
            /\ a = Variant(Append(o.under, n), b) /\ a.under = Append(o.under, n)
            /\ a.name = WordsOf[Own(b).ref]
ObjectsLie(o, n) ==
  \A b \in buildAttribute(o, n).below :
    /\ Sequential(b.under) /\ Below(o.under, b.under) /\ Below(Append(o.under, n), b.under)
    /\ \/ b.under = Append(o.under, n) /\ Range(ShapeOf(o, n).variants) = {}
       \/ \E d \in Range(ShapeOf(o, n).variants) : b.under = Append(Append(o.under, n), Own(d).ref)
ObjectsDiffer(o, n) ==
  \A b, c \in buildAttribute(o, n).below :
    b = c \/ \E d, e \in Range(ShapeOf(o, n).variants) :
               /\ d # e
               /\ b.under = Append(Append(o.under, n), Own(d).ref)
               /\ c.under = Append(Append(o.under, n), Own(e).ref)

LEMMA MadeBelow ==
  ASSUME NEW o, Sequential(o.under), NEW n
  PROVE  AttributesLie(o, n) /\ ObjectsLie(o, n) /\ ObjectsDiffer(o, n)
<1> DEFINE path == Append(o.under, n)
           variants == Range(ShapeOf(o, n).variants)
           made == buildAttribute(o, n)
<1>1. /\ Main(o, n).under = o.under /\ Main(o, n).name = WordsOf[n]
      /\ Lies(Main(o, n)) /\ \A a \in VariantsOf(o, n) : Lies(a)
      /\ made.attributes = {Main(o, n)} \cup VariantsOf(o, n)
  BY OpenedInto
<1>n. ShapeOf(o, n).nests => variants = {}
  BY NestsOrVaries DEF ShapeOf
<1>w. \A b : Variant(path, b).under = path /\ Variant(path, b).name = WordsOf[Own(b).ref]
  BY DEF Variant, Attribute
<1>2. made.below = OpensNested(o, n) \cup OpensVariants(o, n)
  BY OpenedInto
<1>3. \A u, x : Open(u, x, FALSE, FillsBelow(o, n)).under = u
  BY DEF Open
<1>4. Sequential(path) /\ Below(o.under, o.under) /\ Below(o.under, path)
  BY Deeper, BelowOrder
<1>5. \A x : /\ Sequential(Append(path, x)) /\ Below(path, Append(path, x)) /\ Below(o.under, Append(path, x))
             /\ Below(path, path)
  BY <1>4, Deeper, BelowOrder
<1>v. VariantsOf(o, n) = {Variant(path, b) : b \in variants}
  BY DEF VariantsOf
<1> HIDE DEF path, variants, made
<1>6. ASSUME NEW a \in made.attributes
      PROVE  /\ Sequential(a.under) /\ Below(o.under, a.under) /\ Lies(a)
             /\ \/ a = Main(o, n) /\ a.under = o.under /\ a.name = WordsOf[n]
                \/ \E b \in variants : a = Variant(path, b) /\ a.under = path /\ a.name = WordsOf[Own(b).ref]
  BY <1>1, <1>4, <1>v, <1>w
<1>7. CASE ShapeOf(o, n).nests
  <2>1. variants = {} /\ made.below = {Nested(o, n)} /\ Nested(o, n).under = path
    BY <1>n, <1>2, <1>3, <1>7 DEF Nested, OpensNested, OpensVariants, path, variants
  <2> QED
    BY <1>3, <1>4, <1>5, <1>6, <2>1 DEF path, variants, made, AttributesLie, ObjectsLie, ObjectsDiffer
<1>8. CASE ~ShapeOf(o, n).nests
  <2>1. made.below = {Open(Append(path, Own(b).ref), Answered(b), FALSE, FillsBelow(o, n)) : b \in variants}
    BY <1>2, <1>8 DEF OpensNested, OpensVariants, path, variants
  <2>2. ASSUME NEW b \in made.below
        PROVE  /\ Sequential(b.under) /\ Below(o.under, b.under) /\ Below(path, b.under)
               /\ \E d \in variants : b.under = Append(path, Own(d).ref)
    BY <1>3, <1>5, <2>1
  <2>3. ASSUME NEW b \in made.below, NEW c \in made.below, b # c
        PROVE  \E d, e \in variants : /\ d # e
                                      /\ b.under = Append(path, Own(d).ref) /\ c.under = Append(path, Own(e).ref)
    <3>1. PICK d \in variants : b = Open(Append(path, Own(d).ref), Answered(d), FALSE, FillsBelow(o, n))
      BY <2>1
    <3>2. PICK e \in variants : c = Open(Append(path, Own(e).ref), Answered(e), FALSE, FillsBelow(o, n))
      BY <2>1
    <3> QED
      BY <1>3, <2>3, <3>1, <3>2
  <2> QED
    BY <1>6, <2>2, <2>3 DEF path, variants, made, AttributesLie, ObjectsLie, ObjectsDiffer
<1> QED
  BY <1>7, <1>8

\* Opening every object of a frontier leaves one a level down, and names nothing
\* twice: what is new lies beneath one of the objects opened, and no other.
LEMMA FrontierMoves ==
  ASSUME Frontier(work, tree), SpelledApart, Grow
  PROVE  Frontier(work', tree')
<1> DEFINE New(o, n) == buildAttribute(o, n)
           path(o, n) == Append(o.under, n)
           variants(o, n) == Range(ShapeOf(o, n).variants)
<1>1. /\ \A o \in work : Sequential(o.under)
      /\ \A a \in tree : Sequential(a.under) /\ Lies(a)
      /\ \A o, p \in work : Below(o.under, p.under) => o = p
      /\ \A o \in work : \A a \in tree : ~Below(o.under, a.under)
      /\ OneName(tree)
  BY DEF Frontier
<1>2. /\ tree' = tree \cup UNION {m.attributes : m \in UNION {buildAttributeTree(o) : o \in work}}
      /\ work' = UNION {m.below : m \in UNION {buildAttributeTree(o) : o \in work}}
  BY DEF Grow, Opened
<1>3. \A o : buildAttributeTree(o) = {New(o, n) : n \in Names(o)}
  BY DEF buildAttributeTree, Names
<1>4. \A b \in work' : \E o \in work : \E n \in Names(o) : b \in New(o, n).below
  BY <1>2, <1>3
<1>5. \A a \in tree' : a \in tree \/ \E o \in work : \E n \in Names(o) : a \in New(o, n).attributes
  BY <1>2, <1>3
<1>6a. \A o \in work : \A n : AttributesLie(o, n) /\ ObjectsLie(o, n) /\ ObjectsDiffer(o, n)
  BY <1>1, MadeBelow
<1>6. ASSUME NEW o \in work, NEW n
      PROVE  /\ \A a \in New(o, n).attributes :
                  /\ Sequential(a.under) /\ Below(o.under, a.under) /\ Lies(a)
                  /\ \/ a = Main(o, n) /\ a.under = o.under /\ a.name = WordsOf[n]
                     \/ \E b \in variants(o, n) :
                          a = Variant(path(o, n), b) /\ a.under = path(o, n) /\ a.name = WordsOf[Own(b).ref]
             /\ \A b \in New(o, n).below :
                  /\ Sequential(b.under) /\ Below(o.under, b.under) /\ Below(path(o, n), b.under)
                  /\ \/ b.under = path(o, n) /\ variants(o, n) = {}
                     \/ \E d \in variants(o, n) : b.under = Append(path(o, n), Own(d).ref)
             /\ \A b, c \in New(o, n).below :
                  b = c \/ \E d, e \in variants(o, n) : /\ d # e
                                                       /\ b.under = Append(path(o, n), Own(d).ref)
                                                       /\ c.under = Append(path(o, n), Own(e).ref)
  BY <1>6a DEF AttributesLie, ObjectsLie, ObjectsDiffer
<1>7. ASSUME NEW o \in work, NEW n
      PROVE  /\ Sequential(path(o, n)) /\ Len(o.under) \in Nat /\ Len(path(o, n)) = Len(o.under) + 1
             /\ path(o, n)[Len(o.under) + 1] = n
             /\ \A x : /\ Len(Append(path(o, n), x)) = Len(o.under) + 2
                       /\ Append(path(o, n), x)[Len(o.under) + 2] = x
  <2>1. /\ Sequential(path(o, n)) /\ Len(o.under) \in Nat /\ Len(path(o, n)) = Len(o.under) + 1
        /\ path(o, n)[Len(o.under) + 1] = n
    BY <1>1, Deeper
  <2> HIDE DEF path
  <2>2. \A x : /\ Len(Append(path(o, n), x)) = Len(path(o, n)) + 1
               /\ Append(path(o, n), x)[Len(path(o, n)) + 1] = x
    BY <2>1, Deeper
  <2>3. Len(path(o, n)) + 1 = Len(o.under) + 2
    BY <2>1
  <2> QED
    BY <2>1, <2>2, <2>3
<1>8. \A o \in work : \A n, m \in Names(o) : WordsOf[n] = WordsOf[m] => n = m
  BY DEF SpelledApart
<1>9. \A o \in work : \A n \in Names(o) : \A b, d \in variants(o, n) :
        WordsOf[Own(b).ref] = WordsOf[Own(d).ref] => b = d
  BY DEF SpelledApart
<1> HIDE DEF New, path, variants
\* What lies beneath two objects of the frontier lies beneath one object.
<1>10. ASSUME NEW o \in work, NEW p \in work, NEW u, Sequential(u), Below(o.under, u), Below(p.under, u)
       PROVE  o = p
  BY <1>1, <1>10, BelowOrder
<1>11. \A b \in work' : Sequential(b.under)
  BY <1>4, <1>6
<1>12. \A a \in tree' : Sequential(a.under) /\ Lies(a)
  BY <1>1, <1>5, <1>6
<1>13. ASSUME NEW b \in work', NEW c \in work', Below(b.under, c.under)
       PROVE  b = c
  <2>1a. PICK o \in work : \E n \in Names(o) : b \in New(o, n).below
    BY <1>4
  <2>1. PICK n \in Names(o) : b \in New(o, n).below
    BY <2>1a
  <2>2a. PICK p \in work : \E m \in Names(p) : c \in New(p, m).below
    BY <1>4
  <2>2. PICK m \in Names(p) : c \in New(p, m).below
    BY <2>2a
  <2>3. /\ Sequential(b.under) /\ Below(o.under, b.under) /\ Below(path(o, n), b.under)
        /\ Sequential(c.under) /\ Below(p.under, c.under) /\ Below(path(p, m), c.under)
    BY <1>6, <2>1, <2>2
  <2>4. o = p
    BY <1>1, <1>10, <1>13, <2>3, BelowOrder
  <2>5. n = m
    <3>1. b.under[Len(o.under) + 1] = n /\ Len(b.under) >= Len(o.under) + 1 /\ c.under[Len(o.under) + 1] = m
      BY <1>7, <2>3, <2>4 DEF Below
    <3> QED
      BY <1>7, <1>13, <3>1 DEF Below
  <2>6. ASSUME b # c PROVE FALSE
    <3>1. PICK d \in variants(o, n), e \in variants(o, n) :
            d # e /\ b.under = Append(path(o, n), Own(d).ref) /\ c.under = Append(path(o, n), Own(e).ref)
      BY <1>6, <2>1, <2>2, <2>4, <2>5, <2>6
    <3>2. Own(d).ref = Own(e).ref
      BY <1>7, <1>13, <3>1 DEF Below
    <3> QED
      BY <1>9, <3>1, <3>2
  <2> QED
    BY <2>6
<1>14. ASSUME NEW b \in work', NEW a \in tree', Below(b.under, a.under)
       PROVE  FALSE
  <2>1a. PICK o \in work : \E n \in Names(o) : b \in New(o, n).below
    BY <1>4
  <2>1. PICK n \in Names(o) : b \in New(o, n).below
    BY <2>1a
  <2>2. Sequential(b.under) /\ Sequential(a.under) /\ Below(o.under, b.under) /\ Below(o.under, a.under)
    BY <1>1, <1>6, <1>12, <1>14, <2>1, BelowOrder
  <2>3a. PICK p \in work : \E m \in Names(p) : a \in New(p, m).attributes
    BY <1>1, <1>5, <2>2
  <2>3. PICK m \in Names(p) : a \in New(p, m).attributes
    BY <2>3a
  <2>4. o = p
    BY <1>6, <1>10, <2>2, <2>3
  <2>5. Len(b.under) >= Len(o.under) + 1 /\ b.under[Len(o.under) + 1] = n
    BY <1>6, <1>7, <2>1 DEF Below
  <2>6. Len(a.under) >= Len(o.under) + 1 /\ a.under[Len(o.under) + 1] = n
    BY <1>7, <1>14, <2>2, <2>5 DEF Below, Sequential
  <2>7. PICK d \in variants(o, m) : a.under = path(o, m)
    BY <1>6, <1>7, <2>3, <2>4, <2>6
  <2>8. m = n
    BY <1>7, <2>6, <2>7
  <2>9. Len(b.under) = Len(o.under) + 2
    BY <1>6, <1>7, <2>1, <2>7, <2>8
  <2> QED
    BY <1>7, <1>14, <2>7, <2>9 DEF Below
<1>15. ASSUME NEW a \in tree', NEW x \in tree', a.under = x.under, a.name = x.name
       PROVE  a = x
  <2>1. CASE a \in tree /\ x \in tree
    BY <1>1, <1>15, <2>1 DEF OneName
  <2>2. CASE a \notin tree /\ x \in tree
    BY <1>1, <1>5, <1>6, <1>15, <2>2
  <2>3. CASE a \in tree /\ x \notin tree
    BY <1>1, <1>5, <1>6, <1>15, <2>3
  <2>4. CASE a \notin tree /\ x \notin tree
    <3>1a. PICK o \in work : \E n \in Names(o) : a \in New(o, n).attributes
      BY <1>5, <2>4
    <3>1. PICK n \in Names(o) : a \in New(o, n).attributes
      BY <3>1a
    <3>2a. PICK p \in work : \E m \in Names(p) : x \in New(p, m).attributes
      BY <1>5, <2>4
    <3>2. PICK m \in Names(p) : x \in New(p, m).attributes
      BY <3>2a
    <3>3. o = p
      BY <1>6, <1>10, <1>12, <1>15, <3>1, <3>2
    <3>4. CASE a.under = o.under
      <4>1. a = Main(o, n) /\ a.name = WordsOf[n] /\ x = Main(o, m) /\ x.name = WordsOf[m]
        <5>1. a = Main(o, n) /\ a.name = WordsOf[n]
          BY <1>6, <1>7, <3>1, <3>4
        <5>2. x \in New(o, m).attributes /\ x.under = o.under
          BY <1>15, <3>2, <3>3, <3>4
        <5>3. x = Main(o, m) /\ x.name = WordsOf[m]
          BY <1>6, <1>7, <5>2
        <5> QED
          BY <5>1, <5>3
      <4> QED
        BY <1>8, <1>15, <3>3, <4>1
    <3>5. CASE a.under # o.under
      <4>1. PICK b \in variants(o, n) : /\ a = Variant(path(o, n), b) /\ a.under = path(o, n)
                                       /\ a.name = WordsOf[Own(b).ref]
        BY <1>6, <3>1, <3>5
      <4>2. PICK d \in variants(o, m) : /\ x = Variant(path(o, m), d) /\ x.under = path(o, m)
                                       /\ x.name = WordsOf[Own(d).ref]
        BY <1>6, <1>15, <3>2, <3>3, <3>5
      <4>3. n = m
        BY <1>7, <1>15, <4>1, <4>2
      <4> QED
        BY <1>9, <1>15, <4>1, <4>2, <4>3
    <3> QED
      BY <3>4, <3>5
  <2> QED
    BY <2>1, <2>2, <2>3, <2>4
<1> QED
  BY <1>11, <1>12, <1>13, <1>14, <1>15 DEF Frontier, OneName

-----------------------------------------------------------------------------
\* What a finished block's tree goes through keeps a name for each attribute.
Tidy(t) == OneName(t) /\ \A a \in t : Lies(a) /\ Sequential(a.under)
AtRoot(t) == \A a \in t : a.under = <<>>

LEMMA RootSequential == Sequential(<<>>)
  BY DEF Sequential

LEMMA IdTidy ==
  ASSUME NEW t, Tidy(t), NEW key, NEW type
  PROVE  Tidy(ensureID(t, key, type))
<1>1. CASE IdName \in NamesIn(t)
  <2> DEFINE G(a) == IF a \in Root(t) /\ a.name = IdName
                     THEN [a EXCEPT !.presence = "computed", !.replace = FALSE] ELSE a
  <2>1. ensureID(t, key, type) = {G(a) : a \in t}
    BY <1>1 DEF ensureID, Changed
  <2>2. \A a \in t : Lies(G(a)) /\ G(a).under = a.under /\ G(a).name = a.name
    BY DEF Tidy, Lies
  <2> HIDE DEF G
  <2> QED
    BY <2>1, <2>2 DEF Tidy, OneName
<1>2. CASE IdName \notin NamesIn(t)
  <2> DEFINE i == Addressing(Or(key, "id"), IdName, "computed", type)
  <2>1. ensureID(t, key, type) = t \cup {i}
    BY <1>2 DEF ensureID
  <2>2. i.under = <<>> /\ i.name = IdName /\ Lies(i) /\ Sequential(<<>>)
    BY RootSequential DEF Addressing, Attribute, Lies
  <2> HIDE DEF i
  <2> QED
    BY <1>2, <2>1, <2>2 DEF Tidy, OneName, NamesIn, Root
<1> QED
  BY <1>1, <1>2

LEMMA KeyTidy ==
  ASSUME NEW t, Tidy(t), NEW key, NEW type
  PROVE  Tidy(requireKey(t, key, type))
<1>1. CASE WordsOf[key] \in NamesIn(t)
  <2> DEFINE G(a) == IF a \in Root(t) /\ a.name = WordsOf[key] THEN [a EXCEPT !.presence = "required"] ELSE a
  <2>1. requireKey(t, key, type) = {G(a) : a \in t}
    BY <1>1 DEF requireKey, Changed
  <2>2. \A a \in t : Lies(G(a)) /\ G(a).under = a.under /\ G(a).name = a.name
    BY DEF Tidy, Lies
  <2> HIDE DEF G
  <2> QED
    BY <2>1, <2>2 DEF Tidy, OneName
<1>2. CASE WordsOf[key] \notin NamesIn(t)
  <2> DEFINE i == Addressing(key, WordsOf[key], "required", type)
  <2>1. requireKey(t, key, type) = t \cup {i}
    BY <1>2 DEF requireKey
  <2>2. i.under = <<>> /\ i.name = WordsOf[key] /\ Lies(i) /\ Sequential(<<>>)
    BY RootSequential DEF Addressing, Attribute, Lies
  <2> HIDE DEF i
  <2> QED
    BY <1>2, <2>1, <2>2 DEF Tidy, OneName, NamesIn, Root
<1> QED
  BY <1>1, <1>2

LEMMA ReservedTidy ==
  ASSUME NEW t, Tidy(t)
  PROVE  Tidy(excludeReservedRootNames(t))
<1> DEFINE G(a) == IF a \in Root(t) /\ a.name \in reservedRootNames
                   THEN [a EXCEPT !.type = "", !.cause = "reservedRootName"] ELSE a
<1>1. excludeReservedRootNames(t) = {G(a) : a \in t}
  BY DEF excludeReservedRootNames
<1>2. \A a \in t : Lies(G(a)) /\ G(a).under = a.under /\ G(a).name = a.name
  BY DEF Tidy, Lies
<1> HIDE DEF G
<1> QED
  BY <1>1, <1>2 DEF Tidy, OneName

LEMMA ParentsTidy ==
  ASSUME NEW t, Tidy(t), NEW ps, NEW parent
  PROVE  /\ Tidy(ensureParentParameters(t, ps, parent))
         /\ AtRoot(t) => AtRoot(ensureParentParameters(t, ps, parent))
<1> DEFINE P(n) == ParentAttribute(FirstSo(ps, parent, n), n)
<1>1. \A n : P(n).under = <<>> /\ P(n).name = n /\ Lies(P(n))
  BY DEF ParentAttribute, Addressing, Attribute, Lies
<1>2. ensureParentParameters(t, ps, parent) = t \cup {P(n) : n \in ParentNames(ps, parent) \ NamesIn(t)}
  BY DEF ensureParentParameters
<1> HIDE DEF P
<1> QED
  BY <1>1, <1>2, RootSequential DEF Tidy, AtRoot, OneName, NamesIn, Root

LEMMA AddressingTidy ==
  ASSUME NEW ps
  PROVE  Tidy(addressingAttributes(ps))
<1>1. Tidy(ensureParentParameters({}, ps, <<>>))
  BY ParentsTidy DEF Tidy, OneName
<1>2. ASSUME NEW t, Tidy(t)
      PROVE  Tidy({[a EXCEPT !.replace = FALSE] : a \in t})
  <2> DEFINE G(a) == [a EXCEPT !.replace = FALSE]
  <2>1. \A a \in t : Lies(G(a)) /\ G(a).under = a.under /\ G(a).name = a.name
    BY <1>2 DEF Tidy, Lies
  <2> HIDE DEF G
  <2>2. Tidy({G(a) : a \in t})
    BY <1>2, <2>1 DEF Tidy, OneName
  <2> QED
    BY <2>2 DEF G
<1> QED
  BY <1>1, <1>2, ReservedTidy DEF addressingAttributes

LEMMA FiltersTidy ==
  ASSUME NEW t, Tidy(t), NEW items, Tidy(items)
  PROVE  /\ Tidy(ensureFilterAttributes(t, items))
         /\ AtRoot(t) => AtRoot(ensureFilterAttributes(t, items))
<1> DEFINE F(a) == [a EXCEPT !.presence = "optional", !.filter = TRUE]
           offered == {b \in Root(items) : b.type \in Range(TypeNames) /\ b.name \notin NamesIn(t)}
<1>1. ensureFilterAttributes(t, items) = t \cup {F(a) : a \in offered}
  BY DEF ensureFilterAttributes
<1>2. \A a \in offered : F(a).under = <<>> /\ F(a).name = a.name /\ Lies(F(a))
  BY DEF Tidy, Lies, Root
<1>3. \A a, b \in offered : a.name = b.name => a = b
  BY DEF Tidy, OneName, Root
<1>4. \A a \in offered : a.name \notin NamesIn(t)
  OBVIOUS
<1> HIDE DEF F, offered
<1>5. \A a \in t : \A b \in offered : ~(a.under = <<>> /\ a.name = F(b).name)
  BY <1>2, <1>4 DEF NamesIn, Root
<1> QED
  BY <1>1, <1>2, <1>3, <1>5, RootSequential DEF Tidy, AtRoot, OneName

\* What lies under items lies apart from what does not, and from one another.
LEMMA Shifted ==
  ASSUME NEW u, NEW v, Sequential(u), Sequential(v), NEW x
  PROVE  /\ Sequential(<<x>> \o u) /\ <<x>> \o u # <<>>
         /\ <<x>> \o u = <<x>> \o v => u = v
<1> DEFINE S == Range(u) \cup Range(v) \cup {x}
<1>1. u \in Seq(S) /\ v \in Seq(S) /\ <<x>> \in Seq(S)
  BY SeqMonotonic DEF Sequential
<1>2. <<x>> \o u \in Seq(S) /\ <<x>> \o v \in Seq(S)
  BY <1>1
<1>3. \A w \in Seq(S) : /\ Len(<<x>> \o w) = Len(w) + 1 /\ Len(w) \in Nat
                         /\ \A i \in 1 .. Len(w) : (<<x>> \o w)[i + 1] = w[i]
  BY <1>1
<1>4. <<x>> \o u = <<x>> \o v => u = v
  <2> SUFFICES ASSUME <<x>> \o u = <<x>> \o v PROVE u = v
    OBVIOUS
  <2>1. Len(u) = Len(v) /\ \A i \in 1 .. Len(u) : u[i] = v[i]
    BY <1>1, <1>3
  <2> QED
    BY <1>1, <2>1, SeqEqual
<1>5. Sequential(<<x>> \o u)
  <2> DEFINE w == <<x>> \o u
  <2>1. w \in Seq(S) /\ Len(w) \in Nat /\ DOMAIN w = 1 .. Len(w) /\ w \in [1 .. Len(w) -> S]
    BY <1>2, LenProperties
  <2>2. w \in [DOMAIN w -> Range(w)]
    BY <2>1 DEF Range
  <2> HIDE DEF w
  <2>3. w \in Seq(Range(w))
    BY <2>1, <2>2, SeqDef
  <2> QED
    BY <2>3 DEF w, Sequential
<1> QED
  BY <1>3, <1>4, <1>5, <1>1

LEMMA CompanionTidy ==
  ASSUME NEW c, NEW items, Tidy(items), \A a \in Arguments(c, items) : a.name # WordsOf["items"]
  PROVE  Tidy(Arguments(c, items) \cup ItemsAttribute(items)) /\ Tidy(companion(c, items))
<1> DEFINE list == [Attribute(<<>>, "items", "computed") EXCEPT !.type = "list", !.levels = <<"object">>]
           D(a) == [a EXCEPT !.under = <<"items">> \o @]
           args == Arguments(c, items)
           all  == args \cup ({list} \cup {D(a) : a \in items})
<1>1. Tidy(args) /\ AtRoot(args)
  <2>1. Tidy({}) /\ AtRoot({})
    BY DEF Tidy, OneName, AtRoot
  <2> QED
    BY <2>1, ParentsTidy, FiltersTidy DEF Arguments
<1>2. list.under = <<>> /\ list.name = WordsOf["items"] /\ Lies(list)
  BY DEF Attribute, Lies
<1>3. \A a \in items : D(a).under = <<"items">> \o a.under /\ D(a).name = a.name /\ Lies(D(a))
  BY DEF Tidy, Lies
<1>4. all = Arguments(c, items) \cup ItemsAttribute(items) /\ companion(c, items) = excludeReservedRootNames(all)
  BY DEF companion, ItemsAttribute
<1>5. ASSUME NEW a \in items
      PROVE  Sequential(D(a).under) /\ D(a).under # <<>>
  <2>1. Sequential(a.under)
    BY DEF Tidy
  <2>2. Sequential(<<"items">> \o a.under) /\ <<"items">> \o a.under # <<>>
    BY <2>1, Shifted
  <2> HIDE DEF D
  <2> QED
    BY <1>3, <2>2
<1>6. ASSUME NEW a \in items, NEW b \in items, D(a).under = D(b).under
      PROVE  a.under = b.under
  <2>1. Sequential(a.under) /\ Sequential(b.under)
    BY DEF Tidy
  <2>2. <<"items">> \o a.under = <<"items">> \o b.under => a.under = b.under
    BY <2>1, Shifted
  <2> HIDE DEF D
  <2> QED
    BY <1>3, <1>6, <2>2
<1>n. \A a \in args : a.name # WordsOf["items"]
  OBVIOUS
<1> HIDE DEF list, D, args
<1>7. OneName(all)
  <2> SUFFICES ASSUME NEW a \in all, NEW b \in all, a.under = b.under, a.name = b.name PROVE a = b
    BY DEF OneName
  <2>1. \A e \in args : e.under = <<>>
    BY <1>1 DEF AtRoot
  <2>2. CASE a \in args \/ b \in args
    BY <1>1, <1>2, <1>5, <1>n, <2>1, <2>2 DEF Tidy, OneName
  <2>3. CASE a = list \/ b = list
    BY <1>2, <1>5, <2>2, <2>3
  <2>4. CASE a \in {D(e) : e \in items} /\ b \in {D(e) : e \in items}
    <3>1. PICK e \in items : a = D(e)
      BY <2>4
    <3>2. PICK f \in items : b = D(f)
      BY <2>4
    <3>3. e = f
      BY <1>3, <1>6, <3>1, <3>2 DEF Tidy, OneName
    <3> QED
      BY <3>1, <3>2, <3>3
  <2> QED
    BY <2>2, <2>3, <2>4
<1>8. Tidy(all)
  BY <1>1, <1>2, <1>3, <1>5, <1>7, RootSequential DEF Tidy
<1> QED
  BY <1>4, <1>8, ReservedTidy

\* Whatever a block is of, what is derived of it names nothing twice.
LEMMA DerivedTidy ==
  ASSUME Tidy(tree), SpelledApart, phase = "grow",
         NEW d, d = Derived(Entity, Kind, tree)
  PROVE  Tidy(d.tree) /\ OneName(d.addressing)
<1>1. d.tree = Dressed(Entity, Kind, tree)
  BY DEF Derived
<1>d. /\ Kind = "resource" => d.tree = resource(Entity, tree)
      /\ Kind = "datasource" => d.tree = datasource(Entity, tree)
      /\ Kind = "list" => d.tree = WithID(Entity, tree)
      /\ Kind \notin {"resource", "datasource", "list"} => d.tree = excludeReservedRootNames(tree)
  BY <1>1 DEF Dressed
<1>2. OneName(d.addressing)
  <2>1. OneName({}) /\ Tidy(addressingAttributes(pathParameters(At(Entity, "list"))))
    BY AddressingTidy DEF OneName
  <2> QED
    BY <2>1 DEF Derived, Tidy
<1>3. CASE Kind = "resource"
  <2>1. Tidy(resource(Entity, tree))
    BY IdTidy, ReservedTidy, ParentsTidy DEF resource
  <2> QED
    BY <1>2, <1>d, <1>3, <2>1
<1>4. CASE Kind = "datasource"
  <2>1. Tidy(WithID(Entity, tree))
    BY IdTidy DEF WithID
  <2>2. CASE Entity.class.lookupByKey
    <3>1. Tidy(lookup(Entity, tree))
      BY <2>1, KeyTidy, ReservedTidy, ParentsTidy DEF lookup
    <3> QED
      BY <1>2, <1>d, <1>4, <2>2, <3>1 DEF datasource
  <2>3. CASE ~Entity.class.lookupByKey
    <3>1. \A a \in Arguments(Entity, WithID(Entity, tree)) : a.name # WordsOf["items"]
      BY <1>4, <2>3 DEF SpelledApart
    <3>2. Tidy(companion(Entity, WithID(Entity, tree)))
      BY <2>1, <3>1, CompanionTidy
    <3> QED
      BY <1>2, <1>d, <1>4, <2>3, <3>2 DEF datasource
  <2> QED
    BY <2>2, <2>3
<1>5. CASE Kind = "list"
  BY <1>2, <1>d, <1>5, IdTidy DEF WithID
<1>6. CASE Kind \notin {"resource", "datasource", "list"}
  BY <1>2, <1>d, <1>6, ReservedTidy
<1> QED
  BY <1>2, <1>3, <1>4, <1>5, <1>6

LEMMA NamedInit == Init => NamedOnce
  BY DEF Init, NamedOnce, Frontier, OneName, OneNameEach

\* A finished block enters the model; nothing else in it changes.
LEMMA FinishNames ==
  ASSUME NamedOnce, SpelledApart, Finish
  PROVE  NamedOnce'
<1> DEFINE b == <<Kind, Entity.key>>
           d == Derived(Entity, Kind, tree)
<1>1. Tidy(tree) /\ phase = "grow"
  BY DEF NamedOnce, Frontier, Tidy, Finish
<1>2. OneName(d.tree) /\ OneName(d.addressing)
  BY <1>1, DerivedTidy DEF Tidy
<1>3. \A e \in DOMAIN model : OneName(model[e].tree) /\ OneName(model[e].addressing)
  BY DEF NamedOnce, OneNameEach, OneName
<1>4. model' = [e \in DOMAIN model \cup {b} |-> IF e = b THEN d ELSE model[e]]
  BY DEF Finish, Entered
<1> HIDE DEF b, d
<1>5. \A e \in DOMAIN model' : OneName(model'[e].tree) /\ OneName(model'[e].addressing)
  BY <1>2, <1>3, <1>4
<1>6. OneNameEach'
  BY <1>5 DEF OneNameEach, OneName
<1>7. work' = work /\ tree' = tree
  BY DEF Finish
<1> QED
  BY <1>6, <1>7 DEF NamedOnce, Frontier

LEMMA NamedStep ==
  ASSUME NamedOnce, SpelledApart, [Next]_vars
  PROVE  NamedOnce'
<1>1. CASE Grow
  <2>1. Frontier(work', tree')
    BY <1>1, FrontierMoves DEF NamedOnce
  <2>2. model' = model
    BY <1>1 DEF Grow
  <2> QED
    BY <2>1, <2>2 DEF NamedOnce, OneNameEach
<1>2. CASE Finish
  BY <1>2, FinishNames
<1>3. CASE Begin
  <2> DEFINE o == Open(<<>>, SchemasOf(Entity, Kind), Kind = "resource" /\ Entity.class.missingUpdate, FALSE)
  <2>1. work' = {o} /\ tree' = {} /\ model' = model
    BY <1>3 DEF Begin
  <2>2. Sequential(o.under)
    BY RootSequential DEF Open
  <2> HIDE DEF o
  <2>3. Frontier(work', tree')
    BY <2>1, <2>2 DEF Frontier, OneName
  <2> QED
    BY <2>1, <2>3 DEF NamedOnce, OneNameEach
<1>4. CASE UNCHANGED <<work, tree, model>>
  BY <1>4 DEF NamedOnce, OneNameEach
<1>5. CASE \E c \in undecided : Refuse(c) \/ Name(c)
  BY <1>4, <1>5 DEF Refuse, Name, building
<1>6. CASE Gather \/ Assign \/ Sort \/ Note \/ Done \/ UNCHANGED vars
  BY <1>4, <1>6 DEF Gather, Assign, Sort, Note, Done, building, vars
<1> QED
  BY <1>1, <1>2, <1>3, <1>5, <1>6 DEF Next, Finished

\* However deep the schemas nest, whatever is added to a finished tree, and
\* whichever of the sources an attribute comes from: no level of a schema derived
\* from a document that spells no two properties of one object alike, and gives a
\* companion no argument called what its list is called, declares a name twice.
THEOREM NamesAreDeclaredOnce == Spec /\ []SpelledApart => []OneNameEach
<1>1. NamedOnce /\ SpelledApart /\ [Next]_vars => NamedOnce'
  BY NamedStep
<1>2. NamedOnce => OneNameEach
  BY DEF NamedOnce
<1> QED
  BY NamedInit, <1>1, <1>2, PTL DEF Spec

-----------------------------------------------------------------------------
(***************************************************************************)
(* What the server may fill, all the way down.                             *)
(***************************************************************************)
Gives(x, a) == /\ x.presence = "computed" => a.presence = "computed"
               /\ x.presence = "computed_optional" => a.presence \in {"computed", "computed_optional"}
Passes(x, o) == /\ x.presence = "computed" => Unstated(o.create)
                /\ x.presence = "computed_optional" => o.beneath
Over(x, u)   == Below(PathOf(x), u)

\* What is set above a place holds of the attributes there, and of the objects
\* still to be opened there.
Poured(objects, t) ==
  /\ \A a, x \in t : Over(x, a.under) => Gives(x, a)
  /\ \A o \in objects : \A x \in t : Over(x, o.under) => Passes(x, o)

\* What is only read back has no request to be set by, anywhere.
Unset(objects, t) == (\A o \in objects : Unstated(o.create)) /\ (\A a \in t : a.presence = "computed")
ReadBack == phase = "grow" /\ Kind \in {"datasource", "list"}

\* An element is what its schema says, of levels that end: a schema that
\* contains itself through collections alone is of none that do.
Shapes == [type : STRING, levels : Seq(STRING), nests : BOOLEAN, variants : Seq(STRING), cause : STRING,
           below : [create : STRING, read : STRING, update : STRING]]
Composes(e) ==
  LET shape == deriveElement[e]
  IN /\ shape = OfType(e[1], e[2], Governing(e[2]), TypeOf(Governing(e[2])), deriveElement)
     /\ shape \in Shapes
     /\ Unstated(shape.cause) => shape.levels # <<>>
ElementsIn(s) == {<<"list", EachItem(s)>>, <<"map", EachValue(s)>>}
SidesAt(o, n) == BelowOf(Seen(o, n), Presence(o, n, Seen(o, n)))
Composed(s)   == \A e \in ElementsIn(s) : Composes(e) /\ \A f \in ElementsIn(e[2]) : Composes(f)
ElementsCompose == \A o \in work : \A n \in Names(o) : Composed(SidesAt(o, n))

\* Nothing lies beneath what is, or becomes, the id of a resource.
BareIdentifier ==
  phase = "grow" /\ Kind = "resource" =>
    \A a \in tree : /\ ~Below(<< Or(ResourceKey(Entity), "id") >>, a.under)
                    /\ \A x \in tree : x.under = <<>> /\ x.name = IdName => ~Over(x, a.under)

\* What no schema describes has no properties, items or values.
LEMMA NothingBelow ==
  ASSUME NEW id, Unstated(id), NEW name
  PROVE  Unstated(findProperty(id, name)) /\ Unstated(ItemsOf(id)) /\ Unstated(ValuesOf(id))
<1>1. View(id) = <<>>
  BY Zenon DEF Unstated, View
<1>2. DOMAIN <<>> = {}
  OBVIOUS
<1>3. \A F : [i \in DOMAIN <<>> |-> F[i]] = <<>>
  BY <1>2
<1>4. DOMAIN Items(<<>>) = {} /\ DOMAIN Values(<<>>) = {}
  BY <1>2 DEF Items, Values
<1>5. \A values : DOMAIN values = {} => Unstated(Stated(values))
  BY Zenon DEF Stated, Unstated
<1>6. Unstated(ItemsOf(id)) /\ Unstated(ValuesOf(id))
  BY <1>1, <1>4, <1>5 DEF ItemsOf, ValuesOf
<1>7. DOMAIN Declared(<<>>) = {}
  <2>1. [i \in DOMAIN <<>> |-> Own(<<>>[i]).properties] = <<>>
    BY <1>2
  <2>2. Len(<<>>) = 0
    OBVIOUS
  <2>3. Declared(<<>>) = <<>>
    BY <2>1, <2>2 DEF Declared, FlattenSeq
  <2> QED
    BY <1>2, <2>3
<1>8. Unstated(findProperty(id, name))
  <2> DEFINE at == {i \in DOMAIN Declared(View(id)) : Declared(View(id))[i].name = name}
  <2>1. at = {}
    BY <1>1, <1>7
  <2> QED
    BY <2>1, Zenon DEF findProperty, Unstated
<1> QED
  BY <1>6, <1>8

\* What an element can be.
LEMMA ElementForms ==
  ASSUME NEW e
  PROVE  LET d == OfType(e[1], e[2], Governing(e[2]), TypeOf(Governing(e[2])), deriveElement)
         IN \/ \E cause : d = Refused(cause)
            \/ \E t : d = Plain(t)
            \/ d = Within("list", deriveElement[<<"list", EachItem(e[2])>>])
            \/ d = Object(e[2])
            \/ d = Within("map", deriveElement[<<"map", EachValue(e[2])>>])
<1>1. \A container, ofMap, ofList : \E cause : For(container, ofMap, ofList) = Refused(cause)
  BY DEF For
<1>2. ASSUME NEW c, NEW s, NEW id, NEW type, NEW element
      PROVE  LET d == OfType(c, s, id, type, element)
             IN \/ \E cause : d = Refused(cause)
                \/ \E t : d = Plain(t)
                \/ d = Within("list", element[<<"list", EachItem(s)>>])
                \/ d = Object(s)
                \/ d = Within("map", element[<<"map", EachValue(s)>>])
  <2> DEFINE d == OfType(c, s, id, type, element)
             values == IF NamesOf(id) # {} THEN Object(s)
                       ELSE IF ~Unstated(ValuesOf(id)) THEN Within("map", element[<<"map", EachValue(s)>>])
                       ELSE IF Some(id, "bareValues") THEN Refused("untypedAdditionalProperties")
                       ELSE For(c, "mapOfObjects", "freeFormArrayElement")
  <2>1. \/ d = For(c, "untypedAdditionalProperties", "itemlessArray")
        \/ d = Plain(type)
        \/ d = Within("list", element[<<"list", EachItem(s)>>])
        \/ d = values
        \/ d = For(c, "unsupportedMapValue", "unsupportedArrayElement")
    BY DEF OfType
  <2>2. \/ values = Object(s)
        \/ values = Within("map", element[<<"map", EachValue(s)>>])
        \/ values = Refused("untypedAdditionalProperties")
        \/ values = For(c, "mapOfObjects", "freeFormArrayElement")
    BY Zenon
  <2> HIDE DEF d, values
  <2>3. \/ \E cause : d = Refused(cause)
        \/ \E t : d = Plain(t)
        \/ d = Within("list", element[<<"list", EachItem(s)>>])
        \/ d = Object(s)
        \/ d = Within("map", element[<<"map", EachValue(s)>>])
    BY <1>1, <2>1, <2>2
  <2> QED
    BY <2>3 DEF d
<1> QED
  BY <1>2

\* An element that nests at its own level nests the object it is asked about.
LEMMA ElementNests ==
  ASSUME NEW e, Composes(e), \A f \in ElementsIn(e[2]) : Composes(f),
         deriveElement[e].nests, Unstated(deriveElement[e].cause), ~(Len(deriveElement[e].levels) > 1)
  PROVE  deriveElement[e].below = e[2]
<1> DEFINE d == deriveElement[e]
           inner(f) == deriveElement[f]
<1>1. \A cause, t : ~Refused(cause).nests /\ ~Plain(t).nests
  BY DEF Plain, Refused
<1>2. Object(e[2]).below = e[2]
  BY DEF Object, Refused
<1>3. ASSUME NEW f \in ElementsIn(e[2]), NEW level, d = Within(level, inner(f))
      PROVE  FALSE
  <2>1. inner(f) \in Shapes /\ (Unstated(inner(f).cause) => inner(f).levels # <<>>)
    BY DEF Composes
  <2>2. CASE ~Unstated(inner(f).cause)
    <3>1. d = inner(f)
      BY <1>3, <2>2, Zenon DEF Within, Unstated
    <3> HIDE DEF d, inner
    <3> QED
      BY <2>2, <3>1 DEF d
  <2>3. CASE Unstated(inner(f).cause)
    <3>1. d = [inner(f) EXCEPT !.levels = << level >> \o @]
      BY <1>3, <2>3, Zenon DEF Within, Unstated
    <3> HIDE DEF inner
    <3>2. d.levels = << level >> \o inner(f).levels /\ inner(f).levels \in Seq(STRING) /\ inner(f).levels # <<>>
      BY <2>1, <2>3, <3>1 DEF Shapes
    <3> HIDE DEF d
    <3>3. Len(d.levels) = 1 + Len(inner(f).levels) /\ Len(inner(f).levels) > 0
      <4> DEFINE S == STRING \cup {level}
      <4>1. inner(f).levels \in Seq(S) /\ << level >> \in Seq(S)
        BY <3>2, SeqMonotonic
      <4> QED
        BY <3>2, <4>1
    <3> QED
      BY <3>2, <3>3 DEF d
  <2> QED
    BY <2>2, <2>3
<1>4. \/ \E cause : d = Refused(cause)
      \/ \E t : d = Plain(t)
      \/ d = Within("list", inner(<<"list", EachItem(e[2])>>))
      \/ d = Object(e[2])
      \/ d = Within("map", inner(<<"map", EachValue(e[2])>>))
  BY ElementForms DEF Composes
<1> QED
  BY <1>1, <1>2, <1>3, <1>4 DEF ElementsIn

\* Beneath what cannot be set there is nothing to set it by.
LEMMA BelowIsBlank ==
  ASSUME NEW id, NEW s, Unstated(s.create), Composed(s), deriveType(id, s).nests
  PROVE  Unstated(deriveType(id, s).below.create)
<1> DEFINE d == deriveType(id, s)
           inner(e) == deriveElement[e]
<1>1. \A cause, t : ~Refused(cause).nests /\ ~Plain(t).nests
  BY DEF Plain, Refused
<1>2. Object(s).below = s
  BY DEF Object, Refused
<1>3. \A e \in ElementsIn(s) : Unstated(e[2].create)
  <2>1. Unstated(EachItem(s).create) /\ Unstated(EachValue(s).create)
    BY NothingBelow DEF EachItem, EachValue, Sides
  <2> QED
    BY <2>1 DEF ElementsIn
<1>4. ASSUME NEW e \in ElementsIn(s), NEW container, d = AsCollection(container, inner(e))
      PROVE  Unstated(d.below.create)
  <2>1. Unstated(inner(e).cause)
    BY <1>1, <1>4, Zenon DEF AsCollection, Unstated
  <2>2. ~(Len(inner(e).levels) > 1 /\ inner(e).nests)
    BY <1>1, <1>4, <2>1, Zenon DEF AsCollection, Unstated
  <2>3. d = [Refused("") EXCEPT !.type = container, !.levels = inner(e).levels, !.nests = inner(e).nests,
                                !.below = inner(e).below]
    BY <1>4, <2>1, <2>2, Zenon DEF AsCollection, Unstated
  <2>4. d.nests = inner(e).nests /\ d.below = inner(e).below
    BY <2>3, Zenon DEF Refused
  <2>5. inner(e).below = e[2]
    BY <2>1, <2>2, <2>4, ElementNests DEF Composed
  <2> QED
    BY <1>3, <2>4, <2>5
<1>5. \/ d = Object(s)
      \/ d = AsCollection("list", inner(<<"list", EachItem(s)>>))
      \/ d = AsCollection("map", inner(<<"map", EachValue(s)>>))
  <2> DEFINE ofMap == deriveMapType(id, s)
             union == deriveUnionType(Branches(View(id)), s)
  <2>1. \/ d = Plain(TypeOf(id)) \/ d = AsCollection("list", inner(<<"list", EachItem(s)>>))
        \/ d = Object(s) \/ d = ofMap \/ d = union
        \/ d = Refused("undeclaredType") \/ d = Refused("unsupportedType")
    BY DEF deriveType, TypedAs
  <2>2. ~union.nests
    BY <1>1, Zenon DEF deriveUnionType, Refused
  <2>3. ofMap = AsCollection("map", inner(<<"map", EachValue(s)>>)) \/ \E cause : ofMap = Refused(cause)
    BY Zenon DEF deriveMapType
  <2> HIDE DEF ofMap, union, inner, d
  <2>4. d.nests
    BY DEF d
  <2> QED
    BY <1>1, <2>1, <2>2, <2>3, <2>4
<1> QED
  BY <1>2, <1>4, <1>5 DEF ElementsIn

\* What opening an object hands down.
LEMMA MadeFilled ==
  ASSUME NEW o, NEW n, Composed(SidesAt(o, n))
  PROVE  /\ Main(o, n).wire = n
         /\ \A b : /\ Variant(Append(o.under, n), b).wire = Own(b).ref
                   /\ Variant(Append(o.under, n), b).presence = "computed"
         /\ Unstated(o.create) => Main(o, n).presence = "computed"
         /\ o.beneath => Main(o, n).presence \in {"computed", "computed_optional"}
         /\ \A b \in buildAttribute(o, n).below :
              /\ Passes(Main(o, n), b)
              /\ Unstated(o.create) => Unstated(b.create)
              /\ o.beneath => b.beneath
              /\ Range(ShapeOf(o, n).variants) # {} => Unstated(b.create)
<1> DEFINE s == Seen(o, n)
           presence == Presence(o, n, s)
           main == Main(o, n)
<1>1. main.wire = n /\ main.presence = serverFilled(o, presence)
  BY DEF Main, Attribute
<1>2. \A b : /\ Variant(Append(o.under, n), b).wire = Own(b).ref
             /\ Variant(Append(o.under, n), b).presence = "computed"
  BY DEF Variant, Attribute
<1>3. Unstated(o.create) => presence = "computed"
  <2>1. Unstated(o.create) => Unstated(s.create)
    BY NothingBelow DEF Seen, Sides
  <2> QED
    BY <2>1, Zenon DEF Unstated, Presence, Unsettable
<1>4. /\ serverFilled(o, presence) = "computed" <=> presence = "computed"
      /\ o.beneath => serverFilled(o, presence) \in {"computed", "computed_optional"}
  BY DEF serverFilled
<1>a. \A u, sides, x : Open(u, sides, FALSE, x).create = sides.create
  BY DEF Open
<1>b. \A none, v : Sides(none, v, none).create = none
  BY DEF Sides
<1>c. \A none, x, y, z : [Sides(x, y, z) EXCEPT !.create = none].create = none
  BY DEF Sides
<1>5. ASSUME presence = "computed" \/ Range(ShapeOf(o, n).variants) # {}, NEW b \in buildAttribute(o, n).below
      PROVE  Unstated(b.create)
  <2>1. b \in OpensNested(o, n) \cup OpensVariants(o, n)
    BY <1>5, OpenedInto
  <2>2. CASE b \in OpensNested(o, n)
    <3>1. ShapeOf(o, n).nests /\ b.create = ShapeOf(o, n).below.create
      BY <2>2 DEF OpensNested, Nested, Open
    <3>2. Unstated(SidesAt(o, n).create)
      <4>0. presence = "computed"
        BY <1>5, <3>1, NestsOrVaries DEF ShapeOf
      <4>1. SidesAt(o, n).create = ""
        BY <4>0, <1>c, Zenon DEF SidesAt, BelowOf, Seen
      <4> QED
        BY <4>1, Zenon DEF Unstated
    <3>3. ShapeOf(o, n) = deriveType(Governing(s), SidesAt(o, n))
      BY DEF ShapeOf, SidesAt
    <3> QED
      BY <3>1, <3>2, <3>3, BelowIsBlank
  <2>3. CASE b \in OpensVariants(o, n)
    <3>1. PICK v : b = Open(Append(Append(o.under, n), Own(v).ref), Answered(v), FALSE, FillsBelow(o, n))
      BY <2>3, Zenon DEF OpensVariants
    <3> DEFINE sides == Answered(v)
    <3>2. Unstated(sides.create)
      BY <1>b, Zenon DEF Unstated, Answered
    <3> HIDE DEF sides
    <3>3. b.create = sides.create
      BY <1>a, <3>1 DEF sides
    <3> QED
      BY <3>2, <3>3
  <2> QED
    BY <2>1, <2>2, <2>3
<1>6. ASSUME NEW b \in buildAttribute(o, n).below
      PROVE  b.beneath = FillsBelow(o, n)
  <2>1. b \in OpensNested(o, n) \cup OpensVariants(o, n)
    BY <1>6, OpenedInto
  <2>2. \E u, sides : b = Open(u, sides, FALSE, FillsBelow(o, n))
    <3>1. CASE b \in OpensNested(o, n)
      BY <3>1, Zenon DEF OpensNested, Nested
    <3>2. CASE b \in OpensVariants(o, n)
      BY <3>2, Zenon DEF OpensVariants
    <3> QED
      BY <2>1, <3>1, <3>2
  <2>3. \A u, sides : Open(u, sides, FALSE, FillsBelow(o, n)).beneath = FillsBelow(o, n)
    BY DEF Open
  <2> QED
    BY <2>2, <2>3, Zenon
<1>7. FillsBelow(o, n) <=> o.beneath \/ main.presence = "computed_optional"
  BY <1>1 DEF FillsBelow
<1> HIDE DEF main, presence
<1>8. \A b \in buildAttribute(o, n).below :
        /\ Passes(main, b) /\ (Unstated(o.create) => Unstated(b.create)) /\ (o.beneath => b.beneath)
        /\ Range(ShapeOf(o, n).variants) # {} => Unstated(b.create)
  BY <1>1, <1>3, <1>4, <1>5, <1>6, <1>7 DEF Passes
<1> QED
  BY <1>1, <1>2, <1>3, <1>4, <1>8 DEF main

\* Opening the objects of a frontier hands down what is set above them, and sets
\* above nothing else.
LEMMA PouredMoves ==
  ASSUME Frontier(work, tree), Poured(work, tree), ElementsCompose, Grow
  PROVE  Poured(work', tree')
<1> DEFINE New(o, n) == buildAttribute(o, n)
           path(o, n) == Append(o.under, n)
           variants(o, n) == Range(ShapeOf(o, n).variants)
<1>1. /\ \A o \in work : Sequential(o.under)
      /\ \A a \in tree : Sequential(a.under)
      /\ \A o, p \in work : Below(o.under, p.under) => o = p
      /\ \A o \in work : \A a \in tree : ~Below(o.under, a.under)
  BY DEF Frontier
<1>2. /\ tree' = tree \cup UNION {m.attributes : m \in UNION {buildAttributeTree(o) : o \in work}}
      /\ work' = UNION {m.below : m \in UNION {buildAttributeTree(o) : o \in work}}
  BY DEF Grow, Opened
<1>3. \A o : buildAttributeTree(o) = {New(o, n) : n \in Names(o)}
  BY DEF buildAttributeTree, Names
<1>4. \A b \in work' : \E o \in work : \E n \in Names(o) : b \in New(o, n).below
  BY <1>2, <1>3
<1>5. \A a \in tree' : a \in tree \/ \E o \in work : \E n \in Names(o) : a \in New(o, n).attributes
  BY <1>2, <1>3
<1>6. ASSUME NEW o \in work, NEW n \in Names(o)
      PROVE  /\ \A a \in New(o, n).attributes :
                  /\ Sequential(a.under) /\ Below(o.under, a.under)
                  /\ Unstated(o.create) => a.presence = "computed"
                  /\ o.beneath => a.presence \in {"computed", "computed_optional"}
                  /\ \/ a = Main(o, n) /\ a.under = o.under /\ a.wire = n
                     \/ a.under = path(o, n) /\ a.presence = "computed" /\ variants(o, n) # {}
             /\ \A b \in New(o, n).below :
                  /\ Sequential(b.under) /\ Below(o.under, b.under) /\ Below(path(o, n), b.under)
                  /\ Passes(Main(o, n), b)
                  /\ Unstated(o.create) => Unstated(b.create)
                  /\ o.beneath => b.beneath
                  /\ variants(o, n) # {} => Unstated(b.create)
  <2>1. AttributesLie(o, n) /\ ObjectsLie(o, n)
    BY <1>1, MadeBelow
  <2>2. Composed(SidesAt(o, n))
    BY DEF ElementsCompose
  <2>3. /\ Main(o, n).wire = n
        /\ \A b : Variant(path(o, n), b).presence = "computed"
        /\ Unstated(o.create) => Main(o, n).presence = "computed"
        /\ o.beneath => Main(o, n).presence \in {"computed", "computed_optional"}
        /\ \A b \in New(o, n).below :
             /\ Passes(Main(o, n), b)
             /\ Unstated(o.create) => Unstated(b.create)
             /\ o.beneath => b.beneath
             /\ variants(o, n) # {} => Unstated(b.create)
    BY <2>2, MadeFilled
  <2> QED
    BY <2>1, <2>3 DEF AttributesLie, ObjectsLie
<1>7. ASSUME NEW x, Sequential(x.under)
      PROVE  /\ Sequential(PathOf(x)) /\ Len(x.under) \in Nat /\ Len(PathOf(x)) = Len(x.under) + 1
             /\ Below(x.under, PathOf(x)) /\ PathOf(x)[Len(x.under) + 1] = x.wire
  BY <1>7, Deeper DEF PathOf
<1>8. ASSUME NEW o \in work, NEW n
      PROVE  /\ Sequential(path(o, n)) /\ Len(o.under) \in Nat /\ Len(path(o, n)) = Len(o.under) + 1
             /\ path(o, n)[Len(o.under) + 1] = n
  BY <1>1, Deeper
<1> HIDE DEF New, path, variants
\* What an old attribute is above, it was above already.
<1>9. ASSUME NEW o \in work, NEW x \in tree, NEW v, Sequential(v), Below(o.under, v), Over(x, v)
      PROVE  Over(x, o.under)
  <2>1. /\ Sequential(x.under) /\ Sequential(o.under) /\ ~Below(o.under, x.under)
        /\ Sequential(PathOf(x)) /\ Len(x.under) \in Nat /\ Len(PathOf(x)) = Len(x.under) + 1
        /\ Below(x.under, PathOf(x)) /\ Below(PathOf(x), v)
    BY <1>1, <1>7, <1>9 DEF Over
  <2>2. Below(PathOf(x), o.under) \/ Below(o.under, PathOf(x))
    BY <1>9, <2>1, BelowOrder
  <2>3. Len(o.under) \in Nat
    BY <2>1 DEF Sequential
  <2>4. CASE Below(o.under, PathOf(x))
    BY <2>1, <2>3, <2>4 DEF Below, Over
  <2> QED
    BY <2>2, <2>4 DEF Over
\* What a new attribute is above lies beneath the property it was made of.
<1>10. ASSUME NEW o \in work, NEW p \in work, NEW m \in Names(p), NEW x \in New(p, m).attributes,
              NEW v, Sequential(v), Below(o.under, v), Over(x, v)
       PROVE  p = o /\ Len(v) >= Len(o.under) + 1 /\ v[Len(o.under) + 1] = m
  <2>1. Sequential(x.under) /\ Below(p.under, x.under)
    BY <1>6
  <2>2. /\ Sequential(PathOf(x)) /\ Len(x.under) \in Nat /\ Len(PathOf(x)) = Len(x.under) + 1
        /\ Below(x.under, PathOf(x)) /\ PathOf(x)[Len(x.under) + 1] = x.wire /\ Below(PathOf(x), v)
    BY <1>7, <1>10, <2>1 DEF Over
  <2>3. Below(p.under, v)
    BY <1>1, <1>10, <2>1, <2>2, BelowOrder
  <2>4. p = o
    BY <1>1, <1>10, <2>3, BelowOrder
  <2>5. Len(PathOf(x)) >= Len(o.under) + 1 /\ PathOf(x)[Len(o.under) + 1] = m
    <3>1. CASE x.under = o.under /\ x.wire = m
      BY <1>8, <2>2, <3>1
    <3>2. CASE x.under = path(o, m)
      BY <1>8, <2>2, <3>2 DEF Below
    <3> QED
      BY <1>6, <2>4, <3>1, <3>2
  <2>6. Len(v) \in Nat /\ Len(o.under) \in Nat
    BY <1>8, <1>10 DEF Sequential
  <2> QED
    BY <2>2, <2>4, <2>5, <2>6 DEF Below
<1>11. ASSUME NEW a \in tree', NEW x \in tree', Over(x, a.under)
       PROVE  Gives(x, a)
  <2>1. CASE a \in tree /\ x \in tree
    BY <1>11, <2>1 DEF Poured
  <2>2. CASE a \in tree /\ x \notin tree
    <3>1a. PICK p \in work : \E m \in Names(p) : x \in New(p, m).attributes
      BY <1>5, <2>2
    <3>1. PICK m \in Names(p) : x \in New(p, m).attributes
      BY <3>1a
    <3>2. Sequential(a.under) /\ Sequential(x.under) /\ Sequential(p.under) /\ Below(p.under, x.under)
      BY <1>1, <1>6, <2>2, <3>1
    <3>3. Sequential(PathOf(x)) /\ Below(x.under, PathOf(x)) /\ Below(PathOf(x), a.under)
      BY <1>7, <1>11, <3>2 DEF Over
    <3>4. Below(p.under, a.under)
      BY <3>2, <3>3, BelowOrder
    <3> QED
      BY <1>1, <2>2, <3>4
  <2>3. CASE a \notin tree
    <3>1a. PICK o \in work : \E n \in Names(o) : a \in New(o, n).attributes
      BY <1>5, <2>3
    <3>1. PICK n \in Names(o) : a \in New(o, n).attributes
      BY <3>1a
    <3>2. Sequential(a.under) /\ Below(o.under, a.under)
      BY <1>6, <3>1
    <3>3. CASE x \in tree
      <4>1. Passes(x, o)
        BY <1>9, <1>11, <3>2, <3>3 DEF Poured
      <4> QED
        BY <1>6, <3>1, <4>1 DEF Passes, Gives
    <3>4. CASE x \notin tree
      <4>1a. PICK p \in work : \E m \in Names(p) : x \in New(p, m).attributes
        BY <1>5, <3>4
      <4>1. PICK m \in Names(p) : x \in New(p, m).attributes
        BY <4>1a
      <4>2. Len(a.under) >= Len(o.under) + 1
        BY <1>10, <1>11, <3>2, <4>1
      <4>3. a.presence = "computed"
        BY <1>6, <1>8, <3>1, <4>2
      <4> QED
        BY <4>3 DEF Gives
    <3> QED
      BY <3>3, <3>4
  <2> QED
    BY <2>1, <2>2, <2>3
<1>12. ASSUME NEW b \in work', NEW x \in tree', Over(x, b.under)
       PROVE  Passes(x, b)
  <2>1a. PICK o \in work : \E n \in Names(o) : b \in New(o, n).below
    BY <1>4
  <2>1. PICK n \in Names(o) : b \in New(o, n).below
    BY <2>1a
  <2>2. Sequential(b.under) /\ Below(o.under, b.under) /\ Below(path(o, n), b.under)
    BY <1>6, <2>1
  <2>3. CASE x \in tree
    <3>1. Passes(x, o)
      BY <1>9, <1>12, <2>2, <2>3 DEF Poured
    <3> QED
      BY <1>6, <2>1, <3>1 DEF Passes
  <2>4. CASE x \notin tree
    <3>1a. PICK p \in work : \E m \in Names(p) : x \in New(p, m).attributes
      BY <1>5, <2>4
    <3>1. PICK m \in Names(p) : x \in New(p, m).attributes
      BY <3>1a
    <3>2. p = o /\ b.under[Len(o.under) + 1] = m
      BY <1>10, <1>12, <2>2, <3>1
    <3>3. m = n
      BY <1>8, <2>2, <3>2 DEF Below
    <3>4. CASE x = Main(o, n)
      BY <1>6, <2>1, <3>4
    <3>5. CASE x.presence = "computed" /\ variants(o, n) # {}
      BY <1>6, <2>1, <3>5 DEF Passes
    <3> QED
      BY <1>6, <3>1, <3>2, <3>3, <3>4, <3>5
  <2> QED
    BY <2>3, <2>4
<1> QED
  BY <1>11, <1>12 DEF Poured

\* Opening objects no request describes leads to more of them, and to computed
\* attributes only.
LEMMA UnsetMoves ==
  ASSUME Unset(work, tree), ElementsCompose, Grow
  PROVE  Unset(work', tree')
<1> DEFINE New(o, n) == buildAttribute(o, n)
<1>1. /\ tree' = tree \cup UNION {m.attributes : m \in UNION {buildAttributeTree(o) : o \in work}}
      /\ work' = UNION {m.below : m \in UNION {buildAttributeTree(o) : o \in work}}
  BY DEF Grow, Opened
<1>2. \A o : buildAttributeTree(o) = {New(o, n) : n \in Names(o)}
  BY DEF buildAttributeTree, Names
<1>3. ASSUME NEW o \in work, NEW n \in Names(o)
      PROVE  /\ \A a \in New(o, n).attributes : a.presence = "computed"
             /\ \A b \in New(o, n).below : Unstated(b.create)
  <2>1. Unstated(o.create) /\ Composed(SidesAt(o, n))
    BY DEF Unset, ElementsCompose
  <2>2. New(o, n).attributes = {Main(o, n)} \cup VariantsOf(o, n)
    BY OpenedInto
  <2>3. /\ Main(o, n).presence = "computed"
        /\ \A v : Variant(Append(o.under, n), v).presence = "computed"
        /\ \A b \in New(o, n).below : Unstated(b.create)
    BY <2>1, MadeFilled
  <2> QED
    BY <2>2, <2>3 DEF VariantsOf
<1> HIDE DEF New
<1> QED
  BY <1>1, <1>2, <1>3 DEF Unset

-----------------------------------------------------------------------------
\* What holds of a tree holds of it once dressed.
Steady(t)        == \A a, x \in t : Over(x, a.under) => Gives(x, a)
ComputedBelow(t) == \A a \in t : a.under # <<>> => a.presence = "computed"

\* A change at the root that gives no less: each attribute is one of before, or
\* lies at the root and is set as one of before was, or is required, or has
\* nothing beneath it.
KeptRoot(t, u) ==
  \A x \in u : \/ x \in t
               \/ /\ x.under = <<>>
                  /\ \/ \E y \in t : y.under = <<>> /\ y.wire = x.wire /\ y.presence = x.presence
                     \/ x.presence = "required"
                     \/ \A a \in t : ~Over(x, a.under)

LEMMA NotOverRoot ==
  ASSUME NEW x, Sequential(x.under)
  PROVE  ~Over(x, <<>>)
<1>1. Len(x.under) \in Nat /\ Len(PathOf(x)) = Len(x.under) + 1
  BY Deeper DEF PathOf
<1> QED
  BY <1>1 DEF Over, Below

LEMMA KeptRootSteady ==
  ASSUME NEW t, NEW u, Tidy(t), Steady(t), KeptRoot(t, u)
  PROVE  Steady(u)
<1> SUFFICES ASSUME NEW a \in u, NEW x \in u, Over(x, a.under) PROVE Gives(x, a)
  BY DEF Steady
<1>1. \A y \in u : Sequential(y.under)
  BY RootSequential DEF KeptRoot, Tidy
<1>2. a.under # <<>>
  BY <1>1, NotOverRoot
<1>3. a \in t
  BY <1>2 DEF KeptRoot
<1>4. CASE x \in t
  BY <1>3, <1>4 DEF Steady
<1>5. ASSUME NEW y \in t, y.under = <<>>, x.under = <<>>, y.wire = x.wire, y.presence = x.presence
      PROVE  Gives(x, a)
  <2>1. Over(y, a.under)
    BY <1>5 DEF Over, PathOf
  <2>2. Gives(y, a)
    BY <1>3, <2>1 DEF Steady
  <2> QED
    BY <1>5, <2>2 DEF Gives
<1>6. CASE x.presence = "required"
  BY <1>6 DEF Gives
<1> QED
  BY <1>3, <1>4, <1>5, <1>6 DEF KeptRoot

LEMMA ComputedSteady ==
  ASSUME NEW t, Tidy(t), ComputedBelow(t)
  PROVE  Steady(t)
<1> SUFFICES ASSUME NEW a \in t, NEW x \in t, Over(x, a.under) PROVE Gives(x, a)
  BY DEF Steady
<1>1. a.under # <<>>
  BY NotOverRoot DEF Tidy
<1>2. a.presence = "computed"
  BY <1>1 DEF ComputedBelow
<1> QED
  BY <1>2 DEF Gives

LEMMA ReservedKeeps ==
  ASSUME NEW t, Tidy(t)
  PROVE  /\ KeptRoot(t, excludeReservedRootNames(t))
         /\ ComputedBelow(t) => ComputedBelow(excludeReservedRootNames(t))
<1> DEFINE G(a) == IF a \in Root(t) /\ a.name \in reservedRootNames
                   THEN [a EXCEPT !.type = "", !.cause = "reservedRootName"] ELSE a
<1>1. excludeReservedRootNames(t) = {G(a) : a \in t}
  BY DEF excludeReservedRootNames
<1>2. ASSUME NEW a \in t
      PROVE  /\ G(a).under = a.under /\ G(a).wire = a.wire /\ G(a).presence = a.presence
             /\ G(a) = a \/ a.under = <<>>
  <2>1. CASE a \in Root(t) /\ a.name \in reservedRootNames
    <3>1. \E x, y : G(a) = [a EXCEPT !.type = x, !.cause = y]
      BY <2>1, Zenon
    <3> HIDE DEF G
    <3>2. Lies(a) /\ a.under = <<>>
      BY <2>1 DEF Tidy, Root
    <3>3. PICK x, y : G(a) = [a EXCEPT !.type = x, !.cause = y]
      BY <3>1
    <3> QED
      BY <3>2, <3>3 DEF Lies
  <2>2. CASE ~(a \in Root(t) /\ a.name \in reservedRootNames)
    BY <2>2, Zenon
  <2> QED
    BY <2>1, <2>2
<1> HIDE DEF G
<1> QED
  BY <1>1, <1>2 DEF KeptRoot, ComputedBelow

LEMMA ParentsKeep ==
  ASSUME NEW t, NEW ps, NEW parent
  PROVE  /\ KeptRoot(t, ensureParentParameters(t, ps, parent))
         /\ ComputedBelow(t) => ComputedBelow(ensureParentParameters(t, ps, parent))
<1> DEFINE P(n) == ParentAttribute(FirstSo(ps, parent, n), n)
<1>1. \A n : P(n).under = <<>> /\ P(n).presence = "required"
  BY DEF ParentAttribute, Addressing, Attribute
<1>2. ensureParentParameters(t, ps, parent) = t \cup {P(n) : n \in ParentNames(ps, parent) \ NamesIn(t)}
  BY DEF ensureParentParameters
<1> HIDE DEF P
<1> QED
  BY <1>1, <1>2 DEF KeptRoot, ComputedBelow

LEMMA IdKeeps ==
  ASSUME NEW t, Tidy(t), NEW key, NEW type
  PROVE  /\ (\A a \in t : /\ ~Below(<< Or(key, "id") >>, a.under)
                          /\ \A x \in t : x.under = <<>> /\ x.name = IdName => ~Over(x, a.under))
              => KeptRoot(t, ensureID(t, key, type))
         /\ ComputedBelow(t) => ComputedBelow(ensureID(t, key, type))
         /\ (\A a \in t : a.presence = "computed") => \A a \in ensureID(t, key, type) : a.presence = "computed"
<1>1. CASE IdName \in NamesIn(t)
  <2> DEFINE G(a) == IF a \in Root(t) /\ a.name = IdName
                     THEN [a EXCEPT !.presence = "computed", !.replace = FALSE] ELSE a
  <2>1. ensureID(t, key, type) = {G(a) : a \in t}
    BY <1>1 DEF ensureID, Changed
  <2>2. \A a \in t : /\ G(a).under = a.under /\ G(a).wire = a.wire
                     /\ G(a) = a \/ (a.under = <<>> /\ a.name = IdName /\ G(a).presence = "computed")
    BY DEF Tidy, Lies, Root
  <2> HIDE DEF G
  <2>3. \A a \in t : PathOf(G(a)) = PathOf(a)
    BY <2>2 DEF PathOf
  <2> QED
    BY <2>1, <2>2, <2>3 DEF KeptRoot, ComputedBelow, Over
<1>2. CASE IdName \notin NamesIn(t)
  <2> DEFINE i == Addressing(Or(key, "id"), IdName, "computed", type)
  <2>1. ensureID(t, key, type) = t \cup {i}
    BY <1>2 DEF ensureID
  <2>2. i.under = <<>> /\ i.presence = "computed" /\ i.wire = Or(key, "id")
    BY DEF Addressing, Attribute
  <2> HIDE DEF i
  <2>3. PathOf(i) = << Or(key, "id") >>
    BY <2>2 DEF PathOf
  <2> QED
    BY <2>1, <2>2, <2>3 DEF KeptRoot, ComputedBelow, Over
<1> QED
  BY <1>1, <1>2

LEMMA KeyKeeps ==
  ASSUME NEW t, Tidy(t), ComputedBelow(t), NEW key, NEW type
  PROVE  ComputedBelow(requireKey(t, key, type))
<1>1. CASE WordsOf[key] \in NamesIn(t)
  <2> DEFINE G(a) == IF a \in Root(t) /\ a.name = WordsOf[key] THEN [a EXCEPT !.presence = "required"] ELSE a
  <2>1. requireKey(t, key, type) = {G(a) : a \in t}
    BY <1>1 DEF requireKey, Changed
  <2>2. \A a \in t : G(a).under = a.under /\ (G(a) = a \/ a.under = <<>>)
    BY DEF Tidy, Lies, Root
  <2> HIDE DEF G
  <2> QED
    BY <2>1, <2>2 DEF ComputedBelow
<1>2. CASE WordsOf[key] \notin NamesIn(t)
  <2> DEFINE i == Addressing(key, WordsOf[key], "required", type)
  <2>1. requireKey(t, key, type) = t \cup {i}
    BY <1>2 DEF requireKey
  <2>2. i.under = <<>>
    BY DEF Addressing, Attribute
  <2> HIDE DEF i
  <2> QED
    BY <2>1, <2>2 DEF ComputedBelow
<1> QED
  BY <1>1, <1>2

LEMMA CompanionKeeps ==
  ASSUME NEW c, NEW items, Tidy(items), \A a \in items : a.presence = "computed",
         \A a \in Arguments(c, items) : a.name # WordsOf["items"]
  PROVE  ComputedBelow(companion(c, items))
<1> DEFINE list == [Attribute(<<>>, "items", "computed") EXCEPT !.type = "list", !.levels = <<"object">>]
           D(a) == [a EXCEPT !.under = <<"items">> \o @]
           args == Arguments(c, items)
           all  == args \cup ({list} \cup {D(a) : a \in items})
<1>1. AtRoot(args)
  <2>1. Tidy({}) /\ AtRoot({})
    BY DEF Tidy, OneName, AtRoot
  <2> QED
    BY <2>1, ParentsTidy, FiltersTidy DEF Arguments
<1>2. list.under = <<>>
  BY DEF Attribute
<1>3. \A a \in items : D(a).presence = "computed"
  BY DEF Tidy, Lies
<1>4. companion(c, items) = excludeReservedRootNames(all)
  BY DEF companion, ItemsAttribute
<1>5. Tidy(all)
  BY CompanionTidy DEF ItemsAttribute
<1> HIDE DEF list, D, args
<1>6. ComputedBelow(all)
  BY <1>1, <1>2, <1>3 DEF AtRoot, ComputedBelow
<1> QED
  BY <1>4, <1>5, <1>6, ReservedKeeps

\* Whatever a block is of, what its tree is given at the root clears nothing below.
LEMMA DerivedSteady ==
  ASSUME Tidy(tree), Steady(tree), SpelledApart, BareIdentifier, phase = "grow",
         ReadBack => \A a \in tree : a.presence = "computed",
         NEW d, d = Derived(Entity, Kind, tree)
  PROVE  Steady(d.tree)
<1> DEFINE withID == WithID(Entity, tree)
<1>1. d.tree = Dressed(Entity, Kind, tree)
  BY DEF Derived
<1>d. /\ Kind = "resource" => d.tree = resource(Entity, tree)
      /\ Kind = "datasource" => d.tree = datasource(Entity, tree)
      /\ Kind = "list" => d.tree = withID
      /\ Kind \notin {"resource", "datasource", "list"} => d.tree = excludeReservedRootNames(tree)
  BY <1>1 DEF Dressed
<1>2. CASE Kind = "resource"
  <2> DEFINE identified == ensureID(tree, ResourceKey(Entity), ResourceKeyType(Entity))
             cleared == excludeReservedRootNames(identified)
  <2>1. Tidy(identified) /\ Steady(identified)
    <3>1. KeptRoot(tree, identified)
      BY <1>2, IdKeeps DEF BareIdentifier
    <3> QED
      BY <3>1, IdTidy, KeptRootSteady
  <2> HIDE DEF identified
  <2>2. Tidy(cleared) /\ Steady(cleared)
    BY <2>1, ReservedTidy, ReservedKeeps, KeptRootSteady
  <2> HIDE DEF cleared
  <2>3. d.tree = ensureParentParameters(cleared, Above(Entity), enclosingEntity(Entity.collection))
    BY <1>2, <1>d DEF resource, cleared, identified
  <2> QED
    BY <2>2, <2>3, ParentsKeep, KeptRootSteady
<1>3. CASE ReadBack
  <2>1. /\ Tidy(withID) /\ ComputedBelow(withID)
        /\ \A a \in withID : a.presence = "computed"
    BY <1>3, IdTidy, IdKeeps DEF WithID, ComputedBelow
  <2> HIDE DEF withID
  <2>2. CASE Kind = "list"
    BY <1>d, <2>1, <2>2, ComputedSteady
  <2>3. CASE Kind = "datasource" /\ Entity.class.lookupByKey
    <3> DEFINE required == requireKey(withID, itemKeyParameter(Entity), ItemKeyType(Entity))
               cleared == excludeReservedRootNames(required)
    <3>1. Tidy(required) /\ ComputedBelow(required)
      BY <2>1, KeyTidy, KeyKeeps
    <3> HIDE DEF required
    <3>2. Tidy(cleared) /\ ComputedBelow(cleared)
      BY <3>1, ReservedTidy, ReservedKeeps
    <3>3. d.tree = ensureParentParameters(cleared, parentParameters(pathParameters(At(Entity, "read"))), <<>>)
      BY <1>d, <2>3 DEF datasource, lookup, withID, cleared, required
    <3> HIDE DEF cleared
    <3>4. Tidy(d.tree) /\ ComputedBelow(d.tree)
      BY <3>2, <3>3, ParentsTidy, ParentsKeep
    <3> QED
      BY <3>4, ComputedSteady
  <2>4. CASE Kind = "datasource" /\ ~Entity.class.lookupByKey
    <3>1. d.tree = companion(Entity, withID)
      BY <1>d, <2>4 DEF datasource, withID
    <3>2. \A a \in Arguments(Entity, withID) : a.name # WordsOf["items"]
      BY <2>4 DEF SpelledApart, withID
    <3>3. Tidy(d.tree) /\ ComputedBelow(d.tree)
      BY <2>1, <3>1, <3>2, CompanionTidy, CompanionKeeps
    <3> QED
      BY <3>3, ComputedSteady
  <2> QED
    BY <1>3, <2>2, <2>3, <2>4 DEF ReadBack
<1>4. CASE Kind \notin {"resource", "datasource", "list"}
  <2>1. KeptRoot(tree, d.tree)
    BY <1>d, <1>4, ReservedKeeps
  <2> QED
    BY <2>1, KeptRootSteady
<1> QED
  BY <1>2, <1>3, <1>4 DEF ReadBack

-----------------------------------------------------------------------------
(***************************************************************************)
(* What the server may fill, in every tree that is derived.                *)
(***************************************************************************)
Derivable == \A b \in DOMAIN model : Tidy(model[b].tree) /\ Steady(model[b].tree)
FilledInv ==
  /\ Frontier(work, tree) /\ Poured(work, tree)
  /\ ReadBack => Unset(work, tree)
  /\ Derivable

LEMMA FilledInit == Init => FilledInv
  BY DEF Init, FilledInv, Frontier, OneName, Poured, ReadBack, Derivable

\* A block begins with one object, with no request where it is read back.
LEMMA FilledBegin ==
  ASSUME FilledInv, Begin
  PROVE  FilledInv'
<1> DEFINE sides == SchemasOf(Entity, Kind)
           o == Open(<<>>, sides, Kind = "resource" /\ Entity.class.missingUpdate, FALSE)
<1>1. work' = {o} /\ tree' = {} /\ model' = model /\ kept' = kept /\ blocks' = blocks
  BY DEF Begin, naming
<1>2. o.under = <<>> /\ o.create = sides.create
  BY DEF Open
<1>3. Kind \in {"datasource", "list"} => Unstated(sides.create)
  <2>1. \A id : Unstated(Answered(id).create)
    <3>1. \A none, id : Sides(none, id, none).create = none
      BY DEF Sides
    <3> QED
      BY <3>1, Zenon DEF Answered, Unstated
  <2>2. CASE Kind = "datasource"
    BY <2>1, <2>2 DEF SchemasOf
  <2>3. CASE Kind = "list"
    BY <2>1, <2>3 DEF SchemasOf
  <2> QED
    BY <2>2, <2>3
<1> HIDE DEF o, sides
<1>4. Frontier(work', tree')
  BY <1>1, <1>2, RootSequential DEF Frontier, OneName
<1>5. Poured(work', tree')
  BY <1>1 DEF Poured
<1>6. ReadBack' => Unset(work', tree')
  BY <1>1, <1>2, <1>3 DEF ReadBack, Unset, Kind
<1> QED
  BY <1>1, <1>4, <1>5, <1>6 DEF FilledInv, Derivable

LEMMA FilledFinish ==
  ASSUME FilledInv, SpelledApart, BareIdentifier, Finish
  PROVE  FilledInv'
<1> DEFINE b == <<Kind, Entity.key>>
           d == Derived(Entity, Kind, tree)
<1>1. Tidy(tree) /\ Steady(tree) /\ phase = "grow" /\ (ReadBack => \A a \in tree : a.presence = "computed")
  BY DEF FilledInv, Frontier, Tidy, Poured, Steady, Unset, Finish
<1>2. Tidy(d.tree) /\ Steady(d.tree)
  BY <1>1, DerivedTidy, DerivedSteady
<1>3. model' = [e \in DOMAIN model \cup {b} |-> IF e = b THEN d ELSE model[e]]
  BY DEF Finish, Entered
<1> HIDE DEF b, d
<1>4. Derivable'
  BY <1>2, <1>3 DEF FilledInv, Derivable
<1>5. work' = work /\ tree' = tree /\ ~ReadBack'
  BY DEF Finish, ReadBack
<1> QED
  BY <1>4, <1>5 DEF FilledInv

LEMMA FilledStep ==
  ASSUME FilledInv, SpelledApart, ElementsCompose, BareIdentifier, [Next]_vars
  PROVE  FilledInv'
<1>1. CASE Grow
  <2>1. Frontier(work', tree') /\ Poured(work', tree')
    BY <1>1, FrontierMoves, PouredMoves DEF FilledInv
  <2>2. model' = model /\ (ReadBack' => ReadBack)
    BY <1>1 DEF Grow, naming, ReadBack, Kind
  <2>3. ReadBack' => Unset(work', tree')
    BY <1>1, <2>2, UnsetMoves DEF FilledInv
  <2> QED
    BY <2>1, <2>2, <2>3 DEF FilledInv, Derivable
<1>2. CASE Begin
  BY <1>2, FilledBegin
<1>3. CASE Finish
  BY <1>3, FilledFinish
<1>4. CASE UNCHANGED <<work, tree, model>> /\ (ReadBack' => ReadBack)
  BY <1>4 DEF FilledInv, Derivable
<1>5. CASE \E c \in undecided : Refuse(c) \/ Name(c)
  BY <1>4, <1>5 DEF Refuse, Name, Turn, building, ReadBack
<1>6. CASE Gather \/ Assign \/ Sort \/ Note \/ Done
  <2>1. ~ReadBack'
    BY <1>6 DEF Gather, Assign, Sort, Note, Done, ReadBack
  <2> QED
    BY <1>4, <1>6, <2>1 DEF Gather, Assign, Sort, Note, Done, building
<1>7. CASE UNCHANGED vars
  BY <1>4, <1>7 DEF vars, building, ReadBack, Kind
<1> QED
  BY <1>1, <1>2, <1>3, <1>5, <1>6, <1>7 DEF Next, Finished

LEMMA FilledThen == FilledInv => FilledStaysFilled
<1> SUFFICES ASSUME FilledInv, NEW b \in DOMAIN model, NEW a \in model[b].tree, NEW x \in model[b].tree,
                    IsStrictPrefix(PathOf(x), PathOf(a))
             PROVE  Gives(x, a)
  BY DEF FilledStaysFilled, Gives
<1>1. Sequential(x.under) /\ Sequential(a.under) /\ Steady(model[b].tree)
  BY DEF FilledInv, Derivable, Tidy
<1> DEFINE u == PathOf(x)
           v == PathOf(a)
<1>2. /\ Sequential(u) /\ Sequential(v) /\ Len(a.under) \in Nat /\ Len(v) = Len(a.under) + 1
      /\ Below(a.under, v)
  BY <1>1, Deeper DEF PathOf
<1> HIDE DEF u, v
<1>3. IsStrictPrefix(u, v)
  BY DEF u, v
<1>4. Len(u) \in Nat /\ Len(v) \in Nat /\ u \in Seq(Range(u)) /\ v \in Seq(Range(v))
  BY <1>2 DEF Sequential
<1>5. Len(u) <= Len(v) /\ SubSeq(u, 1, Len(u)) = SubSeq(v, 1, Len(u)) /\ u # v
  BY <1>3 DEF IsStrictPrefix, IsPrefix
<1>6. \A i \in 1 .. Len(u) : u[i] = v[i]
  <2> TAKE i \in 1 .. Len(u)
  <2>1. SubSeq(u, 1, Len(u))[i] = u[i] /\ SubSeq(v, 1, Len(u))[i] = v[i]
    BY <1>4, <1>5
  <2> QED
    BY <1>5, <2>1
<1>7. Len(u) # Len(v)
  BY <1>4, <1>5, <1>6, SeqEqual
<1>8. Below(u, a.under)
  BY <1>2, <1>4, <1>5, <1>6, <1>7 DEF Below
<1> QED
  BY <1>1, <1>8 DEF Steady, Over, u

\* However deep the schemas nest, and whatever is added at the root of a finished
\* tree: beneath what only the server sets everything is only set by the server,
\* and beneath what it may fill nothing is required or only optional.  It is so of
\* every document whose collections are of levels that end, that spells no two
\* properties of one object alike, and that has nothing lie beneath an identifier.
THEOREM FilledInPlace ==
  Spec /\ []SpelledApart /\ []ElementsCompose /\ []BareIdentifier => []FilledStaysFilled
<1>1. FilledInv /\ SpelledApart /\ ElementsCompose /\ BareIdentifier /\ [Next]_vars => FilledInv'
  BY FilledStep
<1> QED
  BY FilledInit, <1>1, FilledThen, PTL DEF Spec

=============================================================================
