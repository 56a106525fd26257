----------------------------- MODULE SchemaFold ------------------------------
(***************************************************************************)
(* A document's schemas read through references and allOf                  *)
(* (internal/intermediate_representation/attributes.go, resolveSchema).    *)
(*                                                                         *)
(* A schema has an id, "" for none, and document.schemas holds what it     *)
(* declares itself: a reference node declares its target in ref and the    *)
(* extensions written beside it.  Bounds, prose, enumerations and formats  *)
(* fold the same way and are left out.                                     *)
(***************************************************************************)
EXTENDS Integers, Sequences, SequencesExt, FiniteSets

VARIABLE document    \* [paths, schemas, exclude]: the document and services.exclude

Ids        == DOMAIN document.schemas \cup {""}
Own(id)    == document.schemas[id]
Unstated(fact) == fact = ""

\* The nodes of a schema in the order the fold meets them, each one once.
Inward(id) == IF Own(id).ref = "" THEN Own(id).allOf ELSE << Own(id).ref >>
Walk[stack \in Seq(Ids), seen \in Seq(Ids)] ==
  IF stack = <<>> THEN seen
  ELSE IF Head(stack) \in Range(seen) THEN Walk[Tail(stack), seen]
  ELSE Walk[Inward(Head(stack)) \o Tail(stack), Append(seen, Head(stack))]
View(id) == IF id = "" THEN <<>> ELSE Walk[<<id>>, <<>>]

\* The first node that states a fact wins.
FirstOf(found) == IF found = <<>> THEN "" ELSE Head(found)
Resolved(id)   == FirstOf(SelectSeq(View(id), LAMBDA s : Own(s).ref = ""))
Least(places)  == CHOOSE i \in places : \A j \in places : i <= j
Stated(values) == LET at == {i \in DOMAIN values : values[i] # ""}
                  IN IF at = {} THEN "" ELSE values[Least(at)]
Types(view)    == [i \in DOMAIN view |-> Own(view[i]).type]
Items(view)    == [i \in DOMAIN view |-> Own(view[i]).items]
Values(view)   == [i \in DOMAIN view |-> Own(view[i]).values]
ItemsOf(id)    == Stated(Items(View(id)))
ValuesOf(id)   == Stated(Values(View(id)))

Some(id, flag)  == \E s \in Range(View(id)) : flag \in Own(s).flags
RequiredOf(id)  == UNION {Own(s).required : s \in Range(View(id))}
Branches(view)  == FlattenSeq([i \in DOMAIN view |-> Own(view[i]).union])
Declared(view)  == FlattenSeq([i \in DOMAIN view |-> Own(view[i]).properties])

\* The properties in the order they are met, the first of a name winning.
FirstNamed(ps)    == SelectSeq([i \in DOMAIN ps |-> [at |-> i, p |-> ps[i]]],
                       LAMBDA x : \A j \in 1..(x.at - 1) : ps[j].name # x.p.name)
PropertiesOf(id)  == [i \in DOMAIN FirstNamed(Declared(View(id))) |-> FirstNamed(Declared(View(id)))[i].p]
NamesOf(id)       == {p.name : p \in Range(Declared(View(id)))}
findProperty(id, name) ==
  LET ps == Declared(View(id))
      at == {i \in DOMAIN ps : ps[i].name = name}
  IN IF at = {} THEN "" ELSE ps[Least(at)].to

\* Extensions beside a reference win over those of its target.
Extension(view, key) ==
  SelectSeq([i \in DOMAIN view |-> Own(view[i]).extensions], LAMBDA e : key \in DOMAIN e)
Says(found, key)  == found # <<>> /\ Head(found)[key]
\* One property seen from the request and from the response: the request's
\* own statement wins.
Extended(create, read, key) ==
  Says(Extension(View(create), key) \o Extension(View(read), key), key)

(***************************************************************************)
(* A union of scalars alone has their type, or string where they differ.   *)
(***************************************************************************)
Scalars == {"string", "integer", "number", "boolean"}
Collapsed(types) == IF types \subseteq Scalars
                    THEN IF Cardinality(types) = 1 THEN CHOOSE t \in types : TRUE ELSE "string"
                    ELSE ""
resolveUnion(id, type) ==
  IF Branches(View(id)) = <<>> \/ NamesOf(id) # {} THEN ""
  ELSE Collapsed({type[b] : b \in Range(Branches(View(id)))})
resolveType[id \in Ids] ==
  IF Stated(Types(View(id))) # "" THEN Stated(Types(View(id))) ELSE resolveUnion(id, resolveType)
TypeOf(id) == resolveType[id]
=============================================================================
