------------------------------ MODULE SdkPrune ------------------------------
(***************************************************************************)
(* Prune: settling a drafted binding against the SDK that was really       *)
(* generated (internal/sdkbind/prune*.go).  A field the SDK cannot carry   *)
(* goes with its reason, an object emptied by its own removals goes from   *)
(* the level above, and an entity whose calls or models the SDK does not   *)
(* have goes whole.                                                        *)
(*                                                                         *)
(* Resolving a field answers [fb, why, log]: the binding as the resolver   *)
(* left it, refused or not, since the pruner settles it in place and a     *)
(* second attempt starts from what the first left; why it is refused, ""   *)
(* where it is not; and what was recorded on the way, which stays recorded *)
(* when the attempt is given up.                                           *)
(***************************************************************************)
EXTENDS SdkBind

Removed(at, why) == [what |-> "removed", at |-> at, why |-> why]
Settled(at, drafted, settled) ==
  IF drafted = settled THEN {}
  ELSE {[what |-> "settled", at |-> at, drafted |-> drafted, settled |-> settled]}

Kept(fb)           == [fb |-> fb, why |-> "", log |-> {}]
Refused(fb, why)   == [fb |-> fb, why |-> why, log |-> {}]
Noting(r, entries) == [r EXCEPT !.log = @ \cup entries]
IsRefused(r)       == r.why # ""

(***************************************************************************)
(* One field's spelling and direction.                                     *)
(***************************************************************************)
Toggled(m) == IF m = NoMethod THEN m ELSE [m EXCEPT !.esc = ~@]
flipEscaped(fb) == [fb EXCEPT !.get = Toggled(@), !.set = Toggled(@)]

RECURSIVE clearGetters(_)
clearGetters(fb) ==
  [fb EXCEPT !.get = NoMethod, !.nested = [i \in DOMAIN @ |-> clearGetters(@[i])]]
keepFromPlanShallow(fb) == [fb EXCEPT !.get = NoMethod, !.kept = TRUE]
keepFromPlan(fb) == [clearGetters(fb) EXCEPT !.kept = TRUE]

RECURSIVE keptBelow(_)
keptBelow(fb) == fb.kept \/ \E i \in DOMAIN fb.nested : keptBelow(fb.nested[i])

\* A response that cannot answer one member of an object cannot rebuild it.
liftKeptFromPlan(fbs) ==
  [i \in DOMAIN fbs |-> IF keptBelow(fbs[i]) THEN keepFromPlan(fbs[i]) ELSE fbs[i]]

(***************************************************************************)
(* Carriers: which Go types hold which attribute.                          *)
(***************************************************************************)
kindCompatible(kind, name) == kind # "" /\ KindOf(name) = kind

\* Scalars, bare: an enumeration, a time, a date and a uuid are strings to a
\* practitioner; a date is not carried inside a list.
Scalar(t, kind) == Bare(t) /\
  \/ kind = "string" /\ (enumParse(t) # NoFunc \/ t \in {StdTime, DateOnly, UUID})
  \/ t.p = "" /\ kindCompatible(kind, t.n)

RECURSIVE plainCollectionMatches(_, _)
plainCollectionMatches(t, levels) ==
  \/ levels[1] = "list" /\ IsShape(t, "slice") /\ Len(levels) > 1
       /\ plainCollectionMatches(Elem(t), Tail(levels))
  \/ levels[1] = "map" /\ IsShape(t, "map") /\ Len(levels) > 1
       /\ plainCollectionMatches(Elem(t), Tail(levels))
  \/ Len(levels) = 1 /\ Bare(t) /\ t.p = "" /\ kindCompatible(levels[1], t.n)

\* Read and written as the one type, until ScalarPair parts the two.
Carried(fb, t) == [fb EXCEPT !.carried = Short(t), !.sent = Short(t), !.parse = NoFunc]

\* A value carried in a model's additionalData: its model, and for a field
\* that is written the model it is built as.
BagAs(fb, t, carrier, built) ==
  IF fb.set # NoMethod /\ built.why # "" THEN Refused(fb, built.why)
  ELSE Kept([Carried(fb, carrier) EXCEPT
               !.nmodel = Short(t),
               !.nwrite = IF fb.set # NoMethod THEN built.expr ELSE @])
settleBag(fb, t, carrier) == BagAs(fb, t, carrier, writeModelFromNamed(t))

\* A collection of collections is one value against every declared level.
settleCollection(fb, t) ==
  IF t = UntypedNode THEN
    IF fb.type = "list" THEN Kept(Carried(fb, t)) ELSE Refused(fb, "unbridgeable type")
  ELSE IF fb.type = "map" /\ carriesAdditionalData(t) THEN settleBag(fb, t, t)
  ELSE IF fb.type = "list" /\ fb.levels[1] = "map" /\ IsShape(t, "slice")
          /\ carriesAdditionalData(Elem(t)) THEN settleBag(fb, Elem(t), t)
  ELSE IF plainCollectionMatches(t, <<fb.type>> \o fb.levels) THEN Kept(Carried(fb, t))
  ELSE Refused(fb, "unbridgeable type")

\* A Go map is recorded by its value's own type, named or not.
GoMap(fb, t) ==
  LET value == Elem(t)
  IN IF IsShape(t, "map") /\ Bare(value) /\ kindCompatible(fb.elem, UnderOf(value))
     THEN Kept(Carried(fb, Wrapped("map", Basic(UnderOf(value)))))
     ELSE Refused(fb, "unbridgeable type")

settleScalar(fb, t) ==
  LET value    == IF IsShape(t, "ptr") THEN Elem(t) ELSE t
      parsed(x) == [Carried(fb, t) EXCEPT !.parse = enumParse(x)]
  IN IF Len(fb.levels) > 1 THEN settleCollection(fb, t)
     ELSE IF IsShape(t, "slice") /\ fb.type = "list" THEN
       IF Scalar(Elem(t), fb.elem) /\ Elem(t) # DateOnly THEN Kept(parsed(Elem(t)))
       ELSE Refused(fb, "unbridgeable type")
     ELSE IF fb.type = "map" /\ carriesAdditionalData(t) THEN settleBag(fb, t, t)
     ELSE IF fb.type = "map" /\ IsGoMap(t) THEN GoMap(fb, t)
     ELSE IF fb.type = "string" /\ t = Wrapped("slice", Basic("uint8")) THEN Kept(Carried(fb, t))
     ELSE IF Scalar(value, fb.type) THEN Kept(parsed(value))
     ELSE Refused(fb, "unbridgeable type")

\* Read as one type and written as another: each side against its own.
Bridges(fb, reads, writes) ==
  IF IsRefused(reads) \/ IsRefused(writes) THEN Refused(fb, "unbridgeable type")
  ELSE Kept([fb EXCEPT !.carried = reads.fb.carried,
                       !.sent    = writes.fb.sent,
                       !.nmodel  = reads.fb.nmodel,
                       !.nwrite  = writes.fb.nwrite,
                       !.parse   = IF writes.fb.parse # NoFunc THEN writes.fb.parse
                                   ELSE reads.fb.parse])
ScalarPair(fb, result, parameter) ==
  Bridges(fb, settleScalar([fb EXCEPT !.set = NoMethod], result),
              settleScalar([fb EXCEPT !.get = NoMethod], parameter))

(***************************************************************************)
(* A field, and the tree below it.  read and write are the models its      *)
(* accessors live on, NoType for a direction that is not live; at is its   *)
(* path.                                                                   *)
(***************************************************************************)
RECURSIVE resolveField(_, _, _, _), ResolveFields(_, _, _, _)

Survivors(results) ==
  LET stays == SelectSeq(results, LAMBDA r : ~IsRefused(r)) IN [i \in DOMAIN stays |-> stays[i].fb]
Separated(results, prefix) ==
  [fields |-> Survivors(results),
   log    |-> UNION {r.log : r \in Range(results)}
              \cup {Removed(Append(prefix, r.fb.attr), r.why) : r \in {q \in Range(results) : IsRefused(q)}}]
ResolveFields(fbs, read, write, prefix) ==
  Separated([i \in DOMAIN fbs |-> resolveField(fbs[i], read, write, Append(prefix, fbs[i].attr))], prefix)

\* Records nothing of what went below an object that stays.
HoldingUnlogged(fb, below) ==
  IF below.fields = <<>> THEN Refused([fb EXCEPT !.nested = <<>>], "empty nested object")
  ELSE Kept([fb EXCEPT !.nested = below.fields])

\* The members, against the models the object's own accessors carry.
Holding(fb, below) ==
  Noting(IF below.fields = <<>> THEN Refused([fb EXCEPT !.nested = <<>>], "empty nested object")
         ELSE Kept([fb EXCEPT !.nested = below.fields]), below.log)
Members(fb, read, write, at) == Holding(fb, ResolveFields(fb.nested, read, write, at))

WriteType(built) == IF built.expr = NoExpr THEN NoType ELSE typeFromExpr(built.expr)
Built(t)         == IF t = NoType THEN Refusal("") ELSE writeModelFromNamed(t)

\* fb is read through model, carried as basis and built as built.
Nested(fb, basis, model, built, write, at) ==
  IF model = NoType THEN Refused(fb, "no nested model")
  ELSE IF fb.set # NoMethod /\ built.why # "" THEN Refused(fb, built.why)
  ELSE IF fb.set # NoMethod /\ write = NoType THEN Refused(fb, "no nested model")
  ELSE Members([fb EXCEPT !.carried = Short(basis), !.nmodel = Short(model), !.nwrite = built.expr],
               model, write, at)
NestedIn(fb, basis, model, built, at) == Nested(fb, basis, model, built, WriteType(built), at)
NestedModel(fb, basis, model, at) ==
  NestedIn(fb, basis, model, Built(IF fb.set = NoMethod THEN NoType ELSE model), at)
resolveNested(fb, basis, at) == NestedModel(fb, basis, nestedModelOf(basis), at)

\* The object is one model where it is read and another where it is written.
NestedPair(fb, result, reads, built, write, at) ==
  IF reads = NoType \/ write = NoType THEN Refused(fb, "unbridgeable type")
  ELSE Members([fb EXCEPT !.carried = Short(result), !.nmodel = Short(reads), !.nwrite = built.expr],
               reads, write, at)
PairOf(fb, result, built, at) == NestedPair(fb, result, nestedModelOf(result), built, WriteType(built), at)
resolveNestedPair(fb, result, parameter, at) == PairOf(fb, result, Built(nestedModelOf(parameter)), at)

\* Where no conversion carries both, the write side stays on its own.
Either(both, alone) ==
  Noting(IF IsRefused(alone) THEN [both EXCEPT !.log = @ \cup alone.log] ELSE alone, both.log)
OrWriteSide(both, write, at) ==
  IF ~IsRefused(both) THEN both
  ELSE Either(both, resolveField(keepFromPlan(both.fb), NoType, write, at))
settleEachDirection(fb, result, parameter, write, at) ==
  OrWriteSide(IF fb.nested # <<>> THEN resolveNestedPair(fb, result, parameter, at)
              ELSE ScalarPair(fb, result, parameter), write, at)

\* Both accessors found: the type they carry decides.  A field live in
\* neither direction is left as it was drafted.
SettleOn(fb, basis, at) ==
  IF basis = NoType THEN Kept(fb)
  ELSE IF fb.nested # <<>> THEN resolveNested(fb, basis, at) ELSE settleScalar(fb, basis)
SettleField(fb, result, parameter, write, at) ==
  IF result # NoType /\ parameter # NoType /\ result # parameter
  THEN settleEachDirection(fb, result, parameter, write, at)
  ELSE SettleOn(fb, IF result # NoType THEN result ELSE parameter, at)

\* The setter, in the spelling the getter settled or, with none, in its own.
Takes(fb, result, params, write, at) ==
  IF Len(params) # 1 THEN Refused(fb, "not a setter") ELSE SettleField(fb, result, params[1], write, at)
Written(drafted, fb, result, write, at) ==
  IF ~HasMethod(write, fb.set) THEN Refused(drafted, "no setter")
  ELSE Noting(Takes(fb, result, methodOn(write, fb.set).params, write, at),
              Settled(at, drafted.set, fb.set))
Flips(fb, result, write) ==
  result = NoType /\ ~HasMethod(write, fb.set) /\ HasMethod(write, Toggled(fb.set))
WriteSide(fb, result, write, at) ==
  IF fb.set = NoMethod \/ write = NoType THEN SettleOn(fb, result, at)
  ELSE Written(fb, IF Flips(fb, result, write) THEN flipEscaped(fb) ELSE fb, result, write, at)

\* The getter first, as drafted and then in the other spelling; without one
\* a field the request carries is kept from the plan.
ReadAs(drafted, fb, read, write, at) ==
  Noting(IF fb.get \notin Accessors(read) THEN Refused(fb, "not an accessor")
         ELSE WriteSide(fb, methodOn(read, fb.get).results[1], write, at),
         Settled(at, drafted.get, fb.get))
Spelt(drafted, flipped, read, write, at) ==
  IF HasMethod(read, drafted.get) \/ HasMethod(read, flipped.get) THEN
    ReadAs(drafted, IF HasMethod(read, drafted.get) THEN drafted ELSE flipped, read, write, at)
  ELSE IF drafted.set # NoMethod /\ write # NoType /\ HasMethod(write, drafted.set) THEN
    Noting(resolveField(keepFromPlan(drafted), NoType, write, at),
           Settled(at, flipped.set, drafted.set))
  ELSE Refused(flipped, "no accessor")
resolveField(fb, read, write, at) ==
  IF fb.get = NoMethod \/ read = NoType THEN WriteSide(fb, NoType, write, at)
  ELSE Spelt(fb, flipEscaped(fb), read, write, at)
=============================================================================
