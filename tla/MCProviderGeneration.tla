----------------------- MODULE MCProviderGeneration -------------------------
(***************************************************************************)
(* A widget served as a resource, a companion data source and a list, a    *)
(* gadget looked up by its key, one settings object and an action, against *)
(* a kiota SDK and an openapi-generator SDK.  A scenario is a base SDK     *)
(* and representation with at most Changes of the named deviations a       *)
(* generator or a document is known for.                                   *)
(***************************************************************************)
EXTENDS ProviderGeneration, TLC

CONSTANT Changes

Sig(params, results) == [params |-> params, results |-> results]
Str     == Basic("string")
Ptr(t)  == Wrapped("ptr", t)
List(t) == Wrapped("slice", t)
Ctx     == Named("context", "Context")
Model(name) == Named("models", name)
Reads(t)  == Sig(<<>>, <<t>>)
Writes(t) == Sig(<<t>>, <<>>)
Setter(stem) == Method("Set", stem)
Esc(m)    == [m EXCEPT !.esc = TRUE]

Type(under, able, methods, fields) ==
  [under |-> under, able |-> able, methods |-> methods, fields |-> fields, query |-> <<>>]
Able(base, methods) == Type("interface", base, methods, <<>>)
StructOf(methods)      == Type("struct", "", methods, <<>>)
Plain_(under)       == Type(under, "", <<>>, <<>>)
Both(stem, t) == (Getter(stem) :> Reads(t)) @@ (Setter(stem) :> Writes(t))
Only(f, S)    == [x \in DOMAIN f \ S |-> f[x]]

(***************************************************************************)
(* The kiota SDK.                                                          *)
(***************************************************************************)
CallOn(params, t) == Sig(<<Ctx>> \o params \o <<Ptr(Named("widgets", "Config"))>>, <<t, ErrorType>>)
Void(params)      == Sig(<<Ctx>> \o params \o <<Ptr(Named("widgets", "Config"))>>, <<ErrorType>>)
Verb(name)        == Method(name, "")
Builder(name)     == Ptr(Named("widgets", name))
Hops(name)        == Method("", name)

WidgetMethods ==
  Both("Id", Ptr(Str)) @@ Both("Name", Ptr(Str))
  @@ (Esc(Getter("Type")) :> Reads(Ptr(Str))) @@ (Esc(Setter("Type")) :> Writes(Ptr(Str)))
  @@ Both("Mode", Ptr(Model("Mode"))) @@ Both("Size", Ptr(Basic("int64")))
  @@ Both("Labels", Model("Labelsable"))
  @@ Both("Address", Model("Addressable"))
  @@ (Setter("Secret") :> Writes(Ptr(Str)))
AddressMethods == Both("City", Ptr(Str)) @@ Both("Zone", Ptr(Str)) @@ (Setter("Pin") :> Writes(Ptr(Str)))

KiotaDecl ==
  (<<"sdk", "Client">> :> StructOf((Hops("widgets") :> Reads(Builder("Widgets")))
      @@ (Hops("settings") :> Reads(Builder("Settings"))) @@ (Hops("gadgets") :> Reads(Builder("Gadgets")))
      @@ (Hops("sites") :> Reads(Builder("Sites")))))
  @@ (<<"widgets", "Sites">> :> StructOf(Method("By", "siteId") :> Sig(<<Str>>, <<Builder("OneSite")>>)))
  @@ (<<"widgets", "OneSite">> :> StructOf(Hops("widgets") :> Reads(Builder("Widgets"))))
  @@ (<<"widgets", "Config">> :> Plain_("struct"))
  @@ (<<"widgets", "Widgets">> :> StructOf((Method("By", "widgetId") :> Sig(<<Str>>, <<Builder("Item")>>))
      @@ (Verb("Get") :> CallOn(<<>>, Model("Pageable")))
      @@ (Verb("Post") :> CallOn(<<Model("Widgetable")>>, Model("Widgetable")))))
  @@ (<<"widgets", "Item">> :> StructOf((Hops("rotate") :> Reads(Builder("Rotate")))
      @@ (Verb("Get") :> CallOn(<<>>, Model("Widgetable"))) @@ (Verb("Delete") :> Void(<<>>))
      @@ (Verb("Patch") :> CallOn(<<Model("Widgetable")>>, Model("Widgetable")))))
  @@ (<<"widgets", "Rotate">> :> StructOf(Verb("Post") :> Void(<<Model("Rotatable")>>)))
  @@ (<<"widgets", "Settings">> :> StructOf((Verb("Get") :> CallOn(<<>>, Model("Widgetable")))
      @@ (Verb("Patch") :> CallOn(<<Model("Widgetable")>>, Model("Widgetable")))))
  @@ (<<"widgets", "Gadgets">> :> StructOf(Method("By", "gadgetId") :> Sig(<<Str>>, <<Builder("Item")>>)))
  @@ (<<"models", "Widgetable">> :> Able("Widget", WidgetMethods))
  @@ (<<"models", "Addressable">> :> Able("Address", AddressMethods))
  @@ (<<"models", "Labelsable">> :> Able("Labels", Both("AdditionalData", Wrapped("map", Basic("any")))))

  @@ (<<"models", "Pageable">> :> Able("Page", Both("Value", List(Model("Widgetable")))))
  @@ (<<"models", "Rotatable">> :> Able("Rotate", (Setter("Reason") :> Writes(Ptr(Str))) @@ Both("Address", Model("Addressable"))))

  @@ (<<"models", "Mode">> :> Plain_("int")) @@ (<<"widgets", "Mode">> :> Plain_("int"))
  @@ (<<"models", "Label">> :> Plain_("string"))

New(name) == <<"models", "New", name, "">>
Packages == [p \in {"sdk", "models", "widgets", "time", "uuid", "serialization", "http", "context"} |-> p]
Kiota ==
  [decl |-> KiotaDecl,
   funcs |-> {New("Widget"), New("Address"), New("Labels"), New("Rotate"), New("Input"), New("Site"),
              <<"models", "Parse", "Mode", "">>, <<"widgets", "Parse", "Mode", "">>},
   name |-> Packages, models |-> "models", root |-> "sdk", client |-> "Client", backend |-> "kiota"]

(***************************************************************************)
(* The openapi-generator SDK: one package, services as fields, requests    *)
(* built hop by hop, values where an attribute is required.                *)
(***************************************************************************)
Root(name) == Named("sdk", name)
Execute(results) == Verb("Execute") :> Sig(<<>>, results)
Http == Ptr(Named("http", "Response"))
Operation(params, request) == Sig(<<Ctx>> \o params, <<Root(request)>>)
TakesBody(name, request) == Hops(name) :> Sig(<<Root(name)>>, <<Root(request)>>)
WidgetFields ==
  Both("Id", Str) @@ Both("Name", Str) @@ Both("Type", Str) @@ Both("Mode", Root("Mode"))
  @@ Both("Size", Basic("int32")) @@ Both("Labels", Wrapped("map", Str))
  @@ Both("Address", Root("Address")) @@ (Setter("Secret") :> Writes(Str))

GeneratorDecl ==
  (<<"sdk", "Client">> :> Type("struct", "", <<>>, [WidgetsAPI |-> Ptr(Root("WidgetsAPIService"))]))
  @@ (<<"sdk", "WidgetsAPIService">> :> StructOf(
        (Hops("createWidget") :> Operation(<<>>, "Create")) @@ (Hops("getWidget") :> Operation(<<Str>>, "Get"))
        @@ (Hops("updateWidget") :> Operation(<<Str>>, "Update")) @@ (Hops("deleteWidget") :> Operation(<<Str>>, "Delete"))
        @@ (Hops("listWidgets") :> Operation(<<>>, "List")) @@ (Hops("rotateWidget") :> Operation(<<Str>>, "RotateIt"))
        @@ (Hops("getSettings") :> Operation(<<>>, "Get")) @@ (Hops("putSettings") :> Operation(<<>>, "Update"))))
  @@ (<<"sdk", "Create">> :> StructOf(TakesBody("Widget", "Create") @@ Execute(<<Ptr(Root("Widget")), Http, ErrorType>>)))
  @@ (<<"sdk", "Update">> :> StructOf(TakesBody("Widget", "Update") @@ Execute(<<Ptr(Root("Widget")), Http, ErrorType>>)))
  @@ (<<"sdk", "Get">> :> StructOf(Execute(<<Ptr(Root("Widget")), Http, ErrorType>>)))
  @@ (<<"sdk", "Delete">> :> StructOf(Execute(<<Http, ErrorType>>)))
  @@ (<<"sdk", "List">> :> StructOf(Execute(<<List(Root("Widget")), Http, ErrorType>>)))
  @@ (<<"sdk", "RotateIt">> :> StructOf((Hops("Rotate") :> Sig(<<Root("Rotate")>>, <<Root("RotateIt")>>))
        @@ Execute(<<Http, ErrorType>>)))
  @@ (<<"sdk", "Widget">> :> StructOf(WidgetFields)) @@ (<<"sdk", "Mode">> :> Plain_("string"))
  @@ (<<"sdk", "Address">> :> StructOf(Both("City", Str) @@ Both("Zone", Str) @@ (Setter("Pin") :> Writes(Str))))
  @@ (<<"sdk", "Rotate">> :> StructOf((Setter("Reason") :> Writes(Str)) @@ Both("Address", Root("Address"))))

Generator ==
  [decl |-> GeneratorDecl, funcs |-> {<<"sdk", "New", "Mode", "FromValue">>},
   name |-> Packages, models |-> "sdk", root |-> "sdk", client |-> "Client", backend |-> "openapi-generator"]

(***************************************************************************)
(* The representation.                                                     *)
(***************************************************************************)
Attribute(name, stem, type, cor) ==
  [name |-> name, wire |-> name, stem |-> stem, reserved |-> FALSE, type |-> type, elem |-> "",
   levels |-> <<>>, cor |-> cor, writeOnly |-> FALSE, unsupported |-> FALSE, filter |-> FALSE, nested |-> <<>>]
AddressTree == << Attribute("city", "City", "string", "optional"), Attribute("zone", "Zone", "string", "computed") >>
Address == [Attribute("address", "Address", "object", "optional") EXCEPT !.nested = AddressTree]
Labels  == [Attribute("labels", "Labels", "map", "optional") EXCEPT !.elem = "string"]
IdOf    == Attribute("id", "Id", "string", "computed")
WidgetTree ==
  << IdOf, Attribute("name", "Name", "string", "required"),
     [Attribute("type", "Type", "string", "optional") EXCEPT !.reserved = TRUE],
     Attribute("mode", "Mode", "string", "computed_optional"), Attribute("size", "Size", "int64", "optional"),
     Labels, Address, [Attribute("secret", "Secret", "string", "optional") EXCEPT !.writeOnly = TRUE] >>
ReadOnly(tree) == [i \in DOMAIN tree |-> [tree[i] EXCEPT !.cor = "computed", !.writeOnly = FALSE]]
Readable_(tree) == ReadOnly(SelectSeq(tree, LAMBDA a : ~a.writeOnly))

Lit(text)   == [text |-> text, parameter |-> FALSE, tf |-> text]
Param(text, tf) == [text |-> text, parameter |-> TRUE, tf |-> tf]
Op(path, verb, id) == [path |-> path, verb |-> verb, id |-> id, query |-> <<>>]
Collection == << Lit("widgets") >>
Item       == Collection \o << Param("widgetId", "widget_id") >>
NoOps == [op \in {"create", "read", "update", "delete", "list", "invoke"} |-> NoOperation]
WidgetRead == Op(Item, "Get", "getWidget")
WidgetList == Op(Collection, "Get", "listWidgets")
WidgetOps  == [NoOps EXCEPT !["create"] = Op(Collection, "Post", "createWidget"), !["read"] = WidgetRead,
                            !["update"] = Op(Item, "Patch", "updateWidget"), !["delete"] = Op(Item, "Delete", "deleteWidget")]
NoEntity == [ops |-> NoOps, names |-> [service |-> "WidgetsAPI", model |-> "Widget"], attributes |-> <<>>,
             envelope |-> "", lookup |-> FALSE, singleton |-> FALSE, edges |-> <<>>, config |-> <<>>,
             key |-> IdOf]

BaseEntities ==
  (<<"resource", "setting">> :> [NoEntity EXCEPT !.singleton = TRUE, !.attributes = WidgetTree,
      !.ops = [NoOps EXCEPT !["read"] = Op(<<Lit("settings")>>, "Get", "getSettings"),
                            !["update"] = Op(<<Lit("settings")>>, "Patch", "putSettings")]])
  @@ (<<"resource", "widget">> :> [NoEntity EXCEPT !.attributes = WidgetTree, !.ops = WidgetOps])
  @@ (<<"datasource", "gadget">> :> [NoEntity EXCEPT !.lookup = TRUE, !.attributes = Readable_(WidgetTree),
      !.key = Attribute("gadget_id", "GadgetId", "string", "required"),
      !.ops = [NoOps EXCEPT !["read"] = Op(<<Lit("gadgets"), Param("gadgetId", "gadget_id")>>, "Get", "getWidget")]])
  @@ (<<"datasource", "widget">> :> [NoEntity EXCEPT !.ops = [NoOps EXCEPT !["read"] = WidgetRead, !["list"] = WidgetList],
      !.attributes = << [IdOf EXCEPT !.filter = TRUE],
                        [Attribute("items", "Items", "list", "computed") EXCEPT !.nested = Readable_(WidgetTree)] >>])
  @@ (<<"list", "widget">> :> [NoEntity EXCEPT !.attributes = Readable_(WidgetTree), !.ops = [NoOps EXCEPT !["list"] = WidgetList]])
  @@ (<<"action", "rotate">> :> [NoEntity EXCEPT !.names.model = "Rotate", !.attributes = << Attribute("reason", "Reason", "string", "optional"), Address >>,
      !.config = << Attribute("widget_id", "WidgetId", "string", "required") >>,
      !.ops = [NoOps EXCEPT !["invoke"] = Op(Item \o <<Lit("rotate")>>, "Post", "rotateWidget")]])

Order == << <<"resource", "setting">>, <<"resource", "widget">>, <<"datasource", "gadget">>,
            <<"datasource", "widget">>, <<"list", "widget">>, <<"action", "rotate">> >>
Base == [order |-> Order, of |-> BaseEntities]

(***************************************************************************)
(* Deviations.                                                             *)
(***************************************************************************)
\* A deviation of an SDK: the type it touches, the methods it takes away and
\* the ones it puts there.
Change(path, name, gone, added) == [on |-> <<path, name>>, gone |-> gone, added |-> added, new |-> <<>>, lost |-> {}]
Pair(stem) == {Getter(stem), Setter(stem)}
OnWidget(gone, added)  == Change("models", "Widgetable", gone, added)
OnAddress(gone, added) == Change("models", "Addressable", gone, added)
OnItem(gone, added)    == Change("widgets", "Item", gone, added)
OwnBody == <<"models", "Inputable">> :> Able("Input", (Setter("Name") :> Writes(Ptr(Str)))
             @@ (Setter("Mode") :> Writes(Ptr(Model("Mode")))) @@ (Setter("Address") :> Writes(Model("Addressable"))))
Updates(body) == Verb("Patch") :> CallOn(<<Model(body)>>, Model("Widgetable"))

KiotaChanges ==
  [name_unread   |-> OnWidget({Getter("Name")}, <<>>),
   name_unset    |-> OnWidget({Setter("Name")}, <<>>),
   name_takes    |-> OnWidget({}, Getter("Name") :> Sig(<<Str>>, <<Ptr(Str)>>)),
   id_unread     |-> OnWidget({Getter("Id")}, <<>>),
   type_plain    |-> OnWidget({Esc(Getter("Type")), Esc(Setter("Type"))}, Both("Type", Ptr(Str))),
   type_split    |-> OnWidget({Esc(Getter("Type"))}, Getter("Type") :> Reads(Ptr(Str))),
   mode_foreign  |-> OnWidget({}, Both("Mode", Ptr(Named("widgets", "Mode")))),
   mode_value    |-> OnWidget({}, Both("Mode", Model("Mode"))),
   size_narrow   |-> OnWidget({}, Setter("Size") :> Writes(Ptr(Basic("int32")))),
   size_plain    |-> OnWidget({}, Both("Size", Basic("int"))),
   size_text     |-> OnWidget({}, Both("Size", Ptr(Str))),
   labels_map    |-> OnWidget({}, Both("Labels", Wrapped("map", Model("Label")))),
   labels_split  |-> OnWidget({}, Getter("Labels") :> Reads(Wrapped("map", Str))),
   address_split |-> [OnWidget({}, Setter("Address") :> Writes(Model("Siteable"))) EXCEPT
                        !.new = <<"models", "Siteable">> :> Able("Site", Setter("City") :> Writes(Ptr(Str)))],
   address_unread |-> OnWidget({Getter("Address")}, <<>>),
   address_bare   |-> [OnAddress({}, <<>>) EXCEPT !.lost = {New("Address")}],
   address_empty  |-> OnAddress(Pair("City") \cup Pair("Zone"), <<>>),
   zone_gone      |-> OnAddress({Getter("Zone")}, <<>>),
   city_unread    |-> OnAddress({Getter("City")}, <<>>),
   delete_gone    |-> OnItem({Verb("Delete")}, <<>>),
   get_void       |-> OnItem({}, Verb("Get") :> Void(<<>>)),
   get_list       |-> OnItem({}, Verb("Get") :> CallOn(<<>>, List(Model("Widgetable")))),
   update_own     |-> [OnItem({}, Updates("Inputable")) EXCEPT !.new = OwnBody],
   update_bare    |-> [OnItem({}, Updates("Inputable")) EXCEPT !.new = OwnBody, !.lost = {<<"models", "Input">>}],
   indexer        |-> Change("widgets", "Widgets", {Method("By", "widgetId")}, Method("By", "id") :> Sig(<<Str>>, <<Builder("Item")>>)),
   id_number      |-> Change("widgets", "Widgets", {}, Method("By", "widgetId") :> Sig(<<Basic("int32")>>, <<Builder("Item")>>)),
   id_time        |-> Change("widgets", "Widgets", {}, Method("By", "widgetId") :> Sig(<<StdTime>>, <<Builder("Item")>>)),
   create_other   |-> [Change("widgets", "Widgets", {}, Verb("Post") :> CallOn(<<Model("Widgetable")>>, Model("Createdable"))) EXCEPT
                         !.new = <<"models", "Createdable">> :> Able("Created", Getter("Id") :> Reads(Ptr(Str)))],
   page_two       |-> Change("models", "Pageable", {}, Getter("Errors") :> Reads(List(Str))),
   page_none      |-> Change("models", "Pageable", {Getter("Value")}, <<>>),
   rotate_bare    |-> [Change("models", "Rotatable", {}, <<>>) EXCEPT !.lost = {New("Rotate")}],
   client_gone    |-> Change("sdk", "Client", {}, <<>>)]

GeneratorChanges ==
  [create_renamed |-> Change("sdk", "Create", {Hops("Widget")}, Hops("WidgetRequest") :> Sig(<<Root("Widget")>>, <<Root("Create")>>)),
   list_envelope  |-> [Change("sdk", "List", {}, Execute(<<Ptr(Root("Page")), Http, ErrorType>>)) EXCEPT
                         !.new = <<"sdk", "Page">> :> Type("struct", "", <<>>, [Data |-> List(Root("Widget"))])],
   id_uuid        |-> Change("sdk", "Widget", {}, Both("Id", UUID)),
   secret_gone    |-> Change("sdk", "Widget", {Setter("Secret")}, <<>>),
   list_gone      |-> Change("sdk", "WidgetsAPIService", {Hops("listWidgets")}, <<>>)]

Deviate(s, c) ==
  LET bare == IF c.on = <<"sdk", "Client">> THEN Only(s.decl, {c.on})
              ELSE [s.decl EXCEPT ![c.on].methods = c.added @@ Only(@, c.gone)]
  IN [s EXCEPT !.decl = c.new @@ bare, !.funcs = @ \ c.lost]

\* kiota writes beside each model's interface the struct that implements it.
Implemented(s, lost) ==
  LET ables == {x \in DOMAIN s.decl : s.decl[x].able # ""}
      struct(x) == <<x[1], s.decl[x].able>>
  IN [s EXCEPT !.decl = @ @@ [y \in {struct(x) : x \in ables} \ lost |->
        StructOf(s.decl[CHOOSE x \in ables : struct(x) = y].methods)]]

\* A deviation of the representation touches one entity.
Edge(kind, gate, names) == [kind |-> kind, gate |-> gate, names |-> names]
On(b, e) == [Base EXCEPT !.of[b] = e]
Widget == <<"resource", "widget">>
OfWidget == BaseEntities[Widget]
Replace(tree, name, a) == [i \in DOMAIN tree |-> IF tree[i].name = name THEN a ELSE tree[i]]
Pinned(cor) == [Address EXCEPT !.cor = cor, !.nested = Append(@,
                 [Attribute("pin", "Pin", "string", "optional") EXCEPT !.writeOnly = TRUE])]

\* The widget below a site, whose id is the practitioner's to give.
Below(op) == IF op = NoOperation THEN op ELSE [op EXCEPT !.path = <<Lit("sites"), Param("siteId", "site_id")>> \o @]
SiteId == [Attribute("site_id", "SiteId", "string", "required") EXCEPT !.wire = "siteId"]
Scoped == [Base EXCEPT
  !.of[Widget] = [@ EXCEPT !.attributes = <<SiteId>> \o @, !.ops = [op \in DOMAIN @ |-> Below(@[op])]],
  !.of[<<"list", "widget">>] = [@ EXCEPT !.config = <<SiteId>>, !.ops = [op \in DOMAIN @ |-> Below(@[op])]]]

Models ==
  [base        |-> Base,
   scoped      |-> Scoped,
   pinned      |-> On(Widget, [OfWidget EXCEPT !.attributes = Replace(@, "address", Pinned("optional"))]),
   server_pin  |-> On(Widget, [OfWidget EXCEPT !.attributes = Replace(@, "address", Pinned("computed"))]),
   needs_mode  |-> On(Widget, [OfWidget EXCEPT !.edges = << Edge("dependency", "", {"mode", "name"}) >>]),
   gated       |-> On(Widget, [OfWidget EXCEPT !.edges = << Edge("required_when", "name", {"size"}) >>]),
   no_create   |-> On(Widget, [OfWidget EXCEPT !.ops["create"] = NoOperation]),
   unmodelled  |-> On(Widget, [OfWidget EXCEPT !.attributes = Replace(@, "mode",
                       [Attribute("mode", "Mode", "string", "optional") EXCEPT !.unsupported = TRUE])]),
   answered    |-> On(<<"action", "rotate">>, [BaseEntities[<<"action", "rotate">>] EXCEPT
                       !.attributes = Replace(@, "address", [Address EXCEPT !.cor = "computed"])])]

\* The base SDK and representation, with at most Changes deviations in all.
ChangeSets(S, n) ==
  {{}} \cup (IF n < 1 THEN {} ELSE {{x} : x \in S}) \cup (IF n < 2 THEN {} ELSE {{x, y} : x, y \in S})
Deviated(s, changes, names) ==
  Implemented(FoldSet(LAMBDA n, acc : Deviate(acc, changes[n]), s, names),
              UNION {changes[n].lost : n \in names})
Left(m) == IF m = "base" THEN Changes ELSE Changes - 1

ScenariosOf(s, changes, models) ==
  UNION {{[sdk |-> Deviated(s, changes, names), model |-> Models[m]]
           : names \in ChangeSets(DOMAIN changes, Left(m))} : m \in models}
MCScenarios == ScenariosOf(Kiota, KiotaChanges, DOMAIN Models)
               \cup ScenariosOf(Generator, GeneratorChanges, DOMAIN Models \ {"scoped"})
=============================================================================
