------------------------ MODULE MCEntityDerivation --------------------------
(***************************************************************************)
(* Tags with a whole lifecycle, the action on one of them and another that *)
(* derives its key, hooks below an organisation, one settings object below *)
(* a site the API only lists, and users looked up by name.  A document is  *)
(* this base with at most two of the named deviations.                 *)
(***************************************************************************)
EXTENDS EntityDerivation, TLC

CONSTANT Circular   \* whether a tag has a parent tag

Literal == {"tags", "assign", "sites", "settings", "users", "orgs", "hooks", "v6", "v7", "tag_v7"}
MCParameters == {"tagId", "siteId", "id", "name", "orgId", "hookId", "provider"}
MCNumerals   == <<"2", "3", "4", "5", "6", "7", "8", "9", "10", "11", "12">>
MCVersions   == {"v6", "v7"}
Alone(names) == [n \in names |-> <<n>>]
MCWordsOf ==
  ("tag_v7" :> <<"tag", "v7">>) @@ ("User" :> <<"user">>) @@ ("Team" :> <<"team">>)
  @@ Alone(Literal \cup MCParameters \cup {"color", "access", "rules", "labels", "owner", "level", "until", "zone",
        "port", "host", "grid", "value", "total", "theme", "count", "items", "parent", "kind", "deep", "key"})
WordsFor(n) == CASE n = "tagId" -> <<"tag", "id">> [] n = "siteId" -> <<"site", "id">>
                 [] n = "orgId" -> <<"org", "id">> [] n = "hookId" -> <<"hook", "id">> [] OTHER -> MCWordsOf[n]
MCSnake == [n \in DOMAIN MCWordsOf |-> WordsFor(n)]
Singulars == [tags |-> "tag", sites |-> "site", users |-> "user", orgs |-> "org", hooks |-> "hook"]
MCSingularOf == [n \in Literal |-> IF n \in DOMAIN Singulars THEN <<Singulars[n]>> ELSE MCSnake[n]]

(***************************************************************************)
(* Schemas, as written.                                                    *)
(***************************************************************************)
Written(kind, value) == [kind |-> kind, value |-> value]
Schema(type) == [kind |-> "mapping", reference |-> Inline, types |-> IF type = "" THEN <<>> ELSE <<type>>,
                 properties |-> <<>>, required |-> {}, items |-> "", additional |-> "", allOf |-> <<>>,
                 oneOf |-> <<>>, anyOf |-> <<>>, dependent |-> {}, flags |-> {}, discriminator |-> "none",
                 undecodable |-> {}, extensions |-> <<>>]
To(section, name) == [to |-> section, name |-> name]
P(name, to)       == [name |-> name, to |-> to]
Holds(properties) == [Schema("object") EXCEPT !.properties = properties]
ArrayOf(id)       == [Schema("array") EXCEPT !.items = id]
RefTo(id)         == [Schema("") EXCEPT !.reference = To("schemas", id)]
MapOf(id)         == [Schema("object") EXCEPT !.additional = id]
Requires(s, names) == [s EXCEPT !.required = names]

Components == {"Access", "User", "Team", "Tag", "TagBase", "Hook"}
Common == << P("name", "Str"), P("color", "Color"), P("access", "AccessRef"), P("labels", "Labels") >>
Base ==
  [Str |-> Schema("string"), Int |-> [Schema("") EXCEPT !.types = <<"null", "integer">>], Color |-> Schema("string"),
   Empty |-> Schema("object"), Flag |-> [Schema("boolean") EXCEPT !.flags = {"default"}],
   TagBase   |-> Requires(Holds(Common), {"name"}),
   TagIn     |-> [Holds(<< P("rules", "Rules"), P("grid", "Grid"), P("zone", "Zone") >>) EXCEPT !.allOf = <<"TagBase">>],
   Tag       |-> Holds(<< P("id", "Str") >> \o Common \o << P("rules", "Rules"), P("owner", "Owner"), P("zone", "ZoneOut") >>),
   TagUp     |-> Holds(Common \o << P("rules", "Rules"), P("zone", "Zone"), P("grid", "Grid") >>),
   TagUpLess |-> Holds(<< P("name", "Str"), P("access", "AccessLess"), P("rules", "RulesLess"), P("zone", "Empty") >>),
   AccessRef |-> RefTo("Access"),
   Access    |-> Requires(Holds(<< P("level", "Int"), P("until", "Until") >>), {"level"}),
   Until     |-> Requires(Holds(<< P("value", "Str"), P("deep", "Deep") >>), {"value"}),
   Deep      |-> Requires(Holds(<< P("kind", "Str") >>), {"kind"}),
   AccessLess |-> Holds(<< P("until", "Until") >>),
   Rules     |-> ArrayOf("Rule"), Rule |-> Requires(Holds(<< P("port", "Int"), P("host", "Str") >>), {"port"}),
   RulesLess |-> ArrayOf("RuleLess"), RuleLess |-> Holds(<< P("host", "Str") >>),
   Labels    |-> MapOf("Strs"), Strs |-> ArrayOf("Str"),
   Grid      |-> ArrayOf("Rules"),
   Zone      |-> [Schema("") EXCEPT !.properties = << P("theme", "Str"), P("host", "Str") >>, !.required = {"theme"}],
   ZoneOut   |-> Holds(<< P("theme", "Str"), P("total", "Int") >>),
   Owner     |-> [Schema("") EXCEPT !.oneOf = <<"UserRef", "TeamRef">>],
   UserRef   |-> RefTo("User"), TeamRef |-> RefTo("Team"), TagRef |-> RefTo("Tag"),
   User      |-> Holds(<< P("name", "Str"), P("count", "Int") >>), Team |-> Holds(<< P("total", "Int") >>),
   Page      |-> Holds(<< P("total", "Int"), P("value", "Tags") >>), Tags |-> ArrayOf("TagRef"),
   Hook      |-> Holds(<< P("host", "Str") >>), Hooks |-> ArrayOf("Hook"),
   Settings  |-> Holds(<< P("theme", "Str"), P("count", "Scalar") >>),
   Scalar    |-> [Schema("") EXCEPT !.anyOf = <<"Int", "Str">>],
   Sites     |-> ArrayOf("Site"), Site |-> Holds(<< P("name", "Str"), P("labels", "Open") >>),
   Open      |-> [Schema("object") EXCEPT !.additional = "bare"],
   Anything  |-> [Schema("") EXCEPT !.kind = "scalar"]]

(***************************************************************************)
(* Paths.  A request is JSON beside another media type that sorts first;   *)
(* the first answer has no schema and an error's stands beside it.         *)
(***************************************************************************)
MCMediaTypes == <<"application/cbor", "application/json">>
Json(id)    == [reference |-> Inline, media |-> ("application/json" :> id)]
Content(id) == IF id = "" THEN [reference |-> Inline, media |-> <<>>]
               ELSE [reference |-> Inline, media |-> ("application/json" :> id) @@ ("application/cbor" :> "Anything")]
Of(section, name) == [reference |-> To(section, name), media |-> <<>>]
AnsweredWith(id) == ("200" :> Content("")) @@ ("201" :> Content(id)) @@ ("404" :> Json("Empty"))
Parameter(name, in, id) ==
  [reference |-> Inline, name |-> name, in |-> in, required |-> "", schema |-> id, example |-> "", extensions |-> <<>>]
Confirm == [Parameter("confirm", "query", "Flag") EXCEPT !.required = "true"]
Shared  == [Parameter("", "", "") EXCEPT !.reference = To("parameters", "Tag")]
Op(body, answer) == [extensions |-> <<>>, parameters |-> {}, body |-> Content(body), responses |-> AnsweredWith(answer)]
Item(ops)        == [extensions |-> <<>>, parameters |-> {Shared, Parameter("siteId", "path", "Int")}, operations |-> ops]
At_(path, ops)   == path :> Item(ops)
Lone(path, method, body, answer) == At_(path, method :> Op(body, answer))
Lifecycle(collection, key, in, out, page, up) ==
  At_(collection, ("GET" :> Op("", page)) @@ ("POST" :> Op(in, out)))
  @@ At_(Append(collection, key),
         ("DELETE" :> [Op("", "") EXCEPT !.parameters = {Confirm, Parameter("tagId", "path", "Str")}])
         @@ ("GET" :> Op("", out)) @@ (IF up = "" THEN <<>> ELSE "PUT" :> Op(up, out)))
TagPath  == <<"v7", "tags">>
OldTags  == <<"v6", "tags">>
TagItem  == Append(TagPath, "tagId")
HookPath == <<"orgs", "orgId", "hooks">>
ProviderHooks == <<"orgs", "provider", "hooks">>
SetPath  == <<"sites", "siteId", "settings">>
SetById  == <<"sites", "id", "settings">>
Assigns  == Append(TagItem, "assign")
BasePaths ==
  Lifecycle(HookPath, "hookId", "Hook", "Hook", "Hooks", "Hook")
  @@ Lone(<<"sites">>, "GET", "", "Sites")
  @@ At_(SetPath, ("GET" :> Op("", "Settings")) @@ ("PUT" :> Op("Settings", "Settings")))
  @@ At_(<<"tags", "assign">>, "POST" :> [Op("", "") EXCEPT !.body = Of("requestBodies", "Hook")])
  @@ At_(<<"users", "name">>, "GET" :> [Op("", "") EXCEPT !.responses = ("default" :> Of("responses", "User"))])
  @@ Lifecycle(TagPath, "tagId", "TagIn", "Tag", "Page", "TagUp")
  @@ Lone(Assigns, "POST", "Hook", "")
MCOrder == << HookPath, Append(HookPath, "hookId"), ProviderHooks, Append(ProviderHooks, "hookId"), <<"sites">>,
              SetById, Append(SetById, "name"), SetPath, Append(SetPath, "name"), <<"tag_v7">>, <<"tags", "assign">>,
              <<"users">>, <<"users", "name">>, OldTags, Append(OldTags, "tagId"), TagPath, TagItem, Assigns >>

BaseDocument ==
  [version |-> "3", info |-> TRUE, extensions |-> <<>>, named |-> Components, schemas |-> Base,
   parameters |-> [Tag |-> Parameter("tagId", "path", "Int")], requestBodies |-> [Hook |-> Content("Hook")],
   responses |-> [User |-> Json("User")], paths |-> BasePaths, exclude |-> {}]
Removed(d, path, method) == [d EXCEPT !.paths[path].operations = [m \in DOMAIN @ \ {method} |-> @[m]]]
Added(d, path, method, body, answer) ==
  IF path \in DOMAIN d.paths THEN [d EXCEPT !.paths[path].operations = (method :> Op(body, answer)) @@ @]
  ELSE [d EXCEPT !.paths = @ @@ Lone(path, method, body, answer)]
Where(d, path, Change(_)) ==      \* every operation of a path that is there
  IF path \in DOMAIN d.paths
  THEN [d EXCEPT !.paths[path].operations = [m \in DOMAIN @ |-> Change([method |-> m] @@ @[m])]] ELSE d
Rebodied(d, body) ==
  Where(d, TagItem, LAMBDA op : IF op.method = "PUT" THEN [op EXCEPT !.body = Content(body)] ELSE op)
Rescoped(path, from, to) == [n \in DOMAIN path |-> IF path[n] = from THEN to ELSE path[n]]
Respelled(d, from, to) ==
  [d EXCEPT !.paths = [p \in {Rescoped(q, from, to) : q \in DOMAIN @} |-> @[Rescoped(p, to, from)]]]
With(d, id, s) == [d EXCEPT !.schemas = (id :> s) @@ @]
Marked(d, id, key) == With(d, id, [d.schemas[id] EXCEPT !.extensions = (key :> Written("scalar", "true"))])
Flagged(d, id, flag) == With(d, id, [d.schemas[id] EXCEPT !.flags = {flag}])
Extending(op, key, v) == [op EXCEPT !.extensions = (key :> v)]
Wrapped == [kind |-> "mapping", entries |-> [wrapped |-> Written("scalar", "true"), key |-> Written("scalar", "value")]]

Names == {"no_update", "less_update", "silent_update", "untyped_update", "second_write", "collection_write",
          "item_write", "older_version", "key_spoken_for", "excluded_key", "excluded_service", "no_id",
          "own_parent", "id_parent", "reserved_parent", "immutable", "volatile", "forced", "read_only", "default",
          "identifier", "wrapped", "no_answer", "no_list", "reserved_property", "response_only", "unread"}
Edited(d, name) ==
  CASE name = "no_update"        -> Removed(d, TagItem, "PUT")
    [] name = "less_update"      -> Rebodied(d, "TagUpLess")
    [] name = "silent_update"    -> Rebodied(d, "Empty")
    [] name = "untyped_update"   -> Rebodied(d, "")
    [] name = "second_write"     -> Added(d, TagItem, "PATCH", "TagUp", "Tag")
    [] name = "collection_write" -> Added(d, TagPath, "PUT", "TagUp", "Tag")
    [] name = "item_write"       -> Added(d, Append(SetPath, "name"), "PUT", "Settings", "")
    [] name = "older_version"    -> [d EXCEPT !.paths = Lifecycle(OldTags, "tagId", "TagIn", "Tag", "Page", "") @@ @]
    [] name = "key_spoken_for"   -> Added(d, <<"tag_v7">>, "POST", "Hook", "")
    [] name = "excluded_key"     -> [d EXCEPT !.exclude = @ \cup {<<"tag">>}]
    [] name = "excluded_service" -> [d EXCEPT !.exclude = @ \cup {<<"orgs">>}]
    [] name = "no_id"            -> With(d, "Tag", Holds(Common))
    [] name = "own_parent"       -> With(d, "Hook", Holds(<< P("host", "Str"), P("orgId", "Str") >>))
    [] name = "id_parent"        -> Respelled(d, "siteId", "id")
    [] name = "reserved_parent"  -> Respelled(d, "orgId", "provider")
    [] name = "immutable"        -> Marked(Marked(d, "Color", "immutable"), "Until", "immutable")
    [] name = "volatile"         -> Marked(d, "AccessRef", "volatile")
    [] name = "forced"           -> Marked(d, "Rules", "serverForced")
    [] name = "read_only"        -> Flagged(d, "Labels", "readOnly")
    [] name = "default"          -> Flagged(d, "Zone", "default")
    [] name = "identifier"       -> Where(d, TagItem, LAMBDA op : IF op.method = "GET"
                                            THEN Extending(op, "identifierProperty", Written("scalar", "key")) ELSE op)
    [] name = "wrapped"          -> Where(d, TagPath, LAMBDA op : IF op.method = "GET" THEN Extending(op, "listWrapper", Wrapped) ELSE op)
    [] name = "no_answer"        -> Where(d, TagItem, LAMBDA op : [op EXCEPT !.responses = AnsweredWith("")])
    [] name = "no_list"          -> Removed(d, TagPath, "GET")
    [] name = "reserved_property" -> With(d, "User", Holds(<< P("provider", "Str"), P("name", "Str") >>))
    [] name = "response_only"    -> With(d, "TagBase", Holds(<< P("name", "Str") >>))
    [] name = "unread"           -> With(d, "Tag", Holds(<< P("id", "Str") >>))

Settled(names) == FoldLeft(LAMBDA d, n : Edited(d, n), BaseDocument, SetToSeq(names))
MCDocuments ==
  IF Circular THEN {With(BaseDocument, "Tag", Holds(<< P("id", "Str"), P("parent", "TagRef") >>))}
  ELSE {Settled(names) : names \in {{n, m} : n, m \in Names} \cup {{}}}

(***************************************************************************)
(* Documents that are refused.                                             *)
(***************************************************************************)
Broken(cause) ==
  LET d == BaseDocument IN
  CASE cause = "unsupportedVersion" -> [d EXCEPT !.version = "swagger"]
    [] cause = "noInfoVersion" -> [d EXCEPT !.info = FALSE]
    [] cause = "extension" -> With(d, "Str", [Base.Str EXCEPT !.extensions = ("immutabel" :> Written("scalar", "true"))])
    [] cause = "undeclaredReference" -> With(d, "Color", RefTo("Grid"))
    [] cause = "unsupportedReference" -> With(d, "Color", [Base.Color EXCEPT !.reference = To("remote", "Color")])
    [] cause = "componentByReference" -> [d EXCEPT !.parameters = [Tag |-> Shared]]
    [] cause = "namelessParameter" -> [d EXCEPT !.paths[TagPath].parameters = {Parameter("", "path", "Str")}]
    [] cause = "undecodable" -> With(d, "Str", [Base.Str EXCEPT !.undecodable = {"minLength"}])
    [] cause = "discriminator" -> With(d, "Owner", [Base.Owner EXCEPT !.discriminator = ""])
    [] cause = "notASchema" -> With(d, "Str", [Base.Str EXCEPT !.kind = "sequence"])
\* Each is refused for what is wrong with it and for nothing else; what the
\* reading never reaches refuses nothing.
ASSUME RefusalsAreNamed ==
  /\ \A cause \in {"unsupportedVersion", "noInfoVersion", "extension", "undeclaredReference", "unsupportedReference",
                   "componentByReference", "namelessParameter", "undecodable", "discriminator", "notASchema"} :
       Faults(Broken(cause)) = {cause}
  /\ Loads(With(BaseDocument, "Anything", [Base.Anything EXCEPT !.kind = "sequence"]))
=============================================================================
