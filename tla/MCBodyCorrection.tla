-------------------------- MODULE MCBodyCorrection --------------------------
(***************************************************************************)
(* Four fields: the gate and a sibling with an enum, a composite, and one  *)
(* the document does not declare.  Each answer stands for a sentence of    *)
(* the refusal grammar.                                                    *)
(***************************************************************************)
EXTENDS BodyCorrection

CONSTANTS type, mode, tags, role

MCFields     == {type, mode, tags, role}
MCDeclared   == {type, mode, tags}
MCEnumerated == {type, mode}
MCComposite  == {tags}
MCMembers    == {"plain", "other", "third"}
MCSegments   == {"panorama"}

Starts(t, m, g) == [f \in MCFields |-> CASE f = type -> t [] f = mode -> m
                                         [] f = tags -> g [] OTHER -> Absent]
Step(kind, held, attribute, b) ==
  [kind |-> kind, held |-> held, attribute |-> attribute, body |-> b]

MCJobs ==
  {Step("minimal", type, NoField, b) :
     b \in {Starts(Absent, Absent, Absent), Starts("plain", "plain", "plain")}}
  \cup {Step("probe", mode, mode, Starts("plain", "other", Absent)),
        Step("half", type, mode, Starts("plain", Absent, Absent)),
        Step("parent", NoField, NoField, Starts("plain", "plain", Absent)),
        Step("update", NoField, NoField, Starts("plain", Absent, Absent))}

Says(act, fields, loose, beside, names, quoted) ==
  [kind |-> "refused", act |-> act, fields |-> fields, loose |-> loose,
   beside |-> beside, names |-> names, quoted |-> quoted]
Only(kind) == [NoAnswer EXCEPT !.kind = kind]

MCAnswers ==
  {Only("created"), Only("conflict"), Only("server"), Only("other"), Only("unseen"),
   Says("stop", <<>>, FALSE, NoField, {}, NoField),
   Says("stop", <<>>, FALSE, NoField, {type, mode}, NoField),
   Says("stop", <<>>, FALSE, NoField, {mode}, mode),
   Says("stop", <<>>, FALSE, NoField, {tags}, NoField),
   Says("add", <<role>>, FALSE, NoField, {role}, NoField),
   Says("add", <<tags, mode>>, TRUE, NoField, {tags, mode}, NoField),
   Says("requires", <<mode>>, FALSE, NoField, {type, mode}, NoField),
   Says("remove", <<role>>, FALSE, NoField, {role}, NoField),
   Says("remove", <<mode>>, FALSE, tags, {mode, tags}, NoField),
   Says("remove", <<type>>, FALSE, NoField, {type}, NoField),
   Says("postpone", <<mode>>, FALSE, NoField, {mode}, NoField),
   Says("borrow", <<tags>>, FALSE, NoField, {tags}, NoField)}
=============================================================================
