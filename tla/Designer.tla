------------------------------ MODULE Designer ------------------------------
(***************************************************************************)
(* The design of an RGD: the form that edits it (RGDAuthoringForm.tsx),    *)
(* the YAML generated from it, the import that reads such YAML, and the    *)
(* spec the graph preview is drawn from (lib/generator.ts).                *)
(*                                                                         *)
(* Texts are members of small sets, "" is an empty input. A row of a list  *)
(* is one text: of an iterator and a readyWhen expression the whole row,   *)
(* "" when a part of it is empty, of a label its key. The body of a        *)
(* template is "" (none), "spec" (no metadata), "nested" (metadata deeper  *)
(* down only), or, with metadata of its own, "named" and "named spec": its *)
(* keys all come after `kind` when they are sorted.                        *)
(***************************************************************************)
EXTENDS JsArray

CONSTANTS
    IdTexts, BodyTexts, RowTexts, RefTexts,   \* what is typed, besides ""
    Exprs,        \* CEL expressions that are typed
    Quoted,       \* those with a quote at an end
    MaxParts,     \* bound on the resources and fields together
    MaxRows       \* bound on the rows of a list

VARIABLES design  \* [resources, specFields, statusFields] of RGDAuthoringState

DesignerAssumption ==
    /\ Quoted \subseteq Exprs
    /\ "" \notin IdTexts \cup BodyTexts \cup RowTexts \cup RefTexts \cup Exprs
    /\ BodyTexts \subseteq {"spec", "nested", "named", "named spec"}
    /\ MaxParts \in Nat /\ MaxRows \in Nat

ASSUME DesignerAssumption

-----------------------------------------------------------------------------
(* lib/generator.ts: what is generated                                     *)

NonEmpty(rows) == Filter(rows, {i \in DOMAIN rows : rows[i] # ""})
OrElse(text, default) == IF text = "" THEN default ELSE text

BySelector(r) == r.labels # <<>> /\ r.refName = ""

\* A body without metadata gets some that name the resource after its id.
TemplateBody(body) ==
    CASE body = ""     -> "named"
      [] body = "spec" -> "named spec"
      [] OTHER         -> body

\* An external reference says neither when it is included nor when it is ready.
ExternalRefBlock(r) ==
    [id |-> OrElse(r.id, "resource"), section |-> "externalRef", body |-> "",
     forEach |-> <<>>, includeWhen |-> "", readyWhen |-> <<>>, name |-> r.refName,
     selector |-> IF BySelector(r) THEN <<NonEmpty(r.labels)>> ELSE <<>>]

TemplateBlock(r) ==
    [id |-> OrElse(r.id, "resource"), section |-> "template", body |-> TemplateBody(r.body),
     forEach |-> IF r.type = "forEach" THEN NonEmpty(r.iterators) ELSE <<>>,
     includeWhen |-> r.includeWhen, readyWhen |-> NonEmpty(r.readyWhen),
     name |-> "", selector |-> <<>>]

Block(r) == IF r.type = "externalRef" THEN ExternalRefBlock(r) ELSE TemplateBlock(r)

\* A required field has no default.
buildSimpleSchemaStr(field) ==
    [required |-> field.required,
     default |-> IF field.required THEN "" ELSE field.default]

Complete(fields) == {i \in DOMAIN fields : fields[i].name # "" /\ fields[i].expression # ""}

generateRGDYAML(d) ==
    [spec |-> [i \in DOMAIN d.specFields |->
                  [name |-> OrElse(d.specFields[i].name, "field"),
                   type |-> buildSimpleSchemaStr(d.specFields[i])]],
     status |-> Filter(d.statusFields, Complete(d.statusFields)),
     resources |-> [i \in DOMAIN d.resources |-> Block(d.resources[i])]]

-----------------------------------------------------------------------------
(* lib/generator.ts: what is read back. Quotes at the ends are dropped.    *)

Unquoted(expr) == IF expr \in Quoted THEN "unquoted" ELSE expr
UnquotedRows(rows) == [i \in DOMAIN rows |-> Unquoted(rows[i])]

\* Wrong: a block with a template is a managed resource.
ResourceTypeOfSection(b) == IF b.section = "externalRef" THEN "externalRef" ELSE "managed"

ResourceTypeOf(b) ==
    CASE b.section = "externalRef" -> "externalRef"
      [] b.section # "externalRef" /\ b.forEach # <<>> -> "forEach"
      [] OTHER -> "managed"

ParsedResource(b) ==
    [id |-> b.id, type |-> ResourceTypeOf(b), body |-> b.body,
     includeWhen |-> Unquoted(b.includeWhen), readyWhen |-> UnquotedRows(b.readyWhen),
     iterators |-> IF ResourceTypeOf(b) = "forEach" THEN b.forEach ELSE <<"">>,
     refName |-> b.name, labels |-> IF b.selector = <<>> THEN <<>> ELSE b.selector[1]]

parseSimpleSchemaStr(name, type) ==
    [name |-> name, required |-> type.required, default |-> type.default]

parseRGDYAML(yaml) ==
    [specFields |-> [i \in DOMAIN yaml.spec |->
                        parseSimpleSchemaStr(yaml.spec[i].name, yaml.spec[i].type)],
     statusFields |-> [i \in DOMAIN yaml.status |->
                          [yaml.status[i] EXCEPT !.expression = Unquoted(@)]],
     resources |-> [i \in DOMAIN yaml.resources |-> ParsedResource(yaml.resources[i])]]

-----------------------------------------------------------------------------
(* ClusterImportPanel.tsx: an RGD of the cluster is a map, printed by      *)
(* toYaml in the order of its keys, which the API server sorts.            *)

\* `externalRef` and `forEach` are the first key of their block, on the line of its
\* dash, where the parser looks for neither. An external reference has no template.
SeenOfSorted(b) == [b EXCEPT !.section = "template", !.forEach = <<>>, !.name = "", !.selector = <<>>]

KeysDiffer(fields) == \A i, j \in DOMAIN fields : fields[i].name = fields[j].name => i = j

\* The texts have no order here: their sorted order is one of all.
OrdersOf(fields) == {s \in [DOMAIN fields -> ToSet(fields)] : ToSet(s) = ToSet(fields)}

\* What the parser sees of a design that was applied to the cluster.
RePrints(yaml) ==
    {[spec |-> spec, status |-> status,
      resources |-> [i \in DOMAIN yaml.resources |-> SeenOfSorted(yaml.resources[i])]] :
        spec \in OrdersOf(yaml.spec), status \in OrdersOf(yaml.status)}

-----------------------------------------------------------------------------
(* lib/generator.ts: the spec for the preview, which leaves out what has   *)
(* no id.                                                                  *)

\* Labels are the entries of an object: of those with the same key one is left.
OneOfEachKey(labels) ==
    Filter(labels, {i \in DOMAIN labels : \A j \in 1..(i - 1) : labels[j] # labels[i]})

PreviewEntry(r) ==
    IF r.type = "externalRef"
    THEN [id |-> r.id, section |-> "externalRef", forEach |-> <<>>, includeWhen |-> "",
          readyWhen |-> <<>>, name |-> r.refName,
          selector |-> IF BySelector(r) THEN <<OneOfEachKey(NonEmpty(r.labels))>> ELSE <<>>]
    ELSE [id |-> r.id, section |-> "template",
          forEach |-> IF r.type = "forEach" THEN NonEmpty(r.iterators) ELSE <<>>,
          includeWhen |-> r.includeWhen, readyWhen |-> NonEmpty(r.readyWhen),
          name |-> "", selector |-> <<>>]

WithId(rs) == Filter(rs, {i \in DOMAIN rs : rs[i].id # ""})

rgdAuthoringStateToSpec(d) ==
    LET named == WithId(d.resources)
    IN  [i \in DOMAIN named |-> PreviewEntry(named[i])]

-----------------------------------------------------------------------------
(* RGDAuthoringForm.tsx: the inputs on the screen                          *)

\* The input of a default is disabled where the field is required.
DefaultsTaken == {i \in DOMAIN design.specFields : ~design.specFields[i].required}

\* A reference has no template to edit.
TemplateShown(r) == r.type # "externalRef"

\* The last iterator has no Remove button.
IteratorsShow(r) ==
    [rows |-> IF r.type = "forEach" THEN DOMAIN r.iterators ELSE {},
     remove |-> r.type = "forEach" /\ Len(r.iterators) > 1]

ExternalRefShows(r) ==
    [byName     |-> r.type = "externalRef" /\ ~BySelector(r),
     bySelector |-> r.type = "externalRef" /\ BySelector(r),
     labels     |-> IF r.type = "externalRef" /\ BySelector(r) THEN DOMAIN r.labels ELSE {}]

-----------------------------------------------------------------------------
(* RGDAuthoringForm.tsx: its handlers                                      *)

Parts == Len(design.resources) + Len(design.specFields) + Len(design.statusFields)

makeNewResource ==
    [id |-> "resource", type |-> "managed", body |-> "", includeWhen |-> "", readyWhen |-> <<>>,
     iterators |-> <<"">>, refName |-> "", labels |-> <<>>]

addField ==
    /\ Parts < MaxParts
    /\ design' = [design EXCEPT !.specFields =
                     Append(@, [name |-> "", required |-> FALSE, default |-> ""])]

updateField ==
    \E i \in DOMAIN design.specFields :
        \/ \E n \in IdTexts \cup {""} : design' = [design EXCEPT !.specFields[i].name = n]
        \/ design' = [design EXCEPT !.specFields[i].required = ~@]
        \/ /\ i \in DefaultsTaken
           /\ \E t \in RowTexts \cup {""} : design' = [design EXCEPT !.specFields[i].default = t]

removeField ==
    \E i \in DOMAIN design.specFields : design' = [design EXCEPT !.specFields = RemoveAt(@, i)]

addStatusField ==
    /\ Parts < MaxParts
    /\ design' = [design EXCEPT !.statusFields = Append(@, [name |-> "", expression |-> ""])]

updateStatusField ==
    \E i \in DOMAIN design.statusFields :
        \/ \E n \in IdTexts \cup {""} : design' = [design EXCEPT !.statusFields[i].name = n]
        \/ \E e \in Exprs \cup {""} : design' = [design EXCEPT !.statusFields[i].expression = e]

removeStatusField ==
    \E i \in DOMAIN design.statusFields : design' = [design EXCEPT !.statusFields = RemoveAt(@, i)]

addResource ==
    /\ Parts < MaxParts
    /\ design' = [design EXCEPT !.resources = Append(@, makeNewResource)]

BecomesResource(i, r) == design' = [design EXCEPT !.resources[i] = r]

updateResource(i, r) ==
    \/ \E t \in IdTexts \cup {""} : BecomesResource(i, [r EXCEPT !.id = t])
    \/ /\ TemplateShown(r)
       /\ \E t \in BodyTexts \cup {""} : BecomesResource(i, [r EXCEPT !.body = t])
    \/ \E e \in Exprs \cup {""} : BecomesResource(i, [r EXCEPT !.includeWhen = e])
    \/ /\ ExternalRefShows(r).byName
       /\ \E t \in RefTexts \cup {""} : BecomesResource(i, [r EXCEPT !.refName = t])

removeResource(i) == design' = [design EXCEPT !.resources = RemoveAt(@, i)]

\* What only another type has is set back, what all have is kept.
changeResourceType(i, r) ==
    \E t \in {"managed", "forEach", "externalRef"} \ {r.type} :
        BecomesResource(i, [r EXCEPT !.type = t, !.iterators = <<"">>, !.refName = "", !.labels = <<>>])

addForEachIterator(i, r) ==
    /\ r.type = "forEach" /\ Len(r.iterators) < MaxRows
    /\ BecomesResource(i, [r EXCEPT !.iterators = Append(@, "")])

updateForEachIterator(i, r) ==
    \E k \in IteratorsShow(r).rows, t \in RowTexts \cup {""} :
        BecomesResource(i, [r EXCEPT !.iterators[k] = t])

removeForEachIterator(i, r) ==
    /\ IteratorsShow(r).remove
    /\ \E k \in IteratorsShow(r).rows : BecomesResource(i, [r EXCEPT !.iterators = RemoveAt(@, k)])

addReadyWhen(i, r) ==
    Len(r.readyWhen) < MaxRows /\ BecomesResource(i, [r EXCEPT !.readyWhen = Append(@, "")])

updateReadyWhen(i, r) ==
    \E k \in DOMAIN r.readyWhen, e \in Exprs \cup {""} : BecomesResource(i, [r EXCEPT !.readyWhen[k] = e])

removeReadyWhen(i, r) ==
    \E k \in DOMAIN r.readyWhen : BecomesResource(i, [r EXCEPT !.readyWhen = RemoveAt(@, k)])

SwitchReference(i, r) ==
    \/ r.type = "externalRef" /\ BecomesResource(i, [r EXCEPT !.labels = <<>>])
    \/ r.type = "externalRef" /\ BecomesResource(i, [r EXCEPT !.refName = "",
                                                      !.labels = IF @ = <<>> THEN <<"">> ELSE @])

addSelectorLabel(i, r) ==
    /\ ExternalRefShows(r).bySelector /\ Len(r.labels) < MaxRows
    /\ BecomesResource(i, [r EXCEPT !.labels = Append(@, "")])

updateSelectorLabel(i, r) ==
    \E k \in ExternalRefShows(r).labels, t \in RowTexts \cup {""} :
        BecomesResource(i, [r EXCEPT !.labels[k] = t])

removeSelectorLabel(i, r) ==
    \E k \in ExternalRefShows(r).labels : BecomesResource(i, [r EXCEPT !.labels = RemoveAt(@, k)])

\* The design's own YAML is pasted into the import panel.
ImportOwnYaml == design' = parseRGDYAML(generateRGDYAML(design))

\* The design was applied to the cluster and is loaded from there.
ImportFromCluster ==
    LET yaml == generateRGDYAML(design) IN
    /\ KeysDiffer(yaml.spec) /\ KeysDiffer(yaml.status)
    /\ \E seen \in RePrints(yaml) : design' = parseRGDYAML(seen)

-----------------------------------------------------------------------------

STARTER_RGD_STATE ==
    [specFields |-> <<>>, statusFields |-> <<>>, resources |-> <<[makeNewResource EXCEPT !.id = "web"]>>]

DesignerInit == design = STARTER_RGD_STATE

DesignerNext ==
    \/ addField \/ updateField \/ removeField
    \/ addStatusField \/ updateStatusField \/ removeStatusField
    \/ addResource \/ ImportOwnYaml \/ ImportFromCluster
    \/ \E i \in DOMAIN design.resources :
          LET r == design.resources[i] IN
          \/ updateResource(i, r) \/ removeResource(i) \/ changeResourceType(i, r)
          \/ addForEachIterator(i, r) \/ updateForEachIterator(i, r) \/ removeForEachIterator(i, r)
          \/ addReadyWhen(i, r) \/ updateReadyWhen(i, r) \/ removeReadyWhen(i, r)
          \/ SwitchReference(i, r)
          \/ addSelectorLabel(i, r) \/ updateSelectorLabel(i, r) \/ removeSelectorLabel(i, r)

DesignerSpec == DesignerInit /\ [][DesignerNext]_design

-----------------------------------------------------------------------------
(* Properties *)

\* What import may change of a YAML: quotes go, and so does a selector without labels.
NormalBlock(b) ==
    [b EXCEPT !.includeWhen = Unquoted(@), !.readyWhen = UnquotedRows(@),
              !.selector = IF @ = <<<<>>>> THEN <<>> ELSE @]

Normal(yaml) ==
    [spec |-> yaml.spec,
     status |-> [i \in DOMAIN yaml.status |-> [yaml.status[i] EXCEPT !.expression = Unquoted(@)]],
     resources |-> [i \in DOMAIN yaml.resources |-> NormalBlock(yaml.resources[i])]]

\* What the graph shows of a block.
ShownOfBlock(b) ==
    [f \in DOMAIN b \ {"body"} |->
        IF f = "selector" /\ b.selector # <<>> THEN <<OneOfEachKey(b.selector[1])>> ELSE b[f]]

\* Loaded from the cluster, a resource keeps its id, conditions and body; one that
\* neither iterates nor refers to another is as when its YAML is pasted.
KeptFromCluster(b) ==
    LET back == Block(ParsedResource(SeenOfSorted(b))) IN
    /\ back.id = b.id
    /\ back.includeWhen = Unquoted(b.includeWhen) /\ back.readyWhen = UnquotedRows(b.readyWhen)
    /\ b.section = "template" => back.body = b.body
    /\ b.section = "template" /\ b.forEach = <<>> => back = NormalBlock(b)

\* Spec 045, US8: a design survives the way through its YAML and back. What it then
\* generates is what was imported, through any edits, changes of type and imports
\* before; what comes back from the cluster is right but for iterators and references;
\* and the graph beside it shows each resource that has an id as its YAML says.
ImportKeepsDesign ==
    LET yaml  == generateRGDYAML(design)
        named == WithId(design.resources)
    IN  /\ generateRGDYAML(parseRGDYAML(yaml)) = Normal(yaml)
        /\ \A i \in DOMAIN yaml.resources : KeptFromCluster(yaml.resources[i])
        /\ rgdAuthoringStateToSpec(design) = [i \in DOMAIN named |-> ShownOfBlock(Block(named[i]))]
=============================================================================
