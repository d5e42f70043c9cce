---------------------------- MODULE XmiExchange ----------------------------
(***************************************************************************)
(* xmi.adapter.ts: the XMI file a document is exported to, and the         *)
(* document, the failure and the diagnostics a file is imported to;        *)
(* xmi.semantic-equivalence.ts: when two documents mean the same.          *)
(*                                                                         *)
(* A file is the set of its UML elements, each a record with its tag, its  *)
(* metatype where the tag is packagedElement, its xmi:id, the id of the    *)
(* element around it, and the attributes the importer reads; their order   *)
(* matters nowhere once memberEnd names the ends, which it must do here.   *)
(* An attribute that is not written is None.  XML itself, namespaces,      *)
(* limits and attributes the profile refuses are left out, and so are the  *)
(* properties Diagram leaves out.                                          *)
(*                                                                         *)
(* A canonical identifier is a sequence: the hash of an identifier is the  *)
(* kind and what was hashed, and hashes do not collide.                    *)
(***************************************************************************)
EXTENDS Diagram, Sequences, TLC

CONSTANTS
  Primitive,   \* the OMG primitive a type name spells, in whatever case
  Literal      \* multiplicity: how the bounds <<lower, upper>> are written

\* What multiplicity writes has the bounds it was given, and is read so again.
LiteralAssumption ==
  \A m \in DOMAIN Bounds :
    LET written == Literal[<<Bounds[m].lower, Bounds[m].upper>>]
    IN written \in DOMAIN Bounds /\ Bounds[written] = Bounds[m]
ASSUME LiteralAssumption

OmgName(name) == IF name \in DOMAIN Primitive THEN Primitive[name] ELSE None
Hierarchies == {"association", "aggregation", "composition"}

\* canonicalId: an identifier that is canonical already stays.
CanonicalId(kind, x) == IF x[1] = kind THEN x ELSE <<kind>> \o x

(***************************************************************************)
(* The export                                                              *)
(***************************************************************************)

Directed(r) == r.kind \notin Hierarchies
\* assertExportableRelationship.
ExportableRelationship(r) ==
  IF Directed(r)
    THEN /\ r.associationClassId = None
         /\ \A end \in {r.source, r.target} :
              end.multiplicity = "1" /\ ~end.navigable /\ end.role = ""
    ELSE r.associationClassId # None => r.name \notin {None, ""}

NamedTypes(d) == {t.name : t \in {u \in UNION {TypesOf(e) : e \in d.elements} : u.elementId = None}}
NonStandardTypes(d) == {n \in NamedTypes(d) : OmgName(n) = None}

Exportable(d) ==
  /\ \A r \in d.relationships : ExportableRelationship(r)
  /\ \A n \in NamedTypes(d) : OmgName(n) \in {None, n}

\* The association that owns a class, if any.
Owners(d, id) == {r \in d.relationships : r.associationClassId = id}
\* Mutant: an association class goes by its own identifier.
ElementXmiIdPlain(d, id) == <<"classifier", id>>
ElementXmiId(d, id) ==
  IF Owners(d, id) = {} THEN <<"classifier", id>>
  ELSE <<"relationship", (CHOOSE r \in Owners(d, id) : TRUE).id>>

\* typeAttribute and writeType.
WrittenType(d, t) ==
  IF t.elementId # None THEN [by |-> "id", to |-> ElementXmiId(d, t.elementId)]
  ELSE IF OmgName(t.name) # None THEN [by |-> "primitive", to |-> t.name]
  ELSE [by |-> "id", to |-> <<"data_type", t.name>>]

\* The bounds of a typed element: writeMultiplicity.
LowerOf(t) == IF t.nullable THEN 0 ELSE 1
UpperOf(t) == IF t.collection THEN Unbounded ELSE 1

WrittenAttribute(d, owner, a) ==
  [tag |-> "ownedAttribute", owner |-> owner, id |-> <<"attribute", a.id>>, name |-> a.name,
   type |-> WrittenType(d, a.type), lower |-> LowerOf(a.type), upper |-> UpperOf(a.type),
   association |-> None, isStatic |-> a.isStatic]

WrittenParameter(d, o, id, name, direction, t) ==
  [tag |-> "ownedParameter", owner |-> <<"operation", o.id>>, id |-> id, name |-> name,
   type |-> WrittenType(d, t), lower |-> LowerOf(t), upper |-> UpperOf(t), direction |-> direction]
WrittenReturn(d, o) ==
  WrittenParameter(d, o, <<"parameter", o.id, "return">>, "return", "return", o.returnType)
WrittenInput(d, o, p) ==
  WrittenParameter(d, o, <<"parameter", p.id>>, p.name, "in", p.type)

WrittenSignature(owner, o) ==
  [tag |-> "ownedOperation", owner |-> owner, id |-> <<"operation", o.id>>, name |-> o.name]
WrittenOperation(d, owner, o) ==
  {WrittenSignature(owner, o), WrittenReturn(d, o)} \cup {WrittenInput(d, o, p) : p \in o.parameters}

\* A relationship written in its source: classifierRelationships.
WrittenWithin(d, owner, tag, r) ==
  [tag |-> tag, owner |-> owner, id |-> <<"relationship", r.id>>, name |-> r.name,
   supplier |-> ElementXmiId(d, r.target.elementId)]

\* The contents of a classifier, in whatever element it is written:
\* writeClassifier.
WrittenContents(d, e) ==
  LET id == ElementXmiId(d, e.id)
      within(tag, kind) ==
        {WrittenWithin(d, id, tag, r) :
           r \in {x \in d.relationships : x.kind = kind /\ x.source.elementId = e.id}}
  IN {WrittenAttribute(d, id, a) : a \in e.attributes}
       \cup (UNION {WrittenOperation(d, id, o) : o \in e.operations})
       \cup within("generalization", "generalization")
       \cup within("interfaceRealization", "realization")

Aggregation(kind) ==
  CASE kind = "composition" -> "composite" [] kind = "aggregation" -> "shared" [] OTHER -> "none"

WrittenEnd(d, r, end, side, aggregation) ==
  [tag |-> "ownedEnd", owner |-> <<"relationship", r.id>>, id |-> <<"association_end", r.id, side>>,
   name |-> end.role, aggregation |-> aggregation, isNavigable |-> end.navigable,
   type |-> [by |-> "id", to |-> ElementXmiId(d, end.elementId)],
   lower |-> Bounds[end.multiplicity].lower, upper |-> Bounds[end.multiplicity].upper]

\* The two ends of an association, and the element that names them: an
\* association class is written as its class, with the name of the class.
WrittenSource(d, r) == WrittenEnd(d, r, r.source, "source", Aggregation(r.kind))
WrittenTarget(d, r) == WrittenEnd(d, r, r.target, "target", "none")
NavigableEnds(d, r) ==
  LET navigable == {x.id : x \in {y \in {WrittenSource(d, r), WrittenTarget(d, r)} : y.isNavigable}}
  IN IF navigable = {} THEN None ELSE navigable
WrittenPlain(d, r) ==
  [tag |-> "packagedElement", type |-> "association", id |-> <<"relationship", r.id>>,
   name |-> r.name, navigableEnds |-> NavigableEnds(d, r),
   memberEnds |-> <<WrittenSource(d, r).id, WrittenTarget(d, r).id>>]
WrittenWithClass(d, r) ==
  [tag |-> "packagedElement", type |-> "associationclass", id |-> <<"relationship", r.id>>,
   associationName |-> r.name, name |-> Classifier(d, r.associationClassId).name,
   navigableEnds |-> NavigableEnds(d, r),
   memberEnds |-> <<WrittenSource(d, r).id, WrittenTarget(d, r).id>>]
WrittenAssociation(d, r) ==
  {WrittenSource(d, r), WrittenTarget(d, r),
   IF r.associationClassId = None THEN WrittenPlain(d, r) ELSE WrittenWithClass(d, r)}

WrittenDataType(n) ==
  [tag |-> "packagedElement", type |-> "datatype", id |-> <<"data_type", n>>, name |-> n]
WrittenClassifier(d, e) ==
  [tag |-> "packagedElement", type |-> e.kind, id |-> ElementXmiId(d, e.id), name |-> e.name]
WrittenDependency(d, r) ==
  [tag |-> "packagedElement", type |-> "dependency", id |-> <<"relationship", r.id>>,
   name |-> r.name, client |-> ElementXmiId(d, r.source.elementId),
   supplier |-> ElementXmiId(d, r.target.elementId)]

Exported(d) ==
  {WrittenDataType(n) : n \in NonStandardTypes(d)}
    \cup {WrittenClassifier(d, e) : e \in {x \in d.elements : Owners(d, x.id) = {}}}
    \cup (UNION {WrittenContents(d, e) : e \in d.elements})
    \cup (UNION {WrittenAssociation(d, r) : r \in {x \in d.relationships : ~Directed(x)}})
    \cup {WrittenDependency(d, r) : r \in {x \in d.relationships : x.kind = "dependency"}}

(***************************************************************************)
(* The import: what the parser makes of a file                             *)
(***************************************************************************)

Tagged(f, tag) == {t \in f : t.tag = tag}
Packaged(f, types) == {t \in Tagged(f, "packagedElement") : t.type \in types}
SupportedTypes == {"association", "associationclass", "class", "datatype", "dependency",
                   "interface", "package", "realization"}

RawClassifiers(f) == Packaged(f, {"class", "interface", "associationclass"})
RawAssociations(f) == Packaged(f, {"association", "associationclass"})
RawDataTypes(f) == Packaged(f, {"datatype"})
\* An owned attribute that names an association is one of its ends.
RawAttributes(f, c) == {t \in Tagged(f, "ownedAttribute") : t.owner = c.id /\ t.association = None}
RawEnds(f, a) ==
  {t \in Tagged(f, "ownedEnd") : t.owner = a.id}
    \cup {t \in Tagged(f, "ownedAttribute") : t.association = a.id}
RawParameters(f, o, direction) ==
  {t \in Tagged(f, "ownedParameter") : t.owner = o.id /\ t.direction = direction}

\* The relationships with a direction, wherever they are written.
RawDirected(f) ==
  LET raw(t, kind, source) ==
        [id |-> t.id, kind |-> kind, name |-> t.name, source |-> source, target |-> t.supplier]
  IN {raw(t, "generalization", t.owner) : t \in Tagged(f, "generalization")}
       \cup {raw(t, "realization", t.owner) : t \in Tagged(f, "interfaceRealization")}
       \cup {raw(t, "realization", t.client) : t \in Packaged(f, {"realization"})}
       \cup {raw(t, "dependency", t.client) : t \in Packaged(f, {"dependency"})}

(***************************************************************************)
(* The import: references and types                                        *)
(***************************************************************************)

IsClassifier(f, x) == \E c \in RawClassifiers(f) : c.id = x
RawClassifier(f, x) == CHOOSE c \in RawClassifiers(f) : c.id = x
NamedClassifiers(f, name) == {c \in RawClassifiers(f) : c.name = name}
DataTypes(f, x) == {t \in RawDataTypes(f) : t.id = x}

\* What a type refers to: a classifier, a name, or Failed.
Failed == [kind |-> "failed"]
ByName(name) == [kind |-> "name", name |-> name]
ByClassifier(c) == [kind |-> "classifier", name |-> c.name, id |-> CanonicalId("classifier", c.id)]

\* mapTypeReference; EAJava_Order and its like are by "vendor".
Resolution(f, type) ==
  CASE type.by = "primitive" ->
         IF OmgName(type.to) = type.to THEN ByName(type.to) ELSE Failed
    [] type.by = "vendor" ->
         IF OmgName(type.to) # None THEN ByName(OmgName(type.to))
         ELSE IF Cardinality(NamedClassifiers(f, type.to)) = 1
                THEN ByClassifier(CHOOSE c \in NamedClassifiers(f, type.to) : TRUE)
                ELSE Failed
    [] type.by = "id" ->
         IF IsClassifier(f, type.to) THEN ByClassifier(RawClassifier(f, type.to))
         ELSE IF \E t \in DataTypes(f, type.to) : OmgName(t.name) = None
                THEN ByName((CHOOSE t \in DataTypes(f, type.to) : TRUE).name)
                ELSE Failed
    [] type.by = "none" -> Failed

\* typeMultiplicity.
TypeBounds == {0, 1} \X {1, Unbounded}
TypeReads(f, x) == Resolution(f, x.type) # Failed /\ <<x.lower, x.upper>> \in TypeBounds

ReadReference(to, x) ==
  [name |-> to.name, elementId |-> IF to.kind = "classifier" THEN to.id ELSE None,
   collection |-> x.upper = Unbounded, nullable |-> x.lower = 0]
ReadType(f, x) == ReadReference(Resolution(f, x.type), x)

\* A return parameter may be there twice.  The second is compared with the
\* first as its tag opens, when what is nested in it is not read yet: the
\* bounds, and a type that is no classifier.  Files here repeat one exactly.
\* One without a type, or none, is void.
VoidType == [name |-> "void", elementId |-> None, collection |-> FALSE, nullable |-> FALSE]
Returns(f, o) == RawParameters(f, o, "return")
InTag(f, type) == type.by \in {"none", "vendor"} \/ IsClassifier(f, type.to)
ReturnsAgree(f, o) ==
  \A s, t \in Returns(f, o) :
    s # t => s.type = t.type /\ InTag(f, s.type) /\ <<s.lower, s.upper>> = <<1, 1>>
ReturnType(f, o) ==
  IF \A t \in Returns(f, o) : t.type.by = "none" THEN VoidType
  ELSE ReadType(f, CHOOSE t \in Returns(f, o) : TRUE)

ReadParameter(f, p) ==
  [id |-> CanonicalId("parameter", p.id), name |-> p.name, type |-> ReadType(f, p)]
ReadOperation(f, o) ==
  [id |-> CanonicalId("operation", o.id), name |-> o.name, returnType |-> ReturnType(f, o),
   parameters |-> {ReadParameter(f, p) : p \in RawParameters(f, o, "in")}]
ReadAttribute(f, a) ==
  [id |-> CanonicalId("attribute", a.id), name |-> a.name, type |-> ReadType(f, a),
   isStatic |-> a.isStatic]
ReadClassifier(f, c) ==
  [id |-> CanonicalId("classifier", c.id), name |-> c.name,
   kind |-> IF c.type = "interface" THEN "interface" ELSE "class",
   attributes |-> {ReadAttribute(f, a) : a \in RawAttributes(f, c)},
   operations |-> {ReadOperation(f, o) :
                     o \in {t \in Tagged(f, "ownedOperation") : t.owner = c.id}}]

(***************************************************************************)
(* The import: relationships                                               *)
(***************************************************************************)

OwnedByClassifier(end) == end.tag = "ownedAttribute"
Listed(a, end) == a.navigableEnds # None /\ end.id \in a.navigableEnds
\* mapAssociationEnd: the end of a classifier is navigable.
Navigable(a, end) ==
  OwnedByClassifier(end)
    \/ IF end.isNavigable = None THEN Listed(a, end) ELSE end.isNavigable
EndReads(f, a, end) ==
  /\ IsClassifier(f, end.type.to)
  /\ end.upper = Unbounded \/ end.lower <= end.upper
  /\ ~OwnedByClassifier(end) /\ end.isNavigable # None /\ a.navigableEnds # None =>
       end.isNavigable = Listed(a, end)
ReadEnd(f, a, end) ==
  [elementId |-> CanonicalId("classifier", end.type.to),
   role |-> IF end.name = None THEN "" ELSE end.name,
   multiplicity |-> Literal[<<end.lower, end.upper>>], navigable |-> Navigable(a, end)]

AggregationOf(end) == IF OwnedByClassifier(end) THEN "none" ELSE end.aggregation

\* The ends in the order of memberEnd.
Ordered(f, a) == [i \in DOMAIN a.memberEnds |-> CHOOSE e \in RawEnds(f, a) : e.id = a.memberEnds[i]]
Binary(f, a) == Cardinality(RawEnds(f, a)) = 2
AssociationReads(f, a) ==
  LET ids == {e.id : e \in RawEnds(f, a)} IN
  /\ {a.memberEnds[i] : i \in DOMAIN a.memberEnds} = ids
  /\ Len(a.memberEnds) = Cardinality(ids)
  /\ a.navigableEnds # None => a.navigableEnds \subseteq ids
  /\ \A e \in RawEnds(f, a) : EndReads(f, a, e)
  /\ Binary(f, a) => \E e \in RawEnds(f, a) : AggregationOf(e) = "none"

\* Mutant: the source is the first end, whole or part.
SidesAsWritten(ends) == ends
\* The whole is the source, on whichever side it is written.
Sides(ends) == IF AggregationOf(ends[2]) # "none" THEN <<ends[2], ends[1]>> ELSE ends

KindOf(whole) ==
  CASE AggregationOf(whole) = "composite" -> "composition"
    [] AggregationOf(whole) = "shared" -> "aggregation"
    [] OTHER -> "association"

AssociationName(a) ==
  IF a.type = "associationclass" /\ a.associationName # None THEN a.associationName ELSE a.name

ReadSides(f, a, ends) ==
  [id |-> CanonicalId("relationship", a.id), kind |-> KindOf(ends[1]), name |-> AssociationName(a),
   source |-> ReadEnd(f, a, ends[1]), target |-> ReadEnd(f, a, ends[2]),
   associationClassId |->
     IF a.type = "associationclass" THEN CanonicalId("classifier", a.id) ELSE None]
ReadAssociation(f, a) == ReadSides(f, a, Sides(Ordered(f, a)))

DirectedEnd(x) ==
  [elementId |-> CanonicalId("classifier", x), role |-> "", multiplicity |-> "1", navigable |-> FALSE]
ReadDirected(r) ==
  [id |-> CanonicalId("relationship", r.id), kind |-> r.kind, name |-> r.name,
   source |-> DirectedEnd(r.source), target |-> DirectedEnd(r.target), associationClassId |-> None]

(***************************************************************************)
(* importXmiToCanonical                                                    *)
(***************************************************************************)

\* Nothing that fails the import.
Importable(f) ==
  /\ \A s, t \in f : s.id = t.id => s = t
  /\ \A t \in RawDataTypes(f) :
       OmgName(t.name) = None /\ \A s \in RawDataTypes(f) : s.name = t.name => s = t
  /\ \A c \in RawClassifiers(f) : \A a \in RawAttributes(f, c) : TypeReads(f, a)
  /\ \A o \in Tagged(f, "ownedOperation") :
       /\ \A p \in RawParameters(f, o, "in") : TypeReads(f, p)
       /\ ReturnsAgree(f, o)
       /\ \A p \in Returns(f, o) : p.type.by = "none" \/ TypeReads(f, p)
  /\ \A t \in Tagged(f, "ownedAttribute") :
       t.association # None => \E a \in RawAssociations(f) : a.id = t.association
  /\ \A a \in RawAssociations(f) : AssociationReads(f, a)
  /\ \A r \in RawDirected(f) : IsClassifier(f, r.source) /\ IsClassifier(f, r.target)

ReadElements(f) == {ReadClassifier(f, c) : c \in RawClassifiers(f)}
Imported(f) ==
  [elements |-> ReadElements(f),
   positions |-> {[elementId |-> e.id, x |-> 0] : e \in ReadElements(f)},
   relationships |->
     {ReadAssociation(f, a) : a \in {x \in RawAssociations(f) : Binary(f, x)}}
       \cup {ReadDirected(r) : r \in RawDirected(f)}]

\* The codes of the diagnostics: what the file says and the document cannot.
Diagnostics(f) ==
  {code \in {"XMI_PACKAGE_FLATTENED", "XMI_UNSUPPORTED_ELEMENT",
             "XMI_UNSUPPORTED_ASSOCIATION_ARITY", "XMI_DATATYPE_UNUSED"} :
     CASE code = "XMI_PACKAGE_FLATTENED" -> Packaged(f, {"package"}) # {}
       [] code = "XMI_UNSUPPORTED_ELEMENT" ->
            \E t \in Tagged(f, "packagedElement") : t.type \notin SupportedTypes
       [] code = "XMI_UNSUPPORTED_ASSOCIATION_ARITY" ->
            \E a \in RawAssociations(f) : ~Binary(f, a)
       [] code = "XMI_DATATYPE_UNUSED" ->
            \E t \in RawDataTypes(f) : t.name \notin NonStandardTypes(Imported(f))}

(***************************************************************************)
(* semanticProjection                                                      *)
(***************************************************************************)

SemanticMultiplicity(m) == IF m = "*" THEN "0..*" ELSE m
NameOf(d, id) == IF id = None THEN None ELSE Classifier(d, id).name
ProjectType(d, t) == <<t.collection, NameOf(d, t.elementId), t.name, t.nullable>>
ProjectOperation(d, o) ==
  <<o.name, ProjectType(d, o.returnType), {<<p.name, ProjectType(d, p.type)>> : p \in o.parameters}>>
\* Operations may be alike: how many there are of each.
ProjectOperations(d, e) ==
  [p \in {ProjectOperation(d, o) : o \in e.operations} |->
     Cardinality({o \in e.operations : ProjectOperation(d, o) = p})]
ProjectElement(d, e) ==
  <<e.kind, e.name, {<<a.name, a.isStatic, ProjectType(d, a.type)>> : a \in e.attributes},
    ProjectOperations(d, e)>>
ProjectEnd(d, end) ==
  <<NameOf(d, end.elementId), SemanticMultiplicity(end.multiplicity), end.navigable, end.role>>
ProjectRelationship(d, r) ==
  <<NameOf(d, r.associationClassId), r.kind, r.name, ProjectEnd(d, r.source), ProjectEnd(d, r.target)>>

Equivalent(d, e) ==
  /\ {ProjectElement(d, x) : x \in d.elements} = {ProjectElement(e, x) : x \in e.elements}
  /\ {ProjectRelationship(d, r) : r \in d.relationships}
       = {ProjectRelationship(e, r) : r \in e.relationships}
=============================================================================
