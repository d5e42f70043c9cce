------------------------------ MODULE Diagram ------------------------------
(***************************************************************************)
(* The canonical UML document and canonical-model.validation.ts, the       *)
(* semantic checks every stored snapshot has passed.                       *)
(*                                                                         *)
(* A document is a record of sets: the order of its arrays matters to no   *)
(* check and to no command, and the relational transformation sorts by id. *)
(* Identifiers, names and multiplicities are strings of small sets; what   *)
(* the code computes from a name or a multiplicity is a CONSTANT function. *)
(* An absent property (elementId, associationClassId, name) is None.       *)
(* The strings of the instances are free of characters XML forbids, and a  *)
(* document conforms to the JSON schema: neither check is modelled.        *)
(***************************************************************************)
EXTENDS Integers, FiniteSets, FiniteSetsExt

CONSTANTS
  Folded,    \* a name trimmed and in lower case
  Bounds,    \* a multiplicity, parsed: [lower, upper]
  RootIds,   \* the identifiers of the project and of the diagram
  None

\* An absent property is told from one that is there.
ASSUME AbsenceAssumption == None \notin BOOLEAN

Unbounded == -1
BoundsAssumption ==
  \A m \in DOMAIN Bounds : Bounds[m].lower \in Nat /\ Bounds[m].upper \in Nat \cup {Unbounded}
ASSUME BoundsAssumption

RelationshipKind == {"association", "aggregation", "composition",
                     "generalization", "realization", "dependency"}

EmptyDiagram == [elements |-> {}, positions |-> {}, relationships |-> {}]

(***************************************************************************)
(* The shape of a document                                                 *)
(***************************************************************************)

ReferenceShape(t) ==
  /\ t = [name |-> t.name, elementId |-> t.elementId,
          collection |-> t.collection, nullable |-> t.nullable]
  /\ t.collection \in BOOLEAN /\ t.nullable \in BOOLEAN
ParameterShape(p) == p = [id |-> p.id, name |-> p.name, type |-> p.type] /\ ReferenceShape(p.type)
AttributeShape(a) ==
  a = [id |-> a.id, name |-> a.name, type |-> a.type, isStatic |-> a.isStatic]
    /\ ReferenceShape(a.type)
OperationShape(o) ==
  /\ o = [id |-> o.id, name |-> o.name, returnType |-> o.returnType, parameters |-> o.parameters]
  /\ ReferenceShape(o.returnType) /\ \A p \in o.parameters : ParameterShape(p)
ClassifierShape(e) ==
  /\ e = [id |-> e.id, kind |-> e.kind, name |-> e.name,
          attributes |-> e.attributes, operations |-> e.operations]
  /\ e.id # None /\ e.kind \in {"class", "interface"}
  /\ \A a \in e.attributes : AttributeShape(a)
  /\ \A o \in e.operations : OperationShape(o)
  /\ IsFiniteSet(e.operations)
PositionShape(p) == p = [elementId |-> p.elementId, x |-> p.x]
EndShape(x) ==
  /\ x = [elementId |-> x.elementId, role |-> x.role,
          multiplicity |-> x.multiplicity, navigable |-> x.navigable]
  /\ x.role # None /\ x.multiplicity \in DOMAIN Bounds /\ x.navigable \in BOOLEAN
RelationshipShape(r) ==
  /\ r = [id |-> r.id, kind |-> r.kind, name |-> r.name, source |-> r.source,
          target |-> r.target, associationClassId |-> r.associationClassId]
  /\ r.kind \in RelationshipKind /\ EndShape(r.source) /\ EndShape(r.target)

DiagramShape(d) ==
  /\ d = [elements |-> d.elements, positions |-> d.positions, relationships |-> d.relationships]
  /\ \A e \in d.elements : ClassifierShape(e)
  /\ \A p \in d.positions : PositionShape(p)
  /\ \A r \in d.relationships : RelationshipShape(r)

ElementIds(d) == {e.id : e \in d.elements}
Classifier(d, id) == CHOOSE e \in d.elements : e.id = id
Relationship(d, id) == CHOOSE r \in d.relationships : r.id = id
Ends(r) == {r.source.elementId, r.target.elementId}

\* The type references of a classifier: attributes, results and parameters.
TypesOf(e) ==
  {a.type : a \in e.attributes} \cup {o.returnType : o \in e.operations}
    \cup UNION {{p.type : p \in o.parameters} : o \in e.operations}

(***************************************************************************)
(* Multiplicities                                                          *)
(***************************************************************************)

IsMany(m) == Bounds[m].upper = Unbounded \/ Bounds[m].upper > 1
InRange(m) == Bounds[m].upper = Unbounded \/ Bounds[m].lower <= Bounds[m].upper

(***************************************************************************)
(* Identifiers and names                                                   *)
(***************************************************************************)

Members(e) == e.attributes \cup e.operations \cup UNION {o.parameters : o \in e.operations}

\* What has an identifier: its kind, whose it is, and itself.
Registered(d) ==
  {<<"classifier", None, e>> : e \in d.elements}
    \cup {<<"relationship", None, r>> : r \in d.relationships}
    \cup (UNION {{<<"attribute", e.id, a>> : a \in e.attributes} : e \in d.elements})
    \cup (UNION {{<<"operation", e.id, o>> : o \in e.operations} : e \in d.elements})
    \cup (UNION {UNION {{<<"parameter", o.id, p>> : p \in o.parameters} : o \in e.operations} :
                  e \in d.elements})

\* registerId: nothing has the identifier of something else.
UniqueIds(d) ==
  /\ \A s, t \in Registered(d) : s[3].id = t[3].id => s = t
  /\ \A t \in Registered(d) : t[3].id \notin RootIds

NamesDistinct(S) == \A x, y \in S : Folded[x.name] = Folded[y.name] => x = y
NotBlank(S) == \A x \in S : Folded[x.name] # ""

NamesSound(d) ==
  /\ NamesDistinct(d.elements) /\ NotBlank(d.elements)
  /\ \A e \in d.elements :
       /\ NamesDistinct(e.attributes) /\ NotBlank(Members(e) \cup TypesOf(e))
       /\ \A o \in e.operations : NamesDistinct(o.parameters)

\* assertTypeReference.
TypesResolve(d) ==
  \A e \in d.elements : \A t \in TypesOf(e) :
    t.elementId # None => \E f \in d.elements : f.id = t.elementId /\ f.name = t.name

PositionsMatch(d) ==
  /\ {p.elementId : p \in d.positions} = ElementIds(d)
  /\ \A p, q \in d.positions : p.elementId = q.elementId => p = q

(***************************************************************************)
(* Relationships                                                           *)
(***************************************************************************)

Signature(r) == <<r.kind, r.name, r.source, r.target, r.associationClassId>>
Reversed(r) == [r EXCEPT !.source = r.target, !.target = r.source]
SameMeaning(r, s) ==
  \/ Signature(r) = Signature(s)
  \/ r.kind = "association" /\ Signature(Reversed(r)) = Signature(s)

\* A relationship alone, between classifiers of the document.
RelationshipSound(d, r) ==
  /\ Ends(r) \subseteq ElementIds(d)
  /\ r.source.elementId = r.target.elementId => r.kind \in {"association", "dependency"}
  /\ LET source == Classifier(d, r.source.elementId)
         target == Classifier(d, r.target.elementId)
     IN /\ r.kind = "realization" => source.kind = "class" /\ target.kind = "interface"
        /\ r.kind = "generalization" => source.kind = target.kind
  /\ InRange(r.source.multiplicity) /\ InRange(r.target.multiplicity)

AssociationClassSound(d, r) ==
  r.associationClassId # None =>
    /\ r.kind = "association"
    /\ r.associationClassId \in ElementIds(d) \ Ends(r)
    /\ Classifier(d, r.associationClassId).kind = "class"
    /\ IsMany(r.source.multiplicity) /\ IsMany(r.target.multiplicity)
    /\ \A s \in d.relationships : s.associationClassId = r.associationClassId => s = r

\* assertAcyclic: no classifiers that each lead to another of them.
Acyclic(d, kind) ==
  LET edges == {<<r.source.elementId, r.target.elementId>> :
                  r \in {x \in d.relationships : x.kind = kind}}
  IN ~ \E S \in (SUBSET ElementIds(d)) \ {{}} :
         \A x \in S : \E y \in S : <<x, y>> \in edges

RelationshipsSound(d) ==
  /\ \A r \in d.relationships : RelationshipSound(d, r) /\ AssociationClassSound(d, r)
  /\ \A r, s \in d.relationships : SameMeaning(r, s) => r = s
  /\ Acyclic(d, "generalization")
  /\ Acyclic(d, "composition")

\* assertCanonicalSemanticIntegrity.
Valid(d) ==
  UniqueIds(d) /\ NamesSound(d) /\ TypesResolve(d) /\ PositionsMatch(d) /\ RelationshipsSound(d)
=============================================================================
