---------------------------- MODULE UmlCommands ----------------------------
(***************************************************************************)
(* UmlCommandExecutor: what each of the sixteen commands makes of a        *)
(* document, which elements it affects (what the lock check of the command *)
(* service looks at), and the outcome the service gives it.                *)
(*                                                                         *)
(* A command is pure: it works on a copy, and either yields a document or  *)
(* throws.  Here it yields Refused.                                        *)
(***************************************************************************)
EXTENDS Diagram, Functions

CONSTANT Refused

RefusedAssumption == Refused \notin [elements : {{}}, positions : {{}}, relationships : {{}}]
ASSUME RefusedAssumption

Has(d, id) == id \in ElementIds(d)
HasRelationship(d, id) == \E r \in d.relationships : r.id = id
HasMember(S, id) == \E m \in S : m.id = id
Member(S, id) == CHOOSE m \in S : m.id = id
Replacing(S, old, new) == (S \ {old}) \cup {new}

\* A document in which classifier `id` is replaced.
WithClassifier(d, id, e) ==
  [d EXCEPT !.elements = Replacing(@, Classifier(d, id), e)]

\* A classifier, each of its type references t replaced by f[t].
Retyped(e, f) ==
  [e EXCEPT
    !.attributes = {[a EXCEPT !.type = f[@]] : a \in @},
    !.operations = {[o EXCEPT !.returnType = f[@],
                              !.parameters = {[p EXCEPT !.type = f[@]] : p \in @}] : o \in @}]

(***************************************************************************)
(* Classifiers                                                             *)
(***************************************************************************)

CreateClassifier(d, e, p) ==
  IF Has(d, e.id) \/ p.elementId # e.id
    THEN Refused
    ELSE [d EXCEPT !.elements = @ \cup {e}, !.positions = @ \cup {p}]

DuplicateClassifier(d, original, e, p) ==
  IF Has(d, original) THEN CreateClassifier(d, e, p) ELSE Refused

\* Mutant: the references keep the old name.
NamesKept(d, id, name) == d

Synced(t, id, name) == IF t.elementId = id THEN [t EXCEPT !.name = name] ELSE t
\* syncTypeReferenceNames.
NamesSynced(d, id, name) ==
  [d EXCEPT !.elements =
    {Retyped(e, [t \in TypesOf(e) |-> Synced(t, id, name)]) : e \in @}]

UpdateClassifier(d, id, e) ==
  IF ~Has(d, id) \/ e.id # id
    THEN Refused
    ELSE IF Classifier(d, id).name = e.name
           THEN WithClassifier(d, id, e)
           ELSE NamesSynced(WithClassifier(d, id, e), id, e.name)

MoveClassifier(d, id, x) ==
  LET old == {p \in d.positions : p.elementId = id}
  IN IF ~Has(d, id) \/ old = {}
       THEN Refused
       ELSE [d EXCEPT !.positions = (@ \ old) \cup {[elementId |-> id, x |-> x]}]

\* The loop of removeClassifiersAndReferences: with a classifier go the
\* relationships it ends, and with an association its class.
Deleted(d, X) ==
  LET closed(S) ==
        \A r \in d.relationships :
          (Ends(r) \cap S # {} /\ r.associationClassId # None) => r.associationClassId \in S
      candidates == {S \in SUBSET (ElementIds(d) \cup X) : X \subseteq S /\ closed(S)}
  IN CHOOSE S \in candidates : \A T \in candidates : S \subseteq T

\* Mutant: the types that name a removed classifier keep its identifier.
TypeKept(t, gone) == t
\* removeTypeReference.
TypeWithout(t, gone) == IF t.elementId \in gone THEN [t EXCEPT !.elementId = None] ELSE t

RemoveClassifiers(d, X) ==
  LET gone == Deleted(d, X)
      Forget(e) == Retyped(e, [t \in TypesOf(e) |-> TypeWithout(t, gone)])
      Loosen(r) == IF r.associationClassId \in gone
                     THEN [r EXCEPT !.associationClassId = None] ELSE r
  IN [elements |-> {Forget(e) : e \in {x \in d.elements : x.id \notin gone}},
      positions |-> {p \in d.positions : p.elementId \notin gone},
      relationships |->
        {Loosen(r) : r \in {x \in d.relationships : Ends(x) \cap gone = {}}}]

DeleteClassifier(d, id) == IF Has(d, id) THEN RemoveClassifiers(d, {id}) ELSE Refused

(***************************************************************************)
(* Attributes and operations                                               *)
(***************************************************************************)

AddAttribute(d, id, a) ==
  IF Has(d, id)
    THEN WithClassifier(d, id, [Classifier(d, id) EXCEPT !.attributes = @ \cup {a}])
    ELSE Refused

UpdateAttribute(d, id, old, a) ==
  IF Has(d, id) /\ HasMember(Classifier(d, id).attributes, old) /\ a.id = old
    THEN WithClassifier(d, id,
           [Classifier(d, id) EXCEPT !.attributes = Replacing(@, Member(@, old), a)])
    ELSE Refused

DeleteAttribute(d, id, old) ==
  IF Has(d, id) /\ HasMember(Classifier(d, id).attributes, old)
    THEN WithClassifier(d, id,
           [Classifier(d, id) EXCEPT !.attributes = @ \ {Member(@, old)}])
    ELSE Refused

AddOperation(d, id, o) ==
  IF Has(d, id)
    THEN WithClassifier(d, id, [Classifier(d, id) EXCEPT !.operations = @ \cup {o}])
    ELSE Refused

UpdateOperation(d, id, old, o) ==
  IF Has(d, id) /\ HasMember(Classifier(d, id).operations, old) /\ o.id = old
    THEN WithClassifier(d, id,
           [Classifier(d, id) EXCEPT !.operations = Replacing(@, Member(@, old), o)])
    ELSE Refused

DeleteOperation(d, id, old) ==
  IF Has(d, id) /\ HasMember(Classifier(d, id).operations, old)
    THEN WithClassifier(d, id,
           [Classifier(d, id) EXCEPT !.operations = @ \ {Member(@, old)}])
    ELSE Refused

(***************************************************************************)
(* Relationships                                                           *)
(***************************************************************************)

CreateRelationship(d, r) ==
  IF HasRelationship(d, r.id) THEN Refused
  ELSE [d EXCEPT !.relationships = @ \cup {r}]

UpdateRelationship(d, id, r) ==
  IF ~HasRelationship(d, id) \/ r.id # id THEN Refused
  ELSE [d EXCEPT !.relationships = Replacing(@, Relationship(d, id), r)]

\* deleteRelationshipAggregate: the class of an association goes with it.
DeleteRelationship(d, id) ==
  LET r == Relationship(d, id)
      cut == [d EXCEPT !.relationships = @ \ {r}]
  IN IF ~HasRelationship(d, id) THEN Refused
     ELSE IF r.associationClassId = None THEN cut
          ELSE RemoveClassifiers(cut, {r.associationClassId})

CreateAssociationClass(d, id, e, p) ==
  LET r == Relationship(d, id)
  IN IF \/ ~HasRelationship(d, id)
        \/ r.kind # "association" \/ r.associationClassId # None
        \/ ~IsMany(r.source.multiplicity) \/ ~IsMany(r.target.multiplicity)
       THEN Refused
       ELSE LET made == CreateClassifier(d, e, p)
            IN IF made = Refused THEN Refused
               ELSE UpdateRelationship(made, id, [r EXCEPT !.associationClassId = e.id])

(***************************************************************************)
(* A command as the client sends it.                                       *)
(***************************************************************************)

Mutated(d, c) ==
  CASE c.type = "classifier.create" -> CreateClassifier(d, c.classifier, c.position)
    [] c.type = "classifier.duplicate" ->
         DuplicateClassifier(d, c.elementId, c.classifier, c.position)
    [] c.type = "classifier.update" -> UpdateClassifier(d, c.elementId, c.classifier)
    [] c.type = "classifier.move" -> MoveClassifier(d, c.elementId, c.x)
    [] c.type = "classifier.delete" -> DeleteClassifier(d, c.elementId)
    [] c.type = "attribute.add" -> AddAttribute(d, c.elementId, c.member)
    [] c.type = "attribute.update" -> UpdateAttribute(d, c.elementId, c.memberId, c.member)
    [] c.type = "attribute.delete" -> DeleteAttribute(d, c.elementId, c.memberId)
    [] c.type = "operation.add" -> AddOperation(d, c.elementId, c.member)
    [] c.type = "operation.update" -> UpdateOperation(d, c.elementId, c.memberId, c.member)
    [] c.type = "operation.delete" -> DeleteOperation(d, c.elementId, c.memberId)
    [] c.type = "relationship.create" -> CreateRelationship(d, c.relationship)
    [] c.type = "relationship.update" ->
         UpdateRelationship(d, c.relationshipId, c.relationship)
    [] c.type = "relationship.delete" -> DeleteRelationship(d, c.relationshipId)
    [] c.type = "association-class.create" ->
         CreateAssociationClass(d, c.relationshipId, c.classifier, c.position)
    [] c.type = "diagram.clear" -> EmptyDiagram

\* A command that changes nothing is an error.
Executed(d, c) == LET next == Mutated(d, c) IN IF next = d THEN Refused ELSE next

\* Mutant: a rename is taken to change the classifier alone.
NothingElse(d, id) == {}
\* The classifiers whose types name one: referencesClassifier.
Referring(d, id) ==
  {e.id : e \in {x \in d.elements : \E t \in TypesOf(x) : t.elementId = id}}

RelationshipElements(r) ==
  Ends(r) \cup (IF r.associationClassId = None THEN {} ELSE {r.associationClassId})

\* affectedElementIds; a missing classifier or relationship throws.
Affected(d, c) ==
  CASE c.type \in {"classifier.create", "classifier.duplicate"} -> {c.classifier.id}
    [] c.type = "classifier.update" ->
         IF Has(d, c.elementId)
           THEN {c.elementId} \cup
                (IF Classifier(d, c.elementId).name # c.classifier.name
                   THEN Referring(d, c.elementId) ELSE {})
           ELSE Refused
    [] c.type \in {"classifier.delete", "diagram.clear"} -> ElementIds(d)
    [] c.type = "relationship.create" -> RelationshipElements(c.relationship)
    [] c.type \in {"relationship.update", "relationship.delete", "association-class.create"} ->
         IF ~HasRelationship(d, c.relationshipId) THEN Refused
         ELSE LET r == Relationship(d, c.relationshipId)
              IN CASE c.type = "relationship.update" ->
                        RelationshipElements(r) \cup RelationshipElements(c.relationship)
                   [] c.type = "relationship.delete" ->
                        IF r.associationClassId = None THEN Ends(r) ELSE ElementIds(d)
                   [] OTHER -> Ends(r) \cup {c.classifier.id}
    [] OTHER -> {c.elementId}

\* processInTransaction, between the revision check and the update.
\* `locked` are the elements that other sockets hold.
Outcome(d, c, locked) ==
  LET affected == Affected(d, c)
      next == Executed(d, c)
  IN CASE affected = Refused -> "INVALID_COMMAND"
       [] affected # Refused /\ affected \cap locked # {} -> "ELEMENT_LOCKED"
       [] OTHER -> IF next = Refused THEN "INVALID_COMMAND"
                   ELSE IF Valid(next) THEN "accepted" ELSE "INVALID_MODEL"
=============================================================================
