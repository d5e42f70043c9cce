----------------------- MODULE DiagramEditing_proofs -----------------------
(***************************************************************************)
(* Proofs about the commands and the XMI files of the documents they make, *)
(* for every set of classifiers, members and relationships that clients    *)
(* send.                                                                   *)
(***************************************************************************)
EXTENDS DiagramEditing, TLAPS, FiniteSetTheorems, FunctionTheorems, SequenceTheorems

-----------------------------------------------------------------------------
(* What a command makes of a document *)

\* The sixteen commands, one by one.
LEMMA Mutations ==
  ASSUME NEW d, NEW c
  PROVE  /\ c.type = "classifier.create" => Mutated(d, c) = CreateClassifier(d, c.classifier, c.position)
         /\ c.type = "classifier.duplicate" =>
              Mutated(d, c) = DuplicateClassifier(d, c.elementId, c.classifier, c.position)
         /\ c.type = "classifier.update" => Mutated(d, c) = UpdateClassifier(d, c.elementId, c.classifier)
         /\ c.type = "classifier.move" => Mutated(d, c) = MoveClassifier(d, c.elementId, c.x)
         /\ c.type = "classifier.delete" => Mutated(d, c) = DeleteClassifier(d, c.elementId)
         /\ c.type = "attribute.add" => Mutated(d, c) = AddAttribute(d, c.elementId, c.member)
         /\ c.type = "attribute.update" =>
              Mutated(d, c) = UpdateAttribute(d, c.elementId, c.memberId, c.member)
         /\ c.type = "attribute.delete" => Mutated(d, c) = DeleteAttribute(d, c.elementId, c.memberId)
         /\ c.type = "operation.add" => Mutated(d, c) = AddOperation(d, c.elementId, c.member)
         /\ c.type = "operation.update" =>
              Mutated(d, c) = UpdateOperation(d, c.elementId, c.memberId, c.member)
         /\ c.type = "operation.delete" => Mutated(d, c) = DeleteOperation(d, c.elementId, c.memberId)
         /\ c.type = "relationship.create" => Mutated(d, c) = CreateRelationship(d, c.relationship)
         /\ c.type = "relationship.update" =>
              Mutated(d, c) = UpdateRelationship(d, c.relationshipId, c.relationship)
         /\ c.type = "relationship.delete" => Mutated(d, c) = DeleteRelationship(d, c.relationshipId)
         /\ c.type = "association-class.create" =>
              Mutated(d, c) = CreateAssociationClass(d, c.relationshipId, c.classifier, c.position)
         /\ c.type = "diagram.clear" => Mutated(d, c) = EmptyDiagram
BY ZenonT(60) DEF Mutated

\* Identifiers name one classifier and one relationship each.
OneEach(d) ==
  /\ \A e, f \in d.elements : e.id = f.id => e = f
  /\ \A r, s \in d.relationships : r.id = s.id => r = s

\* In a valid document they do.
LEMMA ValidOneEach ==
  ASSUME NEW d, Valid(d)
  PROVE  OneEach(d)
<1>1. ASSUME NEW e \in d.elements, NEW f \in d.elements, e.id = f.id
      PROVE  e = f
  <2>1. <<"classifier", None, e>> \in Registered(d) /\ <<"classifier", None, f>> \in Registered(d)
    BY DEF Registered
  <2> QED
    BY <1>1, <2>1 DEF Valid, UniqueIds
<1>2. ASSUME NEW r \in d.relationships, NEW s \in d.relationships, r.id = s.id
      PROVE  r = s
  <2>1. <<"relationship", None, r>> \in Registered(d) /\ <<"relationship", None, s>> \in Registered(d)
    BY DEF Registered
  <2> QED
    BY <1>2, <2>1 DEF Valid, UniqueIds
<1> QED
  BY <1>1, <1>2 DEF OneEach

\* The classifier, the relationship and the member an identifier names.
LEMMA ClassifierNamed ==
  ASSUME NEW d, NEW id, Has(d, id)
  PROVE  Classifier(d, id) \in d.elements /\ Classifier(d, id).id = id
BY DEF Has, ElementIds, Classifier

\* The relationship an identifier names is one of the document.
LEMMA RelationshipNamed ==
  ASSUME NEW d, NEW id, HasRelationship(d, id)
  PROVE  Relationship(d, id) \in d.relationships /\ Relationship(d, id).id = id
BY DEF HasRelationship, Relationship

\* The member an identifier names is one of the set.
LEMMA MemberNamed ==
  ASSUME NEW S, NEW id, HasMember(S, id)
  PROVE  Member(S, id) \in S /\ Member(S, id).id = id
BY DEF HasMember, Member

\* The shape of a document, and a document with other elements or relationships.
LEMMA Shapes ==
  ASSUME NEW d, DiagramShape(d)
  PROVE  /\ d = [elements |-> d.elements, positions |-> d.positions,
                 relationships |-> d.relationships]
         /\ \A e \in d.elements : ClassifierShape(e)
         /\ \A p \in d.positions : PositionShape(p)
         /\ \A r \in d.relationships : RelationshipShape(r)
BY Zenon DEF DiagramShape

\* Parts of the right shape make a document of the right shape.
LEMMA Shaped ==
  ASSUME NEW E, NEW P, NEW R,
         \A e \in E : ClassifierShape(e),
         \A p \in P : PositionShape(p),
         \A r \in R : RelationshipShape(r)
  PROVE  DiagramShape([elements |-> E, positions |-> P, relationships |-> R])
BY DEF DiagramShape

\* A document with other classifiers keeps its positions and relationships.
LEMMA WithElements ==
  ASSUME NEW d, NEW n, NEW S, DiagramShape(d), n = [d EXCEPT !.elements = S]
  PROVE  n.elements = S /\ n.positions = d.positions /\ n.relationships = d.relationships
<1>1. n = [elements |-> S, positions |-> d.positions, relationships |-> d.relationships]
  BY Shapes
<1> QED
  BY <1>1

\* It has the shape of a document if they have that of classifiers.
LEMMA WithElementsShape ==
  ASSUME NEW d, NEW n, NEW S, DiagramShape(d), \A x \in S : ClassifierShape(x),
         n = [d EXCEPT !.elements = S]
  PROVE  DiagramShape(n)
<1>1. n = [elements |-> S, positions |-> d.positions, relationships |-> d.relationships]
  BY Shapes
<1> QED
  BY <1>1, Shapes, Shaped

\* A document with other relationships keeps its classifiers and positions.
LEMMA WithRelationships ==
  ASSUME NEW d, NEW n, NEW S, DiagramShape(d), n = [d EXCEPT !.relationships = S]
  PROVE  n.elements = d.elements /\ n.positions = d.positions /\ n.relationships = S
<1>1. n = [elements |-> d.elements, positions |-> d.positions, relationships |-> S]
  BY Shapes
<1> QED
  BY <1>1

\* It has the shape of a document if they have that of relationships.
LEMMA WithRelationshipsShape ==
  ASSUME NEW d, NEW n, NEW S, DiagramShape(d), \A x \in S : RelationshipShape(x),
         n = [d EXCEPT !.relationships = S]
  PROVE  DiagramShape(n)
<1>1. n = [elements |-> d.elements, positions |-> d.positions, relationships |-> S]
  BY Shapes
<1> QED
  BY <1>1, Shapes, Shaped

\* A document with another classifier in place of the one with its identifier.
LEMMA InPlace ==
  ASSUME NEW d, NEW id, NEW e, NEW n, DiagramShape(d), n = WithClassifier(d, id, e)
  PROVE  n.elements = Replacing(d.elements, Classifier(d, id), e)
         /\ n.positions = d.positions /\ n.relationships = d.relationships
<1> DEFINE S == Replacing(d.elements, Classifier(d, id), e)
<1>1. n = [d EXCEPT !.elements = S]
  BY DEF WithClassifier
<1> HIDE DEF S
<1>2. n.elements = S /\ n.positions = d.positions /\ n.relationships = d.relationships
  BY <1>1, WithElements
<1> QED
  BY <1>2 DEF S

\* The document keeps its shape.
LEMMA InPlaceShape ==
  ASSUME NEW d, NEW id, NEW e, NEW n,
         DiagramShape(d), ClassifierShape(e), n = WithClassifier(d, id, e)
  PROVE  DiagramShape(n)
<1> DEFINE S == Replacing(d.elements, Classifier(d, id), e)
<1>1. n = [d EXCEPT !.elements = S]
  BY DEF WithClassifier
<1>2. \A x \in S : ClassifierShape(x)
  BY Shapes DEF Replacing
<1> HIDE DEF S
<1> QED
  BY <1>1, <1>2, WithElementsShape

-----------------------------------------------------------------------------
(* What a command changes *)

\* Two documents that agree on all classifiers but S, and on all relationships
\* but some whose ends are in S.
LEMMA AgreesBut ==
  ASSUME NEW d, NEW n, NEW S,
         \A e \in d.elements : e.id \in S \/ e \in n.elements,
         \A e \in n.elements : e.id \in S \/ e \in d.elements,
         \A r \in d.relationships : Ends(r) \subseteq S \/ r \in n.relationships,
         \A r \in n.relationships : Ends(r) \subseteq S \/ r \in d.relationships
  PROVE  Differing(d, n) \subseteq S
<1>1. ASSUME NEW id \in ElementIds(d) \cup ElementIds(n), id \notin S
      PROVE  {x \in d.elements : x.id = id} = {x \in n.elements : x.id = id}
  BY <1>1
<1>2. UNION {Ends(r) : r \in (d.relationships \ n.relationships)
                               \cup (n.relationships \ d.relationships)} \subseteq S
  OBVIOUS
<1> QED
  BY <1>1, <1>2 DEF Differing

\* The commands that put a classifier in the place of the one they name.
LEMMA InPlaceAgrees ==
  ASSUME NEW d, NEW id, NEW e, NEW n, NEW S,
         DiagramShape(d), Has(d, id), e.id = id, n = WithClassifier(d, id, e), id \in S
  PROVE  Differing(d, n) \subseteq S
<1>1. n.elements = Replacing(d.elements, Classifier(d, id), e) /\ n.relationships = d.relationships
  BY InPlace
<1>2. Classifier(d, id).id = id
  BY ClassifierNamed
<1> QED
  BY <1>1, <1>2, AgreesBut DEF Replacing

\* A new classifier.
LEMMA Created ==
  ASSUME NEW d, NEW e, NEW p, NEW n, DiagramShape(d), n = CreateClassifier(d, e, p), n # Refused
  PROVE  /\ ~Has(d, e.id) /\ p.elementId = e.id
         /\ n = [elements |-> d.elements \cup {e}, positions |-> d.positions \cup {p},
                 relationships |-> d.relationships]
<1>1. n = [d EXCEPT !.elements = @ \cup {e}, !.positions = @ \cup {p}]
  BY DEF CreateClassifier
<1>2. n = [elements |-> d.elements \cup {e}, positions |-> d.positions \cup {p},
           relationships |-> d.relationships]
  <2> DEFINE E == d.elements \cup {e}
             P == d.positions \cup {p}
  <2>1. n = [d EXCEPT !.elements = E, !.positions = P]
    BY <1>1
  <2> HIDE DEF E, P
  <2>2. PICK A, Q, R : d = [elements |-> A, positions |-> Q, relationships |-> R]
    BY Shapes
  <2>3. n = [elements |-> E, positions |-> P, relationships |-> R]
    BY <2>1, <2>2
  <2>4. R = d.relationships
    BY <2>2
  <2> QED
    BY <2>3, <2>4 DEF E, P
<1>3. ~Has(d, e.id) /\ p.elementId = e.id
  BY DEF CreateClassifier
<1> QED
  BY <1>2, <1>3

\* The document with a new classifier has the shape of a document.
LEMMA CreatedShape ==
  ASSUME NEW d, NEW e, NEW p, NEW n,
         DiagramShape(d), n = CreateClassifier(d, e, p), n # Refused,
         ClassifierShape(e), PositionShape(p)
  PROVE  DiagramShape(n)
<1> DEFINE E == d.elements \cup {e}
           P == d.positions \cup {p}
<1>1. (\A x \in E : ClassifierShape(x)) /\ (\A x \in P : PositionShape(x))
  BY Shapes
<1>2. n = [elements |-> E, positions |-> P, relationships |-> d.relationships]
  BY Created
<1> HIDE DEF E, P
<1> QED
  BY <1>1, <1>2, Shapes, Shaped

\* A new classifier is all that the creation of a classifier changes.
LEMMA CreatedAgrees ==
  ASSUME NEW d, NEW e, NEW p, NEW n, NEW S,
         DiagramShape(d), n = CreateClassifier(d, e, p), n # Refused, e.id \in S
  PROVE  Differing(d, n) \subseteq S
<1>1. n = [elements |-> d.elements \cup {e}, positions |-> d.positions \cup {p},
           relationships |-> d.relationships]
  BY Created
<1> QED
  BY <1>1, AgreesBut

-----------------------------------------------------------------------------
(* Classifiers whose type references change *)

RetypedParameter(p, f) == [p EXCEPT !.type = f[@]]
RetypedAttribute(a, f) == [a EXCEPT !.type = f[@]]

\* A parameter of another type: its type alone is new.
LEMMA ParameterRetyped ==
  ASSUME NEW p, NEW f, NEW q, ParameterShape(p), q = RetypedParameter(p, f)
  PROVE  /\ q = [id |-> p.id, name |-> p.name, type |-> f[p.type]]
         /\ q.id = p.id /\ q.name = p.name /\ q.type = f[p.type]
         /\ f[p.type] = p.type => q = p
         /\ ReferenceShape(f[p.type]) => ParameterShape(q)
<1>1. p = [id |-> p.id, name |-> p.name, type |-> p.type]
  BY Zenon DEF ParameterShape
<1>2. q = [id |-> p.id, name |-> p.name, type |-> f[p.type]]
  BY <1>1 DEF RetypedParameter
<1>3. q.id = p.id /\ q.name = p.name /\ q.type = f[p.type]
  BY <1>2
<1>4. f[p.type] = p.type => q = p
  BY <1>1, <1>2
<1>5. ReferenceShape(f[p.type]) => ParameterShape(q)
  BY <1>2, <1>3 DEF ParameterShape
<1> QED
  BY <1>2, <1>3, <1>4, <1>5

\* An attribute of another type: its type alone is new.
LEMMA AttributeRetyped ==
  ASSUME NEW a, NEW f, NEW b, AttributeShape(a), b = RetypedAttribute(a, f)
  PROVE  /\ b = [id |-> a.id, name |-> a.name, type |-> f[a.type], isStatic |-> a.isStatic]
         /\ b.id = a.id /\ b.name = a.name /\ b.type = f[a.type]
         /\ f[a.type] = a.type => b = a
         /\ ReferenceShape(f[a.type]) => AttributeShape(b)
<1>1. a = [id |-> a.id, name |-> a.name, type |-> a.type, isStatic |-> a.isStatic]
  BY Zenon DEF AttributeShape
<1>2. b = [id |-> a.id, name |-> a.name, type |-> f[a.type], isStatic |-> a.isStatic]
  BY <1>1 DEF RetypedAttribute
<1>3. b.id = a.id /\ b.name = a.name /\ b.type = f[a.type] /\ b.isStatic = a.isStatic
  BY <1>2
<1>4. f[a.type] = a.type => b = a
  BY <1>1, <1>2
<1>5. ReferenceShape(f[a.type]) => AttributeShape(b)
  BY <1>2, <1>3 DEF AttributeShape
<1> QED
  BY <1>2, <1>3, <1>4, <1>5

RetypedParameters(o, f) == {RetypedParameter(p, f) : p \in o.parameters}
RetypedOperation(o, f) ==
  [o EXCEPT !.returnType = f[@], !.parameters = {[p EXCEPT !.type = f[@]] : p \in @}]

\* An operation of other types: its result and parameters alone are new.
LEMMA OperationRetyped ==
  ASSUME NEW o, NEW f, NEW q, OperationShape(o), q = RetypedOperation(o, f)
  PROVE  /\ q.id = o.id /\ q.name = o.name /\ q.returnType = f[o.returnType]
         /\ q.parameters = RetypedParameters(o, f)
         /\ q = [id |-> q.id, name |-> q.name, returnType |-> q.returnType,
                 parameters |-> q.parameters]
<1>1. o = [id |-> o.id, name |-> o.name, returnType |-> o.returnType, parameters |-> o.parameters]
  BY Zenon DEF OperationShape
<1> DEFINE P == RetypedParameters(o, f)
<1>2. q = [o EXCEPT !.returnType = f[@], !.parameters = P]
  BY DEF RetypedOperation, RetypedParameters, RetypedParameter
<1> HIDE DEF P
<1>3. q = [id |-> o.id, name |-> o.name, returnType |-> f[o.returnType], parameters |-> P]
  BY <1>1, <1>2
<1>4. q.id = o.id /\ q.name = o.name /\ q.returnType = f[o.returnType] /\ q.parameters = P
  BY <1>3
<1>5. q = [id |-> q.id, name |-> q.name, returnType |-> q.returnType, parameters |-> q.parameters]
  BY <1>3, <1>4
<1> QED
  BY <1>4, <1>5 DEF P

\* It keeps its shape if the new types have theirs.
LEMMA OperationRetypedShape ==
  ASSUME NEW o, NEW f, NEW q, OperationShape(o), q = RetypedOperation(o, f),
         ReferenceShape(f[o.returnType]), \A p \in o.parameters : ReferenceShape(f[p.type])
  PROVE  OperationShape(q)
<1>1. \A p \in o.parameters : ParameterShape(p)
  BY Zenon DEF OperationShape
<1>2. ASSUME NEW x \in q.parameters
      PROVE  ParameterShape(x)
  <2>1. PICK p \in o.parameters : x = RetypedParameter(p, f)
    BY <1>2, OperationRetyped DEF RetypedParameters
  <2> QED
    BY <1>1, <2>1, ParameterRetyped
<1>3. ReferenceShape(q.returnType)
  BY OperationRetyped
<1>4. q = [id |-> q.id, name |-> q.name, returnType |-> q.returnType, parameters |-> q.parameters]
  BY OperationRetyped
<1> QED
  BY <1>2, <1>3, <1>4, Zenon DEF OperationShape

\* It is as it was if the new types are the old ones.
LEMMA OperationUntouched ==
  ASSUME NEW o, NEW f, NEW q, OperationShape(o), q = RetypedOperation(o, f),
         f[o.returnType] = o.returnType, \A p \in o.parameters : f[p.type] = p.type
  PROVE  q = o
<1>1. \A p \in o.parameters : ParameterShape(p)
  BY Zenon DEF OperationShape
<1>2. \A p \in o.parameters : RetypedParameter(p, f) = p
  BY <1>1, ParameterRetyped
<1>3. q.parameters = o.parameters
  <2>1. {RetypedParameter(p, f) : p \in o.parameters} = o.parameters
    BY <1>2
  <2> QED
    BY <2>1, OperationRetyped DEF RetypedParameters
<1>4. o = [id |-> o.id, name |-> o.name, returnType |-> o.returnType, parameters |-> o.parameters]
  BY Zenon DEF OperationShape
<1>5. q = [id |-> q.id, name |-> q.name, returnType |-> q.returnType, parameters |-> q.parameters]
      /\ q.id = o.id /\ q.name = o.name /\ q.returnType = o.returnType
  BY OperationRetyped
<1> QED
  BY <1>3, <1>4, <1>5

RetypedAttributes(e, f) == {RetypedAttribute(a, f) : a \in e.attributes}
RetypedOperations(e, f) == {RetypedOperation(o, f) : o \in e.operations}

\* A classifier of other types: its members alone are new.
LEMMA ClassifierRetyped ==
  ASSUME NEW e, NEW f, NEW g, ClassifierShape(e), g = Retyped(e, f)
  PROVE  /\ g.id = e.id /\ g.kind = e.kind /\ g.name = e.name
         /\ g.attributes = RetypedAttributes(e, f) /\ g.operations = RetypedOperations(e, f)
         /\ g = [id |-> g.id, kind |-> g.kind, name |-> g.name,
                 attributes |-> g.attributes, operations |-> g.operations]
<1>1. e = [id |-> e.id, kind |-> e.kind, name |-> e.name,
           attributes |-> e.attributes, operations |-> e.operations]
  BY Zenon DEF ClassifierShape
<1> DEFINE A == RetypedAttributes(e, f)
           O == RetypedOperations(e, f)
<1>2. g = [e EXCEPT !.attributes = A, !.operations = O]
  BY DEF Retyped, RetypedAttributes, RetypedAttribute, RetypedOperations, RetypedOperation
<1> HIDE DEF A, O
<1>3. g = [id |-> e.id, kind |-> e.kind, name |-> e.name, attributes |-> A, operations |-> O]
  BY <1>1, <1>2
<1>4. g.id = e.id /\ g.kind = e.kind /\ g.name = e.name /\ g.attributes = A /\ g.operations = O
  BY <1>3
<1>5. g = [id |-> g.id, kind |-> g.kind, name |-> g.name,
           attributes |-> g.attributes, operations |-> g.operations]
  BY <1>3, <1>4
<1> QED
  BY <1>4, <1>5 DEF A, O

\* The type references of a classifier are those of its members.
LEMMA TypesAre ==
  ASSUME NEW e
  PROVE  /\ \A a \in e.attributes : a.type \in TypesOf(e)
         /\ \A o \in e.operations : o.returnType \in TypesOf(e)
         /\ \A o \in e.operations : \A p \in o.parameters : p.type \in TypesOf(e)
BY DEF TypesOf

\* It keeps its shape if the new types have theirs.
LEMMA ClassifierRetypedShape ==
  ASSUME NEW e, NEW f, NEW g, ClassifierShape(e), g = Retyped(e, f),
         \A t \in TypesOf(e) : ReferenceShape(f[t])
  PROVE  ClassifierShape(g)
<1>1. (\A a \in e.attributes : AttributeShape(a)) /\ (\A o \in e.operations : OperationShape(o))
      /\ e.kind \in {"class", "interface"} /\ e.id # None
  BY Zenon DEF ClassifierShape
<1>2. ASSUME NEW x \in g.attributes
      PROVE  AttributeShape(x)
  <2>1. PICK a \in e.attributes : x = RetypedAttribute(a, f)
    BY <1>2, ClassifierRetyped DEF RetypedAttributes
  <2> QED
    BY <1>1, <2>1, AttributeRetyped, TypesAre
<1>3. ASSUME NEW x \in g.operations
      PROVE  OperationShape(x)
  <2>1. PICK o \in e.operations : x = RetypedOperation(o, f)
    BY <1>3, ClassifierRetyped DEF RetypedOperations
  <2> QED
    BY <1>1, <2>1, OperationRetypedShape, TypesAre
<1>4. g = [id |-> g.id, kind |-> g.kind, name |-> g.name,
           attributes |-> g.attributes, operations |-> g.operations]
      /\ g.kind = e.kind /\ g.id = e.id
  BY ClassifierRetyped
<1>5. IsFiniteSet(g.operations)
  <2> DEFINE h == [o \in e.operations |-> RetypedOperation(o, f)]
  <2>1. IsFiniteSet(e.operations)
    BY Zenon DEF ClassifierShape
  <2>2. g.operations = {RetypedOperation(o, f) : o \in e.operations}
    BY ClassifierRetyped DEF RetypedOperations
  <2>3. h \in Surjection(e.operations, g.operations)
    BY <2>2, Zenon DEF Surjection
  <2> QED
    BY <2>1, <2>3, FS_Surjection
<1> QED
  BY <1>1, <1>2, <1>3, <1>4, <1>5, Zenon DEF ClassifierShape

\* It is as it was if the new types are the old ones.
LEMMA ClassifierUntouched ==
  ASSUME NEW e, NEW f, NEW g, ClassifierShape(e), g = Retyped(e, f),
         \A t \in TypesOf(e) : f[t] = t
  PROVE  g = e
<1>1. (\A a \in e.attributes : AttributeShape(a)) /\ (\A o \in e.operations : OperationShape(o))
  BY Zenon DEF ClassifierShape
<1>2. \A a \in e.attributes : RetypedAttribute(a, f) = a
  BY <1>1, AttributeRetyped, TypesAre
<1>3. \A o \in e.operations : RetypedOperation(o, f) = o
  BY <1>1, OperationUntouched, TypesAre
<1>4. g.attributes = e.attributes
  <2>1. {RetypedAttribute(a, f) : a \in e.attributes} = e.attributes
    BY <1>2
  <2> QED
    BY <2>1, ClassifierRetyped DEF RetypedAttributes
<1>5. g.operations = e.operations
  BY <1>3, ClassifierRetyped DEF RetypedOperations
<1>6. e = [id |-> e.id, kind |-> e.kind, name |-> e.name,
           attributes |-> e.attributes, operations |-> e.operations]
  BY Zenon DEF ClassifierShape
<1>7. g = [id |-> g.id, kind |-> g.kind, name |-> g.name,
           attributes |-> g.attributes, operations |-> g.operations]
      /\ g.id = e.id /\ g.kind = e.kind /\ g.name = e.name
  BY ClassifierRetyped
<1> QED
  BY <1>4, <1>5, <1>6, <1>7

\* The types of a classifier that was retyped.
LEMMA TypesRetyped ==
  ASSUME NEW e, NEW f, NEW g, NEW u, ClassifierShape(e), g = Retyped(e, f)
  PROVE  u \in TypesOf(g) <=> \E t \in TypesOf(e) : u = f[t]
<1>1. (\A a \in e.attributes : AttributeShape(a)) /\ (\A o \in e.operations : OperationShape(o))
  BY Zenon DEF ClassifierShape
<1>2. \A o \in e.operations : \A p \in o.parameters : ParameterShape(p)
  BY <1>1, Zenon DEF OperationShape
<1>3. ASSUME u \in TypesOf(g)
      PROVE  \E t \in TypesOf(e) : u = f[t]
  <2>1. CASE \E b \in g.attributes : u = b.type
    <3>1. PICK a \in e.attributes : u = RetypedAttribute(a, f).type
      BY <2>1, ClassifierRetyped DEF RetypedAttributes
    <3> QED
      BY <1>1, <3>1, AttributeRetyped, TypesAre
  <2>2. CASE \E q \in g.operations : u = q.returnType
    <3>1. PICK o \in e.operations : u = RetypedOperation(o, f).returnType
      BY <2>2, ClassifierRetyped DEF RetypedOperations
    <3> QED
      BY <1>1, <3>1, OperationRetyped, TypesAre
  <2>3. CASE \E q \in g.operations : \E x \in q.parameters : u = x.type
    <3>1. PICK o \in e.operations : \E x \in RetypedOperation(o, f).parameters : u = x.type
      BY <2>3, ClassifierRetyped DEF RetypedOperations
    <3>2. PICK p \in o.parameters : u = RetypedParameter(p, f).type
      BY <1>1, <3>1, OperationRetyped DEF RetypedParameters
    <3> QED
      BY <1>2, <3>2, ParameterRetyped, TypesAre
  <2> QED
    BY <1>3, <2>1, <2>2, <2>3 DEF TypesOf
<1>4. ASSUME NEW t \in TypesOf(e), u = f[t]
      PROVE  u \in TypesOf(g)
  <2>1. CASE \E a \in e.attributes : t = a.type
    <3>1. PICK a \in e.attributes : t = a.type
      BY <2>1
    <3>2. RetypedAttribute(a, f) \in g.attributes
      BY ClassifierRetyped DEF RetypedAttributes
    <3> QED
      BY <1>1, <1>4, <3>1, <3>2, AttributeRetyped, TypesAre
  <2>2. CASE \E o \in e.operations : t = o.returnType
    <3>1. PICK o \in e.operations : t = o.returnType
      BY <2>2
    <3>2. RetypedOperation(o, f) \in g.operations
      BY ClassifierRetyped DEF RetypedOperations
    <3> QED
      BY <1>1, <1>4, <3>1, <3>2, OperationRetyped, TypesAre
  <2>3. CASE \E o \in e.operations : \E p \in o.parameters : t = p.type
    <3>0. PICK o \in e.operations : \E p \in o.parameters : t = p.type
      BY <2>3
    <3>1. PICK p \in o.parameters : t = p.type
      BY <3>0
    <3>2. RetypedOperation(o, f) \in g.operations
      BY ClassifierRetyped DEF RetypedOperations
    <3>3. RetypedParameter(p, f) \in RetypedOperation(o, f).parameters
      BY <1>1, OperationRetyped DEF RetypedParameters
    <3> QED
      BY <1>2, <1>4, <3>1, <3>2, <3>3, ParameterRetyped, TypesAre
  <2> QED
    BY <1>4, <2>1, <2>2, <2>3 DEF TypesOf
<1> QED
  BY <1>3, <1>4

\* A classifier whose references follow a rename, and one whose references forget
\* what is gone.
SyncedClassifier(e, id, name) == Retyped(e, [t \in TypesOf(e) |-> Synced(t, id, name)])
ForgottenClassifier(e, gone) == Retyped(e, [t \in TypesOf(e) |-> TypeWithout(t, gone)])

\* syncTypeReferenceNames gives a new name to the references of one classifier.
LEMMA ReferenceSynced ==
  ASSUME NEW t, NEW id, NEW name, NEW u, ReferenceShape(t), u = Synced(t, id, name)
  PROVE  /\ ReferenceShape(u)
         /\ u.elementId = t.elementId
         /\ t.elementId = id => u.name = name
         /\ t.elementId # id => u = t
<1>1. t = [name |-> t.name, elementId |-> t.elementId,
           collection |-> t.collection, nullable |-> t.nullable]
  BY Zenon DEF ReferenceShape
<1>2. CASE t.elementId = id
  <2>1. u = [name |-> name, elementId |-> t.elementId,
             collection |-> t.collection, nullable |-> t.nullable]
    BY <1>1, <1>2 DEF Synced
  <2>2. u.name = name /\ u.elementId = t.elementId /\ u.collection = t.collection
        /\ u.nullable = t.nullable
    BY <2>1
  <2> QED
    BY <1>2, <2>1, <2>2 DEF ReferenceShape
<1>3. CASE t.elementId # id
  BY <1>3 DEF Synced
<1> QED
  BY <1>2, <1>3

\* removeTypeReference takes the identifier from the references of what is gone.
LEMMA ReferenceForgotten ==
  ASSUME NEW t, NEW gone, NEW u, ReferenceShape(t), u = TypeWithout(t, gone)
  PROVE  /\ ReferenceShape(u)
         /\ u.name = t.name
         /\ t.elementId \in gone => u.elementId = None
         /\ t.elementId \notin gone => u = t
<1>1. t = [name |-> t.name, elementId |-> t.elementId,
           collection |-> t.collection, nullable |-> t.nullable]
  BY Zenon DEF ReferenceShape
<1>2. CASE t.elementId \in gone
  <2>1. u = [name |-> t.name, elementId |-> None,
             collection |-> t.collection, nullable |-> t.nullable]
    BY <1>1, <1>2 DEF TypeWithout
  <2>2. u.name = t.name /\ u.elementId = None /\ u.collection = t.collection
        /\ u.nullable = t.nullable
    BY <2>1
  <2> QED
    BY <1>2, <2>1, <2>2 DEF ReferenceShape
<1>3. CASE t.elementId \notin gone
  BY <1>3 DEF TypeWithout
<1> QED
  BY <1>2, <1>3

\* Every reference of a classifier has its shape.
LEMMA TypesShaped ==
  ASSUME NEW e, NEW t, ClassifierShape(e), t \in TypesOf(e)
  PROVE  ReferenceShape(t)
<1>1. (\A a \in e.attributes : AttributeShape(a)) /\ (\A o \in e.operations : OperationShape(o))
  BY Zenon DEF ClassifierShape
<1>2. \A o \in e.operations : ReferenceShape(o.returnType) /\ \A p \in o.parameters : ParameterShape(p)
  BY <1>1, Zenon DEF OperationShape
<1>3. CASE \E a \in e.attributes : t = a.type
  BY <1>1, <1>3, Zenon DEF AttributeShape
<1>4. CASE \E o \in e.operations : t = o.returnType
  BY <1>2, <1>4
<1>5. CASE \E o \in e.operations : \E p \in o.parameters : t = p.type
  BY <1>2, <1>5, Zenon DEF ParameterShape
<1> QED
  BY <1>3, <1>4, <1>5 DEF TypesOf

\* A classifier whose types follow a rename is as it was if it refers to none renamed.
LEMMA ClassifierSynced ==
  ASSUME NEW e, NEW id, NEW name, NEW g, ClassifierShape(e), g = SyncedClassifier(e, id, name)
  PROVE  /\ ClassifierShape(g)
         /\ g.id = e.id /\ g.kind = e.kind /\ g.name = e.name
         /\ (\A t \in TypesOf(e) : t.elementId # id) => g = e
<1> DEFINE f == [t \in TypesOf(e) |-> Synced(t, id, name)]
<1>1. g = Retyped(e, f)
  BY DEF SyncedClassifier
<1>2. \A t \in TypesOf(e) : ReferenceShape(f[t]) /\ (t.elementId # id => f[t] = t)
  BY TypesShaped, ReferenceSynced
<1> HIDE DEF f
<1>3. ClassifierShape(g)
  BY <1>1, <1>2, ClassifierRetypedShape
<1>4. g.id = e.id /\ g.kind = e.kind /\ g.name = e.name
  BY <1>1, ClassifierRetyped
<1>5. ASSUME \A t \in TypesOf(e) : t.elementId # id
      PROVE  g = e
  BY <1>1, <1>2, <1>5, ClassifierUntouched
<1> QED
  BY <1>3, <1>4, <1>5

\* A classifier whose types forget what is gone keeps its identifier, kind and name.
LEMMA ClassifierForgotten ==
  ASSUME NEW e, NEW gone, NEW g, ClassifierShape(e), g = ForgottenClassifier(e, gone)
  PROVE  /\ ClassifierShape(g)
         /\ g.id = e.id /\ g.kind = e.kind /\ g.name = e.name
<1> DEFINE f == [t \in TypesOf(e) |-> TypeWithout(t, gone)]
<1>1. g = Retyped(e, f)
  BY DEF ForgottenClassifier
<1>2. \A t \in TypesOf(e) : ReferenceShape(f[t])
  BY TypesShaped, ReferenceForgotten
<1> HIDE DEF f
<1>3. ClassifierShape(g)
  BY <1>1, <1>2, ClassifierRetypedShape
<1>4. g.id = e.id /\ g.kind = e.kind /\ g.name = e.name
  BY <1>1, ClassifierRetyped
<1> QED
  BY <1>3, <1>4

-----------------------------------------------------------------------------
(* The commands that change a classifier *)

\* syncTypeReferenceNames reaches the classifiers alone, each by itself.
LEMMA SyncedElements ==
  ASSUME NEW d, NEW id, NEW name, NEW n, DiagramShape(d), n = NamesSynced(d, id, name)
  PROVE  /\ n.elements = {SyncedClassifier(e, id, name) : e \in d.elements}
         /\ n.positions = d.positions /\ n.relationships = d.relationships
         /\ DiagramShape(n)
<1> DEFINE S == {SyncedClassifier(e, id, name) : e \in d.elements}
<1>1. n = [d EXCEPT !.elements = S]
  BY DEF NamesSynced, SyncedClassifier
<1>2. \A x \in S : ClassifierShape(x)
  BY ClassifierSynced, Shapes
<1> HIDE DEF S
<1>3. n.elements = S /\ n.positions = d.positions /\ n.relationships = d.relationships
  BY <1>1, WithElements
<1>4. DiagramShape(n)
  BY <1>1, <1>2, WithElementsShape
<1> QED
  BY <1>3, <1>4 DEF S

\* The update of a classifier leaves a document of the right shape.
LEMMA UpdatedShape ==
  ASSUME NEW d, NEW id, NEW e, NEW n, DiagramShape(d), ClassifierShape(e),
         n = UpdateClassifier(d, id, e), n # Refused
  PROVE  DiagramShape(n)
<1>1. PICK m : m = WithClassifier(d, id, e)
  OBVIOUS
<1>2. DiagramShape(m)
  BY <1>1, InPlaceShape
<1>3. n = m \/ n = NamesSynced(m, id, e.name)
  BY <1>1 DEF UpdateClassifier
<1> QED
  BY <1>2, <1>3, SyncedElements

\* It changes the classifier and, if that has a new name, those that refer to it.
LEMMA UpdatedAgrees ==
  ASSUME NEW d, NEW id, NEW e, NEW n, DiagramShape(d), ClassifierShape(e),
         n = UpdateClassifier(d, id, e), n # Refused
  PROVE  /\ Has(d, id) /\ e.id = id
         /\ Classifier(d, id).name = e.name => Differing(d, n) \subseteq {id}
         /\ Differing(d, n) \subseteq {id} \cup Referring(d, id)
<1>1. PICK m : m = WithClassifier(d, id, e)
  OBVIOUS
<1>2. Has(d, id) /\ e.id = id
  BY DEF UpdateClassifier
<1>3. Classifier(d, id).id = id
  BY <1>2, ClassifierNamed
<1>4. m.elements = Replacing(d.elements, Classifier(d, id), e) /\ m.relationships = d.relationships
  BY <1>1, InPlace
<1>5. DiagramShape(m)
  BY <1>1, InPlaceShape
<1>6. CASE n = m
  BY <1>2, <1>6, <1>1, InPlaceAgrees
<1>7. CASE n = NamesSynced(m, id, e.name) /\ Classifier(d, id).name # e.name
  <2> DEFINE S == {id} \cup Referring(d, id)
  <2>1. n.elements = {SyncedClassifier(x, id, e.name) : x \in m.elements}
        /\ n.relationships = d.relationships
    BY <1>4, <1>5, <1>7, SyncedElements
  <2>2. ASSUME NEW x \in m.elements
        PROVE  /\ SyncedClassifier(x, id, e.name).id = x.id
               /\ x.id \in S \/ SyncedClassifier(x, id, e.name) = x
               /\ x.id \in S \/ x \in d.elements
    <3>1. ClassifierShape(x)
      BY <1>5, Shapes
    <3>2. CASE x.id = id
      BY <3>1, <3>2, ClassifierSynced
    <3>3. CASE x.id # id
      <4>1. x \in d.elements
        BY <1>2, <1>4, <3>3 DEF Replacing
      <4>2. x.id \in Referring(d, id) \/ \A t \in TypesOf(x) : t.elementId # id
        BY <4>1 DEF Referring
      <4> QED
        BY <3>1, <4>1, <4>2, ClassifierSynced
    <3> QED
      BY <3>2, <3>3
  <2>3. \A x \in d.elements : x.id = id \/ x \in m.elements
    BY <1>3, <1>4 DEF Replacing
  <2> HIDE DEF S
  <2>4. \A x \in d.elements : x.id \in S \/ x \in n.elements
    <3>1. id \in S
      BY DEF S
    <3> QED
      BY <2>1, <2>2, <2>3, <3>1
  <2>5. \A x \in n.elements : x.id \in S \/ x \in d.elements
    BY <2>1, <2>2
  <2>6. Differing(d, n) \subseteq S
    BY <2>1, <2>4, <2>5, AgreesBut
  <2> QED
    BY <1>2, <1>7, <2>6 DEF S
<1> QED
  BY <1>1, <1>6, <1>7 DEF UpdateClassifier

\* A classifier with other attributes, and one with other operations.
LEMMA WithAttributes ==
  ASSUME NEW e, NEW S, NEW g, ClassifierShape(e), \A a \in S : AttributeShape(a),
         g = [e EXCEPT !.attributes = S]
  PROVE  /\ ClassifierShape(g)
         /\ g.id = e.id /\ g.kind = e.kind /\ g.name = e.name
         /\ g.attributes = S /\ g.operations = e.operations
<1>1. e = [id |-> e.id, kind |-> e.kind, name |-> e.name,
           attributes |-> e.attributes, operations |-> e.operations]
      /\ e.kind \in {"class", "interface"} /\ \A o \in e.operations : OperationShape(o)
  BY Zenon DEF ClassifierShape
<1>2. g = [id |-> e.id, kind |-> e.kind, name |-> e.name,
           attributes |-> S, operations |-> e.operations]
  BY <1>1
<1>3. g.id = e.id /\ g.kind = e.kind /\ g.name = e.name
      /\ g.attributes = S /\ g.operations = e.operations
  BY <1>2
<1> QED
  BY <1>1, <1>2, <1>3 DEF ClassifierShape

\* The same of its operations.
LEMMA WithOperations ==
  ASSUME NEW e, NEW S, NEW g, ClassifierShape(e), \A o \in S : OperationShape(o), IsFiniteSet(S),
         g = [e EXCEPT !.operations = S]
  PROVE  /\ ClassifierShape(g)
         /\ g.id = e.id /\ g.kind = e.kind /\ g.name = e.name
         /\ g.attributes = e.attributes /\ g.operations = S
<1>1. e = [id |-> e.id, kind |-> e.kind, name |-> e.name,
           attributes |-> e.attributes, operations |-> e.operations]
      /\ e.kind \in {"class", "interface"} /\ \A a \in e.attributes : AttributeShape(a)
  BY Zenon DEF ClassifierShape
<1>2. g = [id |-> e.id, kind |-> e.kind, name |-> e.name,
           attributes |-> e.attributes, operations |-> S]
  BY <1>1
<1>3. g.id = e.id /\ g.kind = e.kind /\ g.name = e.name
      /\ g.attributes = e.attributes /\ g.operations = S
  BY <1>2
<1> QED
  BY <1>1, <1>2, <1>3 DEF ClassifierShape

\* n is d with classifier id, and it alone, in another form of the same name.
Revised(d, id, n) ==
  /\ Has(d, id)
  /\ \E e : /\ ClassifierShape(e) /\ e.id = id /\ e.name = Classifier(d, id).name
            /\ n = WithClassifier(d, id, e)

\* The commands on attributes revise the classifier they name.
LEMMA AttributesRevised ==
  ASSUME NEW d, NEW id, NEW old, NEW a, NEW n, DiagramShape(d), n # Refused,
         \/ AttributeShape(a) /\ (n = AddAttribute(d, id, a) \/ n = UpdateAttribute(d, id, old, a))
         \/ n = DeleteAttribute(d, id, old)
  PROVE  Revised(d, id, n)
<1> DEFINE e == Classifier(d, id)
<1>1. Has(d, id)
  BY DEF AddAttribute, UpdateAttribute, DeleteAttribute
<1>2. ClassifierShape(e) /\ e.id = id
  BY <1>1, ClassifierNamed, Shapes
<1>3. \A x \in e.attributes : AttributeShape(x)
  BY <1>2, Zenon DEF ClassifierShape
<1>4. PICK S : n = WithClassifier(d, id, [e EXCEPT !.attributes = S])
               /\ \A x \in S : AttributeShape(x)
  <2>1. CASE AttributeShape(a) /\ n = AddAttribute(d, id, a)
    <3> DEFINE S == e.attributes \cup {a}
    <3>1. n = WithClassifier(d, id, [e EXCEPT !.attributes = S])
      BY <1>1, <2>1 DEF AddAttribute
    <3>2. \A x \in S : AttributeShape(x)
      BY <1>3, <2>1
    <3> QED
      BY <3>1, <3>2, Zenon
  <2>2. CASE AttributeShape(a) /\ n = UpdateAttribute(d, id, old, a)
    <3> DEFINE S == (e.attributes \ {Member(e.attributes, old)}) \cup {a}
    <3>1. n = WithClassifier(d, id, [e EXCEPT !.attributes = S])
      BY <1>1, <2>2 DEF UpdateAttribute, Replacing
    <3>2. \A x \in S : AttributeShape(x)
      BY <1>3, <2>2
    <3> QED
      BY <3>1, <3>2, Zenon
  <2>3. CASE n = DeleteAttribute(d, id, old)
    <3> DEFINE S == e.attributes \ {Member(e.attributes, old)}
    <3>1. n = WithClassifier(d, id, [e EXCEPT !.attributes = S])
      BY <1>1, <2>3 DEF DeleteAttribute
    <3>2. \A x \in S : AttributeShape(x)
      BY <1>3
    <3> QED
      BY <3>1, <3>2, Zenon
  <2> QED
    BY <2>1, <2>2, <2>3
<1>5. PICK g : g = [e EXCEPT !.attributes = S]
  OBVIOUS
<1>6. ClassifierShape(g) /\ g.id = id /\ g.name = e.name
  BY <1>2, <1>4, <1>5, WithAttributes
<1> QED
  BY <1>1, <1>4, <1>5, <1>6 DEF Revised

\* The commands on operations revise the classifier they name.
LEMMA OperationsRevised ==
  ASSUME NEW d, NEW id, NEW old, NEW o, NEW n, DiagramShape(d), n # Refused,
         \/ OperationShape(o) /\ (n = AddOperation(d, id, o) \/ n = UpdateOperation(d, id, old, o))
         \/ n = DeleteOperation(d, id, old)
  PROVE  Revised(d, id, n)
<1> DEFINE e == Classifier(d, id)
<1>1. Has(d, id)
  BY DEF AddOperation, UpdateOperation, DeleteOperation
<1>2. ClassifierShape(e) /\ e.id = id
  BY <1>1, ClassifierNamed, Shapes
<1>3. (\A x \in e.operations : OperationShape(x)) /\ IsFiniteSet(e.operations)
  BY <1>2, Zenon DEF ClassifierShape
<1>4. PICK S : n = WithClassifier(d, id, [e EXCEPT !.operations = S])
               /\ (\A x \in S : OperationShape(x)) /\ IsFiniteSet(S)
  <2>1. CASE OperationShape(o) /\ n = AddOperation(d, id, o)
    <3> DEFINE S == e.operations \cup {o}
    <3>0. IsFiniteSet(S)
      BY <1>3, FS_AddElement
    <3>1. n = WithClassifier(d, id, [e EXCEPT !.operations = S])
      BY <1>1, <2>1 DEF AddOperation
    <3>2. \A x \in S : OperationShape(x)
      BY <1>3, <2>1
    <3> QED
      BY <3>0, <3>1, <3>2, Zenon
  <2>2. CASE OperationShape(o) /\ n = UpdateOperation(d, id, old, o)
    <3> DEFINE S == (e.operations \ {Member(e.operations, old)}) \cup {o}
    <3>0. IsFiniteSet(S)
      <4>1. IsFiniteSet(e.operations \ {Member(e.operations, old)})
        BY <1>3, FS_RemoveElement
      <4> QED
        BY <4>1, FS_AddElement
    <3>1. n = WithClassifier(d, id, [e EXCEPT !.operations = S])
      BY <1>1, <2>2 DEF UpdateOperation, Replacing
    <3>2. \A x \in S : OperationShape(x)
      BY <1>3, <2>2
    <3> QED
      BY <3>0, <3>1, <3>2, Zenon
  <2>3. CASE n = DeleteOperation(d, id, old)
    <3> DEFINE S == e.operations \ {Member(e.operations, old)}
    <3>0. IsFiniteSet(S)
      BY <1>3, FS_RemoveElement
    <3>1. n = WithClassifier(d, id, [e EXCEPT !.operations = S])
      BY <1>1, <2>3 DEF DeleteOperation
    <3>2. \A x \in S : OperationShape(x)
      BY <1>3
    <3> QED
      BY <3>0, <3>1, <3>2, Zenon
  <2> QED
    BY <2>1, <2>2, <2>3
<1>5. PICK g : g = [e EXCEPT !.operations = S]
  OBVIOUS
<1>6. ClassifierShape(g) /\ g.id = id /\ g.name = e.name
  BY <1>2, <1>4, <1>5, WithOperations
<1> QED
  BY <1>1, <1>4, <1>5, <1>6 DEF Revised

\* To revise a classifier changes that classifier alone.
LEMMA RevisedAgrees ==
  ASSUME NEW d, NEW id, NEW n, DiagramShape(d), Revised(d, id, n)
  PROVE  DiagramShape(n) /\ Differing(d, n) \subseteq {id}
<1>1. PICK e : ClassifierShape(e) /\ e.id = id /\ n = WithClassifier(d, id, e)
  BY DEF Revised
<1>2. Has(d, id)
  BY DEF Revised
<1> QED
  BY <1>1, <1>2, InPlaceShape, InPlaceAgrees

\* A move changes positions only.
LEMMA MovedAgrees ==
  ASSUME NEW d, NEW id, NEW x, NEW n, DiagramShape(d), n = MoveClassifier(d, id, x), n # Refused
  PROVE  DiagramShape(n) /\ Differing(d, n) = {}
<1> DEFINE old == {p \in d.positions : p.elementId = id}
           P == (d.positions \ old) \cup {[elementId |-> id, x |-> x]}
<1>1. n = [d EXCEPT !.positions = P]
  BY DEF MoveClassifier
<1>2. \A p \in P : PositionShape(p)
  BY Shapes DEF PositionShape
<1> HIDE DEF P
<1>3. n = [elements |-> d.elements, positions |-> P, relationships |-> d.relationships]
  BY <1>1, Shapes
<1>4. DiagramShape(n)
  BY <1>2, <1>3, Shapes, Shaped
<1>5. n.elements = d.elements /\ n.relationships = d.relationships
  BY <1>3
<1>6. Differing(d, n) = {}
  BY <1>5, Zenon DEF Differing, ElementIds
<1> QED
  BY <1>4, <1>6

-----------------------------------------------------------------------------
(* The commands that change relationships, and those that delete *)

\* Relationships end at classifiers of the document.
Bound(d) == \A r \in d.relationships : Ends(r) \subseteq ElementIds(d)

\* The validation sees to it.
LEMMA ValidBound ==
  ASSUME NEW d, Valid(d)
  PROVE  Bound(d)
BY DEF Valid, RelationshipsSound, RelationshipSound, Bound

\* A relationship whose association class, if gone, is forgotten.
Loosened(r, gone) ==
  IF r.associationClassId \in gone THEN [r EXCEPT !.associationClassId = None] ELSE r

\* A relationship of another association class: the class alone is new.
LEMMA WithClass ==
  ASSUME NEW r, NEW k, NEW q, RelationshipShape(r), q = [r EXCEPT !.associationClassId = k]
  PROVE  /\ RelationshipShape(q)
         /\ q.id = r.id /\ q.kind = r.kind /\ q.name = r.name
         /\ q.source = r.source /\ q.target = r.target /\ q.associationClassId = k
<1>1. r = [id |-> r.id, kind |-> r.kind, name |-> r.name, source |-> r.source,
           target |-> r.target, associationClassId |-> r.associationClassId]
      /\ r.kind \in RelationshipKind /\ EndShape(r.source) /\ EndShape(r.target)
  BY Zenon DEF RelationshipShape
<1>2. q = [id |-> r.id, kind |-> r.kind, name |-> r.name, source |-> r.source,
           target |-> r.target, associationClassId |-> k]
  BY <1>1
<1>3. q.id = r.id /\ q.kind = r.kind /\ q.name = r.name
      /\ q.source = r.source /\ q.target = r.target /\ q.associationClassId = k
  BY <1>2
<1> QED
  BY <1>1, <1>2, <1>3 DEF RelationshipShape

\* A relationship loosened from what is gone keeps all but its class.
LEMMA RelationshipLoosened ==
  ASSUME NEW r, NEW gone, NEW q, RelationshipShape(r), q = Loosened(r, gone)
  PROVE  /\ RelationshipShape(q)
         /\ q.id = r.id /\ q.kind = r.kind /\ q.name = r.name
         /\ q.source = r.source /\ q.target = r.target
         /\ r.associationClassId \in gone => q.associationClassId = None
         /\ r.associationClassId \notin gone => q = r
<1>1. CASE r.associationClassId \in gone
  BY <1>1, WithClass DEF Loosened
<1>2. CASE r.associationClassId \notin gone
  BY <1>2 DEF Loosened
<1> QED
  BY <1>1, <1>2

\* removeClassifiersAndReferences, array by array.
LEMMA Removed ==
  ASSUME NEW d, NEW X, NEW gone, NEW n, DiagramShape(d),
         gone = Deleted(d, X), n = RemoveClassifiers(d, X)
  PROVE  /\ n.elements = {ForgottenClassifier(e, gone) : e \in {x \in d.elements : x.id \notin gone}}
         /\ n.positions = {p \in d.positions : p.elementId \notin gone}
         /\ n.relationships = {Loosened(r, gone) : r \in {x \in d.relationships : Ends(x) \cap gone = {}}}
         /\ DiagramShape(n)
<1> DEFINE E == {ForgottenClassifier(e, gone) : e \in {x \in d.elements : x.id \notin gone}}
           P == {p \in d.positions : p.elementId \notin gone}
           R == {Loosened(r, gone) : r \in {x \in d.relationships : Ends(x) \cap gone = {}}}
<1>1. n = [elements |-> E, positions |-> P, relationships |-> R]
  BY DEF RemoveClassifiers, ForgottenClassifier, Loosened
<1>2. \A x \in E : ClassifierShape(x)
  BY ClassifierForgotten, Shapes
<1>3. \A x \in P : PositionShape(x)
  BY Shapes
<1>4. \A x \in R : RelationshipShape(x)
  BY RelationshipLoosened, Shapes
<1> HIDE DEF E, P, R
<1>5. n.elements = E /\ n.positions = P /\ n.relationships = R
  BY <1>1
<1>6. DiagramShape(n)
  BY <1>1, <1>2, <1>3, <1>4, Shaped
<1> QED
  BY <1>5, <1>6 DEF E, P, R

\* Thing by thing.
LEMMA RemovedAre ==
  ASSUME NEW d, NEW X, NEW gone, NEW n, DiagramShape(d),
         gone = Deleted(d, X), n = RemoveClassifiers(d, X)
  PROVE  /\ \A y : y \in n.elements <=>
                 \E e \in d.elements : e.id \notin gone /\ y = ForgottenClassifier(e, gone)
         /\ \A p : p \in n.positions <=> p \in d.positions /\ p.elementId \notin gone
         /\ \A q : q \in n.relationships <=>
                 \E r \in d.relationships : Ends(r) \cap gone = {} /\ q = Loosened(r, gone)
<1> DEFINE E == {ForgottenClassifier(e, gone) : e \in {x \in d.elements : x.id \notin gone}}
           P == {p \in d.positions : p.elementId \notin gone}
           R == {Loosened(r, gone) : r \in {x \in d.relationships : Ends(x) \cap gone = {}}}
<1>1. n.elements = E /\ n.positions = P /\ n.relationships = R
  BY Removed
<1>2. \A y : y \in E <=> \E e \in d.elements : e.id \notin gone /\ y = ForgottenClassifier(e, gone)
  OBVIOUS
<1>3. \A p : p \in P <=> p \in d.positions /\ p.elementId \notin gone
  OBVIOUS
<1>4. \A q : q \in R <=> \E r \in d.relationships : Ends(r) \cap gone = {} /\ q = Loosened(r, gone)
  OBVIOUS
<1> HIDE DEF E, P, R
<1> QED
  BY <1>1, <1>2, <1>3, <1>4

\* What stays within the classifiers of a document differs from it there only.
LEMMA WithinAgrees ==
  ASSUME NEW d, NEW n, NEW S, Bound(d), S = ElementIds(d),
         \A e \in n.elements : e.id \in S, \A r \in n.relationships : Ends(r) \subseteq S
  PROVE  Differing(d, n) \subseteq S
<1>1. \A e \in d.elements : e.id \in S
  BY DEF ElementIds
<1>2. \A r \in d.relationships : Ends(r) \subseteq S
  BY DEF Bound
<1> QED
  BY <1>1, <1>2, AgreesBut

\* What it leaves is within the classifiers there were.
LEMMA RemovedAgrees ==
  ASSUME NEW d, NEW X, NEW n, NEW S, DiagramShape(d), Bound(d), n = RemoveClassifiers(d, X),
         S = ElementIds(d)
  PROVE  (\A e \in n.elements : e.id \in S) /\ (\A r \in n.relationships : Ends(r) \subseteq S)
<1>1. PICK gone : gone = Deleted(d, X)
  OBVIOUS
<1>2. n.elements = {ForgottenClassifier(e, gone) : e \in {x \in d.elements : x.id \notin gone}}
      /\ n.relationships = {Loosened(r, gone) : r \in {x \in d.relationships : Ends(x) \cap gone = {}}}
  BY <1>1, Removed
<1>3. ASSUME NEW e \in n.elements
      PROVE  e.id \in S
  <2>1. PICK x \in d.elements : e = ForgottenClassifier(x, gone)
    BY <1>2, <1>3
  <2> QED
    BY <2>1, ClassifierForgotten, Shapes DEF ElementIds
<1>4. ASSUME NEW r \in n.relationships
      PROVE  Ends(r) \subseteq S
  <2>1. PICK x \in d.relationships : r = Loosened(x, gone)
    BY <1>2, <1>4
  <2>2. r.source = x.source /\ r.target = x.target
    BY <2>1, RelationshipLoosened, Shapes
  <2> QED
    BY <2>2 DEF Ends, Bound
<1> QED
  BY <1>3, <1>4

\* To delete a classifier changes classifiers of the document only.
LEMMA DeletedClassifier ==
  ASSUME NEW d, NEW id, NEW n, DiagramShape(d), Bound(d), n = DeleteClassifier(d, id), n # Refused
  PROVE  DiagramShape(n) /\ Differing(d, n) \subseteq ElementIds(d)
<1>1. n = RemoveClassifiers(d, {id})
  BY DEF DeleteClassifier
<1>2. PICK X : X = {id}
  OBVIOUS
<1>3. PICK gone : gone = Deleted(d, X)
  OBVIOUS
<1>4. DiagramShape(n)
  BY <1>1, <1>2, <1>3, Removed
<1>5. PICK S : S = ElementIds(d)
  OBVIOUS
<1>6. (\A e \in n.elements : e.id \in S) /\ (\A r \in n.relationships : Ends(r) \subseteq S)
  BY <1>1, <1>2, <1>5, RemovedAgrees
<1> QED
  BY <1>4, <1>5, <1>6, WithinAgrees

\* The document without a relationship.
Cut(d, id) == [d EXCEPT !.relationships = @ \ {Relationship(d, id)}]

\* It is a document of the right shape.
LEMMA CutShape ==
  ASSUME NEW d, NEW id, NEW n, DiagramShape(d), n = Cut(d, id)
  PROVE  /\ n.elements = d.elements /\ n.positions = d.positions
         /\ n.relationships = d.relationships \ {Relationship(d, id)}
         /\ DiagramShape(n)
<1> DEFINE R == d.relationships \ {Relationship(d, id)}
<1>1. n = [d EXCEPT !.relationships = R]
  BY DEF Cut
<1>2. \A r \in R : RelationshipShape(r)
  BY Shapes
<1> HIDE DEF R
<1>3. n.elements = d.elements /\ n.positions = d.positions /\ n.relationships = R
  BY <1>1, WithRelationships
<1>4. DiagramShape(n)
  BY <1>1, <1>2, WithRelationshipsShape
<1> QED
  BY <1>3, <1>4 DEF R

\* To delete a relationship changes its ends, or any classifier if it has a class.
LEMMA DeletedRelationship ==
  ASSUME NEW d, NEW id, NEW n, DiagramShape(d), Bound(d), n = DeleteRelationship(d, id), n # Refused
  PROVE  /\ HasRelationship(d, id) /\ DiagramShape(n)
         /\ Differing(d, n) \subseteq ElementIds(d)
         /\ Relationship(d, id).associationClassId = None
              => Differing(d, n) \subseteq Ends(Relationship(d, id))
<1>1. PICK r : r = Relationship(d, id)
  OBVIOUS
<1>2. PICK cut : cut = Cut(d, id)
  OBVIOUS
<1>3. PICK S : S = ElementIds(d)
  OBVIOUS
<1>4. HasRelationship(d, id)
  BY DEF DeleteRelationship
<1>5. r \in d.relationships
  BY <1>1, <1>4, RelationshipNamed
<1>6. cut.elements = d.elements /\ cut.relationships = d.relationships \ {r} /\ DiagramShape(cut)
  BY <1>1, <1>2, CutShape
<1>7. Bound(cut) /\ S = ElementIds(cut)
  BY <1>3, <1>6 DEF Bound, ElementIds
<1>8. CASE r.associationClassId = None
  <2>1. n = cut
    BY <1>1, <1>2, <1>4, <1>8 DEF DeleteRelationship, Cut
  <2>2. PICK T : T = Ends(r)
    OBVIOUS
  <2>3. T \subseteq S
    BY <1>3, <1>5, <2>2 DEF Bound
  <2>4. Differing(d, n) \subseteq T
    BY <1>6, <2>1, <2>2, AgreesBut
  <2> QED
    BY <1>1, <1>3, <1>4, <1>6, <2>1, <2>2, <2>3, <2>4
<1>9. CASE r.associationClassId # None
  <2>1. PICK X : X = {r.associationClassId}
    OBVIOUS
  <2>2. n = RemoveClassifiers(cut, X)
    BY <1>1, <1>2, <1>4, <1>9, <2>1 DEF DeleteRelationship, Cut
  <2>3. PICK gone : gone = Deleted(cut, X)
    OBVIOUS
  <2>4. DiagramShape(n)
    BY <1>6, <2>2, <2>3, Removed
  <2>5. (\A e \in n.elements : e.id \in S) /\ (\A q \in n.relationships : Ends(q) \subseteq S)
    BY <1>6, <1>7, <2>2, RemovedAgrees
  <2>6. Differing(d, n) \subseteq S
    BY <1>3, <2>5, WithinAgrees
  <2> QED
    BY <1>1, <1>3, <1>4, <1>9, <2>4, <2>6
<1> QED
  BY <1>8, <1>9

\* To create a relationship changes its ends.
LEMMA Linked ==
  ASSUME NEW d, NEW r, NEW n, DiagramShape(d), RelationshipShape(r),
         n = CreateRelationship(d, r), n # Refused
  PROVE  DiagramShape(n) /\ Differing(d, n) \subseteq Ends(r)
<1> DEFINE R == d.relationships \cup {r}
<1>1. n = [d EXCEPT !.relationships = R]
  BY DEF CreateRelationship
<1>2. \A x \in R : RelationshipShape(x)
  BY Shapes
<1>3. \A x : x \in R <=> x \in d.relationships \/ x = r
  OBVIOUS
<1> HIDE DEF R
<1>4. n.elements = d.elements /\ n.relationships = R
  BY <1>1, WithRelationships
<1>5. DiagramShape(n)
  BY <1>1, <1>2, WithRelationshipsShape
<1>6. PICK S : S = Ends(r)
  OBVIOUS
<1>7. Differing(d, n) \subseteq S
  BY <1>3, <1>4, <1>6, AgreesBut
<1> QED
  BY <1>5, <1>6, <1>7

\* To update a relationship changes its ends, the old and the new.
LEMMA Relinked ==
  ASSUME NEW d, NEW id, NEW r, NEW n, DiagramShape(d), RelationshipShape(r),
         n = UpdateRelationship(d, id, r), n # Refused
  PROVE  /\ HasRelationship(d, id) /\ r.id = id /\ DiagramShape(n)
         /\ n.elements = d.elements /\ n.positions = d.positions
         /\ n.relationships = Replacing(d.relationships, Relationship(d, id), r)
         /\ Differing(d, n) \subseteq Ends(r) \cup Ends(Relationship(d, id))
<1> DEFINE R == Replacing(d.relationships, Relationship(d, id), r)
<1>1. HasRelationship(d, id) /\ r.id = id /\ n = [d EXCEPT !.relationships = R]
  BY DEF UpdateRelationship
<1>2. \A x \in R : RelationshipShape(x)
  BY Shapes DEF Replacing
<1>3. \A x : x \in R <=> (x \in d.relationships /\ x # Relationship(d, id)) \/ x = r
  BY DEF Replacing
<1> HIDE DEF R
<1>4. n.elements = d.elements /\ n.positions = d.positions /\ n.relationships = R
  BY <1>1, WithRelationships
<1>5. DiagramShape(n)
  BY <1>1, <1>2, WithRelationshipsShape
<1>6. PICK S : S = Ends(r) \cup Ends(Relationship(d, id))
  OBVIOUS
<1>7. Differing(d, n) \subseteq S
  BY <1>3, <1>4, <1>6, AgreesBut
<1> QED
  BY <1>1, <1>4, <1>5, <1>6, <1>7 DEF R

\* An association class changes the ends of the association and the new class.
LEMMA Promoted ==
  ASSUME NEW d, NEW id, NEW e, NEW p, NEW n, DiagramShape(d), ClassifierShape(e), PositionShape(p),
         n = CreateAssociationClass(d, id, e, p), n # Refused
  PROVE  /\ HasRelationship(d, id) /\ DiagramShape(n)
         /\ Differing(d, n) \subseteq Ends(Relationship(d, id)) \cup {e.id}
<1>1. PICK r : r = Relationship(d, id)
  OBVIOUS
<1>2. PICK q : q = [r EXCEPT !.associationClassId = e.id]
  OBVIOUS
<1>3. PICK made : made = CreateClassifier(d, e, p)
  OBVIOUS
<1>4. HasRelationship(d, id) /\ made # Refused /\ n = UpdateRelationship(made, id, q)
  BY <1>1, <1>2, <1>3 DEF CreateAssociationClass
<1>5. r \in d.relationships
  BY <1>1, <1>4, RelationshipNamed
<1>6. RelationshipShape(q) /\ q.source = r.source /\ q.target = r.target
  <2>1. RelationshipShape(r)
    BY <1>5, Shapes
  <2> QED
    BY <1>2, <2>1, WithClass
<1>7. DiagramShape(made)
  BY <1>3, <1>4, CreatedShape
<1>8. made.elements = d.elements \cup {e} /\ made.relationships = d.relationships
  BY <1>3, <1>4, Created
<1>9. Relationship(made, id) = r
  BY <1>1, <1>8 DEF Relationship
<1>10. DiagramShape(n) /\ n.elements = made.elements
       /\ n.relationships = Replacing(d.relationships, r, q)
  BY <1>4, <1>6, <1>7, <1>8, <1>9, Relinked
<1>11. PICK S : S = Ends(r) \cup {e.id}
  OBVIOUS
<1>12. Ends(q) \subseteq S
  BY <1>6, <1>11 DEF Ends
<1>13. Differing(d, n) \subseteq S
  <2>1. \A x \in d.relationships : Ends(x) \subseteq S \/ x \in n.relationships
    BY <1>10, <1>11 DEF Replacing
  <2>2. \A x \in n.relationships : Ends(x) \subseteq S \/ x \in d.relationships
    BY <1>10, <1>12 DEF Replacing
  <2>3. \A x \in d.elements : x.id \in S \/ x \in n.elements
    BY <1>8, <1>10
  <2>4. \A x \in n.elements : x.id \in S \/ x \in d.elements
    BY <1>8, <1>10, <1>11
  <2> QED
    BY <2>1, <2>2, <2>3, <2>4, AgreesBut
<1> QED
  BY <1>1, <1>4, <1>10, <1>11, <1>13

-----------------------------------------------------------------------------
(* The lock check *)

\* What the lock check looks at, by command.
LEMMA Affections ==
  ASSUME NEW d, NEW c
  PROVE  /\ c.type \in {"classifier.create", "classifier.duplicate"} =>
              Affected(d, c) = {c.classifier.id}
         /\ c.type = "classifier.update" /\ Has(d, c.elementId) =>
              Affected(d, c) = {c.elementId} \cup
                (IF Classifier(d, c.elementId).name # c.classifier.name
                   THEN Referring(d, c.elementId) ELSE {})
         /\ c.type \in {"classifier.delete", "diagram.clear"} => Affected(d, c) = ElementIds(d)
         /\ c.type = "relationship.create" => Affected(d, c) = RelationshipElements(c.relationship)
         /\ c.type \in {"classifier.move", "attribute.add", "attribute.update", "attribute.delete",
                        "operation.add", "operation.update", "operation.delete"} =>
              Affected(d, c) = {c.elementId}
BY ZenonT(60) DEF Affected

\* The same of the commands on a relationship the document has.
LEMMA RelationshipAffections ==
  ASSUME NEW d, NEW c, HasRelationship(d, c.relationshipId)
  PROVE  /\ c.type = "relationship.update" =>
              Affected(d, c) = RelationshipElements(Relationship(d, c.relationshipId))
                                 \cup RelationshipElements(c.relationship)
         /\ c.type = "relationship.delete" =>
              Affected(d, c) = IF Relationship(d, c.relationshipId).associationClassId = None
                                 THEN Ends(Relationship(d, c.relationshipId)) ELSE ElementIds(d)
         /\ c.type = "association-class.create" =>
              Affected(d, c) = Ends(Relationship(d, c.relationshipId)) \cup {c.classifier.id}
BY ZenonT(60) DEF Affected

\* A classifier with another name.
LEMMA WithName ==
  ASSUME NEW e, NEW m, NEW g, ClassifierShape(e), g = [e EXCEPT !.name = m]
  PROVE  /\ ClassifierShape(g)
         /\ g.id = e.id /\ g.kind = e.kind /\ g.name = m
         /\ g.attributes = e.attributes /\ g.operations = e.operations
<1>1. e = [id |-> e.id, kind |-> e.kind, name |-> e.name,
           attributes |-> e.attributes, operations |-> e.operations]
      /\ e.kind \in {"class", "interface"} /\ (\A a \in e.attributes : AttributeShape(a))
      /\ (\A o \in e.operations : OperationShape(o))
  BY Zenon DEF ClassifierShape
<1>2. g = [id |-> e.id, kind |-> e.kind, name |-> m,
           attributes |-> e.attributes, operations |-> e.operations]
  BY <1>1
<1>3. g.id = e.id /\ g.kind = e.kind /\ g.name = m
      /\ g.attributes = e.attributes /\ g.operations = e.operations
  BY <1>2
<1> QED
  BY <1>1, <1>2, <1>3 DEF ClassifierShape

\* To clear the diagram changes classifiers of the document only.
LEMMA EmptyAgrees ==
  ASSUME NEW d, NEW n, Bound(d), n = EmptyDiagram
  PROVE  DiagramShape(n) /\ Differing(d, n) \subseteq ElementIds(d)
<1>1. n.elements = {} /\ n.relationships = {}
  BY DEF EmptyDiagram
<1>2. DiagramShape(n)
  BY Shaped DEF EmptyDiagram
<1>3. PICK S : S = ElementIds(d)
  OBVIOUS
<1>4. Differing(d, n) \subseteq S
  BY <1>1, <1>3, WithinAgrees
<1> QED
  BY <1>2, <1>3, <1>4

\* The five kinds of deletion.
LEMMA DeletionsAre ==
  ASSUME NEW d, NEW c, c \in Deletions(d)
  PROVE  \/ \E id \in ElementIds(d) : c.type = "classifier.delete" /\ c.elementId = id
         \/ \E r \in d.relationships : c.type = "relationship.delete" /\ c.relationshipId = r.id
         \/ \E e \in d.elements : \E m \in e.attributes :
              c.type = "attribute.delete" /\ c.elementId = e.id /\ c.memberId = m.id
         \/ \E e \in d.elements : \E m \in e.operations :
              c.type = "operation.delete" /\ c.elementId = e.id /\ c.memberId = m.id
         \/ c.type = "diagram.clear"
<1>1. CASE \E id \in ElementIds(d) : c = [type |-> "classifier.delete", elementId |-> id]
  BY <1>1
<1>2. CASE \E r \in d.relationships : c = [type |-> "relationship.delete", relationshipId |-> r.id]
  BY <1>2
<1>3. CASE \E e \in d.elements : \E m \in e.attributes :
             c = [type |-> "attribute.delete", elementId |-> e.id, memberId |-> m.id]
  BY <1>3
<1>4. CASE \E e \in d.elements : \E m \in e.operations :
             c = [type |-> "operation.delete", elementId |-> e.id, memberId |-> m.id]
  BY <1>4
<1>5. CASE c = [type |-> "diagram.clear"]
  BY <1>5
<1>6. CASE c \in UNION {{[type |-> "attribute.delete", elementId |-> e.id, memberId |-> m.id] :
                          m \in e.attributes} : e \in d.elements}
  BY <1>3, <1>6
<1>7. CASE c \in UNION {{[type |-> "operation.delete", elementId |-> e.id, memberId |-> m.id] :
                          m \in e.operations} : e \in d.elements}
  BY <1>4, <1>7
<1>8. CASE c \in {[type |-> "classifier.delete", elementId |-> id] : id \in ElementIds(d)}
  BY <1>1, <1>8
<1>9. CASE c \in {[type |-> "relationship.delete", relationshipId |-> r.id] : r \in d.relationships}
  BY <1>2, <1>9
<1>10. CASE c \in {[type |-> "diagram.clear"]}
  BY <1>5, <1>10
<1> QED
  BY <1>6, <1>7, <1>8, <1>9, <1>10 DEF Deletions

\* A deletion leaves a document of the right shape and changes what is affected.
LEMMA DeletionCovered ==
  ASSUME NEW d, NEW c, NEW n, DiagramShape(d), Bound(d), c \in Deletions(d),
         n = Mutated(d, c), n # Refused
  PROVE  DiagramShape(n) /\ Differing(d, n) \subseteq Affected(d, c)
<1>1. CASE c.type = "classifier.delete"
  <2>1. n = DeleteClassifier(d, c.elementId)
    BY <1>1, Mutations
  <2>2. Affected(d, c) = ElementIds(d)
    BY <1>1, Affections
  <2> QED
    BY <2>1, <2>2, DeletedClassifier
<1>2. CASE c.type = "relationship.delete"
  <2>1. n = DeleteRelationship(d, c.relationshipId)
    BY <1>2, Mutations
  <2>2. PICK r : r = Relationship(d, c.relationshipId)
    OBVIOUS
  <2>3. /\ HasRelationship(d, c.relationshipId) /\ DiagramShape(n)
        /\ Differing(d, n) \subseteq ElementIds(d)
        /\ r.associationClassId = None => Differing(d, n) \subseteq Ends(r)
    BY <2>1, <2>2, DeletedRelationship
  <2>4. Affected(d, c) = IF r.associationClassId = None THEN Ends(r) ELSE ElementIds(d)
    BY <1>2, <2>2, <2>3, RelationshipAffections
  <2> QED
    BY <2>3, <2>4
<1>3. CASE c.type = "attribute.delete"
  <2>1. n = DeleteAttribute(d, c.elementId, c.memberId)
    BY <1>3, Mutations
  <2>2. Affected(d, c) = {c.elementId}
    BY <1>3, Affections
  <2>3. Revised(d, c.elementId, n)
    BY <2>1, AttributesRevised
  <2> QED
    BY <2>2, <2>3, RevisedAgrees
<1>4. CASE c.type = "operation.delete"
  <2>1. n = DeleteOperation(d, c.elementId, c.memberId)
    BY <1>4, Mutations
  <2>2. Affected(d, c) = {c.elementId}
    BY <1>4, Affections
  <2>3. Revised(d, c.elementId, n)
    BY <2>1, OperationsRevised
  <2> QED
    BY <2>2, <2>3, RevisedAgrees
<1>5. CASE c.type = "diagram.clear"
  <2>1. n = EmptyDiagram
    BY <1>5, Mutations
  <2>2. Affected(d, c) = ElementIds(d)
    BY <1>5, Affections
  <2> QED
    BY <2>1, <2>2, EmptyAgrees
<1> QED
  BY <1>1, <1>2, <1>3, <1>4, <1>5, DeletionsAre

\* A command that is not refused leaves a document of the right shape, and the
\* classifiers it changes are those the lock check looks at.
LEMMA CommandCovered ==
  ASSUME NEW d, NEW c, NEW n, DiagramShape(d), Bound(d), c \in Commands(d),
         n = Mutated(d, c), n # Refused
  PROVE  DiagramShape(n) /\ Differing(d, n) \subseteq Affected(d, c)
<1>1. CASE c \in Creations
  <2>1. PICK e \in NewClassifiers :
          c = [type |-> "classifier.create", classifier |-> e, position |-> At(e.id, 0)]
    BY <1>1 DEF Creations
  <2>2. c.type = "classifier.create" /\ c.classifier = e /\ c.position = At(e.id, 0)
    BY <2>1
  <2>3. n = CreateClassifier(d, e, At(e.id, 0))
    BY <2>2, Mutations
  <2>4. ClassifierShape(e) /\ PositionShape(At(e.id, 0))
    BY ShapeAssumption DEF At, PositionShape
  <2>5. Affected(d, c) = {e.id}
    BY <2>2, Affections
  <2> QED
    BY <2>3, <2>4, <2>5, CreatedShape, CreatedAgrees
<1>2. CASE c \in Duplications(d)
  <2>1. PICK id \in ElementIds(d), e \in NewClassifiers :
          c = [type |-> "classifier.duplicate", elementId |-> id, classifier |-> e,
               position |-> At(e.id, 0)]
    BY <1>2 DEF Duplications
  <2>2. c.type = "classifier.duplicate" /\ c.elementId = id /\ c.classifier = e
        /\ c.position = At(e.id, 0)
    BY <2>1
  <2>3. n = CreateClassifier(d, e, At(e.id, 0))
    BY <2>2, Mutations DEF DuplicateClassifier
  <2>4. ClassifierShape(e) /\ PositionShape(At(e.id, 0))
    BY ShapeAssumption DEF At, PositionShape
  <2>5. Affected(d, c) = {e.id}
    BY <2>2, Affections
  <2> QED
    BY <2>3, <2>4, <2>5, CreatedShape, CreatedAgrees
<1>3. CASE c \in Renames(d) \cup Revisions(d)
  <2>1. PICK id, e : c = [type |-> "classifier.update", elementId |-> id, classifier |-> e]
                     /\ ClassifierShape(e)
    <3>1. CASE c \in Renames(d)
      <4>1. PICK x \in d.elements, m \in NewNames :
              c = [type |-> "classifier.update", elementId |-> x.id,
                   classifier |-> [x EXCEPT !.name = m]]
        BY <3>1 DEF Renames
      <4>2. PICK e : e = [x EXCEPT !.name = m]
        OBVIOUS
      <4>3. ClassifierShape(x)
        BY Shapes
      <4>4. ClassifierShape(e)
        BY <4>2, <4>3, WithName
      <4> QED
        BY <4>1, <4>2, <4>4
    <3>2. CASE c \in Revisions(d)
      BY <3>2, ShapeAssumption DEF Revisions
    <3> QED
      BY <1>3, <3>1, <3>2
  <2>2. c.type = "classifier.update" /\ c.elementId = id /\ c.classifier = e
    BY <2>1
  <2>3. n = UpdateClassifier(d, id, e)
    BY <2>2, Mutations
  <2>4. DiagramShape(n) /\ Has(d, id)
    BY <2>1, <2>3, UpdatedShape, UpdatedAgrees
  <2>5. Affected(d, c) = {id} \cup (IF Classifier(d, id).name # e.name
                                      THEN Referring(d, id) ELSE {})
    BY <2>2, <2>4, Affections
  <2>6. CASE Classifier(d, id).name = e.name
    BY <2>1, <2>3, <2>4, <2>5, <2>6, UpdatedAgrees
  <2>7. CASE Classifier(d, id).name # e.name
    BY <2>1, <2>3, <2>4, <2>5, <2>7, UpdatedAgrees
  <2> QED
    BY <2>6, <2>7
<1>4. CASE c \in Moves(d)
  <2>1. PICK id \in ElementIds(d), x \in {0, 1} :
          c = [type |-> "classifier.move", elementId |-> id, x |-> x]
    BY <1>4 DEF Moves
  <2>2. c.type = "classifier.move" /\ c.elementId = id /\ c.x = x
    BY <2>1
  <2>3. n = MoveClassifier(d, id, x)
    BY <2>2, Mutations
  <2> QED
    BY <2>3, MovedAgrees
<1>5. CASE c \in Deletions(d)
  BY <1>5, DeletionCovered
<1>6. CASE c \in Additions("attribute.add", d, NewAttributes)
                \cup Changes("attribute.update", d, NewAttributes)
  <2>1. CASE c \in Additions("attribute.add", d, NewAttributes)
    <3>1. PICK id \in ElementIds(d), a \in NewAttributes :
            c = [type |-> "attribute.add", elementId |-> id, member |-> a]
      BY <2>1 DEF Additions
    <3>2. c.type = "attribute.add" /\ c.elementId = id /\ c.member = a
      BY <3>1
    <3>3. n = AddAttribute(d, id, a) /\ Affected(d, c) = {id}
      BY <3>2, Mutations, Affections
    <3> QED
      BY <3>1, <3>3, ShapeAssumption, AttributesRevised, RevisedAgrees
  <2>2. CASE c \in Changes("attribute.update", d, NewAttributes)
    <3>1. PICK id \in ElementIds(d), a \in NewAttributes :
            c = [type |-> "attribute.update", elementId |-> id, memberId |-> a.id, member |-> a]
      BY <2>2 DEF Changes
    <3>2. c.type = "attribute.update" /\ c.elementId = id /\ c.memberId = a.id /\ c.member = a
      BY <3>1
    <3>3. n = UpdateAttribute(d, id, a.id, a) /\ Affected(d, c) = {id}
      BY <3>2, Mutations, Affections
    <3> QED
      BY <3>1, <3>3, ShapeAssumption, AttributesRevised, RevisedAgrees
  <2> QED
    BY <1>6, <2>1, <2>2
<1>7. CASE c \in Additions("operation.add", d, NewOperations)
                \cup Changes("operation.update", d, NewOperations)
  <2>1. CASE c \in Additions("operation.add", d, NewOperations)
    <3>1. PICK id \in ElementIds(d), o \in NewOperations :
            c = [type |-> "operation.add", elementId |-> id, member |-> o]
      BY <2>1 DEF Additions
    <3>2. c.type = "operation.add" /\ c.elementId = id /\ c.member = o
      BY <3>1
    <3>3. n = AddOperation(d, id, o) /\ Affected(d, c) = {id}
      BY <3>2, Mutations, Affections
    <3> QED
      BY <3>1, <3>3, ShapeAssumption, OperationsRevised, RevisedAgrees
  <2>2. CASE c \in Changes("operation.update", d, NewOperations)
    <3>1. PICK id \in ElementIds(d), o \in NewOperations :
            c = [type |-> "operation.update", elementId |-> id, memberId |-> o.id, member |-> o]
      BY <2>2 DEF Changes
    <3>2. c.type = "operation.update" /\ c.elementId = id /\ c.memberId = o.id /\ c.member = o
      BY <3>1
    <3>3. n = UpdateOperation(d, id, o.id, o) /\ Affected(d, c) = {id}
      BY <3>2, Mutations, Affections
    <3> QED
      BY <3>1, <3>3, ShapeAssumption, OperationsRevised, RevisedAgrees
  <2> QED
    BY <1>7, <2>1, <2>2
<1>8. CASE c \in Links
  <2>1. PICK r \in NewRelationships : c = [type |-> "relationship.create", relationship |-> r]
    BY <1>8 DEF Links
  <2>2. c.type = "relationship.create" /\ c.relationship = r
    BY <2>1
  <2>3. n = CreateRelationship(d, r)
    BY <2>2, Mutations
  <2>4. Ends(r) \subseteq Affected(d, c)
    BY <2>2, Affections DEF RelationshipElements
  <2> QED
    BY <2>3, <2>4, ShapeAssumption, Linked
<1>9. CASE c \in Relinks(d)
  <2>1. PICK r \in NewRelationships :
          c = [type |-> "relationship.update", relationshipId |-> r.id, relationship |-> r]
    BY <1>9 DEF Relinks
  <2>2. c.type = "relationship.update" /\ c.relationshipId = r.id /\ c.relationship = r
    BY <2>1
  <2>3. n = UpdateRelationship(d, r.id, r)
    BY <2>2, Mutations
  <2>4. RelationshipShape(r)
    BY ShapeAssumption
  <2>5. HasRelationship(d, r.id) /\ DiagramShape(n)
        /\ Differing(d, n) \subseteq Ends(r) \cup Ends(Relationship(d, r.id))
    BY <2>3, <2>4, Relinked
  <2>6. Affected(d, c) = RelationshipElements(Relationship(d, r.id)) \cup RelationshipElements(r)
    BY <2>2, <2>5, RelationshipAffections
  <2> QED
    BY <2>5, <2>6 DEF RelationshipElements
<1>10. CASE c \in Promotions(d)
  <2>1. PICK r \in d.relationships, e \in NewClassifiers :
          c = [type |-> "association-class.create", relationshipId |-> r.id, classifier |-> e,
               position |-> At(e.id, 0)]
    BY <1>10 DEF Promotions
  <2>2. c.type = "association-class.create" /\ c.relationshipId = r.id /\ c.classifier = e
        /\ c.position = At(e.id, 0)
    BY <2>1
  <2>3. n = CreateAssociationClass(d, r.id, e, At(e.id, 0))
    BY <2>2, Mutations
  <2>4. ClassifierShape(e) /\ PositionShape(At(e.id, 0))
    BY ShapeAssumption DEF At, PositionShape
  <2>5. HasRelationship(d, r.id) /\ DiagramShape(n)
        /\ Differing(d, n) \subseteq Ends(Relationship(d, r.id)) \cup {e.id}
    BY <2>3, <2>4, Promoted
  <2>6. Affected(d, c) = Ends(Relationship(d, r.id)) \cup {e.id}
    BY <2>2, <2>5, RelationshipAffections
  <2> QED
    BY <2>5, <2>6
<1> QED
  BY <1>1, <1>2, <1>3, <1>4, <1>5, <1>6, <1>7, <1>8, <1>9, <1>10 DEF Commands

-----------------------------------------------------------------------------
(* The documents a project reaches *)

DocumentInv == DiagramShape(document) /\ Valid(document)

\* The document of a new project is valid.
LEMMA EmptyValid ==
  DiagramShape(EmptyDiagram) /\ Valid(EmptyDiagram)
<1>1. PICK n : n = EmptyDiagram
  OBVIOUS
<1>2. n.elements = {} /\ n.positions = {} /\ n.relationships = {}
  BY <1>1 DEF EmptyDiagram
<1>3. DiagramShape(n)
  BY <1>1, Shaped DEF EmptyDiagram
<1>4. UniqueIds(n)
  <2>1. Registered(n) = {}
    BY <1>2 DEF Registered
  <2> QED
    BY <2>1 DEF UniqueIds
<1>5. NamesSound(n) /\ TypesResolve(n) /\ PositionsMatch(n)
  BY <1>2 DEF NamesSound, TypesResolve, PositionsMatch, NamesDistinct, NotBlank, ElementIds
<1>6. RelationshipsSound(n)
  <2>1. ElementIds(n) = {}
    BY <1>2 DEF ElementIds
  <2>2. Acyclic(n, "generalization") /\ Acyclic(n, "composition")
    BY <2>1 DEF Acyclic
  <2> QED
    BY <1>2, <2>2 DEF RelationshipsSound
<1> QED
  BY <1>1, <1>3, <1>4, <1>5, <1>6 DEF Valid

\* A command that has an outcome is one of those the executor made.
LEMMA ExecutedIs ==
  ASSUME NEW d, NEW c, NEW n, n = Executed(d, c), n # Refused
  PROVE  n = Mutated(d, c) /\ n # d
BY DEF Executed

\* What is accepted has passed the validation.
LEMMA AcceptedValid ==
  ASSUME NEW d, NEW c, NEW n, n = Executed(d, c), Outcome(d, c, {}) = "accepted"
  PROVE  Valid(n)
BY ZenonT(60) DEF Outcome

\* An accepted command keeps the document valid.
LEMMA SubmitStep ==
  ASSUME DocumentInv, NEW c \in Commands(document), Submit(c)
  PROVE  DocumentInv'
<1>1. PICK n : n = Executed(document, c)
  OBVIOUS
<1>2. n # Refused /\ Outcome(document, c, {}) = "accepted" /\ document' = n
  BY <1>1 DEF Submit
<1>3. Valid(n)
  BY <1>1, <1>2, AcceptedValid
<1>4. n = Mutated(document, c)
  BY <1>1, <1>2, ExecutedIs
<1>5. Bound(document)
  BY ValidBound DEF DocumentInv
<1>6. DiagramShape(n)
  BY <1>2, <1>4, <1>5, CommandCovered DEF DocumentInv
<1> QED
  BY <1>2, <1>3, <1>6 DEF DocumentInv

\* Every document that commands reach has the shape of a document and is valid: no
\* command makes anything else of it, and what it makes is checked before it is stored.
THEOREM DocumentsStayValid ==
  Spec => []DocumentInv
<1>1. Init => DocumentInv
  BY EmptyValid DEF Init, DocumentInv
<1>2. DocumentInv /\ [Next]_document => DocumentInv'
  <2> SUFFICES ASSUME DocumentInv, [Next]_document
               PROVE  DocumentInv'
    OBVIOUS
  <2>1. CASE Next
    <3>1. \E c \in Commands(document) : Submit(c)
      BY <2>1 DEF Next, Commands
    <3> QED
      BY <3>1, SubmitStep
  <2>2. CASE document' = document
    BY <2>2 DEF DocumentInv
  <2> QED
    BY <2>1, <2>2
<1> QED
  BY <1>1, <1>2, PTL DEF Spec

\* The elements the command service looks for locks on include all that the command
\* changes, whatever the document and the command: the lock check has no gap.
THEOREM LockCheckIsComplete ==
  Spec => []LockCheckCoversChanges
<1>1. DocumentInv => LockCheckCoversChanges
  <2> SUFFICES ASSUME DocumentInv, NEW c \in Commands(document),
                      NEW n, n = Executed(document, c), n # Refused
               PROVE  Differing(document, n) \subseteq Affected(document, c)
    BY DEF LockCheckCoversChanges
  <2>1. n = Mutated(document, c)
    BY ExecutedIs
  <2>2. Bound(document)
    BY ValidBound DEF DocumentInv
  <2> QED
    BY <2>1, <2>2, CommandCovered DEF DocumentInv
<1> QED
  BY <1>1, DocumentsStayValid, PTL

-----------------------------------------------------------------------------
(* Documents that say no more than a valid one *)

\* Members of B are members of A in another form, at most one for each.
KeepsMembers(A, B) ==
  /\ \A b \in B : \E a \in A : a.id = b.id /\ a.name = b.name
  /\ \A b, c \in B : b.id = c.id => b = c

KeepsClassifier(x, y) ==
  /\ y.id = x.id /\ y.kind = x.kind
  /\ KeepsMembers(x.attributes, y.attributes) /\ KeepsMembers(x.operations, y.operations)
  /\ \A q \in y.operations : \E o \in x.operations :
       o.id = q.id /\ KeepsMembers(o.parameters, q.parameters)

KeepsRelationship(r, q) ==
  /\ q.id = r.id /\ q.kind = r.kind /\ q.name = r.name
  /\ q.source = r.source /\ q.target = r.target
  /\ q.associationClassId # None => q.associationClassId = r.associationClassId

KeepsElements(d, n) ==
  /\ \A y \in n.elements : \E x \in d.elements : KeepsClassifier(x, y)
  /\ \A y, z \in n.elements : y.id = z.id => y = z
KeepsRelationships(d, n) ==
  /\ \A q \in n.relationships : \E r \in d.relationships : KeepsRelationship(r, q)
  /\ \A q, s \in n.relationships : q.id = s.id => q = s

\* What an identifier of a document is the identifier of.
LEMMA RegisteredAre ==
  ASSUME NEW d, NEW t
  PROVE  t \in Registered(d) <=>
           \/ \E e \in d.elements : t = <<"classifier", None, e>>
           \/ \E r \in d.relationships : t = <<"relationship", None, r>>
           \/ \E e \in d.elements : \E a \in e.attributes : t = <<"attribute", e.id, a>>
           \/ \E e \in d.elements : \E o \in e.operations : t = <<"operation", e.id, o>>
           \/ \E e \in d.elements : \E o \in e.operations : \E p \in o.parameters :
                t = <<"parameter", o.id, p>>
BY DEF Registered

\* The members of a classifier have identifiers of their own, and so have the
\* parameters of an operation.
LEMMA MembersOneEach ==
  ASSUME NEW d, UniqueIds(d)
  PROVE  /\ \A e, f \in d.elements : e.id = f.id => e = f
         /\ \A r, s \in d.relationships : r.id = s.id => r = s
         /\ \A e \in d.elements : \A f \in d.elements : \A a \in e.attributes : \A b \in f.attributes :
              a.id = b.id => e = f /\ a = b
         /\ \A e \in d.elements : \A f \in d.elements : \A o \in e.operations : \A q \in f.operations :
              o.id = q.id => e = f /\ o = q
         /\ \A e \in d.elements : \A f \in d.elements : \A o \in e.operations : \A q \in f.operations :
              \A p \in o.parameters : \A u \in q.parameters :
                p.id = u.id => e = f /\ o = q /\ p = u
<1>1. ASSUME NEW s, NEW t, s \in Registered(d), t \in Registered(d), s[3].id = t[3].id
      PROVE  s = t
  BY <1>1 DEF UniqueIds
<1>2. ASSUME NEW e \in d.elements, NEW f \in d.elements, e.id = f.id
      PROVE  e = f
  <2>1. PICK s, t : s = <<"classifier", None, e>> /\ t = <<"classifier", None, f>>
    OBVIOUS
  <2>2. s \in Registered(d) /\ t \in Registered(d)
    BY <2>1, RegisteredAre
  <2>3. s = t
    BY <1>1, <1>2, <2>1, <2>2
  <2> QED
    BY <2>1, <2>3
<1>3. ASSUME NEW e \in d.relationships, NEW f \in d.relationships, e.id = f.id
      PROVE  e = f
  <2>1. PICK s, t : s = <<"relationship", None, e>> /\ t = <<"relationship", None, f>>
    OBVIOUS
  <2>2. s \in Registered(d) /\ t \in Registered(d)
    BY <2>1, RegisteredAre
  <2>3. s = t
    BY <1>1, <1>3, <2>1, <2>2
  <2> QED
    BY <2>1, <2>3
<1>4. ASSUME NEW e \in d.elements, NEW f \in d.elements,
             NEW a \in e.attributes, NEW b \in f.attributes, a.id = b.id
      PROVE  e = f /\ a = b
  <2>1. PICK s, t : s = <<"attribute", e.id, a>> /\ t = <<"attribute", f.id, b>>
    OBVIOUS
  <2>2. s \in Registered(d) /\ t \in Registered(d)
    BY <2>1, RegisteredAre
  <2>3. s = t
    BY <1>1, <1>4, <2>1, <2>2
  <2>4. e.id = f.id /\ a = b
    BY <2>1, <2>3
  <2> QED
    BY <1>2, <2>4
<1>5. ASSUME NEW e \in d.elements, NEW f \in d.elements,
             NEW a \in e.operations, NEW b \in f.operations, a.id = b.id
      PROVE  e = f /\ a = b
  <2>1. PICK s, t : s = <<"operation", e.id, a>> /\ t = <<"operation", f.id, b>>
    OBVIOUS
  <2>2. s \in Registered(d) /\ t \in Registered(d)
    BY <2>1, RegisteredAre
  <2>3. s = t
    BY <1>1, <1>5, <2>1, <2>2
  <2>4. e.id = f.id /\ a = b
    BY <2>1, <2>3
  <2> QED
    BY <1>2, <2>4
<1>6. ASSUME NEW e \in d.elements, NEW f \in d.elements,
             NEW o \in e.operations, NEW q \in f.operations,
             NEW p \in o.parameters, NEW u \in q.parameters, p.id = u.id
      PROVE  e = f /\ o = q /\ p = u
  <2>1. PICK s, t : s = <<"parameter", o.id, p>> /\ t = <<"parameter", q.id, u>>
    OBVIOUS
  <2>2. s \in Registered(d) /\ t \in Registered(d)
    BY <2>1, RegisteredAre
  <2>3. s = t
    BY <1>1, <1>6, <2>1, <2>2
  <2>4. o.id = q.id /\ p = u
    BY <2>1, <2>3
  <2> QED
    BY <1>5, <2>4
<1> QED
  BY <1>2, <1>3, <1>4, <1>5, <1>6

\* Every identifier of n is one that d has, of a thing of the same kind and owner.
LEMMA KeptOrigin ==
  ASSUME NEW d, NEW n, KeepsElements(d, n), KeepsRelationships(d, n), NEW t, t \in Registered(n)
  PROVE  \E s \in Registered(d) : s[1] = t[1] /\ s[2] = t[2] /\ s[3].id = t[3].id
<1>1. CASE \E y \in n.elements : t = <<"classifier", None, y>>
  <2>1. PICK y \in n.elements : t = <<"classifier", None, y>>
    BY <1>1
  <2>2. PICK x \in d.elements : x.id = y.id
    BY DEF KeepsElements, KeepsClassifier
  <2>3. PICK s : s = <<"classifier", None, x>>
    OBVIOUS
  <2>4. s \in Registered(d)
    BY <2>3, RegisteredAre
  <2> QED
    BY <2>1, <2>2, <2>3, <2>4
<1>2. CASE \E q \in n.relationships : t = <<"relationship", None, q>>
  <2>1. PICK q \in n.relationships : t = <<"relationship", None, q>>
    BY <1>2
  <2>2. PICK r \in d.relationships : r.id = q.id
    BY DEF KeepsRelationships, KeepsRelationship
  <2>3. PICK s : s = <<"relationship", None, r>>
    OBVIOUS
  <2>4. s \in Registered(d)
    BY <2>3, RegisteredAre
  <2> QED
    BY <2>1, <2>2, <2>3, <2>4
<1>3. CASE \E y \in n.elements : \E b \in y.attributes : t = <<"attribute", y.id, b>>
  <2>1. PICK y \in n.elements : \E b \in y.attributes : t = <<"attribute", y.id, b>>
    BY <1>3
  <2>2. PICK b \in y.attributes : t = <<"attribute", y.id, b>>
    BY <2>1
  <2>3. PICK x \in d.elements : x.id = y.id /\ KeepsMembers(x.attributes, y.attributes)
    BY DEF KeepsElements, KeepsClassifier
  <2>4. PICK a \in x.attributes : a.id = b.id
    BY <2>3 DEF KeepsMembers
  <2>5. PICK s : s = <<"attribute", x.id, a>>
    OBVIOUS
  <2>6. s \in Registered(d)
    BY <2>5, RegisteredAre
  <2> QED
    BY <2>2, <2>3, <2>4, <2>5, <2>6
<1>4. CASE \E y \in n.elements : \E b \in y.operations : t = <<"operation", y.id, b>>
  <2>1. PICK y \in n.elements : \E b \in y.operations : t = <<"operation", y.id, b>>
    BY <1>4
  <2>2. PICK b \in y.operations : t = <<"operation", y.id, b>>
    BY <2>1
  <2>3. PICK x \in d.elements : x.id = y.id /\ KeepsMembers(x.operations, y.operations)
    BY DEF KeepsElements, KeepsClassifier
  <2>4. PICK a \in x.operations : a.id = b.id
    BY <2>3 DEF KeepsMembers
  <2>5. PICK s : s = <<"operation", x.id, a>>
    OBVIOUS
  <2>6. s \in Registered(d)
    BY <2>5, RegisteredAre
  <2> QED
    BY <2>2, <2>3, <2>4, <2>5, <2>6
<1>5. CASE \E y \in n.elements : \E q \in y.operations : \E u \in q.parameters :
             t = <<"parameter", q.id, u>>
  <2>1. PICK y \in n.elements : \E q \in y.operations : \E u \in q.parameters :
               t = <<"parameter", q.id, u>>
    BY <1>5
  <2>2. PICK q \in y.operations : \E u \in q.parameters : t = <<"parameter", q.id, u>>
    BY <2>1
  <2>3. PICK u \in q.parameters : t = <<"parameter", q.id, u>>
    BY <2>2
  <2>4. PICK x \in d.elements : \E o \in x.operations :
               o.id = q.id /\ KeepsMembers(o.parameters, q.parameters)
    BY DEF KeepsElements, KeepsClassifier
  <2>5. PICK o \in x.operations : o.id = q.id /\ KeepsMembers(o.parameters, q.parameters)
    BY <2>4
  <2>6. PICK p \in o.parameters : p.id = u.id
    BY <2>5 DEF KeepsMembers
  <2>7. PICK s : s = <<"parameter", o.id, p>>
    OBVIOUS
  <2>8. s \in Registered(d)
    BY <2>7, RegisteredAre
  <2> QED
    BY <2>3, <2>5, <2>6, <2>7, <2>8
<1> QED
  BY <1>1, <1>2, <1>3, <1>4, <1>5, RegisteredAre

\* A document that keeps no more than a valid one has one thing for each identifier.
LEMMA KeptIds ==
  ASSUME NEW d, NEW n, UniqueIds(d), KeepsElements(d, n), KeepsRelationships(d, n)
  PROVE  UniqueIds(n)
<1>1. ASSUME NEW t, t \in Registered(n)
      PROVE  t[3].id \notin RootIds
  BY <1>1, KeptOrigin DEF UniqueIds
<1>2. ASSUME NEW t, NEW u, t \in Registered(n), u \in Registered(n), t[3].id = u[3].id
      PROVE  t = u
  <2>1. t[1] = u[1] /\ t[2] = u[2]
    <3>1. PICK r \in Registered(d) : r[1] = t[1] /\ r[2] = t[2] /\ r[3].id = t[3].id
      BY <1>2, KeptOrigin
    <3>2. PICK s \in Registered(d) : s[1] = u[1] /\ s[2] = u[2] /\ s[3].id = u[3].id
      BY <1>2, KeptOrigin
    <3>3. r = s
      BY <1>2, <3>1, <3>2 DEF UniqueIds
    <3> QED
      BY <3>1, <3>2, <3>3
  <2>2. \A y, z \in n.elements : y.id = z.id => y = z
    BY DEF KeepsElements
  <2>3. CASE t[1] = "classifier"
    <3>0. u \in Registered(n) /\ u[1] = "classifier"
      BY <1>2, <2>1, <2>3
    <3>1. PICK y \in n.elements : t = <<"classifier", None, y>>
      BY <1>2, <2>3, RegisteredAre
    <3>2. PICK z \in n.elements : u = <<"classifier", None, z>>
      BY <3>0, RegisteredAre
    <3> QED
      BY <1>2, <2>2, <3>1, <3>2
  <2>4. CASE t[1] = "relationship"
    <3>0. u \in Registered(n) /\ u[1] = "relationship"
      BY <1>2, <2>1, <2>4
    <3>1. PICK y \in n.relationships : t = <<"relationship", None, y>>
      BY <1>2, <2>4, RegisteredAre
    <3>2. PICK z \in n.relationships : u = <<"relationship", None, z>>
      BY <3>0, RegisteredAre
    <3> QED
      BY <1>2, <3>1, <3>2 DEF KeepsRelationships
  <2>5. CASE t[1] = "attribute"
    <3>0. u \in Registered(n) /\ u[1] = "attribute"
      BY <1>2, <2>1, <2>5
    <3>1. PICK y \in n.elements : \E b \in y.attributes : t = <<"attribute", y.id, b>>
      BY <1>2, <2>5, RegisteredAre
    <3>2. PICK b \in y.attributes : t = <<"attribute", y.id, b>>
      BY <3>1
    <3>3. PICK z \in n.elements : \E c \in z.attributes : u = <<"attribute", z.id, c>>
      BY <3>0, RegisteredAre
    <3>4. PICK c \in z.attributes : u = <<"attribute", z.id, c>>
      BY <3>3
    <3>5. y = z /\ b.id = c.id
      BY <1>2, <2>1, <2>2, <3>2, <3>4
    <3>6. \A v, w \in y.attributes : v.id = w.id => v = w
      BY DEF KeepsElements, KeepsClassifier, KeepsMembers
    <3> QED
      BY <3>2, <3>4, <3>5, <3>6
  <2>6. CASE t[1] = "operation"
    <3>0. u \in Registered(n) /\ u[1] = "operation"
      BY <1>2, <2>1, <2>6
    <3>1. PICK y \in n.elements : \E b \in y.operations : t = <<"operation", y.id, b>>
      BY <1>2, <2>6, RegisteredAre
    <3>2. PICK b \in y.operations : t = <<"operation", y.id, b>>
      BY <3>1
    <3>3. PICK z \in n.elements : \E c \in z.operations : u = <<"operation", z.id, c>>
      BY <3>0, RegisteredAre
    <3>4. PICK c \in z.operations : u = <<"operation", z.id, c>>
      BY <3>3
    <3>5. y = z /\ b.id = c.id
      BY <1>2, <2>1, <2>2, <3>2, <3>4
    <3>6. \A v, w \in y.operations : v.id = w.id => v = w
      BY DEF KeepsElements, KeepsClassifier, KeepsMembers
    <3> QED
      BY <3>2, <3>4, <3>5, <3>6
  <2>7. CASE t[1] = "parameter"
    <3>0. u \in Registered(n) /\ u[1] = "parameter"
      BY <1>2, <2>1, <2>7
    <3>1. PICK y \in n.elements : \E q \in y.operations : \E p \in q.parameters :
                 t = <<"parameter", q.id, p>>
      BY <1>2, <2>7, RegisteredAre
    <3>2. PICK q \in y.operations : \E p \in q.parameters : t = <<"parameter", q.id, p>>
      BY <3>1
    <3>3. PICK p \in q.parameters : t = <<"parameter", q.id, p>>
      BY <3>2
    <3>4. PICK z \in n.elements : \E r \in z.operations : \E v \in r.parameters :
                 u = <<"parameter", r.id, v>>
      BY <3>0, RegisteredAre
    <3>5. PICK r \in z.operations : \E v \in r.parameters : u = <<"parameter", r.id, v>>
      BY <3>4
    <3>6. PICK v \in r.parameters : u = <<"parameter", r.id, v>>
      BY <3>5
    <3>7. q.id = r.id /\ p.id = v.id
      BY <1>2, <2>1, <3>3, <3>6
    <3>8. y = z
      <4>1. PICK x \in d.elements : KeepsClassifier(x, y)
        BY DEF KeepsElements
      <4>2. PICK w \in d.elements : KeepsClassifier(w, z)
        BY DEF KeepsElements
      <4>3. PICK o \in x.operations : o.id = q.id
        BY <4>1 DEF KeepsClassifier
      <4>4. PICK m \in w.operations : m.id = r.id
        BY <4>2 DEF KeepsClassifier
      <4>5. x = w
        BY <3>7, <4>3, <4>4, MembersOneEach
      <4>6. y.id = z.id
        BY <4>1, <4>2, <4>5 DEF KeepsClassifier
      <4> QED
        BY <2>2, <4>6
    <3>9. PICK x \in d.elements : KeepsClassifier(x, y)
      BY DEF KeepsElements
    <3>10. q = r
      BY <3>7, <3>8, <3>9 DEF KeepsClassifier, KeepsMembers
    <3>11. \A k, l \in q.parameters : k.id = l.id => k = l
      BY <3>9 DEF KeepsClassifier, KeepsMembers
    <3> QED
      BY <3>3, <3>6, <3>7, <3>10, <3>11
  <2> QED
    BY <1>2, <2>3, <2>4, <2>5, <2>6, <2>7, RegisteredAre
<1> QED
  BY <1>1, <1>2 DEF UniqueIds

\* The members of such a document are named as those of the valid one.
LEMMA KeptNames ==
  ASSUME NEW x, NEW y, KeepsClassifier(x, y),
         NamesDistinct(x.attributes), NotBlank(Members(x)),
         \A o \in x.operations : NamesDistinct(o.parameters)
  PROVE  /\ NamesDistinct(y.attributes) /\ NotBlank(Members(y))
         /\ \A q \in y.operations : NamesDistinct(q.parameters)
<1>1. ASSUME NEW A, NEW B, KeepsMembers(A, B), NamesDistinct(A)
      PROVE  NamesDistinct(B)
  BY <1>1 DEF KeepsMembers, NamesDistinct
<1>2. ASSUME NEW A, NEW B, KeepsMembers(A, B), NotBlank(A)
      PROVE  NotBlank(B)
  BY <1>2 DEF KeepsMembers, NotBlank
<1>3. KeepsMembers(x.attributes, y.attributes) /\ KeepsMembers(x.operations, y.operations)
      /\ \A q \in y.operations : \E o \in x.operations :
           o.id = q.id /\ KeepsMembers(o.parameters, q.parameters)
  BY DEF KeepsClassifier
<1>4. NotBlank(x.attributes) /\ NotBlank(x.operations)
      /\ \A o \in x.operations : NotBlank(o.parameters)
  BY DEF NotBlank, Members
<1>5. NamesDistinct(y.attributes) /\ NotBlank(y.attributes) /\ NotBlank(y.operations)
  BY <1>1, <1>2, <1>3, <1>4
<1>6. ASSUME NEW q \in y.operations
      PROVE  NamesDistinct(q.parameters) /\ NotBlank(q.parameters)
  <2>1. PICK o \in x.operations : KeepsMembers(o.parameters, q.parameters)
    BY <1>3
  <2> QED
    BY <1>1, <1>2, <1>4, <2>1
<1>7. NotBlank(Members(y))
  BY <1>5, <1>6 DEF NotBlank, Members
<1> QED
  BY <1>5, <1>6, <1>7

\* The classifier an identifier of such a document names is of the kind it was.
LEMMA KeptKinds ==
  ASSUME NEW d, NEW n, UniqueIds(d), KeepsElements(d, n), NEW id \in ElementIds(n)
  PROVE  id \in ElementIds(d) /\ Classifier(n, id).kind = Classifier(d, id).kind
<1>1. PICK y \in n.elements : y.id = id
  BY DEF ElementIds
<1>2. PICK x \in d.elements : KeepsClassifier(x, y)
  BY DEF KeepsElements
<1>3. x.id = id /\ y.kind = x.kind
  BY <1>1, <1>2 DEF KeepsClassifier
<1>4. Classifier(n, id) = y
  BY <1>1 DEF KeepsElements, Classifier
<1>5. \A z \in d.elements : z.id = id => z = x
  BY <1>3, MembersOneEach
<1>6. Classifier(d, id) = x
  BY <1>3, <1>5 DEF Classifier
<1> QED
  BY <1>3, <1>4, <1>6 DEF ElementIds

\* What a relationship of such a document needs is what it needed.
LEMMA KeptRelationships ==
  ASSUME NEW d, NEW n, UniqueIds(d), RelationshipsSound(d),
         KeepsElements(d, n), KeepsRelationships(d, n),
         \A q \in n.relationships : RelationshipElements(q) \subseteq ElementIds(n),
         \A q, s \in n.relationships : SameMeaning(q, s) => q = s
  PROVE  RelationshipsSound(n)
<1>1. ASSUME NEW q \in n.relationships
      PROVE  RelationshipSound(n, q) /\ AssociationClassSound(n, q)
  <2>1. PICK r \in d.relationships : KeepsRelationship(r, q)
    BY DEF KeepsRelationships
  <2>2. RelationshipSound(d, r) /\ AssociationClassSound(d, r)
    BY DEF RelationshipsSound
  <2>3. q.kind = r.kind /\ q.source = r.source /\ q.target = r.target
    BY <2>1 DEF KeepsRelationship
  <2>4. Ends(q) \subseteq ElementIds(n)
    BY DEF RelationshipElements
  <2>5. q.source.elementId \in ElementIds(n) /\ q.target.elementId \in ElementIds(n)
    BY <2>4 DEF Ends
  <2>6. Classifier(n, q.source.elementId).kind = Classifier(d, q.source.elementId).kind
        /\ Classifier(n, q.target.elementId).kind = Classifier(d, q.target.elementId).kind
    BY <2>5, KeptKinds
  <2>7. RelationshipSound(n, q)
    BY <2>2, <2>3, <2>4, <2>6 DEF RelationshipSound
  <2>8. CASE q.associationClassId # None
    <3>1. q.associationClassId = r.associationClassId
      BY <2>1, <2>8 DEF KeepsRelationship
    <3>2. q.associationClassId \in ElementIds(n)
      BY <2>8 DEF RelationshipElements
    <3>3. Classifier(n, q.associationClassId).kind = Classifier(d, q.associationClassId).kind
      BY <3>2, KeptKinds
    <3>4. Ends(q) = Ends(r)
      BY <2>3 DEF Ends
    <3>5. ASSUME NEW s \in n.relationships, s.associationClassId = q.associationClassId
          PROVE  s = q
      <4>1. PICK m \in d.relationships : KeepsRelationship(m, s)
        BY DEF KeepsRelationships
      <4>2. m.associationClassId = r.associationClassId
        BY <2>8, <3>1, <3>5, <4>1 DEF KeepsRelationship
      <4>3. m = r
        BY <2>2, <2>8, <3>1, <4>2 DEF AssociationClassSound
      <4>4. s.id = q.id
        BY <2>1, <4>1, <4>3 DEF KeepsRelationship
      <4> QED
        BY <4>4 DEF KeepsRelationships
    <3>6. AssociationClassSound(n, q)
      BY <2>2, <2>3, <2>8, <3>1, <3>2, <3>3, <3>4, <3>5 DEF AssociationClassSound
    <3> QED
      BY <2>7, <3>6
  <2>9. CASE q.associationClassId = None
    BY <2>7, <2>9 DEF AssociationClassSound
  <2> QED
    BY <2>8, <2>9
<1>2. ASSUME NEW kind, Acyclic(d, kind)
      PROVE  Acyclic(n, kind)
  <2>1. ASSUME NEW x, NEW y,
               <<x, y>> \in {<<q.source.elementId, q.target.elementId>> :
                               q \in {z \in n.relationships : z.kind = kind}}
        PROVE  <<x, y>> \in {<<r.source.elementId, r.target.elementId>> :
                               r \in {z \in d.relationships : z.kind = kind}}
    <3>1. PICK q \in n.relationships : q.kind = kind /\ <<x, y>> = <<q.source.elementId, q.target.elementId>>
      BY <2>1
    <3>2. PICK r \in d.relationships : KeepsRelationship(r, q)
      BY DEF KeepsRelationships
    <3>3. r.kind = kind /\ <<x, y>> = <<r.source.elementId, r.target.elementId>>
      BY <3>1, <3>2 DEF KeepsRelationship
    <3> QED
      BY <3>3
  <2>2. ElementIds(n) \subseteq ElementIds(d)
    BY KeptKinds
  <2> QED
    BY <1>2, <2>1, <2>2 DEF Acyclic
<1> QED
  BY <1>1, <1>2 DEF RelationshipsSound

\* Put together: a document that keeps no more than a valid one, has its own names,
\* types, positions and meanings in order and names nothing that is gone, is valid.
LEMMA KeptValid ==
  ASSUME NEW d, NEW n, Valid(d), KeepsElements(d, n), KeepsRelationships(d, n),
         NamesDistinct(n.elements), NotBlank(n.elements),
         \A y \in n.elements : NotBlank(TypesOf(y)),
         TypesResolve(n), PositionsMatch(n),
         \A q \in n.relationships : RelationshipElements(q) \subseteq ElementIds(n),
         \A q, s \in n.relationships : SameMeaning(q, s) => q = s
  PROVE  Valid(n)
<1>1. UniqueIds(n)
  BY KeptIds DEF Valid
<1>2. ASSUME NEW y \in n.elements
      PROVE  /\ NamesDistinct(y.attributes) /\ NotBlank(Members(y) \cup TypesOf(y))
             /\ \A q \in y.operations : NamesDistinct(q.parameters)
  <2>1. PICK x \in d.elements : KeepsClassifier(x, y)
    BY DEF KeepsElements
  <2>2. /\ NamesDistinct(x.attributes) /\ NotBlank(Members(x) \cup TypesOf(x))
        /\ \A o \in x.operations : NamesDistinct(o.parameters)
    BY DEF Valid, NamesSound
  <2>3. NotBlank(Members(x))
    BY <2>2 DEF NotBlank
  <2>4. /\ NamesDistinct(y.attributes) /\ NotBlank(Members(y))
        /\ \A q \in y.operations : NamesDistinct(q.parameters)
    BY <2>1, <2>2, <2>3, KeptNames
  <2>5. NotBlank(Members(y) \cup TypesOf(y))
    BY <2>4 DEF NotBlank
  <2> QED
    BY <2>4, <2>5
<1>3. NamesSound(n)
  BY <1>2 DEF NamesSound
<1>4. RelationshipsSound(n)
  BY KeptRelationships DEF Valid
<1> QED
  BY <1>1, <1>3, <1>4 DEF Valid

-----------------------------------------------------------------------------
(* Deletions leave valid documents *)

\* A classifier keeps itself.
LEMMA KeepsSelf ==
  ASSUME NEW d, UniqueIds(d), NEW x \in d.elements
  PROVE  KeepsClassifier(x, x)
<1>1. KeepsMembers(x.attributes, x.attributes)
  BY MembersOneEach DEF KeepsMembers
<1>2. KeepsMembers(x.operations, x.operations)
  BY MembersOneEach DEF KeepsMembers
<1>3. \A o \in x.operations : KeepsMembers(o.parameters, o.parameters)
  BY MembersOneEach DEF KeepsMembers
<1> QED
  BY <1>1, <1>2, <1>3 DEF KeepsClassifier

\* Relationships of the document keep themselves.
LEMMA KeepsOwnRelationships ==
  ASSUME NEW d, NEW n, UniqueIds(d), n.relationships \subseteq d.relationships
  PROVE  KeepsRelationships(d, n)
BY MembersOneEach DEF KeepsRelationships, KeepsRelationship

\* The document with fewer members of a classifier.
LEMMA ShrunkValid ==
  ASSUME NEW d, NEW id, NEW g, NEW n, DiagramShape(d), Valid(d), Has(d, id),
         n = WithClassifier(d, id, g),
         g.id = id, g.kind = Classifier(d, id).kind, g.name = Classifier(d, id).name,
         g.attributes \subseteq Classifier(d, id).attributes,
         g.operations \subseteq Classifier(d, id).operations
  PROVE  Valid(n)
<1>1. PICK e : e = Classifier(d, id)
  OBVIOUS
<1>2. e \in d.elements /\ e.id = id
  BY <1>1, ClassifierNamed
<1>3. /\ \A y : y \in n.elements <=> (y \in d.elements /\ y # e) \/ y = g
      /\ n.positions = d.positions /\ n.relationships = d.relationships
  BY <1>1, InPlace DEF Replacing
<1>4. UniqueIds(d)
  BY DEF Valid
<1>5. \A x, y \in d.elements : x.id = y.id => x = y
  BY <1>4, MembersOneEach
<1>6. KeepsClassifier(e, g)
  <2>1. KeepsClassifier(e, e)
    BY <1>2, <1>4, KeepsSelf
  <2> QED
    BY <1>1, <1>2, <2>1 DEF KeepsClassifier, KeepsMembers
<1>7. KeepsElements(d, n)
  <2>1. \A y \in n.elements : \E x \in d.elements : KeepsClassifier(x, y)
    BY <1>2, <1>3, <1>4, <1>6, KeepsSelf
  <2>2. \A y, z \in n.elements : y.id = z.id => y = z
    BY <1>2, <1>3, <1>5
  <2> QED
    BY <2>1, <2>2 DEF KeepsElements
<1>8. KeepsRelationships(d, n)
  BY <1>3, <1>4, KeepsOwnRelationships
<1>9. \A y \in n.elements : \E x \in d.elements : x.id = y.id /\ x.name = y.name /\ TypesOf(y) \subseteq TypesOf(x)
  <2>1. TypesOf(g) \subseteq TypesOf(e)
    BY <1>1 DEF TypesOf
  <2> QED
    BY <1>1, <1>2, <1>3, <2>1
<1>10. \A x \in d.elements : \E y \in n.elements : y.id = x.id /\ y.name = x.name
  BY <1>1, <1>2, <1>3
<1>11. ElementIds(n) = ElementIds(d)
  BY <1>9, <1>10 DEF ElementIds
<1>12. NamesSound(d) /\ TypesResolve(d) /\ PositionsMatch(d) /\ RelationshipsSound(d)
  BY DEF Valid
<1>13. NotBlank(n.elements) /\ NamesDistinct(n.elements)
  <2>0. NotBlank(d.elements)
    BY <1>12 DEF NamesSound
  <2>1. NotBlank(n.elements)
    BY <1>9, <2>0 DEF NotBlank
  <2>2. ASSUME NEW y \in n.elements, NEW z \in n.elements, Folded[y.name] = Folded[z.name]
        PROVE  y = z
    <3>1. PICK v \in d.elements : v.id = y.id /\ v.name = y.name
      BY <1>9
    <3>2. PICK w \in d.elements : w.id = z.id /\ w.name = z.name
      BY <1>9
    <3>3. v = w
      BY <1>12, <2>2, <3>1, <3>2 DEF NamesSound, NamesDistinct
    <3> QED
      BY <1>7, <3>1, <3>2, <3>3 DEF KeepsElements
  <2> QED
    BY <2>1, <2>2 DEF NamesDistinct
<1>14. \A y \in n.elements : NotBlank(TypesOf(y))
  <2>1. \A x \in d.elements : NotBlank(TypesOf(x))
    <3>1. \A x \in d.elements : NotBlank(Members(x) \cup TypesOf(x))
      BY <1>12 DEF NamesSound
    <3> QED
      BY <3>1 DEF NotBlank
  <2>2. ASSUME NEW y \in n.elements
        PROVE  NotBlank(TypesOf(y))
    <3>1. PICK x \in d.elements : TypesOf(y) \subseteq TypesOf(x)
      BY <1>9
    <3>2. NotBlank(TypesOf(x))
      BY <2>1
    <3> QED
      BY <3>1, <3>2 DEF NotBlank
  <2> QED
    BY <2>2
<1>15. TypesResolve(n)
  <2>1. ASSUME NEW y \in n.elements, NEW t \in TypesOf(y), t.elementId # None
        PROVE  \E f \in n.elements : f.id = t.elementId /\ f.name = t.name
    <3>1. PICK x \in d.elements : t \in TypesOf(x)
      BY <1>9
    <3>2. PICK f \in d.elements : f.id = t.elementId /\ f.name = t.name
      BY <1>12, <2>1, <3>1 DEF TypesResolve
    <3> QED
      BY <1>10, <3>2
  <2> QED
    BY <2>1 DEF TypesResolve
<1>16. PositionsMatch(n)
  BY <1>3, <1>11, <1>12 DEF PositionsMatch
<1>17. \A q \in n.relationships : RelationshipElements(q) \subseteq ElementIds(n)
  BY <1>3, <1>11, <1>12 DEF RelationshipsSound, RelationshipSound, AssociationClassSound, RelationshipElements
<1>18. \A q, s \in n.relationships : SameMeaning(q, s) => q = s
  BY <1>3, <1>12 DEF RelationshipsSound
<1> QED
  BY <1>7, <1>8, <1>13, <1>14, <1>15, <1>16, <1>17, <1>18, KeptValid

\* The deletion of an attribute or an operation leaves a valid document.
LEMMA MemberDeletedValid ==
  ASSUME NEW d, NEW id, NEW old, NEW n, DiagramShape(d), Valid(d), n # Refused,
         n = DeleteAttribute(d, id, old) \/ n = DeleteOperation(d, id, old)
  PROVE  Valid(n)
<1>1. PICK e : e = Classifier(d, id)
  OBVIOUS
<1>2. Has(d, id)
  BY DEF DeleteAttribute, DeleteOperation
<1>3. e \in d.elements /\ e.id = id
  BY <1>1, <1>2, ClassifierNamed
<1>4. ClassifierShape(e)
  BY <1>3, Shapes
<1>5. (\A a \in e.attributes : AttributeShape(a)) /\ (\A o \in e.operations : OperationShape(o))
      /\ IsFiniteSet(e.operations)
  BY <1>4, Zenon DEF ClassifierShape
<1>6. CASE n = DeleteAttribute(d, id, old)
  <2> DEFINE S == e.attributes \ {Member(e.attributes, old)}
  <2>1. n = WithClassifier(d, id, [e EXCEPT !.attributes = S])
    BY <1>1, <1>6 DEF DeleteAttribute
  <2>2. S \subseteq e.attributes
    OBVIOUS
  <2> HIDE DEF S
  <2>3. PICK g : g = [e EXCEPT !.attributes = S]
    OBVIOUS
  <2>4. \A a \in S : AttributeShape(a)
    BY <1>5, <2>2
  <2>5. g.id = e.id /\ g.kind = e.kind /\ g.name = e.name
        /\ g.attributes = S /\ g.operations = e.operations
    BY <1>4, <2>3, <2>4, WithAttributes
  <2>6. g.id = id /\ g.attributes \subseteq e.attributes /\ g.operations \subseteq e.operations
    BY <1>3, <2>2, <2>5
  <2> QED
    BY <1>1, <1>2, <2>1, <2>3, <2>5, <2>6, ShrunkValid
<1>7. CASE n = DeleteOperation(d, id, old)
  <2> DEFINE S == e.operations \ {Member(e.operations, old)}
  <2>1. n = WithClassifier(d, id, [e EXCEPT !.operations = S])
    BY <1>1, <1>7 DEF DeleteOperation
  <2>2. S \subseteq e.operations /\ IsFiniteSet(S)
    BY <1>5, FS_RemoveElement
  <2> HIDE DEF S
  <2>3. PICK g : g = [e EXCEPT !.operations = S]
    OBVIOUS
  <2>4. \A o \in S : OperationShape(o)
    BY <1>5, <2>2
  <2>5. g.id = e.id /\ g.kind = e.kind /\ g.name = e.name
        /\ g.attributes = e.attributes /\ g.operations = S
    BY <1>4, <2>2, <2>3, <2>4, WithOperations
  <2>6. g.id = id /\ g.attributes \subseteq e.attributes /\ g.operations \subseteq e.operations
    BY <1>3, <2>2, <2>5
  <2> QED
    BY <1>1, <1>2, <2>1, <2>3, <2>5, <2>6, ShrunkValid
<1> QED
  BY <1>6, <1>7

\* A classifier of which the type references alone changed.
LEMMA KeepsRetyped ==
  ASSUME NEW d, UniqueIds(d), NEW x \in d.elements, NEW g, NEW f, NEW y,
         ClassifierShape(g), g.id = x.id, g.kind = x.kind,
         g.attributes = x.attributes, g.operations = x.operations, y = Retyped(g, f)
  PROVE  KeepsClassifier(x, y)
<1>1. y.id = x.id /\ y.kind = x.kind /\ y.attributes = RetypedAttributes(g, f)
      /\ y.operations = RetypedOperations(g, f)
  BY ClassifierRetyped
<1>2. (\A a \in g.attributes : AttributeShape(a)) /\ (\A o \in g.operations : OperationShape(o))
  BY Zenon DEF ClassifierShape
<1>3. \A b \in y.attributes : \E a \in x.attributes :
        a.id = b.id /\ a.name = b.name /\ b = RetypedAttribute(a, f)
  BY <1>1, <1>2, AttributeRetyped DEF RetypedAttributes
<1>4. KeepsMembers(x.attributes, y.attributes)
  <2>1. ASSUME NEW b \in y.attributes, NEW c \in y.attributes, b.id = c.id
        PROVE  b = c
    <3>1. PICK a \in x.attributes : a.id = b.id /\ b = RetypedAttribute(a, f)
      BY <1>3
    <3>2. PICK e \in x.attributes : e.id = c.id /\ c = RetypedAttribute(e, f)
      BY <1>3
    <3>3. a = e
      BY <2>1, <3>1, <3>2, MembersOneEach
    <3> QED
      BY <3>1, <3>2, <3>3
  <2> QED
    BY <1>3, <2>1 DEF KeepsMembers
<1>5. \A q \in y.operations : \E o \in x.operations :
        o.id = q.id /\ o.name = q.name /\ q = RetypedOperation(o, f)
  BY <1>1, <1>2, OperationRetyped DEF RetypedOperations
<1>6. KeepsMembers(x.operations, y.operations)
  <2>1. ASSUME NEW b \in y.operations, NEW c \in y.operations, b.id = c.id
        PROVE  b = c
    <3>1. PICK a \in x.operations : a.id = b.id /\ b = RetypedOperation(a, f)
      BY <1>5
    <3>2. PICK e \in x.operations : e.id = c.id /\ c = RetypedOperation(e, f)
      BY <1>5
    <3>3. a = e
      BY <2>1, <3>1, <3>2, MembersOneEach
    <3> QED
      BY <3>1, <3>2, <3>3
  <2> QED
    BY <1>5, <2>1 DEF KeepsMembers
<1>7. ASSUME NEW q \in y.operations
      PROVE  \E o \in x.operations : o.id = q.id /\ KeepsMembers(o.parameters, q.parameters)
  <2>1. PICK o \in x.operations : o.id = q.id /\ q = RetypedOperation(o, f)
    BY <1>5
  <2>2. OperationShape(o)
    BY <1>2
  <2>3. q.parameters = RetypedParameters(o, f)
    BY <2>1, <2>2, OperationRetyped
  <2>4. \A p \in o.parameters : ParameterShape(p)
    BY <2>2, Zenon DEF OperationShape
  <2>5. \A b \in q.parameters : \E a \in o.parameters :
          a.id = b.id /\ a.name = b.name /\ b = RetypedParameter(a, f)
    BY <2>3, <2>4, ParameterRetyped DEF RetypedParameters
  <2>6. ASSUME NEW b \in q.parameters, NEW c \in q.parameters, b.id = c.id
        PROVE  b = c
    <3>1. PICK a \in o.parameters : a.id = b.id /\ b = RetypedParameter(a, f)
      BY <2>5
    <3>2. PICK e \in o.parameters : e.id = c.id /\ c = RetypedParameter(e, f)
      BY <2>5
    <3>3. a = e
      BY <2>6, <3>1, <3>2, MembersOneEach
    <3> QED
      BY <3>1, <3>2, <3>3
  <2> QED
    BY <2>1, <2>5, <2>6 DEF KeepsMembers
<1> QED
  BY <1>1, <1>4, <1>6, <1>7 DEF KeepsClassifier

\* The classes of the associations that classifiers of S end are in S.
ClassesFollow(d, S) ==
  \A r \in d.relationships :
    (Ends(r) \cap S # {} /\ r.associationClassId # None) => r.associationClassId \in S

\* A deletion takes along the classes it has to, and no more.
LEMMA DeletedLeast ==
  ASSUME NEW d, NEW X, NEW gone, gone = Deleted(d, X),
         \A r \in d.relationships : r.associationClassId # None => r.associationClassId \in ElementIds(d)
  PROVE  /\ X \subseteq gone /\ gone \subseteq ElementIds(d) \cup X /\ ClassesFollow(d, gone)
         /\ \A T \in SUBSET (ElementIds(d) \cup X) : X \subseteq T /\ ClassesFollow(d, T) => gone \subseteq T
<1> DEFINE U == ElementIds(d) \cup X
           C == {S \in SUBSET U : X \subseteq S /\ ClassesFollow(d, S)}
           I == {x \in U : \A T \in C : x \in T}
<1>1. gone = CHOOSE S \in C : \A T \in C : S \subseteq T
  BY DEF Deleted, ClassesFollow
<1>2. I \in C
  <2>1. I \in SUBSET U /\ X \subseteq I
    OBVIOUS
  <2>2. ASSUME NEW r \in d.relationships, Ends(r) \cap I # {}, r.associationClassId # None
        PROVE  r.associationClassId \in I
    <3>1. r.associationClassId \in U
      BY <2>2
    <3>2. ASSUME NEW T \in C
          PROVE  r.associationClassId \in T
      <4>1. Ends(r) \cap T # {}
        BY <2>2
      <4> QED
        BY <2>2, <4>1 DEF ClassesFollow
    <3> QED
      BY <3>1, <3>2
  <2>3. ClassesFollow(d, I)
    BY <2>2 DEF ClassesFollow
  <2> QED
    BY <2>1, <2>3
<1>3. \A T \in C : I \subseteq T
  OBVIOUS
<1>4. \A T : T \in C <=> T \in SUBSET U /\ X \subseteq T /\ ClassesFollow(d, T)
  OBVIOUS
<1> HIDE DEF C, I
<1>5. gone \in C /\ \A T \in C : gone \subseteq T
  BY <1>1, <1>2, <1>3
<1> QED
  BY <1>4, <1>5

\* Without a relationship.
LEMMA CutValid ==
  ASSUME NEW d, NEW id, NEW n, DiagramShape(d), Valid(d), n = Cut(d, id)
  PROVE  Valid(n)
<1>1. /\ n.elements = d.elements /\ n.positions = d.positions
      /\ n.relationships \subseteq d.relationships
  BY CutShape
<1>2. UniqueIds(d) /\ NamesSound(d) /\ TypesResolve(d) /\ PositionsMatch(d) /\ RelationshipsSound(d)
  BY DEF Valid
<1>3. KeepsElements(d, n)
  BY <1>1, <1>2, KeepsSelf, MembersOneEach DEF KeepsElements
<1>4. KeepsRelationships(d, n)
  BY <1>1, <1>2, KeepsOwnRelationships
<1>5. ElementIds(n) = ElementIds(d)
  BY <1>1 DEF ElementIds
<1>6. NamesDistinct(n.elements) /\ NotBlank(n.elements)
  BY <1>1, <1>2 DEF NamesSound
<1>7. \A y \in n.elements : NotBlank(TypesOf(y))
  <2>1. \A x \in d.elements : NotBlank(Members(x) \cup TypesOf(x))
    BY <1>2 DEF NamesSound
  <2> QED
    BY <1>1, <2>1 DEF NotBlank
<1>8. TypesResolve(n) /\ PositionsMatch(n)
  BY <1>1, <1>2, <1>5 DEF TypesResolve, PositionsMatch
<1>9. \A q \in n.relationships : RelationshipElements(q) \subseteq ElementIds(n)
  BY <1>1, <1>2, <1>5 DEF RelationshipsSound, RelationshipSound, AssociationClassSound, RelationshipElements
<1>10. \A q, s \in n.relationships : SameMeaning(q, s) => q = s
  BY <1>1, <1>2 DEF RelationshipsSound
<1> QED
  BY <1>3, <1>4, <1>6, <1>7, <1>8, <1>9, <1>10, KeptValid

\* The types of a classifier that forgot what is gone name nothing that is gone.
LEMMA ForgottenTypes ==
  ASSUME NEW e, NEW gone, NEW g, ClassifierShape(e), g = ForgottenClassifier(e, gone)
  PROVE  \A u \in TypesOf(g) : \E t \in TypesOf(e) :
           u.name = t.name /\ (u.elementId # None => u = t /\ t.elementId \notin gone)
<1> DEFINE f == [t \in TypesOf(e) |-> TypeWithout(t, gone)]
<1>1. g = Retyped(e, f)
  BY DEF ForgottenClassifier
<1>2. \A t \in TypesOf(e) : f[t] = TypeWithout(t, gone)
  OBVIOUS
<1> HIDE DEF f
<1>3. ASSUME NEW u \in TypesOf(g)
      PROVE  \E t \in TypesOf(e) :
               u.name = t.name /\ (u.elementId # None => u = t /\ t.elementId \notin gone)
  <2>1. PICK t \in TypesOf(e) : u = f[t]
    BY <1>1, TypesRetyped
  <2>2. ReferenceShape(t) /\ u = TypeWithout(t, gone)
    BY <1>2, <2>1, TypesShaped
  <2> QED
    BY <2>2, ReferenceForgotten
<1> QED
  BY <1>3

\* SameMeaning does not ask which of the two comes first.
LEMMA MeaningSymmetric ==
  ASSUME NEW r, NEW s, RelationshipShape(r), RelationshipShape(s), SameMeaning(r, s)
  PROVE  SameMeaning(s, r)
<1>1. CASE Signature(r) = Signature(s)
  BY <1>1 DEF SameMeaning
<1>2. CASE r.kind = "association" /\ Signature(Reversed(r)) = Signature(s)
  <2>1. ASSUME NEW q, NEW v, RelationshipShape(q), v = Reversed(q)
        PROVE  v.kind = q.kind /\ v.name = q.name /\ v.source = q.target /\ v.target = q.source
               /\ v.associationClassId = q.associationClassId
    <3>1. q = [id |-> q.id, kind |-> q.kind, name |-> q.name, source |-> q.source,
               target |-> q.target, associationClassId |-> q.associationClassId]
      BY <2>1, Zenon DEF RelationshipShape
    <3>2. v = [id |-> q.id, kind |-> q.kind, name |-> q.name, source |-> q.target,
               target |-> q.source, associationClassId |-> q.associationClassId]
      BY <2>1, <3>1 DEF Reversed
    <3> QED
      BY <3>2
  <2>2. PICK v : v = Reversed(r)
    OBVIOUS
  <2>3. PICK w : w = Reversed(s)
    OBVIOUS
  <2>4. v.kind = r.kind /\ v.name = r.name /\ v.source = r.target /\ v.target = r.source
        /\ v.associationClassId = r.associationClassId
    BY <2>1, <2>2
  <2>5. w.kind = s.kind /\ w.name = s.name /\ w.source = s.target /\ w.target = s.source
        /\ w.associationClassId = s.associationClassId
    BY <2>1, <2>3
  <2>6. s.kind = r.kind /\ s.name = r.name /\ s.source = r.target /\ s.target = r.source
        /\ s.associationClassId = r.associationClassId
    BY <1>2, <2>2, <2>4 DEF Signature
  <2>7. Signature(w) = Signature(r)
    BY <2>5, <2>6 DEF Signature
  <2> QED
    BY <1>2, <2>3, <2>6, <2>7 DEF SameMeaning
<1> QED
  BY <1>1, <1>2 DEF SameMeaning

\* An association of d that would repeat another without its class.
HasTwin(d, r) ==
  /\ r.associationClassId # None
  /\ \E s \in d.relationships \ {r} : SameMeaning([r EXCEPT !.associationClassId = None], s)

\* The associations that lose their class to the removal of one classifier: that
\* classifier is the class.
LEMMA LoosenedIs ==
  ASSUME NEW d, NEW x, NEW X, X = {x}, NEW gone, gone = Deleted(d, X), Valid(d), x \in ElementIds(d),
         NEW r \in d.relationships, Ends(r) \cap gone = {},
         r.associationClassId # None, r.associationClassId \in gone
  PROVE  r.associationClassId = x
<1>1. \A q \in d.relationships : AssociationClassSound(d, q)
  BY DEF Valid, RelationshipsSound
<1>2. \A q \in d.relationships : q.associationClassId # None => q.associationClassId \in ElementIds(d)
  BY <1>1 DEF AssociationClassSound
<1>3. /\ X \subseteq gone /\ gone \subseteq ElementIds(d) \cup X /\ ClassesFollow(d, gone)
      /\ \A T \in SUBSET (ElementIds(d) \cup X) : X \subseteq T /\ ClassesFollow(d, T) => gone \subseteq T
  BY <1>2, DeletedLeast
<1>4. SUFFICES ASSUME r.associationClassId # x
               PROVE  FALSE
  OBVIOUS
<1>5. PICK T : T = gone \ {r.associationClassId}
  OBVIOUS
<1>6. T \in SUBSET (ElementIds(d) \cup X) /\ X \subseteq T
  BY <1>3, <1>4, <1>5
<1>7. ASSUME NEW q \in d.relationships, Ends(q) \cap T # {}, q.associationClassId # None
      PROVE  q.associationClassId \in T
  <2>1. Ends(q) \cap gone # {}
    BY <1>5, <1>7
  <2>2. q.associationClassId \in gone
    BY <1>3, <1>7, <2>1 DEF ClassesFollow
  <2>3. q # r
    BY <2>1
  <2>4. q.associationClassId # r.associationClassId
    BY <1>1, <2>3 DEF AssociationClassSound
  <2> QED
    BY <1>5, <2>2, <2>4
<1>8. ClassesFollow(d, T)
  BY <1>7 DEF ClassesFollow
<1>9. gone \subseteq T
  BY <1>3, <1>6, <1>8
<1> QED
  BY <1>5, <1>9

\* Associations that lose their class mean what others mean only if they have twins.
LEMMA LoosenedMeanings ==
  ASSUME NEW d, NEW x, NEW X, X = {x}, NEW gone, gone = Deleted(d, X),
         DiagramShape(d), Valid(d), x \in ElementIds(d),
         NEW r \in d.relationships, NEW s \in d.relationships,
         Ends(r) \cap gone = {}, Ends(s) \cap gone = {},
         SameMeaning(Loosened(r, gone), Loosened(s, gone))
  PROVE  r = s \/ \E q \in d.relationships : q.associationClassId = x /\ HasTwin(d, q)
<1>1. /\ \A p, q \in d.relationships : SameMeaning(p, q) => p = q
      /\ \A q \in d.relationships : AssociationClassSound(d, q)
  BY DEF Valid, RelationshipsSound
<1>2. RelationshipShape(r) /\ RelationshipShape(s)
  BY Shapes
<1> DEFINE Lost(q) == q.associationClassId # None /\ q.associationClassId \in gone
<1>3. ASSUME NEW q \in d.relationships, ~Lost(q)
      PROVE  Loosened(q, gone) = q
  <2>1. RelationshipShape(q)
    BY Shapes
  <2>2. CASE q.associationClassId = None
    <3>1. q = [id |-> q.id, kind |-> q.kind, name |-> q.name, source |-> q.source,
               target |-> q.target, associationClassId |-> q.associationClassId]
      BY <2>1, Zenon DEF RelationshipShape
    <3> QED
      BY <2>2, <3>1 DEF Loosened
  <2>3. CASE q.associationClassId \notin gone
    BY <2>3 DEF Loosened
  <2> QED
    BY <1>3, <2>2, <2>3
<1>4. ASSUME NEW q \in d.relationships, Lost(q)
      PROVE  Loosened(q, gone) = [q EXCEPT !.associationClassId = None]
  BY <1>4 DEF Loosened
<1>5. CASE ~Lost(r) /\ ~Lost(s)
  BY <1>1, <1>3, <1>5
<1>6. CASE Lost(r) /\ ~Lost(s)
  <2>1. SameMeaning([r EXCEPT !.associationClassId = None], s)
    BY <1>3, <1>4, <1>6
  <2>2. r # s
    BY <1>6
  <2>3. HasTwin(d, r)
    BY <1>6, <2>1, <2>2 DEF HasTwin
  <2>4. r.associationClassId = x
    BY <1>6, LoosenedIs
  <2> QED
    BY <2>3, <2>4
<1>7. CASE ~Lost(r) /\ Lost(s)
  <2>1. PICK q : q = [s EXCEPT !.associationClassId = None]
    OBVIOUS
  <2>2. SameMeaning(r, q)
    BY <1>3, <1>4, <1>7, <2>1
  <2>3. RelationshipShape(q)
    BY <1>2, <2>1, WithClass
  <2>4. SameMeaning(q, r)
    BY <1>2, <2>2, <2>3, MeaningSymmetric
  <2>5. HasTwin(d, s)
    <3>1. r # s
      BY <1>7
    <3> QED
      BY <1>7, <2>1, <2>4, <3>1 DEF HasTwin
  <2>6. s.associationClassId = x
    BY <1>7, LoosenedIs
  <2> QED
    BY <2>5, <2>6
<1>8. CASE Lost(r) /\ Lost(s)
  <2>1. r.associationClassId = x /\ s.associationClassId = x /\ x # None
    BY <1>8, LoosenedIs
  <2> QED
    BY <1>1, <2>1 DEF AssociationClassSound
<1> QED
  BY <1>5, <1>6, <1>7, <1>8

\* The document without a classifier is valid, unless the classifier was the class
\* of an association that then repeats another.
LEMMA RemovedValid ==
  ASSUME NEW d, NEW x, NEW X, \A y : y \in X <=> y = x, NEW n, DiagramShape(d), Valid(d),
         x \in ElementIds(d), n = RemoveClassifiers(d, X)
  PROVE  Valid(n) \/ \E q \in d.relationships : q.associationClassId = x /\ HasTwin(d, q)
<1>0. X = {x}
  OBVIOUS
<1>1. PICK gone : gone = Deleted(d, X)
  OBVIOUS
<1>2. /\ \A y : y \in n.elements <=>
              \E e \in d.elements : e.id \notin gone /\ y = ForgottenClassifier(e, gone)
      /\ \A p : p \in n.positions <=> p \in d.positions /\ p.elementId \notin gone
      /\ \A q : q \in n.relationships <=>
              \E r \in d.relationships : Ends(r) \cap gone = {} /\ q = Loosened(r, gone)
  BY <1>1, RemovedAre
<1>3. UniqueIds(d) /\ NamesSound(d) /\ TypesResolve(d) /\ PositionsMatch(d) /\ RelationshipsSound(d)
  BY DEF Valid
<1>4. \A e \in d.elements : ClassifierShape(e)
  BY Shapes
<1>5. \A y \in n.elements : \E e \in d.elements :
        /\ e.id \notin gone /\ y = ForgottenClassifier(e, gone)
        /\ y.id = e.id /\ y.name = e.name /\ KeepsClassifier(e, y)
  <2>1. ASSUME NEW y \in n.elements
        PROVE  \E e \in d.elements :
                 /\ e.id \notin gone /\ y = ForgottenClassifier(e, gone)
                 /\ y.id = e.id /\ y.name = e.name /\ KeepsClassifier(e, y)
    <3>1. PICK e \in d.elements : e.id \notin gone /\ y = ForgottenClassifier(e, gone)
      BY <1>2
    <3>2. y.id = e.id /\ y.name = e.name
      BY <1>4, <3>1, ClassifierForgotten
    <3>3. PICK f : y = Retyped(e, f)
      BY <3>1 DEF ForgottenClassifier
    <3>4. KeepsClassifier(e, y)
      BY <1>3, <1>4, <3>3, KeepsRetyped
    <3> QED
      BY <3>1, <3>2, <3>4
  <2> QED
    BY <2>1
<1>6. \A e \in d.elements : e.id \notin gone => \E y \in n.elements : y.id = e.id /\ y.name = e.name
  <2>1. ASSUME NEW e \in d.elements, e.id \notin gone
        PROVE  \E y \in n.elements : y.id = e.id /\ y.name = e.name
    <3>1. PICK y : y = ForgottenClassifier(e, gone)
      OBVIOUS
    <3>2. y \in n.elements
      BY <1>2, <2>1, <3>1
    <3>3. y.id = e.id /\ y.name = e.name
      BY <1>4, <3>1, ClassifierForgotten
    <3> QED
      BY <3>2, <3>3
  <2> QED
    BY <2>1
<1>7. ElementIds(n) = ElementIds(d) \ gone
  <2>1. \A id : id \in ElementIds(n) <=> \E y \in n.elements : y.id = id
    BY DEF ElementIds
  <2>2. \A id : id \in ElementIds(d) <=> \E e \in d.elements : e.id = id
    BY DEF ElementIds
  <2>3. \A y \in n.elements : \E e \in d.elements : e.id \notin gone /\ y.id = e.id
    BY <1>5
  <2>4. ASSUME NEW id, id \in ElementIds(n)
        PROVE  id \in ElementIds(d) /\ id \notin gone
    <3>1. PICK y \in n.elements : y.id = id
      BY <2>1, <2>4
    <3>2. PICK e \in d.elements : e.id \notin gone /\ y.id = e.id
      BY <2>3
    <3> QED
      BY <2>2, <3>1, <3>2
  <2>5. \A id : id \in ElementIds(d) /\ id \notin gone => id \in ElementIds(n)
    BY <1>6, <2>1, <2>2
  <2> QED
    BY <2>4, <2>5
<1>8. KeepsElements(d, n)
  <2>1. ASSUME NEW y \in n.elements, NEW z \in n.elements, y.id = z.id
        PROVE  y = z
    <3>1. PICK e \in d.elements : y = ForgottenClassifier(e, gone) /\ y.id = e.id
      BY <1>5
    <3>2. PICK f \in d.elements : z = ForgottenClassifier(f, gone) /\ z.id = f.id
      BY <1>5
    <3>3. e = f
      BY <1>3, <2>1, <3>1, <3>2, MembersOneEach
    <3> QED
      BY <3>1, <3>2, <3>3
  <2> QED
    BY <1>5, <2>1 DEF KeepsElements
<1>9. \A q \in n.relationships : \E r \in d.relationships :
        Ends(r) \cap gone = {} /\ q = Loosened(r, gone) /\ q.id = r.id /\ KeepsRelationship(r, q)
        /\ (q.associationClassId # None => q.associationClassId \notin gone)
  <2>1. ASSUME NEW r \in d.relationships, NEW q, q = Loosened(r, gone)
        PROVE  q.id = r.id /\ KeepsRelationship(r, q)
               /\ (q.associationClassId # None => q.associationClassId \notin gone)
    BY <2>1, Shapes, RelationshipLoosened DEF KeepsRelationship
  <2> QED
    BY <1>2, <2>1
<1>10. KeepsRelationships(d, n)
  <2>1. ASSUME NEW q \in n.relationships, NEW s \in n.relationships, q.id = s.id
        PROVE  q = s
    <3>1. PICK e \in d.relationships : q = Loosened(e, gone) /\ q.id = e.id
      BY <1>9
    <3>2. PICK f \in d.relationships : s = Loosened(f, gone) /\ s.id = f.id
      BY <1>9
    <3>3. e = f
      BY <1>3, <2>1, <3>1, <3>2, MembersOneEach
    <3> QED
      BY <3>1, <3>2, <3>3
  <2> QED
    BY <1>9, <2>1 DEF KeepsRelationships
<1>11. NamesDistinct(n.elements) /\ NotBlank(n.elements)
  <2>1. NamesDistinct(d.elements) /\ NotBlank(d.elements)
    BY <1>3 DEF NamesSound
  <2>2. NotBlank(n.elements)
    BY <1>5, <2>1 DEF NotBlank
  <2>3. ASSUME NEW y \in n.elements, NEW z \in n.elements, Folded[y.name] = Folded[z.name]
        PROVE  y = z
    <3>1. PICK v \in d.elements : v.name = y.name /\ y = ForgottenClassifier(v, gone)
      BY <1>5
    <3>2. PICK w \in d.elements : w.name = z.name /\ z = ForgottenClassifier(w, gone)
      BY <1>5
    <3>3. v = w
      BY <2>1, <2>3, <3>1, <3>2 DEF NamesDistinct
    <3> QED
      BY <3>1, <3>2, <3>3
  <2> QED
    BY <2>2, <2>3 DEF NamesDistinct
<1>12. ASSUME NEW y \in n.elements, NEW u \in TypesOf(y)
       PROVE  \E e \in d.elements : \E t \in TypesOf(e) :
                u.name = t.name /\ (u.elementId # None => u = t /\ t.elementId \notin gone)
  <2>1. PICK e \in d.elements : y = ForgottenClassifier(e, gone)
    BY <1>5
  <2>2. \A v \in TypesOf(y) : \E t \in TypesOf(e) :
          v.name = t.name /\ (v.elementId # None => v = t /\ t.elementId \notin gone)
    BY <1>4, <2>1, ForgottenTypes
  <2> QED
    BY <2>2
<1>13. \A y \in n.elements : NotBlank(TypesOf(y))
  <2>1. \A e \in d.elements : \A t \in TypesOf(e) : Folded[t.name] # ""
    <3>1. \A e \in d.elements : NotBlank(Members(e) \cup TypesOf(e))
      BY <1>3 DEF NamesSound
    <3> QED
      BY <3>1 DEF NotBlank
  <2>2. \A y \in n.elements : \A u \in TypesOf(y) : Folded[u.name] # ""
    BY <1>12, <2>1
  <2> QED
    BY <2>2 DEF NotBlank
<1>14. TypesResolve(n)
  <2>1. ASSUME NEW y \in n.elements, NEW u \in TypesOf(y), u.elementId # None
        PROVE  \E f \in n.elements : f.id = u.elementId /\ f.name = u.name
    <3>1. PICK e \in d.elements : \E t \in TypesOf(e) :
                 u.name = t.name /\ (u.elementId # None => u = t /\ t.elementId \notin gone)
      BY <1>12
    <3>2. u \in TypesOf(e) /\ u.elementId \notin gone
      BY <2>1, <3>1
    <3>3. PICK f \in d.elements : f.id = u.elementId /\ f.name = u.name
      BY <1>3, <2>1, <3>2 DEF TypesResolve
    <3> QED
      BY <1>6, <3>2, <3>3
  <2> QED
    BY <2>1 DEF TypesResolve
<1>15. PositionsMatch(n)
  <2>1. \A p : p \in n.positions <=> p \in d.positions /\ p.elementId \notin gone
    BY <1>2
  <2>2. {p.elementId : p \in d.positions} = ElementIds(d)
        /\ \A p, q \in d.positions : p.elementId = q.elementId => p = q
    BY <1>3 DEF PositionsMatch
  <2>3. {p.elementId : p \in n.positions} = ElementIds(n)
    BY <1>7, <2>1, <2>2
  <2>4. \A p, q \in n.positions : p.elementId = q.elementId => p = q
    BY <2>1, <2>2
  <2> QED
    BY <2>3, <2>4 DEF PositionsMatch
<1>16. \A q \in n.relationships : RelationshipElements(q) \subseteq ElementIds(n)
  <2>1. ASSUME NEW q \in n.relationships
        PROVE  RelationshipElements(q) \subseteq ElementIds(n)
    <3>1. PICK r \in d.relationships :
                 Ends(r) \cap gone = {} /\ KeepsRelationship(r, q)
                 /\ (q.associationClassId # None => q.associationClassId \notin gone)
      BY <1>9
    <3>2. Ends(q) = Ends(r) /\ (q.associationClassId # None => q.associationClassId = r.associationClassId)
      BY <3>1 DEF KeepsRelationship, Ends
    <3>3. Ends(r) \subseteq ElementIds(d) /\ (r.associationClassId # None => r.associationClassId \in ElementIds(d))
      BY <1>3 DEF RelationshipsSound, RelationshipSound, AssociationClassSound
    <3> QED
      BY <1>7, <3>1, <3>2, <3>3 DEF RelationshipElements
  <2> QED
    BY <2>1
<1>17. CASE \A q, s \in n.relationships : SameMeaning(q, s) => q = s
  BY <1>8, <1>10, <1>11, <1>13, <1>14, <1>15, <1>16, <1>17, KeptValid
<1>18. CASE \E q, s \in n.relationships : SameMeaning(q, s) /\ q # s
  <2>1. PICK q \in n.relationships : \E s \in n.relationships : SameMeaning(q, s) /\ q # s
    BY <1>18
  <2>2. PICK s \in n.relationships : SameMeaning(q, s) /\ q # s
    BY <2>1
  <2>3. PICK v \in d.relationships : Ends(v) \cap gone = {} /\ q = Loosened(v, gone)
    BY <1>9
  <2>4. PICK w \in d.relationships : Ends(w) \cap gone = {} /\ s = Loosened(w, gone)
    BY <1>9
  <2>5. v # w /\ SameMeaning(Loosened(v, gone), Loosened(w, gone))
    BY <2>2, <2>3, <2>4
  <2> QED
    BY <1>0, <1>1, <2>3, <2>4, <2>5, LoosenedMeanings
<1> QED
  BY <1>17, <1>18

\* Every deletion leaves a valid document, twins apart.
LEMMA DeletionsValid ==
  ASSUME NEW d, NEW c, NEW n, DiagramShape(d), Valid(d), c \in Deletions(d),
         n = Mutated(d, c), n # Refused
  PROVE  \/ Valid(n)
         \/ /\ c.type = "classifier.delete"
            /\ \E r \in d.relationships : r.associationClassId = c.elementId /\ HasTwin(d, r)
<1>1. CASE c.type = "classifier.delete"
  <2>1. n = DeleteClassifier(d, c.elementId)
    BY <1>1, Mutations
  <2>2. PICK X : X = {c.elementId}
    OBVIOUS
  <2>3. c.elementId \in ElementIds(d) /\ n = RemoveClassifiers(d, X)
    BY <2>1, <2>2 DEF DeleteClassifier, Has
  <2>4. \A y : y \in X <=> y = c.elementId
    BY <2>2
  <2> QED
    BY <1>1, <2>3, <2>4, RemovedValid
<1>2. CASE c.type = "relationship.delete"
  <2>1. n = DeleteRelationship(d, c.relationshipId)
    BY <1>2, Mutations
  <2>2. PICK r : r = Relationship(d, c.relationshipId)
    OBVIOUS
  <2>3. HasRelationship(d, c.relationshipId)
    BY <2>1 DEF DeleteRelationship
  <2>4. r \in d.relationships
    BY <2>2, <2>3, RelationshipNamed
  <2>5. PICK cut : cut = Cut(d, c.relationshipId)
    OBVIOUS
  <2>6. Valid(cut) /\ DiagramShape(cut) /\ cut.elements = d.elements
        /\ cut.relationships = d.relationships \ {r}
    BY <2>2, <2>5, CutValid, CutShape
  <2>7. CASE r.associationClassId = None
    <3>1. n = cut
      BY <2>1, <2>2, <2>3, <2>5, <2>7 DEF DeleteRelationship, Cut
    <3> QED
      BY <2>6, <3>1
  <2>8. CASE r.associationClassId # None
    <3>1. PICK X : X = {r.associationClassId}
      OBVIOUS
    <3>2. n = RemoveClassifiers(cut, X)
      BY <2>1, <2>2, <2>3, <2>5, <2>8, <3>1 DEF DeleteRelationship, Cut
    <3>3. AssociationClassSound(d, r)
      BY <2>4 DEF Valid, RelationshipsSound
    <3>4. r.associationClassId \in ElementIds(cut)
      BY <2>6, <2>8, <3>3 DEF AssociationClassSound, ElementIds
    <3>5. \A q \in cut.relationships : q.associationClassId # r.associationClassId
      BY <2>6, <2>8, <3>3 DEF AssociationClassSound
    <3>6. \A y : y \in X <=> y = r.associationClassId
      BY <3>1
    <3> QED
      BY <2>6, <3>2, <3>4, <3>5, <3>6, RemovedValid
  <2> QED
    BY <2>7, <2>8
<1>3. CASE c.type = "attribute.delete"
  <2>1. n = DeleteAttribute(d, c.elementId, c.memberId)
    BY <1>3, Mutations
  <2> QED
    BY <2>1, MemberDeletedValid
<1>4. CASE c.type = "operation.delete"
  <2>1. n = DeleteOperation(d, c.elementId, c.memberId)
    BY <1>4, Mutations
  <2> QED
    BY <2>1, MemberDeletedValid
<1>5. CASE c.type = "diagram.clear"
  BY <1>5, Mutations, EmptyValid
<1> QED
  BY <1>1, <1>2, <1>3, <1>4, <1>5, DeletionsAre

\* Only a command that leaves an invalid document is refused as INVALID_MODEL.
LEMMA RefusedInvalid ==
  ASSUME NEW d, NEW c, NEW n, n = Executed(d, c), Outcome(d, c, {}) = "INVALID_MODEL"
  PROVE  n # Refused /\ ~Valid(n)
BY ZenonT(60) DEF Outcome

\* No document and no deletion has the validation refuse what the deletion leaves,
\* an association that repeats another without its class apart.
THEOREM DeletionsAreAccepted ==
  Spec => []DeletionsAccepted
<1>1. DocumentInv => DeletionsAccepted
  <2> SUFFICES ASSUME DocumentInv, NEW c \in Deletions(document),
                      Outcome(document, c, {}) = "INVALID_MODEL"
               PROVE  /\ c.type = "classifier.delete"
                      /\ \E r \in document.relationships :
                           r.associationClassId = c.elementId /\ Twin(r)
    BY DEF DeletionsAccepted
  <2>1. PICK n : n = Executed(document, c)
    OBVIOUS
  <2>2. n # Refused /\ ~Valid(n)
    BY <2>1, RefusedInvalid
  <2>3. n = Mutated(document, c)
    BY <2>1, <2>2, ExecutedIs
  <2>4. /\ c.type = "classifier.delete"
        /\ \E r \in document.relationships :
             r.associationClassId = c.elementId /\ HasTwin(document, r)
    BY <2>2, <2>3, DeletionsValid DEF DocumentInv
  <2> QED
    BY <2>4 DEF HasTwin, Twin
<1> QED
  BY <1>1, DocumentsStayValid, PTL

-----------------------------------------------------------------------------
(* Renames leave valid documents *)

\* The types of a classifier that follows a rename are its types, synced.
LEMMA SyncedTypes ==
  ASSUME NEW e, NEW id, NEW name, NEW g, ClassifierShape(e), g = SyncedClassifier(e, id, name)
  PROVE  /\ \A u \in TypesOf(g) : \E t \in TypesOf(e) : u = Synced(t, id, name)
         /\ \A t \in TypesOf(e) : Synced(t, id, name) \in TypesOf(g)
<1> DEFINE f == [t \in TypesOf(e) |-> Synced(t, id, name)]
<1>1. g = Retyped(e, f)
  BY DEF SyncedClassifier
<1>2. \A t \in TypesOf(e) : f[t] = Synced(t, id, name)
  OBVIOUS
<1> HIDE DEF f
<1>3. ASSUME NEW u \in TypesOf(g)
      PROVE  \E t \in TypesOf(e) : u = Synced(t, id, name)
  <2>1. PICK t \in TypesOf(e) : u = f[t]
    BY <1>1, TypesRetyped
  <2> QED
    BY <1>2, <2>1
<1>4. ASSUME NEW t \in TypesOf(e)
      PROVE  Synced(t, id, name) \in TypesOf(g)
  <2>1. f[t] \in TypesOf(g)
    BY <1>1, TypesRetyped
  <2> QED
    BY <1>2, <2>1
<1> QED
  BY <1>3, <1>4

\* What a classifier becomes when the one called id is renamed.
NamedAnew(x, id, m) == IF x.id = id THEN [x EXCEPT !.name = m] ELSE x
Follower(x, id, m) == SyncedClassifier(NamedAnew(x, id, m), id, m)

\* It keeps all but its name.
LEMMA NamedAnewIs ==
  ASSUME NEW x, NEW id, NEW m, NEW g, ClassifierShape(x), g = NamedAnew(x, id, m)
  PROVE  /\ ClassifierShape(g) /\ g.id = x.id /\ g.kind = x.kind
         /\ g.attributes = x.attributes /\ g.operations = x.operations /\ TypesOf(g) = TypesOf(x)
         /\ g.name = IF x.id = id THEN m ELSE x.name
<1>1. /\ ClassifierShape(g) /\ g.id = x.id /\ g.kind = x.kind
      /\ g.attributes = x.attributes /\ g.operations = x.operations
      /\ g.name = IF x.id = id THEN m ELSE x.name
  BY WithName DEF NamedAnew
<1>2. TypesOf(g) = TypesOf(x)
  BY <1>1 DEF TypesOf
<1> QED
  BY <1>1, <1>2

\* Its identifier, members and types after the rename.
LEMMA FollowerIs ==
  ASSUME NEW d, DiagramShape(d), UniqueIds(d), NEW x \in d.elements, NEW id, NEW m, NEW y,
         y = Follower(x, id, m)
  PROVE  /\ y.id = x.id /\ KeepsClassifier(x, y)
         /\ y.name = IF x.id = id THEN m ELSE x.name
         /\ \A u \in TypesOf(y) : \E t \in TypesOf(x) : u = Synced(t, id, m)
         /\ \A t \in TypesOf(x) : Synced(t, id, m) \in TypesOf(y)
<1>1. PICK g : g = NamedAnew(x, id, m)
  OBVIOUS
<1>2. ClassifierShape(x)
  BY Shapes
<1>3. /\ ClassifierShape(g) /\ g.id = x.id /\ g.kind = x.kind
      /\ g.attributes = x.attributes /\ g.operations = x.operations /\ TypesOf(g) = TypesOf(x)
      /\ g.name = IF x.id = id THEN m ELSE x.name
  BY <1>1, <1>2, NamedAnewIs
<1>4. y = SyncedClassifier(g, id, m)
  BY <1>1 DEF Follower
<1>5. y.id = g.id /\ y.name = g.name
  BY <1>3, <1>4, ClassifierSynced
<1>6. KeepsClassifier(x, y)
  <2>1. PICK f : y = Retyped(g, f)
    BY <1>4 DEF SyncedClassifier
  <2> QED
    BY <1>3, <2>1, KeepsRetyped
<1>7. /\ \A u \in TypesOf(y) : \E t \in TypesOf(g) : u = Synced(t, id, m)
      /\ \A t \in TypesOf(g) : Synced(t, id, m) \in TypesOf(y)
  BY <1>3, <1>4, SyncedTypes
<1> QED
  BY <1>3, <1>5, <1>6, <1>7

\* n is d after the rename, classifier by classifier.
IsRenamed(d, id, m, n) ==
  /\ \A y : y \in n.elements <=> \E x \in d.elements : y = Follower(x, id, m)
  /\ n.positions = d.positions /\ n.relationships = d.relationships

\* No other classifier has the name, and it is not blank.
IsFree(d, id, m) ==
  /\ \A x \in d.elements : x.id # id => Folded[x.name] # Folded[m]
  /\ Folded[m] # ""

\* The update of a classifier to another name makes that of the document.
LEMMA RenamedElements ==
  ASSUME NEW d, NEW id, NEW m, NEW e, NEW g, NEW n, DiagramShape(d), UniqueIds(d),
         e \in d.elements, e.id = id, g = [e EXCEPT !.name = m],
         n = UpdateClassifier(d, id, g), n # d, n # Refused
  PROVE  IsRenamed(d, id, m, n)
<1>1. ClassifierShape(e)
  BY Shapes
<1>2. ClassifierShape(g) /\ g.id = id /\ g.name = m
  BY <1>1, WithName
<1>3. Classifier(d, id) = e
  <2>1. \A x \in d.elements : x.id = id => x = e
    BY MembersOneEach
  <2> QED
    BY <2>1 DEF Classifier
<1>4. PICK w : w = WithClassifier(d, id, g)
  OBVIOUS
<1>5. w.elements = Replacing(d.elements, e, g) /\ w.positions = d.positions
      /\ w.relationships = d.relationships
  BY <1>3, <1>4, InPlace
<1>6. DiagramShape(w)
  BY <1>2, <1>4, InPlaceShape
<1>7. CASE e.name = m
  <2>1. g = e
    <3>1. e = [id |-> e.id, kind |-> e.kind, name |-> e.name,
               attributes |-> e.attributes, operations |-> e.operations]
      BY <1>1, Zenon DEF ClassifierShape
    <3> QED
      BY <1>7, <3>1
  <2>2. n = w
    BY <1>2, <1>3, <1>4, <1>7 DEF UpdateClassifier
  <2>3. w.elements = d.elements
    BY <1>5, <2>1 DEF Replacing
  <2>4. w = d
    <3>1. w = [elements |-> w.elements, positions |-> w.positions, relationships |-> w.relationships]
      BY <1>6, Shapes
    <3>2. d = [elements |-> d.elements, positions |-> d.positions, relationships |-> d.relationships]
      BY Shapes
    <3> QED
      BY <1>5, <2>3, <3>1, <3>2
  <2> QED
    BY <2>2, <2>4
<1>8. CASE e.name # m
  <2>1. n = NamesSynced(w, id, m)
    BY <1>2, <1>3, <1>4, <1>8 DEF UpdateClassifier
  <2>2. n.elements = {SyncedClassifier(x, id, m) : x \in w.elements}
        /\ n.positions = w.positions /\ n.relationships = w.relationships
    BY <1>6, <2>1, SyncedElements
  <2>3. \A y : y \in n.elements <=> \E v \in w.elements : y = SyncedClassifier(v, id, m)
    BY <2>2
  <2>4. \A v : v \in w.elements <=> \E x \in d.elements : v = NamedAnew(x, id, m)
    <3>1. \A v : v \in w.elements <=> (v \in d.elements /\ v # e) \/ v = g
      BY <1>5 DEF Replacing
    <3>2. NamedAnew(e, id, m) = g
      BY DEF NamedAnew
    <3>3. \A x \in d.elements : x # e => NamedAnew(x, id, m) = x
      BY MembersOneEach DEF NamedAnew
    <3> QED
      BY <3>1, <3>2, <3>3
  <2>5. \A y : y \in n.elements <=> \E x \in d.elements : y = Follower(x, id, m)
    BY <2>3, <2>4 DEF Follower
  <2> QED
    BY <1>5, <2>2, <2>5 DEF IsRenamed
<1> QED
  BY <1>7, <1>8

\* The document after a rename to a free name is valid, its types synced.
LEMMA RenamedValid ==
  ASSUME NEW d, NEW id, NEW m, NEW n, DiagramShape(d), Valid(d),
         IsRenamed(d, id, m, n), IsFree(d, id, m)
  PROVE  /\ Valid(n)
         /\ \A x \in d.elements : \A t \in TypesOf(x) :
              Synced(t, id, m) \in TypesOf(Classifier(n, x.id))
<1>1. UniqueIds(d) /\ NamesSound(d) /\ TypesResolve(d) /\ PositionsMatch(d) /\ RelationshipsSound(d)
  BY DEF Valid
<1>2. /\ \A y : y \in n.elements <=> \E x \in d.elements : y = Follower(x, id, m)
      /\ n.positions = d.positions /\ n.relationships = d.relationships
  BY DEF IsRenamed
<1>3. ASSUME NEW x \in d.elements, NEW y, y = Follower(x, id, m)
      PROVE  /\ y.id = x.id /\ KeepsClassifier(x, y)
             /\ y.name = IF x.id = id THEN m ELSE x.name
             /\ \A u \in TypesOf(y) : \E t \in TypesOf(x) : u = Synced(t, id, m)
             /\ \A t \in TypesOf(x) : Synced(t, id, m) \in TypesOf(y)
  BY <1>1, <1>3, FollowerIs
<1>4. \A x, z \in d.elements : x.id = z.id => x = z
  BY <1>1, MembersOneEach
<1>5. KeepsElements(d, n)
  <2>1. \A y \in n.elements : \E x \in d.elements : KeepsClassifier(x, y)
    BY <1>2, <1>3
  <2>2. ASSUME NEW y \in n.elements, NEW z \in n.elements, y.id = z.id
        PROVE  y = z
    <3>1. PICK v \in d.elements : y = Follower(v, id, m)
      BY <1>2
    <3>2. PICK w \in d.elements : z = Follower(w, id, m)
      BY <1>2
    <3>3. v.id = w.id
      BY <1>3, <2>2, <3>1, <3>2
    <3> QED
      BY <1>4, <3>1, <3>2, <3>3
  <2> QED
    BY <2>1, <2>2 DEF KeepsElements
<1>6. KeepsRelationships(d, n)
  BY <1>1, <1>2, KeepsOwnRelationships
<1>7. \A x \in d.elements : \E y \in n.elements :
        y = Follower(x, id, m) /\ y.id = x.id /\ y.name = IF x.id = id THEN m ELSE x.name
  BY <1>2, <1>3
<1>8. ElementIds(n) = ElementIds(d)
  <2>1. \A i : i \in ElementIds(n) <=> \E y \in n.elements : y.id = i
    BY DEF ElementIds
  <2>2. \A i : i \in ElementIds(d) <=> \E x \in d.elements : x.id = i
    BY DEF ElementIds
  <2>3. \A y \in n.elements : \E x \in d.elements : x.id = y.id
    BY <1>2, <1>3
  <2>4. \A x \in d.elements : \E y \in n.elements : y.id = x.id
    BY <1>7
  <2> QED
    BY <2>1, <2>2, <2>3, <2>4
<1>9. NamesDistinct(n.elements) /\ NotBlank(n.elements)
  <2>1. (\A x, z \in d.elements : Folded[x.name] = Folded[z.name] => x = z)
        /\ (\A x \in d.elements : Folded[x.name] # "")
    BY <1>1 DEF NamesSound, NamesDistinct, NotBlank
  <2>2. ASSUME NEW y \in n.elements
        PROVE  Folded[y.name] # ""
    <3>1. PICK x \in d.elements : y = Follower(x, id, m)
      BY <1>2
    <3>2. y.name = IF x.id = id THEN m ELSE x.name
      BY <1>3, <3>1
    <3> QED
      BY <2>1, <3>2 DEF IsFree
  <2>3. ASSUME NEW y \in n.elements, NEW z \in n.elements, Folded[y.name] = Folded[z.name]
        PROVE  y = z
    <3>1. PICK v \in d.elements : y = Follower(v, id, m)
      BY <1>2
    <3>2. PICK w \in d.elements : z = Follower(w, id, m)
      BY <1>2
    <3>3. y.name = (IF v.id = id THEN m ELSE v.name) /\ z.name = (IF w.id = id THEN m ELSE w.name)
      BY <1>3, <3>1, <3>2
    <3>4. v = w
      BY <1>4, <2>1, <2>3, <3>3 DEF IsFree
    <3> QED
      BY <3>1, <3>2, <3>4
  <2> QED
    BY <2>2, <2>3 DEF NamesDistinct, NotBlank
<1>10. ASSUME NEW y \in n.elements, NEW u \in TypesOf(y)
       PROVE  \E x \in d.elements : \E t \in TypesOf(x) :
                /\ u.elementId = t.elementId
                /\ u.name = IF t.elementId = id THEN m ELSE t.name
  <2>1. PICK x \in d.elements : y = Follower(x, id, m)
    BY <1>2
  <2>2. \A v \in TypesOf(y) : \E t \in TypesOf(x) : v = Synced(t, id, m)
    BY <1>3, <2>1
  <2>3. PICK t \in TypesOf(x) : u = Synced(t, id, m)
    BY <2>2
  <2>4. ReferenceShape(t)
    BY Shapes, TypesShaped
  <2>5. u.elementId = t.elementId /\ (t.elementId = id => u.name = m) /\ (t.elementId # id => u = t)
    BY <2>3, <2>4, ReferenceSynced
  <2> QED
    BY <2>5
<1>11. \A y \in n.elements : NotBlank(TypesOf(y))
  <2>1. \A x \in d.elements : \A t \in TypesOf(x) : Folded[t.name] # ""
    <3>1. \A x \in d.elements : NotBlank(Members(x) \cup TypesOf(x))
      BY <1>1 DEF NamesSound
    <3> QED
      BY <3>1 DEF NotBlank
  <2>2. ASSUME NEW y \in n.elements, NEW u \in TypesOf(y)
        PROVE  Folded[u.name] # ""
    <3>1. PICK x \in d.elements : \E t \in TypesOf(x) : u.name = IF t.elementId = id THEN m ELSE t.name
      BY <1>10
    <3> QED
      BY <2>1, <3>1 DEF IsFree
  <2> QED
    BY <2>2 DEF NotBlank
<1>12. TypesResolve(n)
  <2>1. ASSUME NEW y \in n.elements, NEW u \in TypesOf(y), u.elementId # None
        PROVE  \E f \in n.elements : f.id = u.elementId /\ f.name = u.name
    <3>1. PICK x \in d.elements : \E t \in TypesOf(x) :
                 u.elementId = t.elementId /\ u.name = IF t.elementId = id THEN m ELSE t.name
      BY <1>10
    <3>2. PICK t \in TypesOf(x) :
                 u.elementId = t.elementId /\ u.name = IF t.elementId = id THEN m ELSE t.name
      BY <3>1
    <3>3. PICK f \in d.elements : f.id = t.elementId /\ f.name = t.name
      BY <1>1, <2>1, <3>2 DEF TypesResolve
    <3>4. PICK h \in n.elements : h.id = f.id /\ h.name = IF f.id = id THEN m ELSE f.name
      BY <1>7
    <3> QED
      BY <3>2, <3>3, <3>4
  <2> QED
    BY <2>1 DEF TypesResolve
<1>13. PositionsMatch(n)
  BY <1>1, <1>2, <1>8 DEF PositionsMatch
<1>14. \A q \in n.relationships : RelationshipElements(q) \subseteq ElementIds(n)
  BY <1>1, <1>2, <1>8 DEF RelationshipsSound, RelationshipSound, AssociationClassSound, RelationshipElements
<1>15. \A q, s \in n.relationships : SameMeaning(q, s) => q = s
  BY <1>1, <1>2 DEF RelationshipsSound
<1>16. Valid(n)
  BY <1>5, <1>6, <1>9, <1>11, <1>12, <1>13, <1>14, <1>15, KeptValid
<1>17. ASSUME NEW x \in d.elements, NEW t \in TypesOf(x)
       PROVE  Synced(t, id, m) \in TypesOf(Classifier(n, x.id))
  <2>1. PICK y \in n.elements : y = Follower(x, id, m) /\ y.id = x.id
    BY <1>7
  <2>2. Synced(t, id, m) \in TypesOf(y)
    BY <1>3, <2>1
  <2>3. Classifier(n, x.id) = y
    BY <1>5, <2>1 DEF KeepsElements, Classifier
  <2> QED
    BY <2>2, <2>3
<1> QED
  BY <1>16, <1>17

\* What RenamesFollowed says of one rename.
RenameFollowed(d, c) ==
  /\ Valid(Executed(d, c))
  /\ \A x \in d.elements : \A t \in TypesOf(x) :
       t.elementId = c.elementId =>
         \E u \in TypesOf(Classifier(Executed(d, c), x.id)) : u = [t EXCEPT !.name = c.classifier.name]

\* A rename to a free name is valid, and followed.
LEMMA RenameFollows ==
  ASSUME NEW d, NEW c, DiagramShape(d), Valid(d), c \in Renames(d), Executed(d, c) # Refused,
         IsFree(d, c.elementId, c.classifier.name)
  PROVE  RenameFollowed(d, c)
<1>1. PICK e \in d.elements, m \in NewNames :
        c = [type |-> "classifier.update", elementId |-> e.id, classifier |-> [e EXCEPT !.name = m]]
  BY DEF Renames
<1>2. PICK g : g = [e EXCEPT !.name = m]
  OBVIOUS
<1>3. c.type = "classifier.update" /\ c.elementId = e.id /\ c.classifier = g
  BY <1>1, <1>2
<1>4. ClassifierShape(e)
  BY Shapes
<1>5. g.name = m
  BY <1>2, <1>4, WithName
<1>6. PICK n : n = Executed(d, c)
  OBVIOUS
<1>7. n # Refused /\ n = Mutated(d, c) /\ n # d
  BY <1>6, ExecutedIs
<1>8. n = UpdateClassifier(d, e.id, g)
  BY <1>3, <1>7, Mutations
<1>9. IsFree(d, e.id, m)
  BY <1>3, <1>5
<1>10. UniqueIds(d)
  BY DEF Valid
<1>11. PICK id : id = e.id
  OBVIOUS
<1>12. IsRenamed(d, id, m, n)
  BY <1>2, <1>7, <1>8, <1>10, <1>11, RenamedElements
<1>13. /\ Valid(n)
       /\ \A x \in d.elements : \A t \in TypesOf(x) : Synced(t, id, m) \in TypesOf(Classifier(n, x.id))
  BY <1>9, <1>11, <1>12, RenamedValid
<1>14. ASSUME NEW x \in d.elements, NEW t \in TypesOf(x), t.elementId = c.elementId
       PROVE  \E u \in TypesOf(Classifier(n, x.id)) : u = [t EXCEPT !.name = c.classifier.name]
  <2>1. Synced(t, id, m) = [t EXCEPT !.name = m]
    BY <1>3, <1>11, <1>14 DEF Synced
  <2> QED
    BY <1>3, <1>5, <1>13, <2>1
<1> QED
  BY <1>6, <1>13, <1>14 DEF RenameFollowed

\* A classifier can be renamed to any name that is free and not blank, and every type
\* that names it says the new name: no document keeps a stale one.
THEOREM RenamesAreFollowed ==
  Spec => []RenamesFollowed
<1>1. DocumentInv => RenamesFollowed
  <2>1. ASSUME DocumentInv, NEW c \in Renames(document), Executed(document, c) # Refused,
               IsFree(document, c.elementId, c.classifier.name)
        PROVE  RenameFollowed(document, c)
    BY <2>1, RenameFollows DEF DocumentInv
  <2> QED
    BY <2>1 DEF RenamesFollowed, IsFree, RenameFollowed
<1> QED
  BY <1>1, DocumentsStayValid, PTL

-----------------------------------------------------------------------------
(* The identifiers of an exported document *)

\* The classifier of an association class is hashed from the identifier of
\* the association, every other from its own.
LEMMA ClassHash ==
  ASSUME NEW x
  PROVE  <<"classifier">> \o <<"relationship", x>> = <<"classifier", "relationship", x>>
<1> DEFINE S == {"classifier", "relationship", x}
           s == <<"classifier">>
           t == <<"relationship", x>>
           u == <<"classifier", "relationship", x>>
<1>1. s \in Seq(S) /\ t \in Seq(S) /\ u \in Seq(S)
  OBVIOUS
<1>2. Len(s) = 1 /\ Len(t) = 2 /\ Len(u) = 3
  OBVIOUS
<1>3. s[1] = "classifier" /\ t[1] = "relationship" /\ t[2] = x
      /\ u[1] = "classifier" /\ u[2] = "relationship" /\ u[3] = x
  OBVIOUS
<1>4. s \o t \in Seq(S) /\ Len(s \o t) = 3
      /\ (s \o t)[1] = "classifier" /\ (s \o t)[2] = "relationship" /\ (s \o t)[3] = x
  BY <1>1, <1>2, <1>3, ConcatProperties
<1>5. \A i \in 1..3 : (s \o t)[i] = u[i]
  BY <1>3, <1>4
<1> HIDE DEF S, s, t, u
<1>6. s \o t = u
  BY <1>1, <1>2, <1>4, <1>5, SeqEqual
<1> QED
  BY <1>6 DEF s, t, u

\* canonicalId hashes the identifiers of an exported file.
LEMMA CanonicalIds ==
  ASSUME NEW x
  PROVE  /\ CanonicalId("classifier", <<"classifier", x>>) = <<"classifier", x>>
         /\ CanonicalId("classifier", <<"relationship", x>>) = <<"classifier", "relationship", x>>
         /\ CanonicalId("relationship", <<"relationship", x>>) = <<"relationship", x>>
         /\ CanonicalId("attribute", <<"attribute", x>>) = <<"attribute", x>>
         /\ CanonicalId("operation", <<"operation", x>>) = <<"operation", x>>
         /\ CanonicalId("parameter", <<"parameter", x>>) = <<"parameter", x>>
BY ClassHash DEF CanonicalId

\* The association that owns a class.
Owning(d, id, r) == r \in d.relationships /\ r.associationClassId = id /\ r.kind = "association"

\* A class is owned by one association, and written under its identifier.
LEMMA XmiIds ==
  ASSUME NEW d, Valid(d), NEW id, id # None
  PROVE  /\ \A r \in Owners(d, id) : Owning(d, id, r) /\ Owners(d, id) = {r}
                                    /\ ElementXmiId(d, id) = <<"relationship", r.id>>
         /\ Owners(d, id) = {} => ElementXmiId(d, id) = <<"classifier", id>>
<1>1. ASSUME NEW r \in Owners(d, id)
      PROVE  Owning(d, id, r) /\ Owners(d, id) = {r} /\ ElementXmiId(d, id) = <<"relationship", r.id>>
  <2>1. r \in d.relationships /\ r.associationClassId = id
    BY DEF Owners
  <2>2. AssociationClassSound(d, r)
    BY <2>1 DEF Valid, RelationshipsSound
  <2>3. r.kind = "association" /\ \A s \in d.relationships : s.associationClassId = id => s = r
    BY <2>1, <2>2 DEF AssociationClassSound
  <2>4. Owners(d, id) = {r}
    BY <2>1, <2>3 DEF Owners
  <2>5. (CHOOSE s \in Owners(d, id) : TRUE) = r
    BY <2>4
  <2> QED
    BY <2>1, <2>3, <2>4, <2>5 DEF Owning, ElementXmiId
<1>2. ASSUME Owners(d, id) = {}
      PROVE  ElementXmiId(d, id) = <<"classifier", id>>
  BY <1>2 DEF ElementXmiId
<1> QED
  BY <1>1, <1>2

\* What a classifier is called after the import.
NewId(d, id) == CanonicalId("classifier", ElementXmiId(d, id))

\* The class of an association is called anew after the association, any other
\* classifier after itself.
LEMMA NewIds ==
  ASSUME NEW d, Valid(d), NEW id, id # None
  PROVE  /\ \A r \in Owners(d, id) : NewId(d, id) = <<"classifier", "relationship", r.id>>
         /\ Owners(d, id) = {} => NewId(d, id) = <<"classifier", id>>
<1>1. ASSUME NEW r \in Owners(d, id)
      PROVE  NewId(d, id) = <<"classifier", "relationship", r.id>>
  <2>1. ElementXmiId(d, id) = <<"relationship", r.id>>
    BY XmiIds
  <2> QED
    BY <2>1, CanonicalIds DEF NewId
<1>2. ASSUME Owners(d, id) = {}
      PROVE  NewId(d, id) = <<"classifier", id>>
  <2>1. ElementXmiId(d, id) = <<"classifier", id>>
    BY <1>2, XmiIds
  <2> QED
    BY <2>1, CanonicalIds DEF NewId
<1> QED
  BY <1>1, <1>2

\* No two relationships have one identifier.
LEMMA RelationshipsOneEach ==
  ASSUME NEW d, Valid(d), NEW r \in d.relationships, NEW s \in d.relationships, r.id = s.id
  PROVE  r = s
BY ValidOneEach DEF OneEach

\* Different classifiers are written and called differently.
LEMMA IdsDiffer ==
  ASSUME NEW d, Valid(d), NEW id, NEW jd, id # None, jd # None
  PROVE  /\ ElementXmiId(d, id) = ElementXmiId(d, jd) => id = jd
         /\ NewId(d, id) = NewId(d, jd) => id = jd
<1>1. CASE Owners(d, id) = {} /\ Owners(d, jd) = {}
  BY <1>1, XmiIds, NewIds
<1>2. ASSUME NEW r \in Owners(d, id), Owners(d, jd) = {}
      PROVE  ElementXmiId(d, id) # ElementXmiId(d, jd) /\ NewId(d, id) # NewId(d, jd)
  <2>1. ElementXmiId(d, id) = <<"relationship", r.id>> /\ ElementXmiId(d, jd) = <<"classifier", jd>>
    BY <1>2, XmiIds
  <2>2. NewId(d, id) = <<"classifier", "relationship", r.id>> /\ NewId(d, jd) = <<"classifier", jd>>
    BY <1>2, NewIds
  <2> QED
    BY <2>1, <2>2
<1>3. ASSUME NEW r \in Owners(d, jd), Owners(d, id) = {}
      PROVE  ElementXmiId(d, id) # ElementXmiId(d, jd) /\ NewId(d, id) # NewId(d, jd)
  <2>1. ElementXmiId(d, jd) = <<"relationship", r.id>> /\ ElementXmiId(d, id) = <<"classifier", id>>
    BY <1>3, XmiIds
  <2>2. NewId(d, jd) = <<"classifier", "relationship", r.id>> /\ NewId(d, id) = <<"classifier", id>>
    BY <1>3, NewIds
  <2> QED
    BY <2>1, <2>2
<1>4. ASSUME NEW r \in Owners(d, id), NEW s \in Owners(d, jd),
             ElementXmiId(d, id) = ElementXmiId(d, jd) \/ NewId(d, id) = NewId(d, jd)
      PROVE  id = jd
  <2>1. ElementXmiId(d, id) = <<"relationship", r.id>> /\ ElementXmiId(d, jd) = <<"relationship", s.id>>
    BY XmiIds
  <2>2. NewId(d, id) = <<"classifier", "relationship", r.id>>
        /\ NewId(d, jd) = <<"classifier", "relationship", s.id>>
    BY NewIds
  <2>3. r.id = s.id
    BY <1>4, <2>1, <2>2
  <2>4. Owning(d, id, r) /\ Owning(d, jd, s)
    BY XmiIds
  <2> QED
    BY <2>3, <2>4, RelationshipsOneEach DEF Owning
<1> QED
  BY <1>1, <1>2, <1>3, <1>4

-----------------------------------------------------------------------------
(* What an exported file holds *)

\* The elements of a file, by what they are written from.
FromDataType(d, t) == \E n \in NonStandardTypes(d) : t = WrittenDataType(n)
FromClassifier(d, t) == \E e \in d.elements : Owners(d, e.id) = {} /\ t = WrittenClassifier(d, e)
FromAttribute(d, t) ==
  \E e \in d.elements : \E a \in e.attributes : t = WrittenAttribute(d, ElementXmiId(d, e.id), a)
FromOperation(d, t) ==
  \E e \in d.elements : \E o \in e.operations : t = WrittenSignature(ElementXmiId(d, e.id), o)
FromReturn(d, t) == \E e \in d.elements : \E o \in e.operations : t = WrittenReturn(d, o)
FromInput(d, t) ==
  \E e \in d.elements : \E o \in e.operations : \E p \in o.parameters : t = WrittenInput(d, o, p)
FromEnd(d, t) ==
  \E r \in d.relationships : ~Directed(r) /\ t \in {WrittenSource(d, r), WrittenTarget(d, r)}

\* The element of a relationship.
WrittenRelationship(d, r) ==
  CASE r.kind = "generalization" ->
         WrittenWithin(d, ElementXmiId(d, r.source.elementId), "generalization", r)
    [] r.kind = "realization" ->
         WrittenWithin(d, ElementXmiId(d, r.source.elementId), "interfaceRealization", r)
    [] r.kind = "dependency" -> WrittenDependency(d, r)
    [] OTHER -> IF r.associationClassId = None THEN WrittenPlain(d, r) ELSE WrittenWithClass(d, r)
FromRelationship(d, t) == \E r \in d.relationships : t = WrittenRelationship(d, r)

\* The element of each kind of relationship.
LEMMA WrittenRelationships ==
  ASSUME NEW d, NEW r, r.kind \in RelationshipKind
  PROVE  /\ r.kind = "generalization" => WrittenRelationship(d, r)
              = WrittenWithin(d, ElementXmiId(d, r.source.elementId), "generalization", r)
         /\ r.kind = "realization" => WrittenRelationship(d, r)
              = WrittenWithin(d, ElementXmiId(d, r.source.elementId), "interfaceRealization", r)
         /\ r.kind = "dependency" => WrittenRelationship(d, r) = WrittenDependency(d, r)
         /\ ~Directed(r) => WrittenRelationship(d, r)
              = IF r.associationClassId = None THEN WrittenPlain(d, r) ELSE WrittenWithClass(d, r)
         /\ Directed(r) <=> r.kind \in {"generalization", "realization", "dependency"}
BY DEF WrittenRelationship, Directed, Hierarchies, RelationshipKind

\* A relationship of a valid document starts at a classifier of it.
LEMMA EndsInDocument ==
  ASSUME NEW d, Valid(d), NEW r \in d.relationships
  PROVE  /\ \E e \in d.elements : e.id = r.source.elementId
         /\ \E e \in d.elements : e.id = r.target.elementId
BY DEF Valid, RelationshipsSound, RelationshipSound, Ends, ElementIds

\* What is written of a classifier.
FromContents(d, e, t) ==
  \/ \E a \in e.attributes : t = WrittenAttribute(d, ElementXmiId(d, e.id), a)
  \/ \E o \in e.operations : \/ t = WrittenSignature(ElementXmiId(d, e.id), o)
                             \/ t = WrittenReturn(d, o)
                             \/ \E p \in o.parameters : t = WrittenInput(d, o, p)
  \/ \E r \in d.relationships :
       /\ r.source.elementId = e.id
       /\ \/ /\ r.kind = "generalization"
             /\ t = WrittenWithin(d, ElementXmiId(d, e.id), "generalization", r)
          \/ /\ r.kind = "realization"
             /\ t = WrittenWithin(d, ElementXmiId(d, e.id), "interfaceRealization", r)

\* writeClassifier writes these and nothing else.
LEMMA ContentsAre ==
  ASSUME NEW d, NEW e, NEW t
  PROVE  t \in WrittenContents(d, e) <=> FromContents(d, e, t)
<1> DEFINE id == ElementXmiId(d, e.id)
           A == {WrittenAttribute(d, id, a) : a \in e.attributes}
           O == UNION {WrittenOperation(d, id, o) : o \in e.operations}
           within(tag, kind) ==
             {WrittenWithin(d, id, tag, r) :
                r \in {x \in d.relationships : x.kind = kind /\ x.source.elementId = e.id}}
           G == within("generalization", "generalization")
           R == within("interfaceRealization", "realization")
<1>1. t \in A <=> \E a \in e.attributes : t = WrittenAttribute(d, id, a)
  BY Zenon
<1>2. t \in O <=> \E o \in e.operations : \/ t = WrittenSignature(id, o)
                                          \/ t = WrittenReturn(d, o)
                                          \/ \E p \in o.parameters : t = WrittenInput(d, o, p)
  <2>1. t \in O <=> \E o \in e.operations : t \in WrittenOperation(d, id, o)
    BY Zenon
  <2>2. ASSUME NEW o
        PROVE  t \in WrittenOperation(d, id, o) <=>
                 \/ t = WrittenSignature(id, o) \/ t = WrittenReturn(d, o)
                 \/ \E p \in o.parameters : t = WrittenInput(d, o, p)
    BY Zenon DEF WrittenOperation
  <2> HIDE DEF O, id
  <2> QED
    BY <2>1, <2>2, Zenon
<1>3. t \in G <=> \E r \in d.relationships : /\ r.kind = "generalization" /\ r.source.elementId = e.id
                                            /\ t = WrittenWithin(d, id, "generalization", r)
  BY Zenon
<1>4. t \in R <=> \E r \in d.relationships : /\ r.kind = "realization" /\ r.source.elementId = e.id
                                            /\ t = WrittenWithin(d, id, "interfaceRealization", r)
  BY Zenon
<1>5. WrittenContents(d, e) = A \cup O \cup G \cup R
  BY Zenon DEF WrittenContents
<1> HIDE DEF A, O, G, R, within
<1>6. t \in WrittenContents(d, e) <=> t \in A \/ t \in O \/ t \in G \/ t \in R
  BY <1>5
<1> QED
  BY <1>1, <1>2, <1>3, <1>4, <1>6, Zenon DEF FromContents

\* writeAssociation writes the two ends and the element that names them.
LEMMA AssociationsAre ==
  ASSUME NEW d, NEW r, NEW t
  PROVE  t \in WrittenAssociation(d, r) <=>
           \/ t \in {WrittenSource(d, r), WrittenTarget(d, r)}
           \/ t = IF r.associationClassId = None THEN WrittenPlain(d, r) ELSE WrittenWithClass(d, r)
BY Zenon DEF WrittenAssociation

\* The export writes data types, classifiers and their contents, associations and
\* dependencies.
LEMMA ExportedAre ==
  ASSUME NEW d, NEW t
  PROVE  t \in Exported(d) <=>
           \/ FromDataType(d, t) \/ FromClassifier(d, t)
           \/ \E e \in d.elements : FromContents(d, e, t)
           \/ \E r \in d.relationships : ~Directed(r) /\ t \in WrittenAssociation(d, r)
           \/ \E r \in d.relationships : r.kind = "dependency" /\ t = WrittenDependency(d, r)
<1> DEFINE A == {WrittenDataType(n) : n \in NonStandardTypes(d)}
           B == {WrittenClassifier(d, e) : e \in {x \in d.elements : Owners(d, x.id) = {}}}
           C == UNION {WrittenContents(d, e) : e \in d.elements}
           D == UNION {WrittenAssociation(d, r) : r \in {x \in d.relationships : ~Directed(x)}}
           E == {WrittenDependency(d, r) : r \in {x \in d.relationships : x.kind = "dependency"}}
<1>1. t \in A <=> FromDataType(d, t)
  BY Zenon DEF FromDataType
<1>2. t \in B <=> FromClassifier(d, t)
  BY Zenon DEF FromClassifier
<1>3. t \in C <=> \E e \in d.elements : FromContents(d, e, t)
  <2>1. t \in C <=> \E e \in d.elements : t \in WrittenContents(d, e)
    BY Zenon
  <2> QED
    BY <2>1, ContentsAre
<1>4. t \in D <=> \E r \in d.relationships : ~Directed(r) /\ t \in WrittenAssociation(d, r)
  BY Zenon
<1>5. t \in E <=> \E r \in d.relationships : r.kind = "dependency" /\ t = WrittenDependency(d, r)
  BY Zenon
<1>6. Exported(d) = A \cup B \cup C \cup D \cup E
  BY Zenon DEF Exported
<1> HIDE DEF A, B, C, D, E
<1>7. t \in Exported(d) <=> t \in A \/ t \in B \/ t \in C \/ t \in D \/ t \in E
  BY <1>6
<1> QED
  BY <1>1, <1>2, <1>3, <1>4, <1>5, <1>7

\* A file is what is written of data types, classifiers, members, ends and
\* relationships, and nothing else.
LEMMA InFile ==
  ASSUME NEW d, DiagramShape(d), Valid(d), NEW t
  PROVE  t \in Exported(d) <=>
           \/ FromDataType(d, t) \/ FromClassifier(d, t) \/ FromAttribute(d, t)
           \/ FromOperation(d, t) \/ FromReturn(d, t) \/ FromInput(d, t)
           \/ FromEnd(d, t) \/ FromRelationship(d, t)
<1>1. \A r \in d.relationships : r.kind \in RelationshipKind
  BY Shapes, Zenon DEF RelationshipShape
<1>2. ASSUME NEW e \in d.elements, FromContents(d, e, t)
      PROVE  \/ FromAttribute(d, t) \/ FromOperation(d, t) \/ FromReturn(d, t)
             \/ FromInput(d, t) \/ FromRelationship(d, t)
  <2>1. CASE \E a \in e.attributes : t = WrittenAttribute(d, ElementXmiId(d, e.id), a)
    BY <2>1, Zenon DEF FromAttribute
  <2>2. CASE \E o \in e.operations : t = WrittenSignature(ElementXmiId(d, e.id), o)
    BY <2>2, Zenon DEF FromOperation
  <2>3. CASE \E o \in e.operations : t = WrittenReturn(d, o)
    BY <2>3, Zenon DEF FromReturn
  <2>4. CASE \E o \in e.operations : \E p \in o.parameters : t = WrittenInput(d, o, p)
    BY <2>4, Zenon DEF FromInput
  <2>5. ASSUME NEW r \in d.relationships, r.source.elementId = e.id,
               \/ /\ r.kind = "generalization"
                  /\ t = WrittenWithin(d, ElementXmiId(d, e.id), "generalization", r)
               \/ /\ r.kind = "realization"
                  /\ t = WrittenWithin(d, ElementXmiId(d, e.id), "interfaceRealization", r)
        PROVE  FromRelationship(d, t)
    <3>1. t = WrittenRelationship(d, r)
      BY <1>1, <2>5, WrittenRelationships
    <3> QED
      BY <3>1 DEF FromRelationship
  <2> QED
    BY <1>2, <2>1, <2>2, <2>3, <2>4, <2>5 DEF FromContents
<1>3. ASSUME NEW r \in d.relationships, ~Directed(r), t \in WrittenAssociation(d, r)
      PROVE  FromEnd(d, t) \/ FromRelationship(d, t)
  <2>1. CASE t \in {WrittenSource(d, r), WrittenTarget(d, r)}
    BY <1>3, <2>1 DEF FromEnd
  <2>2. CASE t = IF r.associationClassId = None THEN WrittenPlain(d, r) ELSE WrittenWithClass(d, r)
    <3>1. t = WrittenRelationship(d, r)
      BY <1>1, <1>3, <2>2, WrittenRelationships
    <3> QED
      BY <3>1 DEF FromRelationship
  <2> QED
    BY <1>3, <2>1, <2>2, AssociationsAre
<1>4. ASSUME NEW r \in d.relationships, r.kind = "dependency", t = WrittenDependency(d, r)
      PROVE  FromRelationship(d, t)
  <2>1. t = WrittenRelationship(d, r)
    BY <1>1, <1>4, WrittenRelationships
  <2> QED
    BY <2>1 DEF FromRelationship
<1>5. ASSUME FromAttribute(d, t) \/ FromOperation(d, t) \/ FromReturn(d, t) \/ FromInput(d, t)
      PROVE  \E e \in d.elements : FromContents(d, e, t)
  BY <1>5, Zenon DEF FromAttribute, FromOperation, FromReturn, FromInput, FromContents
<1>6. ASSUME FromEnd(d, t)
      PROVE  \E r \in d.relationships : ~Directed(r) /\ t \in WrittenAssociation(d, r)
  BY <1>6, AssociationsAre, Zenon DEF FromEnd
<1>7. ASSUME FromRelationship(d, t)
      PROVE  \/ \E e \in d.elements : FromContents(d, e, t)
             \/ \E r \in d.relationships : ~Directed(r) /\ t \in WrittenAssociation(d, r)
             \/ \E r \in d.relationships : r.kind = "dependency" /\ t = WrittenDependency(d, r)
  <2>1. PICK r \in d.relationships : t = WrittenRelationship(d, r)
    BY <1>7 DEF FromRelationship
  <2>2. PICK e \in d.elements : e.id = r.source.elementId
    BY EndsInDocument
  <2>3. CASE r.kind = "generalization"
    <3>1. t = WrittenWithin(d, ElementXmiId(d, e.id), "generalization", r)
      BY <1>1, <2>1, <2>2, <2>3, WrittenRelationships
    <3>2. FromContents(d, e, t)
      BY <2>2, <2>3, <3>1, Zenon DEF FromContents
    <3> QED
      BY <3>2
  <2>4. CASE r.kind = "realization"
    <3>1. t = WrittenWithin(d, ElementXmiId(d, e.id), "interfaceRealization", r)
      BY <1>1, <2>1, <2>2, <2>4, WrittenRelationships
    <3>2. FromContents(d, e, t)
      BY <2>2, <2>4, <3>1, Zenon DEF FromContents
    <3> QED
      BY <3>2
  <2>5. CASE r.kind = "dependency"
    BY <1>1, <2>1, <2>5, WrittenRelationships
  <2>6. CASE ~Directed(r)
    <3>1. t = IF r.associationClassId = None THEN WrittenPlain(d, r) ELSE WrittenWithClass(d, r)
      BY <1>1, <2>1, <2>6, WrittenRelationships
    <3>2. t \in WrittenAssociation(d, r)
      BY <3>1, AssociationsAre
    <3> QED
      BY <2>6, <3>2
  <2> QED
    BY <1>1, <2>3, <2>4, <2>5, <2>6, WrittenRelationships
<1> QED
  BY <1>2, <1>3, <1>4, <1>5, <1>6, <1>7, ExportedAre

\* The tags tell what an element is written from.
LEMMA Tags ==
  ASSUME NEW d, DiagramShape(d), NEW t
  PROVE  /\ FromDataType(d, t) => t.tag = "packagedElement" /\ t.type = "datatype"
         /\ FromClassifier(d, t) => t.tag = "packagedElement" /\ t.type \in {"class", "interface"}
         /\ FromAttribute(d, t) => t.tag = "ownedAttribute"
         /\ FromOperation(d, t) => t.tag = "ownedOperation"
         /\ FromReturn(d, t) => t.tag = "ownedParameter" /\ t.direction = "return"
         /\ FromInput(d, t) => t.tag = "ownedParameter" /\ t.direction = "in"
         /\ FromEnd(d, t) => t.tag = "ownedEnd"
<1>1. FromDataType(d, t) => t.tag = "packagedElement" /\ t.type = "datatype"
  BY DEF FromDataType, WrittenDataType
<1>2. FromClassifier(d, t) => t.tag = "packagedElement" /\ t.type \in {"class", "interface"}
  <2>1. \A e \in d.elements : e.kind \in {"class", "interface"}
    BY Shapes, Zenon DEF ClassifierShape
  <2> QED
    BY <2>1 DEF FromClassifier, WrittenClassifier
<1>3. FromAttribute(d, t) => t.tag = "ownedAttribute"
  BY DEF FromAttribute, WrittenAttribute
<1>4. FromOperation(d, t) => t.tag = "ownedOperation"
  BY DEF FromOperation, WrittenSignature
<1>5. FromReturn(d, t) => t.tag = "ownedParameter" /\ t.direction = "return"
  BY DEF FromReturn, WrittenReturn, WrittenParameter
<1>6. FromInput(d, t) => t.tag = "ownedParameter" /\ t.direction = "in"
  BY DEF FromInput, WrittenInput, WrittenParameter
<1>7. FromEnd(d, t) => t.tag = "ownedEnd"
  BY DEF FromEnd, WrittenSource, WrittenTarget, WrittenEnd
<1> QED
  BY <1>1, <1>2, <1>3, <1>4, <1>5, <1>6, <1>7

\* The tag of the element of a relationship, and its type in a package.
LEMMA RelationshipTags ==
  ASSUME NEW d, NEW r, r.kind \in RelationshipKind, NEW t, t = WrittenRelationship(d, r)
  PROVE  /\ t.id = <<"relationship", r.id>>
         /\ r.kind = "generalization" => t.tag = "generalization"
         /\ r.kind = "realization" => t.tag = "interfaceRealization"
         /\ r.kind = "dependency" => t.tag = "packagedElement" /\ t.type = "dependency"
         /\ ~Directed(r) =>
              /\ t.tag = "packagedElement"
              /\ t.type = IF r.associationClassId = None THEN "association" ELSE "associationclass"
<1>1. CASE r.kind = "generalization"
  BY <1>1, WrittenRelationships DEF WrittenWithin
<1>2. CASE r.kind = "realization"
  BY <1>2, WrittenRelationships DEF WrittenWithin
<1>3. CASE r.kind = "dependency"
  BY <1>3, WrittenRelationships DEF WrittenDependency
<1>4. CASE ~Directed(r) /\ r.associationClassId = None
  <2>1. t = WrittenPlain(d, r)
    BY <1>4, WrittenRelationships
  <2>2. t.id = <<"relationship", r.id>> /\ t.tag = "packagedElement" /\ t.type = "association"
    BY <2>1 DEF WrittenPlain
  <2> QED
    BY <1>4, <2>2, WrittenRelationships
<1>5. CASE ~Directed(r) /\ r.associationClassId # None
  <2>1. t = WrittenWithClass(d, r)
    BY <1>5, WrittenRelationships
  <2>2. t.id = <<"relationship", r.id>> /\ t.tag = "packagedElement" /\ t.type = "associationclass"
    BY <2>1 DEF WrittenWithClass
  <2> QED
    BY <1>5, <2>2, WrittenRelationships
<1> QED
  BY <1>1, <1>2, <1>3, <1>4, <1>5, WrittenRelationships

\* The kinds of relationship.
LEMMA KindsOf ==
  ASSUME NEW d, DiagramShape(d), NEW r \in d.relationships
  PROVE  r.kind \in RelationshipKind
BY Shapes, Zenon DEF RelationshipShape

\* The members and the ends of a file.
LEMMA MembersInFile ==
  ASSUME NEW d, DiagramShape(d), Valid(d), NEW t
  PROVE  /\ t \in Tagged(Exported(d), "ownedAttribute") <=> FromAttribute(d, t)
         /\ t \in Tagged(Exported(d), "ownedOperation") <=> FromOperation(d, t)
         /\ t \in Tagged(Exported(d), "ownedParameter") <=> FromReturn(d, t) \/ FromInput(d, t)
         /\ t \in Tagged(Exported(d), "ownedEnd") <=> FromEnd(d, t)
<1>1. FromRelationship(d, t) =>
        t.tag \in {"generalization", "interfaceRealization", "packagedElement"}
  <2>1. ASSUME NEW r \in d.relationships, t = WrittenRelationship(d, r)
        PROVE  t.tag \in {"generalization", "interfaceRealization", "packagedElement"}
    BY <2>1, KindsOf, RelationshipTags, WrittenRelationships
  <2> QED
    BY <2>1 DEF FromRelationship
<1> QED
  BY <1>1, InFile, Tags DEF Tagged

\* The packaged elements of a file.
LEMMA PackagedInFile ==
  ASSUME NEW d, DiagramShape(d), Valid(d), NEW t
  PROVE  t \in Tagged(Exported(d), "packagedElement") <=>
           \/ FromDataType(d, t) \/ FromClassifier(d, t)
           \/ \E r \in d.relationships : /\ ~Directed(r) \/ r.kind = "dependency"
                                         /\ t = WrittenRelationship(d, r)
<1>1. ASSUME NEW r \in d.relationships, t = WrittenRelationship(d, r)
      PROVE  t.tag = "packagedElement" <=> ~Directed(r) \/ r.kind = "dependency"
  BY <1>1, KindsOf, RelationshipTags, WrittenRelationships
<1>2. ASSUME NEW r \in d.relationships, t = WrittenRelationship(d, r)
      PROVE  FromRelationship(d, t)
  BY <1>2 DEF FromRelationship
<1>3. ASSUME FromRelationship(d, t), t.tag = "packagedElement"
      PROVE  \E r \in d.relationships : /\ ~Directed(r) \/ r.kind = "dependency"
                                        /\ t = WrittenRelationship(d, r)
  BY <1>1, <1>3 DEF FromRelationship
<1>4. ASSUME t \in Exported(d), t.tag = "packagedElement"
      PROVE  FromDataType(d, t) \/ FromClassifier(d, t) \/ FromRelationship(d, t)
  BY <1>4, InFile, Tags
<1>5. ASSUME FromDataType(d, t) \/ FromClassifier(d, t)
      PROVE  t \in Exported(d) /\ t.tag = "packagedElement"
  BY <1>5, InFile, Tags
<1>6. ASSUME NEW r \in d.relationships, ~Directed(r) \/ r.kind = "dependency",
             t = WrittenRelationship(d, r)
      PROVE  t \in Exported(d) /\ t.tag = "packagedElement"
  BY <1>1, <1>2, <1>6, InFile
<1> QED
  BY <1>3, <1>4, <1>5, <1>6 DEF Tagged

\* The data types and the associations of a file, and what it has not.
LEMMA TypesInFile ==
  ASSUME NEW d, DiagramShape(d), Valid(d), NEW t
  PROVE  /\ t \in RawDataTypes(Exported(d)) <=> FromDataType(d, t)
         /\ t \in RawAssociations(Exported(d)) <=>
              \E r \in d.relationships : ~Directed(r) /\ t = WrittenRelationship(d, r)
         /\ t \in Packaged(Exported(d), {"dependency"}) <=>
              \E r \in d.relationships : r.kind = "dependency" /\ t = WrittenRelationship(d, r)
         /\ t \in Tagged(Exported(d), "packagedElement") => t.type \in SupportedTypes \ {"package"}
         /\ t \notin Packaged(Exported(d), {"package"})
         /\ t \notin Packaged(Exported(d), {"realization"})
<1> DEFINE ours(r) == r \in d.relationships /\ t = WrittenRelationship(d, r)
<1>1. \A r : ours(r) =>
        /\ r.kind = "dependency" => t.type = "dependency" /\ Directed(r)
        /\ ~Directed(r) => t.type \in {"association", "associationclass"}
  BY KindsOf, RelationshipTags, WrittenRelationships
<1>2. /\ FromDataType(d, t) => t.type = "datatype"
      /\ FromClassifier(d, t) => t.type \in {"class", "interface"}
  BY Tags
<1>3. t \in Tagged(Exported(d), "packagedElement") <=>
        \/ FromDataType(d, t) \/ FromClassifier(d, t)
        \/ \E r : ours(r) /\ (~Directed(r) \/ r.kind = "dependency")
  BY PackagedInFile
<1> HIDE DEF ours
<1>4. t \in RawDataTypes(Exported(d)) <=> FromDataType(d, t)
  BY <1>1, <1>2, <1>3 DEF RawDataTypes, Packaged
<1>5. t \in RawAssociations(Exported(d)) <=> \E r : ours(r) /\ ~Directed(r)
  BY <1>1, <1>2, <1>3 DEF RawAssociations, Packaged
<1>6. t \in Packaged(Exported(d), {"dependency"}) <=> \E r : ours(r) /\ r.kind = "dependency"
  BY <1>1, <1>2, <1>3 DEF Packaged
<1>7. t \in Tagged(Exported(d), "packagedElement") => t.type \in SupportedTypes \ {"package"}
  BY <1>1, <1>2, <1>3 DEF SupportedTypes
<1>8. t \notin Packaged(Exported(d), {"package"}) /\ t \notin Packaged(Exported(d), {"realization"})
  BY <1>1, <1>2, <1>3 DEF Packaged
<1> QED
  BY <1>4, <1>5, <1>6, <1>7, <1>8 DEF ours

\* The relationships written within a classifier.
LEMMA WithinFile ==
  ASSUME NEW d, DiagramShape(d), Valid(d), NEW t
  PROVE  /\ t \in Tagged(Exported(d), "generalization") <=>
              \E r \in d.relationships : r.kind = "generalization" /\ t = WrittenRelationship(d, r)
         /\ t \in Tagged(Exported(d), "interfaceRealization") <=>
              \E r \in d.relationships : r.kind = "realization" /\ t = WrittenRelationship(d, r)
<1> DEFINE ours(r) == r \in d.relationships /\ t = WrittenRelationship(d, r)
<1>1. \A r : ours(r) => /\ t.tag = "generalization" <=> r.kind = "generalization"
                        /\ t.tag = "interfaceRealization" <=> r.kind = "realization"
  BY KindsOf, RelationshipTags, WrittenRelationships
<1>2. FromRelationship(d, t) <=> \E r : ours(r)
  BY DEF FromRelationship
<1> HIDE DEF ours
<1>3. ASSUME t \in Exported(d), t.tag \in {"generalization", "interfaceRealization"}
      PROVE  FromRelationship(d, t)
  BY <1>3, InFile, Tags
<1>4. FromRelationship(d, t) => t \in Exported(d)
  BY InFile
<1>5. t \in Tagged(Exported(d), "generalization") <=> \E r : ours(r) /\ r.kind = "generalization"
  BY <1>1, <1>2, <1>3, <1>4 DEF Tagged
<1>6. t \in Tagged(Exported(d), "interfaceRealization") <=> \E r : ours(r) /\ r.kind = "realization"
  BY <1>1, <1>2, <1>3, <1>4 DEF Tagged
<1> QED
  BY <1>5, <1>6 DEF ours

\* A relationship with a direction, as the importer gathers it.
RawOf(d, r) ==
  [id |-> <<"relationship", r.id>>, kind |-> r.kind, name |-> r.name,
   source |-> ElementXmiId(d, r.source.elementId), target |-> ElementXmiId(d, r.target.elementId)]

\* The importer gathers the relationships with a direction, each from where it is written.
LEMMA DirectedInFile ==
  ASSUME NEW d, DiagramShape(d), Valid(d), NEW t
  PROVE  t \in RawDirected(Exported(d)) <=>
           \E r \in d.relationships : Directed(r) /\ t = RawOf(d, r)
<1> DEFINE F == Exported(d)
           raw(u, kind, source) ==
             [id |-> u.id, kind |-> kind, name |-> u.name, source |-> source, target |-> u.supplier]
<1>1. t \in RawDirected(F) <=>
        \/ \E u \in Tagged(F, "generalization") : t = raw(u, "generalization", u.owner)
        \/ \E u \in Tagged(F, "interfaceRealization") : t = raw(u, "realization", u.owner)
        \/ \E u \in Packaged(F, {"realization"}) : t = raw(u, "realization", u.client)
        \/ \E u \in Packaged(F, {"dependency"}) : t = raw(u, "dependency", u.client)
  <2> DEFINE A == {raw(u, "generalization", u.owner) : u \in Tagged(F, "generalization")}
             B == {raw(u, "realization", u.owner) : u \in Tagged(F, "interfaceRealization")}
             C == {raw(u, "realization", u.client) : u \in Packaged(F, {"realization"})}
             D == {raw(u, "dependency", u.client) : u \in Packaged(F, {"dependency"})}
  <2>1. RawDirected(F) = A \cup B \cup C \cup D
    BY Zenon DEF RawDirected
  <2>2. t \in A <=> \E u \in Tagged(F, "generalization") : t = raw(u, "generalization", u.owner)
    BY Zenon
  <2>3. t \in B <=> \E u \in Tagged(F, "interfaceRealization") : t = raw(u, "realization", u.owner)
    BY Zenon
  <2>4. t \in C <=> \E u \in Packaged(F, {"realization"}) : t = raw(u, "realization", u.client)
    BY Zenon
  <2>5. t \in D <=> \E u \in Packaged(F, {"dependency"}) : t = raw(u, "dependency", u.client)
    BY Zenon
  <2> HIDE DEF A, B, C, D
  <2> QED
    BY <2>1, <2>2, <2>3, <2>4, <2>5
<1>2. ASSUME NEW r \in d.relationships, NEW u, u = WrittenRelationship(d, r)
      PROVE  /\ r.kind = "generalization" => raw(u, "generalization", u.owner) = RawOf(d, r)
             /\ r.kind = "realization" => raw(u, "realization", u.owner) = RawOf(d, r)
             /\ r.kind = "dependency" => raw(u, "dependency", u.client) = RawOf(d, r)
  <2>1. CASE r.kind = "generalization"
    BY <1>2, <2>1, KindsOf, WrittenRelationships DEF WrittenWithin, RawOf
  <2>2. CASE r.kind = "realization"
    BY <1>2, <2>2, KindsOf, WrittenRelationships DEF WrittenWithin, RawOf
  <2>3. CASE r.kind = "dependency"
    BY <1>2, <2>3, KindsOf, WrittenRelationships DEF WrittenDependency, RawOf
  <2> QED
    BY <2>1, <2>2, <2>3
<1> HIDE DEF raw
<1>3. ASSUME t \in RawDirected(F)
      PROVE  \E r \in d.relationships : Directed(r) /\ t = RawOf(d, r)
  <2>1. ASSUME NEW u \in Tagged(F, "generalization"), t = raw(u, "generalization", u.owner)
        PROVE  \E r \in d.relationships : Directed(r) /\ t = RawOf(d, r)
    <3>1. PICK r \in d.relationships : r.kind = "generalization" /\ u = WrittenRelationship(d, r)
      BY WithinFile
    <3> QED
      BY <1>2, <2>1, <3>1, KindsOf, WrittenRelationships
  <2>2. ASSUME NEW u \in Tagged(F, "interfaceRealization"), t = raw(u, "realization", u.owner)
        PROVE  \E r \in d.relationships : Directed(r) /\ t = RawOf(d, r)
    <3>1. PICK r \in d.relationships : r.kind = "realization" /\ u = WrittenRelationship(d, r)
      BY WithinFile
    <3> QED
      BY <1>2, <2>2, <3>1, KindsOf, WrittenRelationships
  <2>3. ASSUME NEW u \in Packaged(F, {"dependency"}), t = raw(u, "dependency", u.client)
        PROVE  \E r \in d.relationships : Directed(r) /\ t = RawOf(d, r)
    <3>1. PICK r \in d.relationships : r.kind = "dependency" /\ u = WrittenRelationship(d, r)
      BY TypesInFile
    <3> QED
      BY <1>2, <2>3, <3>1, KindsOf, WrittenRelationships
  <2>4. \A u : u \notin Packaged(F, {"realization"})
    BY TypesInFile
  <2> QED
    BY <1>1, <1>3, <2>1, <2>2, <2>3, <2>4
<1>4. ASSUME NEW r \in d.relationships, Directed(r), t = RawOf(d, r)
      PROVE  t \in RawDirected(F)
  <2>1. PICK u : u = WrittenRelationship(d, r)
    OBVIOUS
  <2>2. CASE r.kind = "generalization"
    <3>1. u \in Tagged(F, "generalization") /\ t = raw(u, "generalization", u.owner)
      BY <1>2, <1>4, <2>1, <2>2, WithinFile
    <3> QED
      BY <1>1, <3>1
  <2>3. CASE r.kind = "realization"
    <3>1. u \in Tagged(F, "interfaceRealization") /\ t = raw(u, "realization", u.owner)
      BY <1>2, <1>4, <2>1, <2>3, WithinFile
    <3> QED
      BY <1>1, <3>1
  <2>4. CASE r.kind = "dependency"
    <3>1. u \in Packaged(F, {"dependency"}) /\ t = raw(u, "dependency", u.client)
      BY <1>2, <1>4, <2>1, <2>4, TypesInFile
    <3> QED
      BY <1>1, <3>1
  <2> QED
    BY <1>4, <2>2, <2>3, <2>4, KindsOf, WrittenRelationships
<1> QED
  BY <1>3, <1>4

\* The element a classifier is written in: its own, or its association's.
Host(d, e) ==
  IF Owners(d, e.id) = {} THEN WrittenClassifier(d, e)
  ELSE WrittenRelationship(d, CHOOSE r \in Owners(d, e.id) : TRUE)

\* A classifier of a document has an identifier, and is the only one of it.
LEMMA ClassifierIs ==
  ASSUME NEW d, DiagramShape(d), Valid(d), NEW e \in d.elements
  PROVE  /\ e.id # None /\ e.kind \in {"class", "interface"}
         /\ Classifier(d, e.id) = e
<1>0. ClassifierShape(e)
  BY Shapes
<1>1. e.id # None /\ e.kind \in {"class", "interface"}
  BY <1>0, Zenon DEF ClassifierShape
<1>2. \A f \in d.elements : f.id = e.id => f = e
  BY ValidOneEach DEF OneEach
<1>3. Classifier(d, e.id) = e
  BY <1>2 DEF Classifier
<1> QED
  BY <1>1, <1>3

\* An association class is a class of the document.
LEMMA OwnedClass ==
  ASSUME NEW d, DiagramShape(d), Valid(d), NEW r \in d.relationships, r.associationClassId # None
  PROVE  \E e \in d.elements : e.id = r.associationClassId /\ e.kind = "class" /\ r \in Owners(d, e.id)
<1>1. AssociationClassSound(d, r)
  BY DEF Valid, RelationshipsSound
<1>2. PICK e \in d.elements : e.id = r.associationClassId
  BY <1>1 DEF AssociationClassSound, ElementIds
<1>3. Classifier(d, e.id) = e
  BY ClassifierIs
<1>4. e.kind = "class"
  BY <1>1, <1>2, <1>3 DEF AssociationClassSound
<1> QED
  BY <1>2, <1>4 DEF Owners

\* The element of a classifier has its identifier and its name, and tells an interface.
LEMMA Hosts ==
  ASSUME NEW d, DiagramShape(d), Valid(d), NEW e \in d.elements
  PROVE  /\ Host(d, e).id = ElementXmiId(d, e.id)
         /\ Host(d, e).name = e.name
         /\ Host(d, e).type = "interface" <=> e.kind = "interface"
         /\ Host(d, e) \in RawClassifiers(Exported(d))
<1>0. e.id # None /\ e.kind \in {"class", "interface"} /\ Classifier(d, e.id) = e
  BY ClassifierIs
<1>1. CASE Owners(d, e.id) = {}
  <2>1. Host(d, e) = WrittenClassifier(d, e)
    BY <1>1 DEF Host
  <2>2. /\ Host(d, e).id = ElementXmiId(d, e.id) /\ Host(d, e).name = e.name
        /\ Host(d, e).type = e.kind
    BY <2>1 DEF WrittenClassifier
  <2>3. FromClassifier(d, Host(d, e))
    BY <1>1, <2>1 DEF FromClassifier
  <2>4. Host(d, e) \in Tagged(Exported(d), "packagedElement")
    BY <2>3, PackagedInFile
  <2>5. Host(d, e) \in RawClassifiers(Exported(d))
    BY <1>0, <2>2, <2>4 DEF RawClassifiers, Packaged
  <2>6. Host(d, e).id = ElementXmiId(d, e.id)
    BY <2>2
  <2> QED
    BY <2>2, <2>5, <2>6
<1>2. CASE Owners(d, e.id) # {}
  <2>1. PICK r : r = CHOOSE s \in Owners(d, e.id) : TRUE
    OBVIOUS
  <2>2. r \in Owners(d, e.id)
    BY <1>2, <2>1
  <2>3. r \in d.relationships /\ r.associationClassId = e.id /\ r.kind = "association"
        /\ ElementXmiId(d, e.id) = <<"relationship", r.id>>
    BY <1>0, <2>2, XmiIds DEF Owning
  <2>4. ~Directed(r)
    BY <2>3 DEF Directed, Hierarchies
  <2>5. Host(d, e) = WrittenRelationship(d, r)
    BY <1>2, <2>1 DEF Host
  <2>6. Host(d, e) = WrittenWithClass(d, r)
    BY <1>0, <2>3, <2>4, <2>5, KindsOf, WrittenRelationships
  <2>7. Host(d, e).name = e.name /\ Host(d, e).type = "associationclass"
        /\ Host(d, e).id = <<"relationship", r.id>>
    BY <1>0, <2>3, <2>6 DEF WrittenWithClass
  <2>8. e.kind = "class"
    <3>1. PICK f \in d.elements : f.id = r.associationClassId /\ f.kind = "class"
      BY <1>0, <2>3, OwnedClass
    <3> QED
      BY <2>3, <3>1, ValidOneEach DEF OneEach
  <2>9. Host(d, e) \in Tagged(Exported(d), "packagedElement")
    BY <2>3, <2>4, <2>5, PackagedInFile
  <2> QED
    BY <2>3, <2>7, <2>8, <2>9 DEF RawClassifiers, Packaged
<1> QED
  BY <1>1, <1>2

\* The classifiers of a file are those of the document.
LEMMA ClassifiersInFile ==
  ASSUME NEW d, DiagramShape(d), Valid(d), NEW t
  PROVE  t \in RawClassifiers(Exported(d)) <=> \E e \in d.elements : t = Host(d, e)
<1>1. ASSUME t \in RawClassifiers(Exported(d))
      PROVE  \E e \in d.elements : t = Host(d, e)
  <2>1. t \in Tagged(Exported(d), "packagedElement")
        /\ t.type \in {"class", "interface", "associationclass"}
    BY <1>1 DEF RawClassifiers, Packaged
  <2>2. CASE FromClassifier(d, t)
    BY <2>2 DEF FromClassifier, Host
  <2>3. ASSUME NEW r \in d.relationships, ~Directed(r) \/ r.kind = "dependency",
               t = WrittenRelationship(d, r)
        PROVE  \E e \in d.elements : t = Host(d, e)
    <3>1. r.associationClassId # None
      BY <2>1, <2>3, KindsOf, RelationshipTags
    <3>2. PICK e \in d.elements : e.id = r.associationClassId /\ r \in Owners(d, e.id)
      BY <3>1, OwnedClass
    <3>3. Owners(d, e.id) = {r}
      BY <3>1, <3>2, XmiIds
    <3>4. (CHOOSE s \in Owners(d, e.id) : TRUE) = r /\ Owners(d, e.id) # {}
      BY <3>3
    <3> QED
      BY <2>3, <3>4 DEF Host
  <2>4. ~FromDataType(d, t)
    BY <2>1, Tags
  <2> QED
    BY <2>1, <2>2, <2>3, <2>4, PackagedInFile
<1> QED
  BY <1>1, Hosts

-----------------------------------------------------------------------------
(* What the importer reads of an exported file *)

\* A classifier of the file is found by its identifier.
LEMMA HostFound ==
  ASSUME NEW d, DiagramShape(d), Valid(d), NEW e \in d.elements
  PROVE  /\ IsClassifier(Exported(d), ElementXmiId(d, e.id))
         /\ RawClassifier(Exported(d), ElementXmiId(d, e.id)) = Host(d, e)
<1>1. Host(d, e) \in RawClassifiers(Exported(d)) /\ Host(d, e).id = ElementXmiId(d, e.id)
  BY Hosts
<1>2. ASSUME NEW c \in RawClassifiers(Exported(d)), c.id = ElementXmiId(d, e.id)
      PROVE  c = Host(d, e)
  <2>1. PICK f \in d.elements : c = Host(d, f)
    BY ClassifiersInFile
  <2>2. ElementXmiId(d, f.id) = ElementXmiId(d, e.id)
    BY <1>2, <2>1, Hosts
  <2>3. f.id # None /\ e.id # None
    BY ClassifierIs
  <2>4. f.id = e.id
    BY <2>2, <2>3, IdsDiffer
  <2> QED
    BY <2>1, <2>4, ValidOneEach DEF OneEach
<1> HIDE DEF Host
<1> QED
  BY <1>1, <1>2 DEF IsClassifier, RawClassifier

\* Nothing else has the identifier of a classifier.
LEMMA HostIds ==
  ASSUME NEW d, DiagramShape(d), Valid(d), NEW x, IsClassifier(Exported(d), x)
  PROVE  x[1] \in {"classifier", "relationship"}
<1>1. PICK c \in RawClassifiers(Exported(d)) : c.id = x
  BY DEF IsClassifier
<1>2. PICK e \in d.elements : c = Host(d, e)
  BY ClassifiersInFile
<1>3. x = ElementXmiId(d, e.id) /\ e.id # None
  BY <1>1, <1>2, Hosts, ClassifierIs
<1>4. CASE Owners(d, e.id) = {}
  BY <1>3, <1>4, XmiIds
<1>5. ASSUME NEW r \in Owners(d, e.id)
      PROVE  x[1] \in {"classifier", "relationship"}
  <2>1. x = <<"relationship", r.id>>
    BY <1>3, XmiIds
  <2> QED
    BY <2>1
<1> QED
  BY <1>4, <1>5

\* A type reference after the import: the classifier it names is called anew.
RenamedType(d, t) ==
  [name |-> t.name, elementId |-> IF t.elementId = None THEN None ELSE NewId(d, t.elementId),
   collection |-> t.collection, nullable |-> t.nullable]

\* The bounds of a type say whether it is a collection and nullable.
LEMMA BoundsRead ==
  ASSUME NEW t, ReferenceShape(t)
  PROVE  /\ <<LowerOf(t), UpperOf(t)>> \in TypeBounds
         /\ (UpperOf(t) = Unbounded) = t.collection
         /\ (LowerOf(t) = 0) = t.nullable
<1>1. t.collection \in BOOLEAN /\ t.nullable \in BOOLEAN
  BY Zenon DEF ReferenceShape
<1>2. LowerOf(t) \in {0, 1} /\ UpperOf(t) \in {1, Unbounded}
  BY DEF LowerOf, UpperOf
<1>3. (UpperOf(t) = Unbounded) = t.collection
  BY <1>1 DEF UpperOf, Unbounded
<1>4. (LowerOf(t) = 0) = t.nullable
  BY <1>1 DEF LowerOf
<1> QED
  BY <1>2, <1>3, <1>4 DEF TypeBounds

\* The reference to a classifier resolves to it.
LEMMA ClassifierResolved ==
  ASSUME NEW d, DiagramShape(d), Valid(d), NEW e \in d.elements, NEW t \in TypesOf(e),
         t.elementId # None
  PROVE  /\ WrittenType(d, t).by = "id" /\ IsClassifier(Exported(d), WrittenType(d, t).to)
         /\ Resolution(Exported(d), WrittenType(d, t))
              = [kind |-> "classifier", name |-> t.name, id |-> NewId(d, t.elementId)]
<1>1. PICK f \in d.elements : f.id = t.elementId /\ f.name = t.name
  BY DEF Valid, TypesResolve
<1>2. PICK x : x = WrittenType(d, t)
  OBVIOUS
<1>3. x.by = "id" /\ x.to = ElementXmiId(d, f.id)
  BY <1>1, <1>2 DEF WrittenType
<1>4. IsClassifier(Exported(d), x.to) /\ RawClassifier(Exported(d), x.to) = Host(d, f)
  BY <1>3, HostFound
<1>5. Resolution(Exported(d), x) = ByClassifier(Host(d, f))
  BY <1>3, <1>4 DEF Resolution
<1>6. Host(d, f).id = ElementXmiId(d, f.id) /\ Host(d, f).name = f.name
  BY Hosts
<1>7. ByClassifier(Host(d, f)) = [kind |-> "classifier", name |-> t.name, id |-> NewId(d, t.elementId)]
  BY <1>1, <1>6 DEF ByClassifier, NewId
<1> QED
  BY <1>2, <1>3, <1>4, <1>5, <1>7

\* The name of a type resolves to itself: an OMG primitive, or a data type of the file.
LEMMA NameResolved ==
  ASSUME NEW d, DiagramShape(d), Valid(d), Exportable(d), NEW e \in d.elements, NEW t \in TypesOf(e),
         t.elementId = None
  PROVE  /\ WrittenType(d, t).by \in {"id", "primitive"}
         /\ Resolution(Exported(d), WrittenType(d, t)) = [kind |-> "name", name |-> t.name]
<1>1. t.name \in NamedTypes(d)
  BY DEF NamedTypes
<1>2. OmgName(t.name) \in {None, t.name}
  BY <1>1 DEF Exportable
<1>3. PICK x : x = WrittenType(d, t)
  OBVIOUS
<1>4. CASE OmgName(t.name) # None
  <2>1. x.by = "primitive" /\ x.to = t.name
    BY <1>3, <1>4 DEF WrittenType
  <2>2. Resolution(Exported(d), x) = ByName(t.name)
    BY <1>2, <1>4, <2>1 DEF Resolution
  <2> QED
    BY <1>3, <2>1, <2>2 DEF ByName
<1>5. CASE OmgName(t.name) = None
  <2>1. x.by = "id" /\ x.to = <<"data_type", t.name>>
    BY <1>3, <1>5 DEF WrittenType
  <2>2. ~IsClassifier(Exported(d), x.to)
    <3>1. x.to[1] = "data_type"
      BY <2>1
    <3> QED
      BY <3>1, HostIds
  <2>3. PICK n : n = WrittenDataType(t.name)
    OBVIOUS
  <2>4. n.id = x.to /\ n.name = t.name
    BY <2>1, <2>3 DEF WrittenDataType
  <2>5. t.name \in NonStandardTypes(d)
    BY <1>1, <1>5 DEF NonStandardTypes
  <2>6. n \in DataTypes(Exported(d), x.to)
    <3>1. FromDataType(d, n)
      BY <2>3, <2>5 DEF FromDataType
    <3> QED
      BY <2>4, <3>1, TypesInFile DEF DataTypes
  <2>7. ASSUME NEW u \in DataTypes(Exported(d), x.to)
        PROVE  u.name = t.name
    <3>1. FromDataType(d, u) /\ u.id = x.to
      BY <2>7, TypesInFile DEF DataTypes
    <3>2. PICK m : u = WrittenDataType(m)
      BY <3>1 DEF FromDataType
    <3>3. u.id = <<"data_type", m>> /\ u.name = m
      BY <3>2 DEF WrittenDataType
    <3> QED
      BY <2>1, <3>1, <3>3
  <2>8. (CHOOSE u \in DataTypes(Exported(d), x.to) : TRUE).name = t.name
    BY <2>6, <2>7
  <2>9. \E u \in DataTypes(Exported(d), x.to) : OmgName(u.name) = None
    BY <1>5, <2>4, <2>6
  <2>10. Resolution(Exported(d), x) = ByName(t.name)
    BY <2>1, <2>2, <2>8, <2>9 DEF Resolution
  <2> QED
    BY <1>3, <2>1, <2>10 DEF ByName
<1> QED
  BY <1>4, <1>5

\* A typed element of the file is read as what it was written from.
LEMMA TypeRead ==
  ASSUME NEW d, DiagramShape(d), Valid(d), Exportable(d), NEW e \in d.elements, NEW t \in TypesOf(e),
         NEW x, x.type = WrittenType(d, t), x.lower = LowerOf(t), x.upper = UpperOf(t)
  PROVE  /\ TypeReads(Exported(d), x)
         /\ ReadType(Exported(d), x) = RenamedType(d, t)
         /\ x.type.by \in {"id", "primitive"}
<1>1. ReferenceShape(t)
  <2>1. ClassifierShape(e)
    BY Shapes
  <2> QED
    BY <2>1, TypesShaped
<1>2. <<x.lower, x.upper>> \in TypeBounds /\ (x.upper = Unbounded) = t.collection
      /\ (x.lower = 0) = t.nullable
  BY <1>1, BoundsRead
<1>3. PICK to : to = Resolution(Exported(d), x.type)
  OBVIOUS
<1>4. CASE t.elementId # None
  <2>1. to = [kind |-> "classifier", name |-> t.name, id |-> NewId(d, t.elementId)]
    BY <1>3, <1>4, ClassifierResolved
  <2>2. to.kind = "classifier" /\ to.name = t.name /\ to.id = NewId(d, t.elementId) /\ to # Failed
    BY <2>1 DEF Failed
  <2>3. ReadReference(to, x) = RenamedType(d, t)
    BY <1>2, <1>4, <2>2 DEF ReadReference, RenamedType
  <2>4. x.type.by = "id"
    BY <1>4, ClassifierResolved
  <2> QED
    BY <1>2, <1>3, <2>2, <2>3, <2>4 DEF TypeReads, ReadType
<1>5. CASE t.elementId = None
  <2>1. to = [kind |-> "name", name |-> t.name]
    BY <1>3, <1>5, NameResolved
  <2>2. to.kind = "name" /\ to.name = t.name /\ to # Failed
    BY <2>1 DEF Failed
  <2>3. ReadReference(to, x) = RenamedType(d, t)
    BY <1>2, <1>5, <2>2 DEF ReadReference, RenamedType
  <2>4. x.type.by \in {"id", "primitive"}
    BY <1>5, NameResolved
  <2> QED
    BY <1>2, <1>3, <2>2, <2>3, <2>4 DEF TypeReads, ReadType
<1> QED
  BY <1>4, <1>5

\* The members within the element of a classifier are its own.
LEMMA MembersWithin ==
  ASSUME NEW d, DiagramShape(d), Valid(d), NEW e \in d.elements, NEW t
  PROVE  /\ t \in RawAttributes(Exported(d), Host(d, e)) <=>
              \E a \in e.attributes : t = WrittenAttribute(d, ElementXmiId(d, e.id), a)
         /\ t \in {u \in Tagged(Exported(d), "ownedOperation") : u.owner = Host(d, e).id} <=>
              \E o \in e.operations : t = WrittenSignature(ElementXmiId(d, e.id), o)
<1> DEFINE x == ElementXmiId(d, e.id)
<1>1. Host(d, e).id = x
  BY Hosts
<1>2. ASSUME NEW f \in d.elements, ElementXmiId(d, f.id) = x
      PROVE  f = e
  <2>1. f.id # None /\ e.id # None
    BY ClassifierIs
  <2>2. f.id = e.id
    BY <1>2, <2>1, IdsDiffer
  <2> QED
    BY <2>2, ValidOneEach DEF OneEach
<1> HIDE DEF x, Host
<1>3. ASSUME FromAttribute(d, t), t.owner = x
      PROVE  \E a \in e.attributes : t = WrittenAttribute(d, x, a)
  <2>1. PICK f, a : f \in d.elements /\ a \in f.attributes /\ t = WrittenAttribute(d, ElementXmiId(d, f.id), a)
    BY <1>3, Zenon DEF FromAttribute
  <2>2. t.owner = ElementXmiId(d, f.id)
    BY <2>1 DEF WrittenAttribute
  <2>3. f = e
    BY <1>2, <1>3, <2>1, <2>2
  <2> QED
    BY <2>1, <2>2, <2>3, <1>3
<1>4. ASSUME NEW a \in e.attributes, t = WrittenAttribute(d, x, a)
      PROVE  FromAttribute(d, t) /\ t.owner = x /\ t.association = None
  <2>1. t.owner = x /\ t.association = None
    BY <1>4 DEF WrittenAttribute
  <2>2. FromAttribute(d, t)
    BY <1>4 DEF FromAttribute, x
  <2> QED
    BY <2>1, <2>2
<1>5. ASSUME FromOperation(d, t), t.owner = x
      PROVE  \E o \in e.operations : t = WrittenSignature(x, o)
  <2>1. PICK f, o : f \in d.elements /\ o \in f.operations /\ t = WrittenSignature(ElementXmiId(d, f.id), o)
    BY <1>5, Zenon DEF FromOperation
  <2>2. t.owner = ElementXmiId(d, f.id)
    BY <2>1 DEF WrittenSignature
  <2>3. f = e
    BY <1>2, <1>5, <2>1, <2>2
  <2> QED
    BY <2>1, <2>2, <2>3, <1>5
<1>6. ASSUME NEW o \in e.operations, t = WrittenSignature(x, o)
      PROVE  FromOperation(d, t) /\ t.owner = x
  <2>1. t.owner = x
    BY <1>6 DEF WrittenSignature
  <2>2. FromOperation(d, t)
    BY <1>6 DEF FromOperation, x
  <2> QED
    BY <2>1, <2>2
<1>7. t \in RawAttributes(Exported(d), Host(d, e)) <=> \E a \in e.attributes : t = WrittenAttribute(d, x, a)
  <2>1. t \in RawAttributes(Exported(d), Host(d, e)) <=>
          FromAttribute(d, t) /\ t.owner = x /\ t.association = None
    BY <1>1, MembersInFile DEF RawAttributes
  <2> QED
    BY <1>3, <1>4, <2>1
<1>8. t \in {u \in Tagged(Exported(d), "ownedOperation") : u.owner = Host(d, e).id} <=>
        \E o \in e.operations : t = WrittenSignature(x, o)
  <2>1. t \in {u \in Tagged(Exported(d), "ownedOperation") : u.owner = Host(d, e).id} <=>
          FromOperation(d, t) /\ t.owner = x
    BY <1>1, MembersInFile
  <2> QED
    BY <1>5, <1>6, <2>1
<1> QED
  BY <1>7, <1>8 DEF x

\* The parameters of an operation are its own, and it has one result.
LEMMA ParametersWithin ==
  ASSUME NEW d, DiagramShape(d), Valid(d), NEW e \in d.elements, NEW o \in e.operations,
         NEW s, s.id = <<"operation", o.id>>, NEW t
  PROVE  /\ t \in RawParameters(Exported(d), s, "in") <=>
              \E p \in o.parameters : t = WrittenInput(d, o, p)
         /\ t \in Returns(Exported(d), s) <=> t = WrittenReturn(d, o)
<1>1. ASSUME NEW f \in d.elements, NEW q \in f.operations, <<"operation", q.id>> = <<"operation", o.id>>
      PROVE  q = o
  <2>1. q.id = o.id /\ UniqueIds(d)
    BY <1>1 DEF Valid
  <2> QED
    BY <2>1, MembersOneEach
<1>2. /\ FromInput(d, t) => t.direction = "in"
      /\ FromReturn(d, t) => t.direction = "return"
  BY Tags
<1>3. ASSUME FromInput(d, t), t.owner = s.id
      PROVE  \E p \in o.parameters : t = WrittenInput(d, o, p)
  <2>1. PICK f, q, p : f \in d.elements /\ q \in f.operations /\ p \in q.parameters
                       /\ t = WrittenInput(d, q, p)
    BY <1>3, Zenon DEF FromInput
  <2>2. t.owner = <<"operation", q.id>>
    BY <2>1 DEF WrittenInput, WrittenParameter
  <2>3. q = o
    BY <1>1, <1>3, <2>1, <2>2
  <2> QED
    BY <2>1, <2>3
<1>4. ASSUME NEW p \in o.parameters, t = WrittenInput(d, o, p)
      PROVE  FromInput(d, t) /\ t.owner = s.id
  <2>1. t.owner = s.id
    BY <1>4 DEF WrittenInput, WrittenParameter
  <2>2. FromInput(d, t)
    BY <1>4 DEF FromInput
  <2> QED
    BY <2>1, <2>2
<1>5. ASSUME FromReturn(d, t), t.owner = s.id
      PROVE  t = WrittenReturn(d, o)
  <2>1. PICK f, q : f \in d.elements /\ q \in f.operations /\ t = WrittenReturn(d, q)
    BY <1>5, Zenon DEF FromReturn
  <2>2. t.owner = <<"operation", q.id>>
    BY <2>1 DEF WrittenReturn, WrittenParameter
  <2>3. q = o
    BY <1>1, <1>5, <2>1, <2>2
  <2> QED
    BY <2>1, <2>3
<1>6. ASSUME t = WrittenReturn(d, o)
      PROVE  FromReturn(d, t) /\ t.owner = s.id
  <2>1. t.owner = s.id
    BY <1>6 DEF WrittenReturn, WrittenParameter
  <2>2. FromReturn(d, t)
    BY <1>6 DEF FromReturn
  <2> QED
    BY <2>1, <2>2
<1>7. /\ t \in RawParameters(Exported(d), s, "in") <=> FromInput(d, t) /\ t.owner = s.id
      /\ t \in RawParameters(Exported(d), s, "return") <=> FromReturn(d, t) /\ t.owner = s.id
  BY <1>2, MembersInFile DEF RawParameters
<1> QED
  BY <1>3, <1>4, <1>5, <1>6, <1>7 DEF Returns

\* What the members of a classifier become.
RenamedAttribute(d, a) ==
  [id |-> <<"attribute", a.id>>, name |-> a.name, type |-> RenamedType(d, a.type),
   isStatic |-> a.isStatic]
RenamedParameter(d, p) ==
  [id |-> <<"parameter", p.id>>, name |-> p.name, type |-> RenamedType(d, p.type)]
RenamedOperation(d, o) ==
  [id |-> <<"operation", o.id>>, name |-> o.name, returnType |-> RenamedType(d, o.returnType),
   parameters |-> {RenamedParameter(d, p) : p \in o.parameters}]
RenamedClassifier(d, e) ==
  [id |-> NewId(d, e.id), name |-> e.name, kind |-> e.kind,
   attributes |-> {RenamedAttribute(d, a) : a \in e.attributes},
   operations |-> {RenamedOperation(d, o) : o \in e.operations}]

\* An attribute is read as it was, under its new identifier.
LEMMA AttributeRead ==
  ASSUME NEW d, DiagramShape(d), Valid(d), Exportable(d), NEW e \in d.elements, NEW a \in e.attributes,
         NEW x, x = WrittenAttribute(d, ElementXmiId(d, e.id), a)
  PROVE  TypeReads(Exported(d), x) /\ ReadAttribute(Exported(d), x) = RenamedAttribute(d, a)
<1>1. /\ x.type = WrittenType(d, a.type) /\ x.lower = LowerOf(a.type) /\ x.upper = UpperOf(a.type)
      /\ x.id = <<"attribute", a.id>> /\ x.name = a.name /\ x.isStatic = a.isStatic
  BY DEF WrittenAttribute
<1>2. a.type \in TypesOf(e)
  BY TypesAre
<1>3. TypeReads(Exported(d), x) /\ ReadType(Exported(d), x) = RenamedType(d, a.type)
  BY <1>1, <1>2, TypeRead
<1>4. CanonicalId("attribute", x.id) = <<"attribute", a.id>>
  BY <1>1, CanonicalIds
<1> QED
  BY <1>1, <1>3, <1>4 DEF ReadAttribute, RenamedAttribute

\* So is a parameter.
LEMMA ParameterRead ==
  ASSUME NEW d, DiagramShape(d), Valid(d), Exportable(d), NEW e \in d.elements, NEW o \in e.operations,
         NEW p \in o.parameters, NEW x, x = WrittenInput(d, o, p)
  PROVE  TypeReads(Exported(d), x) /\ ReadParameter(Exported(d), x) = RenamedParameter(d, p)
<1>1. /\ x.type = WrittenType(d, p.type) /\ x.lower = LowerOf(p.type) /\ x.upper = UpperOf(p.type)
      /\ x.id = <<"parameter", p.id>> /\ x.name = p.name
  BY DEF WrittenInput, WrittenParameter
<1>2. p.type \in TypesOf(e)
  BY TypesAre
<1>3. TypeReads(Exported(d), x) /\ ReadType(Exported(d), x) = RenamedType(d, p.type)
  BY <1>1, <1>2, TypeRead
<1>4. CanonicalId("parameter", x.id) = <<"parameter", p.id>>
  BY <1>1, CanonicalIds
<1> QED
  BY <1>1, <1>3, <1>4 DEF ReadParameter, RenamedParameter

\* The result of an operation is read, and agrees with itself.
LEMMA ReturnRead ==
  ASSUME NEW d, DiagramShape(d), Valid(d), Exportable(d), NEW e \in d.elements, NEW o \in e.operations,
         NEW s, s.id = <<"operation", o.id>>
  PROVE  /\ ReturnsAgree(Exported(d), s)
         /\ \A x \in Returns(Exported(d), s) : TypeReads(Exported(d), x)
         /\ ReturnType(Exported(d), s) = RenamedType(d, o.returnType)
<1>1. PICK x : x = WrittenReturn(d, o)
  OBVIOUS
<1>2. \A y : y \in Returns(Exported(d), s) <=> y = x
  BY <1>1, ParametersWithin
<1>3. Returns(Exported(d), s) = {x}
  BY <1>2
<1>4. /\ x.type = WrittenType(d, o.returnType)
      /\ x.lower = LowerOf(o.returnType) /\ x.upper = UpperOf(o.returnType)
  BY <1>1 DEF WrittenReturn, WrittenParameter
<1>5. o.returnType \in TypesOf(e)
  BY TypesAre
<1>6. /\ TypeReads(Exported(d), x) /\ ReadType(Exported(d), x) = RenamedType(d, o.returnType)
      /\ x.type.by \in {"id", "primitive"}
  BY <1>4, <1>5, TypeRead
<1>7. ReturnsAgree(Exported(d), s)
  BY <1>3 DEF ReturnsAgree
<1>8. (CHOOSE y \in Returns(Exported(d), s) : TRUE) = x
  BY <1>3
<1>9. ~ \A y \in Returns(Exported(d), s) : y.type.by = "none"
  BY <1>3, <1>6
<1>10. ReturnType(Exported(d), s) = ReadType(Exported(d), x)
  BY <1>8, <1>9 DEF ReturnType
<1> QED
  BY <1>3, <1>6, <1>7, <1>10

\* An operation is read as it was.
LEMMA OperationRead ==
  ASSUME NEW d, DiagramShape(d), Valid(d), Exportable(d), NEW e \in d.elements, NEW o \in e.operations,
         NEW s, s = WrittenSignature(ElementXmiId(d, e.id), o)
  PROVE  ReadOperation(Exported(d), s) = RenamedOperation(d, o)
<1>1. s.id = <<"operation", o.id>> /\ s.name = o.name
  BY DEF WrittenSignature
<1>2. CanonicalId("operation", s.id) = <<"operation", o.id>>
  BY <1>1, CanonicalIds
<1>3. ReturnType(Exported(d), s) = RenamedType(d, o.returnType)
  BY <1>1, ReturnRead
<1> DEFINE P == {ReadParameter(Exported(d), p) : p \in RawParameters(Exported(d), s, "in")}
           Q == {RenamedParameter(d, p) : p \in o.parameters}
<1>4. P = Q
  <2>1. ASSUME NEW x \in P
        PROVE  x \in Q
    <3>1. PICK t \in RawParameters(Exported(d), s, "in") : x = ReadParameter(Exported(d), t)
      BY <2>1
    <3>2. PICK p \in o.parameters : t = WrittenInput(d, o, p)
      BY <1>1, <3>1, ParametersWithin
    <3>3. x = RenamedParameter(d, p)
      BY <3>1, <3>2, ParameterRead
    <3> QED
      BY <3>3
  <2>2. ASSUME NEW x \in Q
        PROVE  x \in P
    <3>1. PICK p \in o.parameters : x = RenamedParameter(d, p)
      BY <2>2
    <3>2. PICK t : t = WrittenInput(d, o, p)
      OBVIOUS
    <3>3. t \in RawParameters(Exported(d), s, "in")
      BY <1>1, <3>2, ParametersWithin
    <3>4. x = ReadParameter(Exported(d), t)
      BY <3>1, <3>2, ParameterRead
    <3> QED
      BY <3>3, <3>4
  <2> QED
    BY <2>1, <2>2
<1> HIDE DEF P, Q
<1>5. ReadOperation(Exported(d), s)
        = [id |-> <<"operation", o.id>>, name |-> o.name, returnType |-> RenamedType(d, o.returnType),
           parameters |-> P]
  BY <1>1, <1>2, <1>3 DEF ReadOperation, P
<1>6. RenamedOperation(d, o)
        = [id |-> <<"operation", o.id>>, name |-> o.name, returnType |-> RenamedType(d, o.returnType),
           parameters |-> Q]
  BY DEF RenamedOperation, Q
<1> QED
  BY <1>4, <1>5, <1>6

\* A classifier is read as it was.
LEMMA ClassifierRead ==
  ASSUME NEW d, DiagramShape(d), Valid(d), Exportable(d), NEW e \in d.elements
  PROVE  ReadClassifier(Exported(d), Host(d, e)) = RenamedClassifier(d, e)
<1> DEFINE F == Exported(d)
           c == Host(d, e)
           A == {ReadAttribute(F, a) : a \in RawAttributes(F, c)}
           B == {RenamedAttribute(d, a) : a \in e.attributes}
           O == {ReadOperation(F, o) : o \in {t \in Tagged(F, "ownedOperation") : t.owner = c.id}}
           P == {RenamedOperation(d, o) : o \in e.operations}
<1>1. A = B
  <2>1. ASSUME NEW x \in A
        PROVE  x \in B
    <3>1. PICK t \in RawAttributes(F, c) : x = ReadAttribute(F, t)
      BY <2>1
    <3>2. PICK a \in e.attributes : t = WrittenAttribute(d, ElementXmiId(d, e.id), a)
      BY <3>1, MembersWithin
    <3>3. x = RenamedAttribute(d, a)
      BY <3>1, <3>2, AttributeRead
    <3> QED
      BY <3>3
  <2>2. ASSUME NEW x \in B
        PROVE  x \in A
    <3>1. PICK a \in e.attributes : x = RenamedAttribute(d, a)
      BY <2>2
    <3>2. PICK t : t = WrittenAttribute(d, ElementXmiId(d, e.id), a)
      OBVIOUS
    <3>3. t \in RawAttributes(F, c)
      BY <3>2, MembersWithin
    <3>4. x = ReadAttribute(F, t)
      BY <3>1, <3>2, AttributeRead
    <3> QED
      BY <3>3, <3>4
  <2> QED
    BY <2>1, <2>2
<1>2. O = P
  <2>1. ASSUME NEW x \in O
        PROVE  x \in P
    <3>1. PICK t \in {u \in Tagged(F, "ownedOperation") : u.owner = c.id} : x = ReadOperation(F, t)
      BY <2>1
    <3>2. PICK o \in e.operations : t = WrittenSignature(ElementXmiId(d, e.id), o)
      BY <3>1, MembersWithin
    <3>3. x = RenamedOperation(d, o)
      BY <3>1, <3>2, OperationRead
    <3> QED
      BY <3>3
  <2>2. ASSUME NEW x \in P
        PROVE  x \in O
    <3>1. PICK o \in e.operations : x = RenamedOperation(d, o)
      BY <2>2
    <3>2. PICK t : t = WrittenSignature(ElementXmiId(d, e.id), o)
      OBVIOUS
    <3>3. t \in {u \in Tagged(F, "ownedOperation") : u.owner = c.id}
      BY <3>2, MembersWithin
    <3>4. x = ReadOperation(F, t)
      BY <3>1, <3>2, OperationRead
    <3> QED
      BY <3>3, <3>4
  <2> QED
    BY <2>1, <2>2
<1>3. c.id = ElementXmiId(d, e.id) /\ c.name = e.name /\ (c.type = "interface" <=> e.kind = "interface")
  BY Hosts
<1>4. e.kind \in {"class", "interface"}
  BY ClassifierIs
<1>5. (IF c.type = "interface" THEN "interface" ELSE "class") = e.kind
  BY <1>3, <1>4
<1> HIDE DEF A, B, O, P, c
<1>6. ReadClassifier(F, c) = [id |-> NewId(d, e.id), name |-> e.name, kind |-> e.kind,
                              attributes |-> A, operations |-> O]
  BY <1>3, <1>5 DEF ReadClassifier, A, O, NewId
<1>7. RenamedClassifier(d, e) = [id |-> NewId(d, e.id), name |-> e.name, kind |-> e.kind,
                                 attributes |-> B, operations |-> P]
  BY DEF RenamedClassifier, B, P
<1> QED
  BY <1>1, <1>2, <1>6, <1>7 DEF c

\* No hash of a document is the identifier of its project or diagram, nor absent.
LEMMA HashesApart ==
  ASSUME NEW d, Apart(d)
  PROVE  /\ \A t \in Registered(d) : <<t[1], t[3].id>> \notin RootIds \cup {None}
         /\ \A r \in d.relationships : /\ <<"relationship", r.id>> \notin RootIds \cup {None}
                                       /\ <<"classifier", "relationship", r.id>> \notin RootIds \cup {None}
<1>1. ASSUME NEW t \in Registered(d)
      PROVE  <<t[1], t[3].id>> \notin RootIds \cup {None}
  <2>1. <<t[1], t[3].id>> \in Hashes(d)
    BY DEF Hashes
  <2> QED
    BY <2>1 DEF Apart
<1>2. ASSUME NEW r \in d.relationships
      PROVE  /\ <<"relationship", r.id>> \notin RootIds \cup {None}
             /\ <<"classifier", "relationship", r.id>> \notin RootIds \cup {None}
  <2>1. <<"relationship", None, r>> \in Registered(d)
    BY DEF Registered
  <2>2. <<"relationship", r.id>> \notin RootIds \cup {None}
    BY <1>1, <2>1
  <2>3. <<"classifier", "relationship", r.id>> \in Hashes(d)
    BY DEF Hashes
  <2> QED
    BY <2>2, <2>3 DEF Apart
<1> QED
  BY <1>1, <1>2

\* The end of a relationship has the shape of an end, and its bounds are in range.
LEMMA EndsAre ==
  ASSUME NEW d, DiagramShape(d), Valid(d), NEW r \in d.relationships,
         NEW x \in {r.source, r.target}
  PROVE  /\ x.role # None /\ x.multiplicity \in DOMAIN Bounds /\ x.navigable \in BOOLEAN
         /\ InRange(x.multiplicity)
         /\ \E e \in d.elements : e.id = x.elementId
<1>1. RelationshipShape(r)
  BY Shapes
<1>2. EndShape(r.source) /\ EndShape(r.target)
  BY <1>1, Zenon DEF RelationshipShape
<1>3. EndShape(x)
  BY <1>2
<1>4. x.role # None /\ x.multiplicity \in DOMAIN Bounds /\ x.navigable \in BOOLEAN
  BY <1>3, Zenon DEF EndShape
<1>5. InRange(r.source.multiplicity) /\ InRange(r.target.multiplicity)
  BY Zenon DEF Valid, RelationshipsSound, RelationshipSound
<1> QED
  BY <1>4, <1>5, EndsInDocument

\* An end of an association in the file.
LEMMA EndWritten ==
  ASSUME NEW d, NEW r
  PROVE  /\ WrittenSource(d, r).id = <<"association_end", r.id, "source">>
         /\ WrittenTarget(d, r).id = <<"association_end", r.id, "target">>
         /\ WrittenSource(d, r).id # WrittenTarget(d, r).id
         /\ WrittenSource(d, r) # WrittenTarget(d, r)
         /\ WrittenSource(d, r).isNavigable = r.source.navigable
         /\ WrittenTarget(d, r).isNavigable = r.target.navigable
         /\ WrittenSource(d, r).owner = <<"relationship", r.id>>
         /\ WrittenTarget(d, r).owner = <<"relationship", r.id>>
         /\ WrittenSource(d, r).aggregation = Aggregation(r.kind)
         /\ WrittenTarget(d, r).aggregation = "none"
<1>1. WrittenSource(d, r).id = <<"association_end", r.id, "source">>
      /\ WrittenTarget(d, r).id = <<"association_end", r.id, "target">>
  BY DEF WrittenSource, WrittenTarget, WrittenEnd
<1>2. WrittenSource(d, r).id # WrittenTarget(d, r).id
  BY <1>1
<1> QED
  BY <1>1, <1>2 DEF WrittenSource, WrittenTarget, WrittenEnd

\* The element of an association names its ends in order.
LEMMA AssociationWritten ==
  ASSUME NEW d, NEW r, r.kind \in RelationshipKind, ~Directed(r), NEW a, a = WrittenRelationship(d, r)
  PROVE  /\ a.id = <<"relationship", r.id>>
         /\ a.memberEnds = <<WrittenSource(d, r).id, WrittenTarget(d, r).id>>
         /\ a.navigableEnds = NavigableEnds(d, r)
         /\ r.associationClassId = None => a.type = "association" /\ a.name = r.name
         /\ r.associationClassId # None => a.type = "associationclass" /\ a.associationName = r.name
<1>1. CASE r.associationClassId = None
  <2>1. a = WrittenPlain(d, r)
    BY <1>1, WrittenRelationships
  <2> QED
    BY <1>1, <2>1 DEF WrittenPlain
<1>2. CASE r.associationClassId # None
  <2>1. a = WrittenWithClass(d, r)
    BY <1>2, WrittenRelationships
  <2> QED
    BY <1>2, <2>1 DEF WrittenWithClass
<1> QED
  BY <1>1, <1>2

\* The ends of an association in the file are its own two.
LEMMA EndsWithin ==
  ASSUME NEW d, DiagramShape(d), Valid(d), Apart(d), NEW r \in d.relationships, ~Directed(r),
         NEW a, a.id = <<"relationship", r.id>>
  PROVE  RawEnds(Exported(d), a) = {WrittenSource(d, r), WrittenTarget(d, r)}
<1>1. a.id # None
  BY HashesApart
<1>2. ASSUME NEW t \in RawEnds(Exported(d), a)
      PROVE  t \in {WrittenSource(d, r), WrittenTarget(d, r)}
  <2>1. CASE t \in Tagged(Exported(d), "ownedEnd") /\ t.owner = a.id
    <3>1. PICK q \in d.relationships : t \in {WrittenSource(d, q), WrittenTarget(d, q)}
      BY <2>1, MembersInFile DEF FromEnd
    <3>2. t.owner = <<"relationship", q.id>>
      BY <3>1, EndWritten
    <3>3. q.id = r.id
      BY <2>1, <3>2
    <3>4. q = r
      BY <3>3, RelationshipsOneEach
    <3> QED
      BY <3>1, <3>4
  <2>2. CASE t \in Tagged(Exported(d), "ownedAttribute") /\ t.association = a.id
    <3>1. FromAttribute(d, t)
      BY <2>2, MembersInFile
    <3>2. t.association = None
      BY <3>1 DEF FromAttribute, WrittenAttribute
    <3> QED
      BY <1>1, <2>2, <3>2
  <2> QED
    BY <2>1, <2>2 DEF RawEnds
<1>3. ASSUME NEW t \in {WrittenSource(d, r), WrittenTarget(d, r)}
      PROVE  t \in RawEnds(Exported(d), a)
  <2>1. t.owner = a.id
    BY EndWritten
  <2>2. t \in Tagged(Exported(d), "ownedEnd")
    <3>1. FromEnd(d, t)
      BY DEF FromEnd
    <3> QED
      BY <3>1, MembersInFile
  <2> QED
    BY <2>1, <2>2 DEF RawEnds
<1> QED
  BY <1>2, <1>3

\* An end of a relationship after the import.
RenamedEnd(d, x) ==
  [elementId |-> NewId(d, x.elementId), role |-> x.role,
   multiplicity |-> SemanticMultiplicity(x.multiplicity), navigable |-> x.navigable]
RenamedRelationship(d, r) ==
  [id |-> <<"relationship", r.id>>, kind |-> r.kind, name |-> r.name,
   source |-> RenamedEnd(d, r.source), target |-> RenamedEnd(d, r.target),
   associationClassId |->
     IF r.associationClassId = None THEN None ELSE NewId(d, r.associationClassId)]

\* The importer writes a multiplicity as a document spelled so has it.
LEMMA SpelledEnds ==
  ASSUME NEW d, Spelled(d), NEW r \in d.relationships, NEW x \in {r.source, r.target}
  PROVE  Literal[<<Bounds[x.multiplicity].lower, Bounds[x.multiplicity].upper>>]
           = SemanticMultiplicity(x.multiplicity)
BY Zenon DEF Spelled

\* An end is read as it was.
LEMMA EndRead ==
  ASSUME NEW d, DiagramShape(d), Valid(d), Spelled(d), NEW r \in d.relationships,
         NEW x \in {r.source, r.target}, NEW a, NEW side, NEW aggregation,
         NEW w, w = WrittenEnd(d, r, x, side, aggregation)
  PROVE  /\ ReadEnd(Exported(d), a, w) = RenamedEnd(d, x)
         /\ IsClassifier(Exported(d), w.type.to)
         /\ w.upper = Unbounded \/ w.lower <= w.upper
         /\ ~OwnedByClassifier(w) /\ w.isNavigable = x.navigable /\ x.navigable \in BOOLEAN
<1>1. /\ w.tag = "ownedEnd" /\ w.name = x.role /\ w.isNavigable = x.navigable
      /\ w.type.to = ElementXmiId(d, x.elementId)
      /\ w.lower = Bounds[x.multiplicity].lower /\ w.upper = Bounds[x.multiplicity].upper
  BY DEF WrittenEnd
<1>2. x.role # None /\ x.navigable \in BOOLEAN /\ InRange(x.multiplicity)
  BY EndsAre
<1>3. ~OwnedByClassifier(w) /\ w.isNavigable # None
  BY <1>1, <1>2, AbsenceAssumption DEF OwnedByClassifier
<1>4. Navigable(a, w) = x.navigable
  BY <1>1, <1>2, <1>3 DEF Navigable
<1>5. Literal[<<w.lower, w.upper>>] = SemanticMultiplicity(x.multiplicity)
  BY <1>1, SpelledEnds
<1>6. CanonicalId("classifier", w.type.to) = NewId(d, x.elementId)
  BY <1>1 DEF NewId
<1>7. ReadEnd(Exported(d), a, w) = RenamedEnd(d, x)
  BY <1>1, <1>2, <1>4, <1>5, <1>6 DEF ReadEnd, RenamedEnd
<1>8. PICK e \in d.elements : e.id = x.elementId
  BY EndsAre
<1>9. IsClassifier(Exported(d), w.type.to)
  BY <1>1, <1>8, HostFound
<1>10. w.upper = Unbounded \/ w.lower <= w.upper
  BY <1>1, <1>2 DEF InRange
<1> QED
  BY <1>1, <1>2, <1>3, <1>7, <1>9, <1>10

\* Two things are two.
LEMMA PairCounted ==
  ASSUME NEW x, NEW y, x # y
  PROVE  Cardinality({x, y}) = 2
<1>1. IsFiniteSet({x}) /\ Cardinality({x}) = 1
  <2>1. {x} = {} \cup {x}
    OBVIOUS
  <2>2. IsFiniteSet({}) /\ Cardinality({}) = 0
    BY FS_EmptySet
  <2> QED
    BY <2>1, <2>2, FS_AddElement
<1>2. {x, y} = {x} \cup {y} /\ y \notin {x}
  OBVIOUS
<1>3. Cardinality({x} \cup {y}) = Cardinality({x}) + 1
  BY <1>1, <1>2, FS_AddElement
<1> QED
  BY <1>1, <1>2, <1>3

\* The two ends of an association, ordered as its memberEnd orders them.
LEMMA EndsOrdered ==
  ASSUME NEW d, DiagramShape(d), Valid(d), Apart(d), NEW r \in d.relationships, ~Directed(r),
         NEW a, a = WrittenRelationship(d, r)
  PROVE  /\ Ordered(Exported(d), a)[1] = WrittenSource(d, r)
         /\ Ordered(Exported(d), a)[2] = WrittenTarget(d, r)
         /\ Binary(Exported(d), a)
         /\ DOMAIN a.memberEnds = {1, 2}
         /\ a.memberEnds[1] = WrittenSource(d, r).id /\ a.memberEnds[2] = WrittenTarget(d, r).id
<1>1. PICK s, t : s = WrittenSource(d, r) /\ t = WrittenTarget(d, r)
  OBVIOUS
<1>2. s.id # t.id /\ s # t
  BY <1>1, EndWritten
<1>3. a.id = <<"relationship", r.id>> /\ a.memberEnds = <<s.id, t.id>>
  BY <1>1, KindsOf, AssociationWritten
<1>4. RawEnds(Exported(d), a) = {s, t}
  BY <1>1, <1>3, EndsWithin
<1>5. DOMAIN a.memberEnds = {1, 2} /\ a.memberEnds[1] = s.id /\ a.memberEnds[2] = t.id
  BY <1>3
<1>6. (CHOOSE e \in {s, t} : e.id = s.id) = s /\ (CHOOSE e \in {s, t} : e.id = t.id) = t
  BY <1>2
<1>7. Ordered(Exported(d), a)[1] = s /\ Ordered(Exported(d), a)[2] = t
  BY <1>4, <1>5, <1>6 DEF Ordered
<1>8. Binary(Exported(d), a)
  BY <1>2, <1>4, PairCounted DEF Binary
<1> QED
  BY <1>1, <1>5, <1>7, <1>8

\* The association is told what the code checks of it.
LEMMA AssociationUnderstood ==
  ASSUME NEW d, DiagramShape(d), Valid(d), Apart(d), Spelled(d), NEW r \in d.relationships,
         ~Directed(r), NEW a, a = WrittenRelationship(d, r)
  PROVE  AssociationReads(Exported(d), a)
<1>1. PICK s, t : s = WrittenSource(d, r) /\ t = WrittenTarget(d, r)
  OBVIOUS
<1>2. s.id # t.id /\ s.isNavigable = r.source.navigable /\ t.isNavigable = r.target.navigable
  BY <1>1, EndWritten
<1>3. a.id = <<"relationship", r.id>> /\ a.memberEnds = <<s.id, t.id>>
      /\ a.navigableEnds = NavigableEnds(d, r)
  BY <1>1, KindsOf, AssociationWritten
<1>4. RawEnds(Exported(d), a) = {s, t}
  BY <1>1, <1>3, EndsWithin
<1>5. DOMAIN a.memberEnds = {1, 2} /\ a.memberEnds[1] = s.id /\ a.memberEnds[2] = t.id
  BY <1>1, EndsOrdered
<1> DEFINE ids == {e.id : e \in RawEnds(Exported(d), a)}
           navigable == {x.id : x \in {y \in {s, t} : y.isNavigable}}
<1>6. ids = {s.id, t.id}
  BY <1>4
<1>7. {a.memberEnds[i] : i \in DOMAIN a.memberEnds} = ids
  BY <1>5, <1>6
<1>8. Len(a.memberEnds) = Cardinality(ids)
  <2>1. Len(a.memberEnds) = 2
    BY <1>3
  <2>2. Cardinality({s.id, t.id}) = 2
    BY <1>2, PairCounted
  <2> HIDE DEF ids
  <2> QED
    BY <1>6, <2>1, <2>2
<1>9. a.navigableEnds # None => a.navigableEnds = navigable
  BY <1>1, <1>3 DEF NavigableEnds
<1>10. /\ s.isNavigable \in BOOLEAN /\ t.isNavigable \in BOOLEAN
       /\ s.id \in navigable <=> s.isNavigable
       /\ t.id \in navigable <=> t.isNavigable
       /\ navigable \subseteq {s.id, t.id}
  <2>1. r.source.navigable \in BOOLEAN /\ r.target.navigable \in BOOLEAN
    BY EndsAre
  <2> QED
    BY <1>2, <2>1
<1>11. ASSUME NEW e \in {s, t}
       PROVE  EndReads(Exported(d), a, e)
  <2>1. /\ IsClassifier(Exported(d), e.type.to)
        /\ e.upper = Unbounded \/ e.lower <= e.upper
        /\ ~OwnedByClassifier(e)
    <3>1. CASE e = s
      BY <1>1, <3>1, EndRead DEF WrittenSource
    <3>2. CASE e = t
      BY <1>1, <3>2, EndRead DEF WrittenTarget
    <3> QED
      BY <3>1, <3>2
  <2>2. a.navigableEnds # None => e.isNavigable = Listed(a, e)
    <3> HIDE DEF navigable
    <3> QED
      BY <1>9, <1>10 DEF Listed
  <2> QED
    BY <2>1, <2>2 DEF EndReads
<1>12. AggregationOf(t) = "none"
  BY <1>1, EndWritten DEF AggregationOf
<1> HIDE DEF ids, navigable
<1>13. a.navigableEnds # None => a.navigableEnds \subseteq ids
  BY <1>6, <1>9, <1>10
<1>14. \A e \in RawEnds(Exported(d), a) : EndReads(Exported(d), a, e)
  BY <1>4, <1>11
<1>15. \E e \in RawEnds(Exported(d), a) : AggregationOf(e) = "none"
  BY <1>4, <1>12
<1> QED
  BY <1>7, <1>8, <1>13, <1>14, <1>15, Zenon DEF AssociationReads, ids

\* An association is read as it was: its kind from the whole, its sides in order.
LEMMA AssociationRead ==
  ASSUME NEW d, DiagramShape(d), Valid(d), Exportable(d), Apart(d), Spelled(d),
         NEW r \in d.relationships, ~Directed(r), NEW a, a = WrittenRelationship(d, r)
  PROVE  ReadAssociation(Exported(d), a) = RenamedRelationship(d, r)
<1>1. PICK s, t : s = WrittenSource(d, r) /\ t = WrittenTarget(d, r)
  OBVIOUS
<1>2. PICK ends : ends = Ordered(Exported(d), a)
  OBVIOUS
<1>3. ends[1] = s /\ ends[2] = t
  BY <1>1, <1>2, EndsOrdered
<1>4. ~OwnedByClassifier(s) /\ ~OwnedByClassifier(t)
      /\ ReadEnd(Exported(d), a, s) = RenamedEnd(d, r.source)
      /\ ReadEnd(Exported(d), a, t) = RenamedEnd(d, r.target)
  BY <1>1, EndRead DEF WrittenSource, WrittenTarget
<1>5. AggregationOf(s) = Aggregation(r.kind) /\ AggregationOf(t) = "none"
  BY <1>1, <1>4, EndWritten DEF AggregationOf
<1>6. Sides(ends) = ends
  BY <1>3, <1>5 DEF Sides
<1>7. KindOf(s) = r.kind
  <2>1. r.kind \in {"association", "aggregation", "composition"}
    BY DEF Directed, Hierarchies
  <2>2. CASE r.kind = "association"
    BY <1>5, <2>2 DEF Aggregation, KindOf
  <2>3. CASE r.kind = "aggregation"
    BY <1>5, <2>3 DEF Aggregation, KindOf
  <2>4. CASE r.kind = "composition"
    BY <1>5, <2>4 DEF Aggregation, KindOf
  <2> QED
    BY <2>1, <2>2, <2>3, <2>4
<1>8. /\ a.id = <<"relationship", r.id>>
      /\ r.associationClassId = None => a.type = "association" /\ a.name = r.name
      /\ r.associationClassId # None => a.type = "associationclass" /\ a.associationName = r.name
  BY KindsOf, AssociationWritten
<1>9. r.associationClassId # None => r.name # None
  BY Zenon DEF Exportable, ExportableRelationship
<1>10. AssociationName(a) = r.name
  BY <1>8, <1>9 DEF AssociationName
<1>11. (IF a.type = "associationclass" THEN CanonicalId("classifier", a.id) ELSE None)
         = (IF r.associationClassId = None THEN None ELSE NewId(d, r.associationClassId))
  <2>1. CASE r.associationClassId = None
    BY <1>8, <2>1
  <2>2. CASE r.associationClassId # None
    <3>1. r \in Owners(d, r.associationClassId)
      BY DEF Owners
    <3>2. ElementXmiId(d, r.associationClassId) = <<"relationship", r.id>>
      BY <2>2, <3>1, XmiIds
    <3> QED
      BY <1>8, <2>2, <3>2 DEF NewId
  <2> QED
    BY <2>1, <2>2
<1>12. CanonicalId("relationship", a.id) = <<"relationship", r.id>>
  BY <1>8, CanonicalIds
<1>13. ReadSides(Exported(d), a, ends) = RenamedRelationship(d, r)
  BY <1>3, <1>4, <1>7, <1>10, <1>11, <1>12 DEF ReadSides, RenamedRelationship
<1> QED
  BY <1>2, <1>6, <1>13 DEF ReadAssociation

\* So is a relationship with a direction, which has no ends of its own.
LEMMA DirectedRead ==
  ASSUME NEW d, DiagramShape(d), Valid(d), Exportable(d), NEW r \in d.relationships, Directed(r)
  PROVE  ReadDirected(RawOf(d, r)) = RenamedRelationship(d, r)
<1>1. r.associationClassId = None /\ \A x \in {r.source, r.target} :
        x.multiplicity = "1" /\ ~x.navigable /\ x.role = ""
  BY Zenon DEF Exportable, ExportableRelationship
<1>2. ASSUME NEW x \in {r.source, r.target}
      PROVE  DirectedEnd(ElementXmiId(d, x.elementId)) = RenamedEnd(d, x)
  <2>1. x.navigable = FALSE
    BY <1>1, EndsAre
  <2>2. SemanticMultiplicity(x.multiplicity) = "1"
    BY <1>1 DEF SemanticMultiplicity
  <2> QED
    BY <1>1, <2>1, <2>2 DEF DirectedEnd, RenamedEnd, NewId
<1>3. PICK q : q = RawOf(d, r)
  OBVIOUS
<1>4. /\ q.id = <<"relationship", r.id>> /\ q.kind = r.kind /\ q.name = r.name
      /\ q.source = ElementXmiId(d, r.source.elementId)
      /\ q.target = ElementXmiId(d, r.target.elementId)
  BY <1>3 DEF RawOf
<1>5. CanonicalId("relationship", q.id) = <<"relationship", r.id>>
  BY <1>4, CanonicalIds
<1>6. DirectedEnd(q.source) = RenamedEnd(d, r.source) /\ DirectedEnd(q.target) = RenamedEnd(d, r.target)
  BY <1>2, <1>4
<1>7. ReadDirected(q) = RenamedRelationship(d, r)
  BY <1>1, <1>4, <1>5, <1>6 DEF ReadDirected, RenamedRelationship
<1> QED
  BY <1>3, <1>7

\* Each family of elements has identifiers of a form of its own.
LEMMA FileIds ==
  ASSUME NEW d, DiagramShape(d), Valid(d), NEW t
  PROVE  /\ FromDataType(d, t) => t.id[1] = "data_type"
         /\ FromClassifier(d, t) => t.id[1] = "classifier"
         /\ FromAttribute(d, t) => t.id[1] = "attribute"
         /\ FromOperation(d, t) => t.id[1] = "operation"
         /\ FromReturn(d, t) => t.id[1] = "parameter" /\ Len(t.id) = 3
         /\ FromInput(d, t) => t.id[1] = "parameter" /\ Len(t.id) = 2
         /\ FromEnd(d, t) => t.id[1] = "association_end"
         /\ FromRelationship(d, t) => t.id[1] = "relationship"
<1>1. FromDataType(d, t) => t.id[1] = "data_type"
  BY DEF FromDataType, WrittenDataType
<1>2. ASSUME FromClassifier(d, t)
      PROVE  t.id[1] = "classifier"
  <2>1. PICK e \in d.elements : Owners(d, e.id) = {} /\ t = WrittenClassifier(d, e)
    BY <1>2 DEF FromClassifier
  <2>2. t.id = ElementXmiId(d, e.id) /\ e.id # None
    BY <2>1, ClassifierIs DEF WrittenClassifier
  <2>3. t.id = <<"classifier", e.id>>
    BY <2>1, <2>2, XmiIds
  <2> QED
    BY <2>3
<1>3. FromAttribute(d, t) => t.id[1] = "attribute"
  BY DEF FromAttribute, WrittenAttribute
<1>4. FromOperation(d, t) => t.id[1] = "operation"
  BY DEF FromOperation, WrittenSignature
<1>5. ASSUME FromReturn(d, t)
      PROVE  t.id[1] = "parameter" /\ Len(t.id) = 3
  <2>1. PICK e, o : t = WrittenReturn(d, o)
    BY <1>5 DEF FromReturn
  <2>2. t.id = <<"parameter", o.id, "return">>
    BY <2>1 DEF WrittenReturn, WrittenParameter
  <2> QED
    BY <2>2
<1>6. ASSUME FromInput(d, t)
      PROVE  t.id[1] = "parameter" /\ Len(t.id) = 2
  <2>1. PICK o, p : t = WrittenInput(d, o, p)
    BY <1>6, Zenon DEF FromInput
  <2>2. t.id = <<"parameter", p.id>>
    BY <2>1 DEF WrittenInput, WrittenParameter
  <2> QED
    BY <2>2
<1>7. ASSUME FromEnd(d, t)
      PROVE  t.id[1] = "association_end"
  <2>1. PICK r : t \in {WrittenSource(d, r), WrittenTarget(d, r)}
    BY <1>7 DEF FromEnd
  <2> QED
    BY <2>1, EndWritten
<1>8. ASSUME FromRelationship(d, t)
      PROVE  t.id[1] = "relationship"
  <2>1. PICK r \in d.relationships : t = WrittenRelationship(d, r)
    BY <1>8 DEF FromRelationship
  <2>2. t.id = <<"relationship", r.id>>
    BY <2>1, KindsOf, RelationshipTags
  <2> QED
    BY <2>2
<1> QED
  BY <1>1, <1>2, <1>3, <1>4, <1>5, <1>6, <1>7, <1>8

\* And within its family an identifier is that of one element.
LEMMA FamilyIds ==
  ASSUME NEW d, DiagramShape(d), Valid(d), NEW s, NEW t, s.id = t.id
  PROVE  /\ FromDataType(d, s) /\ FromDataType(d, t) => s = t
         /\ FromClassifier(d, s) /\ FromClassifier(d, t) => s = t
         /\ FromAttribute(d, s) /\ FromAttribute(d, t) => s = t
         /\ FromOperation(d, s) /\ FromOperation(d, t) => s = t
         /\ FromReturn(d, s) /\ FromReturn(d, t) => s = t
         /\ FromInput(d, s) /\ FromInput(d, t) => s = t
         /\ FromEnd(d, s) /\ FromEnd(d, t) => s = t
         /\ FromRelationship(d, s) /\ FromRelationship(d, t) => s = t
<1>0. UniqueIds(d)
  BY DEF Valid
<1>1. ASSUME FromDataType(d, s), FromDataType(d, t)
      PROVE  s = t
  <2>1. PICK m, n : s = WrittenDataType(m) /\ t = WrittenDataType(n)
    BY <1>1 DEF FromDataType
  <2>2. s.id = <<"data_type", m>> /\ t.id = <<"data_type", n>>
    BY <2>1 DEF WrittenDataType
  <2>3. m = n
    <3>1. <<"data_type", m>> = <<"data_type", n>>
      BY <2>2, Zenon
    <3> QED
      BY <3>1
  <2> QED
    BY <2>1, <2>3
<1>2. ASSUME FromClassifier(d, s), FromClassifier(d, t)
      PROVE  s = t
  <2>1. PICK e, f : e \in d.elements /\ f \in d.elements
                    /\ s = WrittenClassifier(d, e) /\ t = WrittenClassifier(d, f)
    BY <1>2 DEF FromClassifier
  <2>2. s.id = ElementXmiId(d, e.id) /\ t.id = ElementXmiId(d, f.id)
    BY <2>1 DEF WrittenClassifier
  <2>3. e.id # None /\ f.id # None
    BY <2>1, ClassifierIs
  <2>4. e.id = f.id
    BY <2>2, <2>3, IdsDiffer
  <2>5. e = f
    BY <1>0, <2>1, <2>4, MembersOneEach
  <2> QED
    BY <2>1, <2>5
<1>3. ASSUME FromAttribute(d, s), FromAttribute(d, t)
      PROVE  s = t
  <2>1. PICK e, a : e \in d.elements /\ a \in e.attributes
                    /\ s = WrittenAttribute(d, ElementXmiId(d, e.id), a)
    BY <1>3 DEF FromAttribute
  <2>2. PICK f, b : f \in d.elements /\ b \in f.attributes
                    /\ t = WrittenAttribute(d, ElementXmiId(d, f.id), b)
    BY <1>3 DEF FromAttribute
  <2>3. s.id = <<"attribute", a.id>> /\ t.id = <<"attribute", b.id>>
    BY <2>1, <2>2 DEF WrittenAttribute
  <2>4. a.id = b.id
    <3>1. <<"attribute", a.id>> = <<"attribute", b.id>>
      BY <2>3, Zenon
    <3> QED
      BY <3>1
  <2>5. e = f /\ a = b
    BY <1>0, <2>1, <2>2, <2>4, MembersOneEach
  <2> QED
    BY <2>1, <2>2, <2>5
<1>4. ASSUME FromOperation(d, s), FromOperation(d, t)
      PROVE  s = t
  <2>1. PICK e, o : e \in d.elements /\ o \in e.operations
                    /\ s = WrittenSignature(ElementXmiId(d, e.id), o)
    BY <1>4 DEF FromOperation
  <2>2. PICK f, q : f \in d.elements /\ q \in f.operations
                    /\ t = WrittenSignature(ElementXmiId(d, f.id), q)
    BY <1>4 DEF FromOperation
  <2>3. s.id = <<"operation", o.id>> /\ t.id = <<"operation", q.id>>
    BY <2>1, <2>2 DEF WrittenSignature
  <2>4. o.id = q.id
    <3>1. <<"operation", o.id>> = <<"operation", q.id>>
      BY <2>3, Zenon
    <3> QED
      BY <3>1
  <2>5. e = f /\ o = q
    BY <1>0, <2>1, <2>2, <2>4, MembersOneEach
  <2> QED
    BY <2>1, <2>2, <2>5
<1>5. ASSUME FromReturn(d, s), FromReturn(d, t)
      PROVE  s = t
  <2>1. PICK e, o : e \in d.elements /\ o \in e.operations /\ s = WrittenReturn(d, o)
    BY <1>5 DEF FromReturn
  <2>2. PICK f, q : f \in d.elements /\ q \in f.operations /\ t = WrittenReturn(d, q)
    BY <1>5 DEF FromReturn
  <2>3. s.id = <<"parameter", o.id, "return">> /\ t.id = <<"parameter", q.id, "return">>
    BY <2>1, <2>2 DEF WrittenReturn, WrittenParameter
  <2>4. o.id = q.id
    <3>1. <<"parameter", o.id, "return">> = <<"parameter", q.id, "return">>
      BY <2>3, Zenon
    <3> QED
      BY <3>1
  <2>5. o = q
    BY <1>0, <2>1, <2>2, <2>4, MembersOneEach
  <2> QED
    BY <2>1, <2>2, <2>5
<1>6. ASSUME FromInput(d, s), FromInput(d, t)
      PROVE  s = t
  <2>1. PICK e, o, p : e \in d.elements /\ o \in e.operations /\ p \in o.parameters
                       /\ s = WrittenInput(d, o, p)
    BY <1>6, Zenon DEF FromInput
  <2>2. PICK f, q, u : f \in d.elements /\ q \in f.operations /\ u \in q.parameters
                       /\ t = WrittenInput(d, q, u)
    BY <1>6, Zenon DEF FromInput
  <2>3. s.id = <<"parameter", p.id>> /\ t.id = <<"parameter", u.id>>
    BY <2>1, <2>2 DEF WrittenInput, WrittenParameter
  <2>4. p.id = u.id
    <3>1. <<"parameter", p.id>> = <<"parameter", u.id>>
      BY <2>3, Zenon
    <3> QED
      BY <3>1
  <2>5. o = q /\ p = u
    BY <1>0, <2>1, <2>2, <2>4, MembersOneEach
  <2> QED
    BY <2>1, <2>2, <2>5
<1>7. ASSUME FromEnd(d, s), FromEnd(d, t)
      PROVE  s = t
  <2>1. PICK r \in d.relationships : s \in {WrittenSource(d, r), WrittenTarget(d, r)}
    BY <1>7 DEF FromEnd
  <2>2. PICK q \in d.relationships : t \in {WrittenSource(d, q), WrittenTarget(d, q)}
    BY <1>7 DEF FromEnd
  <2>3. PICK x, y : s.id = <<"association_end", r.id, x>> /\ t.id = <<"association_end", q.id, y>>
    BY <2>1, <2>2, EndWritten
  <2>4. r.id = q.id
    <3>1. <<"association_end", r.id, x>> = <<"association_end", q.id, y>>
      BY <2>3, Zenon
    <3> QED
      BY <3>1
  <2>5. r = q
    BY <2>4, RelationshipsOneEach
  <2>6. WrittenSource(d, r).id # WrittenTarget(d, r).id
    BY EndWritten
  <2> QED
    BY <2>1, <2>2, <2>5, <2>6
<1>8. ASSUME FromRelationship(d, s), FromRelationship(d, t)
      PROVE  s = t
  <2>1. PICK r \in d.relationships : s = WrittenRelationship(d, r)
    BY <1>8 DEF FromRelationship
  <2>2. PICK q \in d.relationships : t = WrittenRelationship(d, q)
    BY <1>8 DEF FromRelationship
  <2>3. s.id = <<"relationship", r.id>> /\ t.id = <<"relationship", q.id>>
    BY <2>1, <2>2, KindsOf, RelationshipTags
  <2>4. r.id = q.id
    <3>1. <<"relationship", r.id>> = <<"relationship", q.id>>
      BY <2>3, Zenon
    <3> QED
      BY <3>1
  <2>5. r = q
    BY <2>4, RelationshipsOneEach
  <2> QED
    BY <2>1, <2>2, <2>5
<1> QED
  BY <1>1, <1>2, <1>3, <1>4, <1>5, <1>6, <1>7, <1>8

\* So no two elements of a file have one identifier.
LEMMA FileIdsDiffer ==
  ASSUME NEW d, DiagramShape(d), Valid(d), NEW s, NEW t, s.id = t.id,
         s \in Exported(d), t \in Exported(d)
  PROVE  s = t
<1>1. \/ FromDataType(d, s) \/ FromClassifier(d, s) \/ FromAttribute(d, s)
      \/ FromOperation(d, s) \/ FromReturn(d, s) \/ FromInput(d, s)
      \/ FromEnd(d, s) \/ FromRelationship(d, s)
  BY InFile
<1>2. \/ FromDataType(d, t) \/ FromClassifier(d, t) \/ FromAttribute(d, t)
      \/ FromOperation(d, t) \/ FromReturn(d, t) \/ FromInput(d, t)
      \/ FromEnd(d, t) \/ FromRelationship(d, t)
  BY InFile
<1>3. PICK x : x = s.id
  OBVIOUS
<1>4. /\ FromDataType(d, s) => x[1] = "data_type"
      /\ FromClassifier(d, s) => x[1] = "classifier"
      /\ FromAttribute(d, s) => x[1] = "attribute"
      /\ FromOperation(d, s) => x[1] = "operation"
      /\ FromReturn(d, s) => x[1] = "parameter" /\ Len(x) = 3
      /\ FromInput(d, s) => x[1] = "parameter" /\ Len(x) = 2
      /\ FromEnd(d, s) => x[1] = "association_end"
      /\ FromRelationship(d, s) => x[1] = "relationship"
  BY <1>3, FileIds
<1>5. /\ FromDataType(d, t) => x[1] = "data_type"
      /\ FromClassifier(d, t) => x[1] = "classifier"
      /\ FromAttribute(d, t) => x[1] = "attribute"
      /\ FromOperation(d, t) => x[1] = "operation"
      /\ FromReturn(d, t) => x[1] = "parameter" /\ Len(x) = 3
      /\ FromInput(d, t) => x[1] = "parameter" /\ Len(x) = 2
      /\ FromEnd(d, t) => x[1] = "association_end"
      /\ FromRelationship(d, t) => x[1] = "relationship"
  BY <1>3, FileIds
<1> QED
  BY <1>1, <1>2, <1>4, <1>5, FamilyIds

-----------------------------------------------------------------------------
(* The document read again *)

\* A document as it comes back from its file: every identifier is a hash, every
\* classifier at the origin, 0..* in place of *.
Reread(d) ==
  [elements |-> {RenamedClassifier(d, e) : e \in d.elements},
   positions |-> {[elementId |-> NewId(d, e.id), x |-> 0] : e \in d.elements},
   relationships |-> {RenamedRelationship(d, r) : r \in d.relationships}]

\* The elements the importer reads.
LEMMA ElementsRead ==
  ASSUME NEW d, DiagramShape(d), Valid(d), Exportable(d)
  PROVE  ReadElements(Exported(d)) = {RenamedClassifier(d, e) : e \in d.elements}
<1> DEFINE A == ReadElements(Exported(d))
           B == {RenamedClassifier(d, e) : e \in d.elements}
<1>1. ASSUME NEW x \in A
      PROVE  x \in B
  <2>1. PICK c \in RawClassifiers(Exported(d)) : x = ReadClassifier(Exported(d), c)
    BY <1>1 DEF ReadElements
  <2>2. PICK e \in d.elements : c = Host(d, e)
    BY <2>1, ClassifiersInFile
  <2>3. x = RenamedClassifier(d, e)
    BY <2>1, <2>2, ClassifierRead
  <2> QED
    BY <2>3
<1>2. ASSUME NEW x \in B
      PROVE  x \in A
  <2>1. PICK e \in d.elements : x = RenamedClassifier(d, e)
    BY <1>2
  <2>2. Host(d, e) \in RawClassifiers(Exported(d))
    BY Hosts
  <2>3. x = ReadClassifier(Exported(d), Host(d, e))
    BY <2>1, ClassifierRead
  <2> QED
    BY <2>2, <2>3 DEF ReadElements
<1> QED
  BY <1>1, <1>2

\* The relationships the importer reads.
LEMMA RelationshipsRead ==
  ASSUME NEW d, DiagramShape(d), Valid(d), Exportable(d), Apart(d), Spelled(d)
  PROVE  {ReadAssociation(Exported(d), a) :
            a \in {x \in RawAssociations(Exported(d)) : Binary(Exported(d), x)}}
           \cup {ReadDirected(r) : r \in RawDirected(Exported(d))}
         = {RenamedRelationship(d, r) : r \in d.relationships}
<1> DEFINE F == Exported(d)
           A == {ReadAssociation(F, a) : a \in {x \in RawAssociations(F) : Binary(F, x)}}
           B == {ReadDirected(r) : r \in RawDirected(F)}
           R == {RenamedRelationship(d, r) : r \in d.relationships}
<1>1. ASSUME NEW x \in A
      PROVE  x \in R
  <2>1. PICK a \in RawAssociations(F) : x = ReadAssociation(F, a)
    BY <1>1
  <2>2. PICK r \in d.relationships : ~Directed(r) /\ a = WrittenRelationship(d, r)
    BY <2>1, TypesInFile
  <2>3. x = RenamedRelationship(d, r)
    BY <2>1, <2>2, AssociationRead
  <2> QED
    BY <2>3
<1>2. ASSUME NEW x \in B
      PROVE  x \in R
  <2>1. PICK q \in RawDirected(F) : x = ReadDirected(q)
    BY <1>2
  <2>2. PICK r \in d.relationships : Directed(r) /\ q = RawOf(d, r)
    BY <2>1, DirectedInFile
  <2>3. x = RenamedRelationship(d, r)
    BY <2>1, <2>2, DirectedRead
  <2> QED
    BY <2>3
<1>3. ASSUME NEW x \in R
      PROVE  x \in A \cup B
  <2>1. PICK r \in d.relationships : x = RenamedRelationship(d, r)
    BY <1>3
  <2>2. CASE Directed(r)
    <3>1. PICK q : q = RawOf(d, r)
      OBVIOUS
    <3>2. q \in RawDirected(F)
      BY <2>2, <3>1, DirectedInFile
    <3>3. x = ReadDirected(q)
      BY <2>1, <2>2, <3>1, DirectedRead
    <3> QED
      BY <3>2, <3>3
  <2>3. CASE ~Directed(r)
    <3>1. PICK a : a = WrittenRelationship(d, r)
      OBVIOUS
    <3>2. a \in RawAssociations(F)
      BY <2>3, <3>1, TypesInFile
    <3>3. Binary(F, a)
      BY <2>3, <3>1, EndsOrdered
    <3>4. x = ReadAssociation(F, a)
      BY <2>1, <2>3, <3>1, AssociationRead
    <3> QED
      BY <3>2, <3>3, <3>4
  <2> QED
    BY <2>2, <2>3
<1> HIDE DEF A, B, R
<1>4. A \cup B = R
  BY <1>1, <1>2, <1>3
<1> QED
  BY <1>4 DEF A, B, R

\* What is imported of an exported file.
LEMMA ImportedIs ==
  ASSUME NEW d, DiagramShape(d), Valid(d), Exportable(d), Apart(d), Spelled(d)
  PROVE  Imported(Exported(d)) = Reread(d)
<1> DEFINE E == {RenamedClassifier(d, e) : e \in d.elements}
           P == {[elementId |-> e.id, x |-> 0] : e \in E}
           Q == {[elementId |-> NewId(d, e.id), x |-> 0] : e \in d.elements}
<1>1. \A e \in d.elements : RenamedClassifier(d, e).id = NewId(d, e.id)
  BY DEF RenamedClassifier
<1>2. P = Q
  <2>1. ASSUME NEW x \in P
        PROVE  x \in Q
    <3>1. PICK e \in d.elements : x = [elementId |-> RenamedClassifier(d, e).id, x |-> 0]
      BY <2>1
    <3> QED
      BY <1>1, <3>1
  <2>2. ASSUME NEW x \in Q
        PROVE  x \in P
    <3>1. PICK e \in d.elements : x = [elementId |-> NewId(d, e.id), x |-> 0]
      BY <2>2
    <3>2. RenamedClassifier(d, e) \in E /\ x = [elementId |-> RenamedClassifier(d, e).id, x |-> 0]
      BY <1>1, <3>1
    <3> QED
      BY <3>2
  <2> QED
    BY <2>1, <2>2
<1>3. ReadElements(Exported(d)) = E
  BY ElementsRead
<1> HIDE DEF E
<1>4. {[elementId |-> e.id, x |-> 0] : e \in ReadElements(Exported(d))} = P
  BY <1>3
<1> HIDE DEF P, Q
<1> QED
  BY <1>2, <1>3, <1>4, RelationshipsRead DEF Imported, Reread, E, Q

\* A type of a classifier is that of an attribute, a result or a parameter.
LEMMA TypesOfMembers ==
  ASSUME NEW e, NEW t
  PROVE  t \in TypesOf(e) <=>
           \/ \E a \in e.attributes : t = a.type
           \/ \E o \in e.operations : t = o.returnType
           \/ \E o \in e.operations : \E p \in o.parameters : t = p.type
<1> DEFINE A == {a.type : a \in e.attributes}
           B == {o.returnType : o \in e.operations}
           C == UNION {{p.type : p \in o.parameters} : o \in e.operations}
<1>1. TypesOf(e) = A \cup B \cup C
  BY Zenon DEF TypesOf
<1>2. t \in A <=> \E a \in e.attributes : t = a.type
  OBVIOUS
<1>3. t \in B <=> \E o \in e.operations : t = o.returnType
  OBVIOUS
<1>4. t \in C <=> \E o \in e.operations : \E p \in o.parameters : t = p.type
  OBVIOUS
<1> HIDE DEF A, B, C
<1> QED
  BY <1>1, <1>2, <1>3, <1>4

\* The types of a classifier of the import are those of the document, renamed.
LEMMA TypesRenamed ==
  ASSUME NEW d, NEW e, NEW t
  PROVE  t \in TypesOf(RenamedClassifier(d, e)) <=> \E u \in TypesOf(e) : t = RenamedType(d, u)
<1>1. PICK f : f = RenamedClassifier(d, e)
  OBVIOUS
<1>2. f.attributes = {RenamedAttribute(d, a) : a \in e.attributes}
      /\ f.operations = {RenamedOperation(d, o) : o \in e.operations}
  BY <1>1 DEF RenamedClassifier
<1>3. \A a : RenamedAttribute(d, a).type = RenamedType(d, a.type)
  BY DEF RenamedAttribute
<1>4. \A o : /\ RenamedOperation(d, o).returnType = RenamedType(d, o.returnType)
             /\ RenamedOperation(d, o).parameters = {RenamedParameter(d, p) : p \in o.parameters}
  BY DEF RenamedOperation
<1>5. \A p : RenamedParameter(d, p).type = RenamedType(d, p.type)
  BY DEF RenamedParameter
<1>6. t \in TypesOf(f) <=>
        \/ \E a \in f.attributes : t = a.type
        \/ \E o \in f.operations : t = o.returnType
        \/ \E o \in f.operations : \E p \in o.parameters : t = p.type
  BY TypesOfMembers
<1>7. \A u : u \in TypesOf(e) <=>
        \/ \E a \in e.attributes : u = a.type
        \/ \E o \in e.operations : u = o.returnType
        \/ \E o \in e.operations : \E p \in o.parameters : u = p.type
  BY TypesOfMembers
<1> HIDE DEF RenamedType
<1>8. (\E a \in f.attributes : t = a.type) <=> \E a \in e.attributes : t = RenamedType(d, a.type)
  BY <1>2, <1>3
<1>9. (\E o \in f.operations : t = o.returnType) <=>
        \E o \in e.operations : t = RenamedType(d, o.returnType)
  BY <1>2, <1>4
<1>10. (\E o \in f.operations : \E p \in o.parameters : t = p.type) <=>
         \E o \in e.operations : \E p \in o.parameters : t = RenamedType(d, p.type)
  <2>1. \A o : (\E p \in RenamedOperation(d, o).parameters : t = p.type) <=>
               \E p \in o.parameters : t = RenamedType(d, p.type)
    BY <1>4, <1>5
  <2> QED
    BY <1>2, <2>1
<1> QED
  BY <1>1, <1>6, <1>7, <1>8, <1>9, <1>10

\* Nothing in an exported file fails the import.
LEMMA FileImportable ==
  ASSUME NEW d, DiagramShape(d), Valid(d), Exportable(d), Apart(d), Spelled(d)
  PROVE  Importable(Exported(d))
<1> DEFINE F == Exported(d)
<1>1. \A s, t \in F : s.id = t.id => s = t
  BY FileIdsDiffer
<1>2. ASSUME NEW t \in RawDataTypes(F)
      PROVE  OmgName(t.name) = None /\ \A s \in RawDataTypes(F) : s.name = t.name => s = t
  <2>1. PICK n \in NonStandardTypes(d) : t = WrittenDataType(n)
    BY TypesInFile DEF FromDataType
  <2>2. t.name = n
    BY <2>1 DEF WrittenDataType
  <2>3. OmgName(n) = None
    BY DEF NonStandardTypes
  <2>4. ASSUME NEW s \in RawDataTypes(F), s.name = t.name
        PROVE  s = t
    <3>1. PICK m : s = WrittenDataType(m)
      BY TypesInFile DEF FromDataType
    <3>2. s.name = m
      BY <3>1 DEF WrittenDataType
    <3>3. m = n
      BY <2>2, <2>4, <3>2
    <3> QED
      BY <2>1, <3>1, <3>3
  <2> QED
    BY <2>2, <2>3, <2>4
<1>3. ASSUME NEW c \in RawClassifiers(F), NEW a \in RawAttributes(F, c)
      PROVE  TypeReads(F, a)
  <2>1. PICK e \in d.elements : c = Host(d, e)
    BY ClassifiersInFile
  <2>2. PICK b \in e.attributes : a = WrittenAttribute(d, ElementXmiId(d, e.id), b)
    BY <2>1, MembersWithin
  <2> QED
    BY <2>2, AttributeRead
<1>4. ASSUME NEW o \in Tagged(F, "ownedOperation")
      PROVE  /\ \A p \in RawParameters(F, o, "in") : TypeReads(F, p)
             /\ ReturnsAgree(F, o)
             /\ \A p \in Returns(F, o) : p.type.by = "none" \/ TypeReads(F, p)
  <2>1. FromOperation(d, o)
    BY MembersInFile
  <2>2. PICK e \in d.elements : \E q \in e.operations : o = WrittenSignature(ElementXmiId(d, e.id), q)
    BY <2>1, Zenon DEF FromOperation
  <2>3. PICK q \in e.operations : o = WrittenSignature(ElementXmiId(d, e.id), q)
    BY <2>2
  <2>4. o.id = <<"operation", q.id>>
    BY <2>3 DEF WrittenSignature
  <2>5. ASSUME NEW p \in RawParameters(F, o, "in")
        PROVE  TypeReads(F, p)
    <3>1. PICK u \in q.parameters : p = WrittenInput(d, q, u)
      BY <2>4, ParametersWithin
    <3> QED
      BY <3>1, ParameterRead
  <2>6. ReturnsAgree(F, o) /\ \A p \in Returns(F, o) : TypeReads(F, p)
    BY <2>4, ReturnRead
  <2> QED
    BY <2>5, <2>6
<1>5. ASSUME NEW t \in Tagged(F, "ownedAttribute")
      PROVE  t.association = None
  <2>1. FromAttribute(d, t)
    BY MembersInFile
  <2> QED
    BY <2>1 DEF FromAttribute, WrittenAttribute
<1>6. ASSUME NEW a \in RawAssociations(F)
      PROVE  AssociationReads(F, a)
  <2>1. PICK r \in d.relationships : ~Directed(r) /\ a = WrittenRelationship(d, r)
    BY TypesInFile
  <2> QED
    BY <2>1, AssociationUnderstood
<1>7. ASSUME NEW q \in RawDirected(F)
      PROVE  IsClassifier(F, q.source) /\ IsClassifier(F, q.target)
  <2>1. PICK r \in d.relationships : q = RawOf(d, r)
    BY DirectedInFile
  <2>2. q.source = ElementXmiId(d, r.source.elementId) /\ q.target = ElementXmiId(d, r.target.elementId)
    BY <2>1 DEF RawOf
  <2>3. PICK e \in d.elements : e.id = r.source.elementId
    BY EndsInDocument
  <2>4. PICK f \in d.elements : f.id = r.target.elementId
    BY EndsInDocument
  <2> QED
    BY <2>2, <2>3, <2>4, HostFound
<1> HIDE DEF F
<1>8. Importable(F)
  BY <1>1, <1>2, <1>3, <1>4, <1>5, <1>6, <1>7, Zenon DEF Importable
<1> QED
  BY <1>8 DEF F

\* The names of the types of a document are those of its import.
LEMMA NamesOfTypes ==
  ASSUME NEW d, NEW n \in NonStandardTypes(d)
  PROVE  n \in NonStandardTypes(Reread(d))
<1>1. n \in NamedTypes(d) /\ OmgName(n) = None
  BY DEF NonStandardTypes
<1>2. PICK u \in UNION {TypesOf(e) : e \in d.elements} : u.elementId = None /\ u.name = n
  BY <1>1 DEF NamedTypes
<1>3. PICK e \in d.elements : u \in TypesOf(e)
  OBVIOUS
<1>4. PICK v : v = RenamedType(d, u)
  OBVIOUS
<1>5. v.elementId = None /\ v.name = n
  BY <1>2, <1>4 DEF RenamedType
<1>6. v \in TypesOf(RenamedClassifier(d, e))
  BY <1>3, <1>4, TypesRenamed
<1>7. RenamedClassifier(d, e) \in Reread(d).elements
  BY DEF Reread
<1>8. v \in UNION {TypesOf(f) : f \in Reread(d).elements}
  BY <1>6, <1>7
<1>9. n \in NamedTypes(Reread(d))
  BY <1>5, <1>8 DEF NamedTypes
<1> QED
  BY <1>1, <1>9 DEF NonStandardTypes

\* And the import has nothing to remark on it.
LEMMA FileUnremarkable ==
  ASSUME NEW d, DiagramShape(d), Valid(d), Exportable(d), Apart(d), Spelled(d)
  PROVE  Diagnostics(Exported(d)) = {}
<1> DEFINE F == Exported(d)
<1>1. Packaged(F, {"package"}) = {}
  BY TypesInFile
<1>2. \A t \in Tagged(F, "packagedElement") : t.type \in SupportedTypes
  BY TypesInFile
<1>3. ASSUME NEW a \in RawAssociations(F)
      PROVE  Binary(F, a)
  <2>1. PICK r \in d.relationships : ~Directed(r) /\ a = WrittenRelationship(d, r)
    BY TypesInFile
  <2> QED
    BY <2>1, EndsOrdered
<1>4. ASSUME NEW t \in RawDataTypes(F)
      PROVE  t.name \in NonStandardTypes(Imported(F))
  <2>1. PICK n \in NonStandardTypes(d) : t = WrittenDataType(n)
    BY TypesInFile DEF FromDataType
  <2>2. t.name = n
    BY <2>1 DEF WrittenDataType
  <2>3. Imported(F) = Reread(d)
    BY ImportedIs
  <2> QED
    BY <2>2, <2>3, NamesOfTypes
<1> HIDE DEF F
<1>5. Diagnostics(F) = {}
  BY <1>1, <1>2, <1>3, <1>4 DEF Diagnostics
<1> QED
  BY <1>5 DEF F

\* The name a classifier has after the import tells that it is a classifier.
LEMMA NewIdsAre ==
  ASSUME NEW d, DiagramShape(d), Valid(d), Apart(d), NEW e \in d.elements
  PROVE  NewId(d, e.id)[1] = "classifier" /\ NewId(d, e.id) \notin RootIds \cup {None}
<1>0. e.id # None
  BY ClassifierIs
<1>1. CASE Owners(d, e.id) = {}
  <2>1. NewId(d, e.id) = <<"classifier", e.id>>
    BY <1>0, <1>1, NewIds
  <2>2. PICK t : t = <<"classifier", None, e>>
    OBVIOUS
  <2>3. t \in Registered(d) /\ t[1] = "classifier" /\ t[3] = e
    BY <2>2, RegisteredAre
  <2>4. <<t[1], t[3].id>> \notin RootIds \cup {None}
    BY <2>3, HashesApart
  <2> QED
    BY <2>1, <2>3, <2>4
<1>2. ASSUME NEW r \in Owners(d, e.id)
      PROVE  NewId(d, e.id)[1] = "classifier" /\ NewId(d, e.id) \notin RootIds \cup {None}
  <2>1. NewId(d, e.id) = <<"classifier", "relationship", r.id>>
    BY <1>0, NewIds
  <2>2. r \in d.relationships
    BY DEF Owners
  <2>3. <<"classifier", "relationship", r.id>> \notin RootIds \cup {None}
    BY <2>2, HashesApart, Zenon
  <2>4. NewId(d, e.id)[1] = "classifier"
    BY <2>1
  <2> QED
    BY <2>1, <2>3, <2>4
<1> QED
  BY <1>1, <1>2

\* The parts of a document read again are those it had, renamed.
LEMMA RereadParts ==
  ASSUME NEW d
  PROVE  /\ Reread(d).elements = {RenamedClassifier(d, e) : e \in d.elements}
         /\ Reread(d).positions = {[elementId |-> NewId(d, e.id), x |-> 0] : e \in d.elements}
         /\ Reread(d).relationships = {RenamedRelationship(d, r) : r \in d.relationships}
         /\ ElementIds(Reread(d)) = {NewId(d, e.id) : e \in d.elements}
<1>1. /\ Reread(d).elements = {RenamedClassifier(d, e) : e \in d.elements}
      /\ Reread(d).positions = {[elementId |-> NewId(d, e.id), x |-> 0] : e \in d.elements}
      /\ Reread(d).relationships = {RenamedRelationship(d, r) : r \in d.relationships}
  BY Zenon DEF Reread
<1>2. \A e : RenamedClassifier(d, e).id = NewId(d, e.id)
  BY DEF RenamedClassifier
<1>3. ElementIds(Reread(d)) = {NewId(d, e.id) : e \in d.elements}
  BY <1>1, <1>2 DEF ElementIds
<1> QED
  BY <1>1, <1>3

\* What becomes of a classifier, and what is found by its new name.
LEMMA RereadClassifier ==
  ASSUME NEW d, DiagramShape(d), Valid(d), NEW e \in d.elements
  PROVE  /\ RenamedClassifier(d, e) \in Reread(d).elements
         /\ RenamedClassifier(d, e).id = NewId(d, e.id)
         /\ RenamedClassifier(d, e).name = e.name /\ RenamedClassifier(d, e).kind = e.kind
         /\ Classifier(Reread(d), NewId(d, e.id)) = RenamedClassifier(d, e)
<1>1. \A f : RenamedClassifier(d, f).id = NewId(d, f.id)
             /\ RenamedClassifier(d, f).name = f.name /\ RenamedClassifier(d, f).kind = f.kind
  BY DEF RenamedClassifier
<1>2. RenamedClassifier(d, e) \in Reread(d).elements
  BY RereadParts
<1>3. ASSUME NEW y \in Reread(d).elements, y.id = NewId(d, e.id)
      PROVE  y = RenamedClassifier(d, e)
  <2>1. PICK f \in d.elements : y = RenamedClassifier(d, f)
    BY RereadParts
  <2>2. NewId(d, f.id) = NewId(d, e.id) /\ f.id # None /\ e.id # None
    BY <1>1, <1>3, <2>1, ClassifierIs
  <2>3. f.id = e.id
    BY <2>2, IdsDiffer
  <2>4. f = e
    BY <2>3, ValidOneEach DEF OneEach
  <2> QED
    BY <2>1, <2>4
<1>4. Classifier(Reread(d), NewId(d, e.id)) = RenamedClassifier(d, e)
  BY <1>1, <1>2, <1>3 DEF Classifier
<1> QED
  BY <1>1, <1>2, <1>4

\* What becomes of a registered part.
Moved(d, u) ==
  CASE u[1] = "classifier" -> <<"classifier", None, RenamedClassifier(d, u[3])>>
    [] u[1] = "relationship" -> <<"relationship", None, RenamedRelationship(d, u[3])>>
    [] u[1] = "attribute" -> <<"attribute", NewId(d, u[2]), RenamedAttribute(d, u[3])>>
    [] u[1] = "operation" -> <<"operation", NewId(d, u[2]), RenamedOperation(d, u[3])>>
    [] u[1] = "parameter" -> <<"parameter", <<"operation", u[2]>>, RenamedParameter(d, u[3])>>
MovedId(d, u) == IF u[1] = "classifier" THEN NewId(d, u[3].id) ELSE <<u[1], u[3].id>>

\* A part keeps its kind, and has a hash for its identifier.
LEMMA MovedIs ==
  ASSUME NEW d, NEW u, u[1] \in {"classifier", "relationship", "attribute", "operation", "parameter"}
  PROVE  Moved(d, u)[1] = u[1] /\ Moved(d, u)[3].id = MovedId(d, u)
<1>1. CASE u[1] = "classifier"
  <2>1. RenamedClassifier(d, u[3]).id = NewId(d, u[3].id)
    BY DEF RenamedClassifier
  <2> QED
    BY <1>1, <2>1 DEF Moved, MovedId
<1>2. CASE u[1] = "relationship"
  <2>1. RenamedRelationship(d, u[3]).id = <<"relationship", u[3].id>>
    BY DEF RenamedRelationship
  <2> QED
    BY <1>2, <2>1 DEF Moved, MovedId
<1>3. CASE u[1] = "attribute"
  <2>1. RenamedAttribute(d, u[3]).id = <<"attribute", u[3].id>>
    BY DEF RenamedAttribute
  <2> QED
    BY <1>3, <2>1 DEF Moved, MovedId
<1>4. CASE u[1] = "operation"
  <2>1. RenamedOperation(d, u[3]).id = <<"operation", u[3].id>>
    BY DEF RenamedOperation
  <2> QED
    BY <1>4, <2>1 DEF Moved, MovedId
<1>5. CASE u[1] = "parameter"
  <2>1. RenamedParameter(d, u[3]).id = <<"parameter", u[3].id>>
    BY DEF RenamedParameter
  <2> QED
    BY <1>5, <2>1 DEF Moved, MovedId
<1> QED
  BY <1>1, <1>2, <1>3, <1>4, <1>5

\* The kinds of what is registered.
LEMMA RegisteredKinds ==
  ASSUME NEW d, NEW u \in Registered(d)
  PROVE  /\ u[1] \in {"classifier", "relationship", "attribute", "operation", "parameter"}
         /\ u[1] = "classifier" => u[3] \in d.elements
<1>1. CASE \E e \in d.elements : u = <<"classifier", None, e>>
  BY <1>1
<1>2. CASE \E r \in d.relationships : u = <<"relationship", None, r>>
  BY <1>2
<1>3. CASE \E e \in d.elements : \E a \in e.attributes : u = <<"attribute", e.id, a>>
  BY <1>3
<1>4. CASE \E e \in d.elements : \E o \in e.operations : u = <<"operation", e.id, o>>
  BY <1>4
<1>5. CASE \E e \in d.elements : \E o \in e.operations : \E p \in o.parameters :
             u = <<"parameter", o.id, p>>
  BY <1>5
<1> QED
  BY <1>1, <1>2, <1>3, <1>4, <1>5, RegisteredAre

\* What is registered of the import comes from what was registered.
LEMMA RereadRegistered ==
  ASSUME NEW d, NEW t \in Registered(Reread(d))
  PROVE  \E u \in Registered(d) : t = Moved(d, u)
<1> DEFINE R == Reread(d)
<1>1. R.elements = {RenamedClassifier(d, e) : e \in d.elements}
      /\ R.relationships = {RenamedRelationship(d, r) : r \in d.relationships}
  BY RereadParts
<1>2. \A e : /\ RenamedClassifier(d, e).id = NewId(d, e.id)
             /\ RenamedClassifier(d, e).attributes = {RenamedAttribute(d, a) : a \in e.attributes}
             /\ RenamedClassifier(d, e).operations = {RenamedOperation(d, o) : o \in e.operations}
  BY DEF RenamedClassifier
<1>3. \A o : /\ RenamedOperation(d, o).id = <<"operation", o.id>>
             /\ RenamedOperation(d, o).parameters = {RenamedParameter(d, p) : p \in o.parameters}
  BY DEF RenamedOperation
<1> HIDE DEF R
<1>4. ASSUME NEW f \in R.elements, t = <<"classifier", None, f>>
      PROVE  \E u \in Registered(d) : t = Moved(d, u)
  <2>1. PICK e \in d.elements : f = RenamedClassifier(d, e)
    BY <1>1
  <2>2. PICK u : u = <<"classifier", None, e>>
    OBVIOUS
  <2>3. u \in Registered(d) /\ u[1] = "classifier" /\ u[3] = e
    BY <2>2, RegisteredAre
  <2>4. t = Moved(d, u)
    BY <1>4, <2>1, <2>3 DEF Moved
  <2> QED
    BY <2>3, <2>4
<1>5. ASSUME NEW q \in R.relationships, t = <<"relationship", None, q>>
      PROVE  \E u \in Registered(d) : t = Moved(d, u)
  <2>1. PICK r \in d.relationships : q = RenamedRelationship(d, r)
    BY <1>1
  <2>2. PICK u : u = <<"relationship", None, r>>
    OBVIOUS
  <2>3. u \in Registered(d) /\ u[1] = "relationship" /\ u[3] = r
    BY <2>2, RegisteredAre
  <2>4. t = Moved(d, u)
    BY <1>5, <2>1, <2>3 DEF Moved
  <2> QED
    BY <2>3, <2>4
<1>6. ASSUME NEW f \in R.elements, NEW b \in f.attributes, t = <<"attribute", f.id, b>>
      PROVE  \E u \in Registered(d) : t = Moved(d, u)
  <2>1. PICK e \in d.elements : f = RenamedClassifier(d, e)
    BY <1>1
  <2>2. PICK a \in e.attributes : b = RenamedAttribute(d, a)
    BY <1>2, <2>1
  <2>3. PICK u : u = <<"attribute", e.id, a>>
    OBVIOUS
  <2>4. u \in Registered(d) /\ u[1] = "attribute" /\ u[2] = e.id /\ u[3] = a
    BY <2>3, RegisteredAre
  <2>5. t = Moved(d, u)
    BY <1>2, <1>6, <2>1, <2>2, <2>4 DEF Moved
  <2> QED
    BY <2>4, <2>5
<1>7. ASSUME NEW f \in R.elements, NEW q \in f.operations, t = <<"operation", f.id, q>>
      PROVE  \E u \in Registered(d) : t = Moved(d, u)
  <2>1. PICK e \in d.elements : f = RenamedClassifier(d, e)
    BY <1>1
  <2>2. PICK o \in e.operations : q = RenamedOperation(d, o)
    BY <1>2, <2>1
  <2>3. PICK u : u = <<"operation", e.id, o>>
    OBVIOUS
  <2>4. u \in Registered(d) /\ u[1] = "operation" /\ u[2] = e.id /\ u[3] = o
    BY <2>3, RegisteredAre
  <2>5. t = Moved(d, u)
    BY <1>2, <1>7, <2>1, <2>2, <2>4 DEF Moved
  <2> QED
    BY <2>4, <2>5
<1>8. ASSUME NEW f \in R.elements, NEW q \in f.operations, NEW w \in q.parameters,
             t = <<"parameter", q.id, w>>
      PROVE  \E u \in Registered(d) : t = Moved(d, u)
  <2>1. PICK e \in d.elements : f = RenamedClassifier(d, e)
    BY <1>1
  <2>2. PICK o \in e.operations : q = RenamedOperation(d, o)
    BY <1>2, <2>1
  <2>3. PICK p \in o.parameters : w = RenamedParameter(d, p)
    BY <1>3, <2>2
  <2>4. PICK u : u = <<"parameter", o.id, p>>
    OBVIOUS
  <2>5. u \in Registered(d) /\ u[1] = "parameter" /\ u[2] = o.id /\ u[3] = p
    BY <2>4, RegisteredAre
  <2>6. t = Moved(d, u)
    BY <1>3, <1>8, <2>2, <2>3, <2>5 DEF Moved
  <2> QED
    BY <2>5, <2>6
<1>9. \/ \E f \in R.elements : t = <<"classifier", None, f>>
      \/ \E q \in R.relationships : t = <<"relationship", None, q>>
      \/ \E f \in R.elements : \E b \in f.attributes : t = <<"attribute", f.id, b>>
      \/ \E f \in R.elements : \E q \in f.operations : t = <<"operation", f.id, q>>
      \/ \E f \in R.elements : \E q \in f.operations : \E w \in q.parameters :
           t = <<"parameter", q.id, w>>
  BY RegisteredAre DEF R
<1> QED
  BY <1>4, <1>5, <1>6, <1>7, <1>8, <1>9

\* The hashes of the parts differ: the import has unique identifiers.
LEMMA RereadIds ==
  ASSUME NEW d, DiagramShape(d), Valid(d), Apart(d)
  PROVE  UniqueIds(Reread(d))
<1>1. ASSUME NEW u \in Registered(d), NEW v \in Registered(d), MovedId(d, u) = MovedId(d, v)
      PROVE  u = v
  <2>1. u[3].id = v[3].id
    <3>1. CASE u[1] = "classifier" /\ v[1] = "classifier"
      <4>1. u[3] \in d.elements /\ v[3] \in d.elements
        BY <3>1, RegisteredKinds
      <4>2. u[3].id # None /\ v[3].id # None
        BY <4>1, ClassifierIs
      <4>3. NewId(d, u[3].id) = NewId(d, v[3].id)
        BY <1>1, <3>1 DEF MovedId
      <4> QED
        BY <4>2, <4>3, IdsDiffer
    <3>2. CASE u[1] # "classifier" /\ v[1] # "classifier"
      <4>1. <<u[1], u[3].id>> = <<v[1], v[3].id>>
        BY <1>1, <3>2 DEF MovedId
      <4> QED
        BY <4>1
    <3>3. CASE u[1] = "classifier" /\ v[1] # "classifier"
      <4>1. u[3] \in d.elements
        BY <3>3, RegisteredKinds
      <4>2. NewId(d, u[3].id)[1] = "classifier"
        BY <4>1, NewIdsAre
      <4>3. NewId(d, u[3].id) = <<v[1], v[3].id>>
        BY <1>1, <3>3 DEF MovedId
      <4> QED
        BY <3>3, <4>2, <4>3
    <3>4. CASE u[1] # "classifier" /\ v[1] = "classifier"
      <4>1. v[3] \in d.elements
        BY <3>4, RegisteredKinds
      <4>2. NewId(d, v[3].id)[1] = "classifier"
        BY <4>1, NewIdsAre
      <4>3. NewId(d, v[3].id) = <<u[1], u[3].id>>
        BY <1>1, <3>4 DEF MovedId
      <4> QED
        BY <3>4, <4>2, <4>3
    <3> QED
      BY <3>1, <3>2, <3>3, <3>4
  <2> QED
    BY <2>1 DEF Valid, UniqueIds
<1>2. ASSUME NEW u \in Registered(d)
      PROVE  MovedId(d, u) \notin RootIds
  <2>1. CASE u[1] = "classifier"
    <3>1. u[3] \in d.elements
      BY <2>1, RegisteredKinds
    <3> QED
      BY <2>1, <3>1, NewIdsAre DEF MovedId
  <2>2. CASE u[1] # "classifier"
    BY <2>2, HashesApart DEF MovedId
  <2> QED
    BY <2>1, <2>2
<1>3. ASSUME NEW s \in Registered(Reread(d)), NEW t \in Registered(Reread(d)), s[3].id = t[3].id
      PROVE  s = t
  <2>1. PICK u \in Registered(d) : s = Moved(d, u)
    BY RereadRegistered
  <2>2. PICK v \in Registered(d) : t = Moved(d, v)
    BY RereadRegistered
  <2>3. s[3].id = MovedId(d, u) /\ t[3].id = MovedId(d, v)
    BY <2>1, <2>2, MovedIs, RegisteredKinds
  <2>4. MovedId(d, u) = MovedId(d, v)
    BY <1>3, <2>3
  <2> QED
    BY <1>1, <2>1, <2>2, <2>4
<1>4. ASSUME NEW t \in Registered(Reread(d))
      PROVE  t[3].id \notin RootIds
  <2>1. PICK u \in Registered(d) : t = Moved(d, u)
    BY RereadRegistered
  <2>2. t[3].id = MovedId(d, u)
    BY <2>1, MovedIs, RegisteredKinds
  <2> QED
    BY <1>2, <2>2
<1> QED
  BY <1>3, <1>4 DEF UniqueIds

\* The members of a classifier of the import have the names of its members.
LEMMA MembersRenamed ==
  ASSUME NEW d, NEW e, NEW m \in Members(RenamedClassifier(d, e))
  PROVE  \E n \in Members(e) : m.name = n.name
<1>1. PICK f : f = RenamedClassifier(d, e)
  OBVIOUS
<1>2. f.attributes = {RenamedAttribute(d, a) : a \in e.attributes}
      /\ f.operations = {RenamedOperation(d, o) : o \in e.operations}
  BY <1>1 DEF RenamedClassifier
<1>3. \A a : RenamedAttribute(d, a).name = a.name
  BY DEF RenamedAttribute
<1>4. \A o : /\ RenamedOperation(d, o).name = o.name
             /\ RenamedOperation(d, o).parameters = {RenamedParameter(d, p) : p \in o.parameters}
  BY DEF RenamedOperation
<1>5. \A p : RenamedParameter(d, p).name = p.name
  BY DEF RenamedParameter
<1>6. \A g, x : x \in Members(g) <=>
        \/ x \in g.attributes \/ x \in g.operations \/ \E o \in g.operations : x \in o.parameters
  <2>1. ASSUME NEW g, NEW x
        PROVE  x \in Members(g) <=>
                 \/ x \in g.attributes \/ x \in g.operations \/ \E o \in g.operations : x \in o.parameters
    BY DEF Members
  <2> QED
    BY <2>1
<1>7. m \in f.attributes \/ m \in f.operations \/ \E o \in f.operations : m \in o.parameters
  BY <1>1, <1>6
<1>8. CASE m \in f.attributes
  <2>1. PICK a \in e.attributes : m = RenamedAttribute(d, a)
    BY <1>2, <1>8
  <2> QED
    BY <1>3, <1>6, <2>1
<1>9. CASE m \in f.operations
  <2>1. PICK o \in e.operations : m = RenamedOperation(d, o)
    BY <1>2, <1>9
  <2> QED
    BY <1>4, <1>6, <2>1
<1>10. ASSUME NEW q \in f.operations, m \in q.parameters
       PROVE  \E n \in Members(e) : m.name = n.name
  <2>1. PICK o \in e.operations : q = RenamedOperation(d, o)
    BY <1>2
  <2>2. PICK p \in o.parameters : m = RenamedParameter(d, p)
    BY <1>4, <1>10, <2>1
  <2>3. p \in Members(e)
    BY <1>6, <2>1, <2>2
  <2> QED
    BY <1>5, <2>2, <2>3
<1> QED
  BY <1>7, <1>8, <1>9, <1>10

\* Names come back as they were: they are as distinct, and no more blank.
LEMMA RereadNames ==
  ASSUME NEW d, DiagramShape(d), Valid(d)
  PROVE  NamesSound(Reread(d))
<1> DEFINE R == Reread(d)
<1>1. R.elements = {RenamedClassifier(d, e) : e \in d.elements}
  BY RereadParts
<1>2. \A e : /\ RenamedClassifier(d, e).name = e.name
             /\ RenamedClassifier(d, e).attributes = {RenamedAttribute(d, a) : a \in e.attributes}
             /\ RenamedClassifier(d, e).operations = {RenamedOperation(d, o) : o \in e.operations}
  BY DEF RenamedClassifier
<1>3. \A o : RenamedOperation(d, o).parameters = {RenamedParameter(d, p) : p \in o.parameters}
  BY DEF RenamedOperation
<1>4. /\ \A a : RenamedAttribute(d, a).name = a.name
      /\ \A p : RenamedParameter(d, p).name = p.name
      /\ \A t : RenamedType(d, t).name = t.name
  BY DEF RenamedAttribute, RenamedParameter, RenamedType
<1>5. NamesSound(d)
  BY DEF Valid
<1> HIDE DEF R
<1>6. NamesDistinct(R.elements) /\ NotBlank(R.elements)
  <2>1. NamesDistinct(d.elements) /\ NotBlank(d.elements)
    BY <1>5 DEF NamesSound
  <2>2. ASSUME NEW x \in R.elements, NEW y \in R.elements, Folded[x.name] = Folded[y.name]
        PROVE  x = y
    <3>1. PICK e \in d.elements : x = RenamedClassifier(d, e)
      BY <1>1
    <3>2. PICK f \in d.elements : y = RenamedClassifier(d, f)
      BY <1>1
    <3>3. Folded[e.name] = Folded[f.name]
      BY <1>2, <2>2, <3>1, <3>2
    <3>4. e = f
      BY <2>1, <3>3 DEF NamesDistinct
    <3> QED
      BY <3>1, <3>2, <3>4
  <2>3. ASSUME NEW x \in R.elements
        PROVE  Folded[x.name] # ""
    <3>1. PICK e \in d.elements : x = RenamedClassifier(d, e)
      BY <1>1
    <3> QED
      BY <1>2, <2>1, <3>1 DEF NotBlank
  <2> QED
    BY <2>2, <2>3 DEF NamesDistinct, NotBlank
<1>7. ASSUME NEW g \in R.elements
      PROVE  /\ NamesDistinct(g.attributes) /\ NotBlank(Members(g) \cup TypesOf(g))
             /\ \A q \in g.operations : NamesDistinct(q.parameters)
  <2>1. PICK e \in d.elements : g = RenamedClassifier(d, e)
    BY <1>1
  <2>2. /\ NamesDistinct(e.attributes) /\ NotBlank(Members(e) \cup TypesOf(e))
        /\ \A o \in e.operations : NamesDistinct(o.parameters)
    BY <1>5 DEF NamesSound
  <2>3. NamesDistinct(g.attributes)
    <3>1. ASSUME NEW x \in g.attributes, NEW y \in g.attributes, Folded[x.name] = Folded[y.name]
          PROVE  x = y
      <4>1. PICK a \in e.attributes : x = RenamedAttribute(d, a)
        BY <1>2, <2>1
      <4>2. PICK b \in e.attributes : y = RenamedAttribute(d, b)
        BY <1>2, <2>1
      <4>3. Folded[a.name] = Folded[b.name]
        BY <1>4, <3>1, <4>1, <4>2
      <4>4. a = b
        BY <2>2, <4>3 DEF NamesDistinct
      <4> QED
        BY <4>1, <4>2, <4>4
    <3> QED
      BY <3>1 DEF NamesDistinct
  <2>4. ASSUME NEW x \in Members(g) \cup TypesOf(g)
        PROVE  Folded[x.name] # ""
    <3>1. CASE x \in Members(g)
      <4>1. PICK n \in Members(e) : x.name = n.name
        BY <2>1, <3>1, MembersRenamed
      <4> QED
        BY <2>2, <4>1 DEF NotBlank
    <3>2. CASE x \in TypesOf(g)
      <4>1. PICK u \in TypesOf(e) : x = RenamedType(d, u)
        BY <2>1, <3>2, TypesRenamed
      <4> QED
        BY <1>4, <2>2, <4>1 DEF NotBlank
    <3> QED
      BY <3>1, <3>2
  <2>5. ASSUME NEW q \in g.operations
        PROVE  NamesDistinct(q.parameters)
    <3>1. PICK o \in e.operations : q = RenamedOperation(d, o)
      BY <1>2, <2>1
    <3>2. ASSUME NEW x \in q.parameters, NEW y \in q.parameters, Folded[x.name] = Folded[y.name]
          PROVE  x = y
      <4>1. PICK p \in o.parameters : x = RenamedParameter(d, p)
        BY <1>3, <3>1
      <4>2. PICK u \in o.parameters : y = RenamedParameter(d, u)
        BY <1>3, <3>1
      <4>3. Folded[p.name] = Folded[u.name]
        BY <1>4, <3>2, <4>1, <4>2
      <4>4. p = u
        BY <2>2, <3>1, <4>3 DEF NamesDistinct
      <4> QED
        BY <4>1, <4>2, <4>4
    <3> QED
      BY <3>2 DEF NamesDistinct
  <2> QED
    BY <2>3, <2>4, <2>5 DEF NotBlank
<1> QED
  BY <1>6, <1>7 DEF NamesSound, R

\* Every reference finds the classifier it named.
LEMMA RereadTypes ==
  ASSUME NEW d, DiagramShape(d), Valid(d)
  PROVE  TypesResolve(Reread(d))
<1> DEFINE R == Reread(d)
<1>1. ASSUME NEW g \in R.elements, NEW t \in TypesOf(g), t.elementId # None
      PROVE  \E f \in R.elements : f.id = t.elementId /\ f.name = t.name
  <2>1. PICK e \in d.elements : g = RenamedClassifier(d, e)
    BY RereadParts
  <2>2. PICK u \in TypesOf(e) : t = RenamedType(d, u)
    BY <2>1, TypesRenamed
  <2>3. t.name = u.name /\ t.elementId = IF u.elementId = None THEN None ELSE NewId(d, u.elementId)
    BY <2>2 DEF RenamedType
  <2>4. u.elementId # None
    BY <1>1, <2>3
  <2>5. PICK f \in d.elements : f.id = u.elementId /\ f.name = u.name
    BY <2>4 DEF Valid, TypesResolve
  <2>6. /\ RenamedClassifier(d, f) \in R.elements
        /\ RenamedClassifier(d, f).id = t.elementId /\ RenamedClassifier(d, f).name = t.name
    BY <2>3, <2>4, <2>5, RereadClassifier
  <2> QED
    BY <2>6
<1> HIDE DEF R
<1>2. TypesResolve(R)
  BY <1>1 DEF TypesResolve
<1> QED
  BY <1>2 DEF R

\* Every classifier has its place, the origin.
LEMMA RereadPositions ==
  ASSUME NEW d
  PROVE  PositionsMatch(Reread(d))
<1>1. /\ Reread(d).positions = {[elementId |-> NewId(d, e.id), x |-> 0] : e \in d.elements}
      /\ ElementIds(Reread(d)) = {NewId(d, e.id) : e \in d.elements}
  BY RereadParts
<1> DEFINE P == Reread(d).positions
<1>2. {p.elementId : p \in P} = ElementIds(Reread(d))
  <2>1. ASSUME NEW x \in {p.elementId : p \in P}
        PROVE  x \in ElementIds(Reread(d))
    <3>1. PICK p \in P : x = p.elementId
      BY <2>1
    <3>2. PICK e \in d.elements : p = [elementId |-> NewId(d, e.id), x |-> 0]
      BY <1>1
    <3> QED
      BY <1>1, <3>1, <3>2
  <2>2. ASSUME NEW x \in ElementIds(Reread(d))
        PROVE  x \in {p.elementId : p \in P}
    <3>1. PICK e \in d.elements : x = NewId(d, e.id)
      BY <1>1, <2>2
    <3>2. PICK p : p = [elementId |-> NewId(d, e.id), x |-> 0]
      OBVIOUS
    <3>3. p \in P /\ p.elementId = x
      BY <1>1, <3>1, <3>2
    <3> QED
      BY <3>3
  <2> QED
    BY <2>1, <2>2
<1>3. ASSUME NEW p \in P, NEW q \in P, p.elementId = q.elementId
      PROVE  p = q
  <2>1. PICK e \in d.elements : p = [elementId |-> NewId(d, e.id), x |-> 0]
    BY <1>1
  <2>2. PICK f \in d.elements : q = [elementId |-> NewId(d, f.id), x |-> 0]
    BY <1>1
  <2> QED
    BY <1>3, <2>1, <2>2
<1> QED
  BY <1>2, <1>3 DEF PositionsMatch

\* What becomes of a relationship and of its ends.
LEMMA RenamedRelationships ==
  ASSUME NEW d, NEW r
  PROVE  /\ RenamedRelationship(d, r).kind = r.kind /\ RenamedRelationship(d, r).name = r.name
         /\ RenamedRelationship(d, r).source = RenamedEnd(d, r.source)
         /\ RenamedRelationship(d, r).target = RenamedEnd(d, r.target)
         /\ RenamedRelationship(d, r).associationClassId
              = IF r.associationClassId = None THEN None ELSE NewId(d, r.associationClassId)
         /\ RenamedRelationship(d, r).source.elementId = NewId(d, r.source.elementId)
         /\ RenamedRelationship(d, r).target.elementId = NewId(d, r.target.elementId)
BY DEF RenamedRelationship, RenamedEnd

\* The bounds of a multiplicity are those of its new spelling.
LEMMA BoundsKept ==
  ASSUME NEW d, DiagramShape(d), Valid(d), Spelled(d), NEW r \in d.relationships,
         NEW x \in {r.source, r.target}
  PROVE  Bounds[RenamedEnd(d, x).multiplicity] = Bounds[x.multiplicity]
<1>1. x.multiplicity \in DOMAIN Bounds
  BY EndsAre
<1>2. Bounds[Literal[<<Bounds[x.multiplicity].lower, Bounds[x.multiplicity].upper>>]]
        = Bounds[x.multiplicity]
  BY <1>1, LiteralAssumption, Zenon DEF LiteralAssumption
<1>3. RenamedEnd(d, x).multiplicity = SemanticMultiplicity(x.multiplicity)
  BY DEF RenamedEnd
<1> QED
  BY <1>2, <1>3, SpelledEnds

\* A relationship is as sound after the import as before.
LEMMA RereadSound ==
  ASSUME NEW d, DiagramShape(d), Valid(d), Spelled(d), NEW r \in d.relationships
  PROVE  RelationshipSound(Reread(d), RenamedRelationship(d, r))
<1>1. PICK q : q = RenamedRelationship(d, r)
  OBVIOUS
<1>2. q.kind = r.kind /\ q.source.elementId = NewId(d, r.source.elementId)
      /\ q.target.elementId = NewId(d, r.target.elementId)
      /\ q.source = RenamedEnd(d, r.source) /\ q.target = RenamedEnd(d, r.target)
  BY <1>1, RenamedRelationships
<1>3. PICK e \in d.elements : e.id = r.source.elementId
  BY EndsInDocument
<1>4. PICK f \in d.elements : f.id = r.target.elementId
  BY EndsInDocument
<1>5. e.id # None /\ f.id # None /\ Classifier(d, e.id) = e /\ Classifier(d, f.id) = f
  BY ClassifierIs
<1>6. RelationshipSound(d, r)
  BY DEF Valid, RelationshipsSound
<1>7. Ends(q) \subseteq ElementIds(Reread(d))
  BY <1>2, <1>3, <1>4, RereadParts DEF Ends
<1>8. q.source.elementId = q.target.elementId => q.kind \in {"association", "dependency"}
  <2>1. ASSUME q.source.elementId = q.target.elementId
        PROVE  r.source.elementId = r.target.elementId
    BY <1>2, <1>3, <1>4, <1>5, <2>1, IdsDiffer
  <2> QED
    BY <1>2, <1>6, <2>1 DEF RelationshipSound
<1>9. Classifier(Reread(d), q.source.elementId).kind = e.kind
      /\ Classifier(Reread(d), q.target.elementId).kind = f.kind
  BY <1>2, <1>3, <1>4, RereadClassifier
<1>10. /\ r.kind = "realization" => e.kind = "class" /\ f.kind = "interface"
       /\ r.kind = "generalization" => e.kind = f.kind
  BY <1>3, <1>4, <1>5, <1>6 DEF RelationshipSound
<1>11. InRange(q.source.multiplicity) /\ InRange(q.target.multiplicity)
  <2>1. InRange(r.source.multiplicity) /\ InRange(r.target.multiplicity)
    BY <1>6, Zenon DEF RelationshipSound
  <2>2. Bounds[q.source.multiplicity] = Bounds[r.source.multiplicity]
        /\ Bounds[q.target.multiplicity] = Bounds[r.target.multiplicity]
    BY <1>2, BoundsKept
  <2> QED
    BY <2>1, <2>2 DEF InRange
<1> QED
  BY <1>1, <1>2, <1>7, <1>8, <1>9, <1>10, <1>11 DEF RelationshipSound

\* An association class stays the class of its association, and of no other.
LEMMA RereadAssociationClass ==
  ASSUME NEW d, DiagramShape(d), Valid(d), Spelled(d), NEW r \in d.relationships
  PROVE  AssociationClassSound(Reread(d), RenamedRelationship(d, r))
<1>1. PICK q : q = RenamedRelationship(d, r)
  OBVIOUS
<1>2. /\ q.kind = r.kind /\ q.source.elementId = NewId(d, r.source.elementId)
      /\ q.target.elementId = NewId(d, r.target.elementId)
      /\ q.source = RenamedEnd(d, r.source) /\ q.target = RenamedEnd(d, r.target)
      /\ q.associationClassId = IF r.associationClassId = None THEN None ELSE NewId(d, r.associationClassId)
  BY <1>1, RenamedRelationships
<1>3. AssociationClassSound(d, r)
  BY DEF Valid, RelationshipsSound
<1> SUFFICES ASSUME q.associationClassId # None
             PROVE  /\ q.kind = "association"
                    /\ q.associationClassId \in ElementIds(Reread(d)) \ Ends(q)
                    /\ Classifier(Reread(d), q.associationClassId).kind = "class"
                    /\ IsMany(q.source.multiplicity) /\ IsMany(q.target.multiplicity)
                    /\ \A s \in Reread(d).relationships :
                         s.associationClassId = q.associationClassId => s = q
  BY <1>1 DEF AssociationClassSound
<1>4. r.associationClassId # None /\ q.associationClassId = NewId(d, r.associationClassId)
  BY <1>2
<1>5. PICK e \in d.elements : e.id = r.associationClassId /\ e.kind = "class"
  BY <1>4, OwnedClass
<1>6. r.kind = "association" /\ r.associationClassId \notin Ends(r)
      /\ IsMany(r.source.multiplicity) /\ IsMany(r.target.multiplicity)
      /\ \A s \in d.relationships : s.associationClassId = r.associationClassId => s = r
  BY <1>3, <1>4 DEF AssociationClassSound
<1>7. q.associationClassId \in ElementIds(Reread(d)) \ Ends(q)
  <2>1. q.associationClassId \in ElementIds(Reread(d))
    BY <1>4, <1>5, RereadParts
  <2>2. PICK f \in d.elements : f.id = r.source.elementId
    BY EndsInDocument
  <2>3. PICK g \in d.elements : g.id = r.target.elementId
    BY EndsInDocument
  <2>4. f.id # None /\ g.id # None
    BY ClassifierIs
  <2>5. NewId(d, r.associationClassId) # NewId(d, f.id) /\ NewId(d, r.associationClassId) # NewId(d, g.id)
    BY <1>4, <1>6, <2>2, <2>3, <2>4, IdsDiffer DEF Ends
  <2> QED
    BY <1>2, <1>4, <2>1, <2>2, <2>3, <2>5 DEF Ends
<1>8. Classifier(Reread(d), q.associationClassId).kind = "class"
  BY <1>4, <1>5, RereadClassifier
<1>9. IsMany(q.source.multiplicity) /\ IsMany(q.target.multiplicity)
  <2>1. Bounds[q.source.multiplicity] = Bounds[r.source.multiplicity]
        /\ Bounds[q.target.multiplicity] = Bounds[r.target.multiplicity]
    BY <1>2, BoundsKept
  <2> QED
    BY <1>6, <2>1 DEF IsMany
<1>10. ASSUME NEW t \in Reread(d).relationships, t.associationClassId = q.associationClassId
       PROVE  t = q
  <2>1. PICK s \in d.relationships : t = RenamedRelationship(d, s)
    BY RereadParts
  <2>2. t.associationClassId = IF s.associationClassId = None THEN None ELSE NewId(d, s.associationClassId)
    BY <2>1, RenamedRelationships
  <2>3. s.associationClassId # None /\ NewId(d, s.associationClassId) = NewId(d, r.associationClassId)
    BY <1>4, <1>10, <2>2
  <2>4. s.associationClassId = r.associationClassId
    BY <1>4, <2>3, IdsDiffer
  <2>5. s = r
    BY <1>6, <2>4
  <2> QED
    BY <1>1, <2>1, <2>5
<1> QED
  BY <1>2, <1>6, <1>7, <1>8, <1>9, <1>10

\* An end with the multiplicity semanticProjection gives it.
Respelled(x) == [x EXCEPT !.multiplicity = SemanticMultiplicity(@)]
Plain(r) == [r EXCEPT !.source = Respelled(r.source), !.target = Respelled(r.target)]

\* The parts of a relationship so spelled.
LEMMA PlainIs ==
  ASSUME NEW d, DiagramShape(d), NEW r \in d.relationships
  PROVE  Plain(r) = [id |-> r.id, kind |-> r.kind, name |-> r.name,
                     source |-> Respelled(r.source), target |-> Respelled(r.target),
                     associationClassId |-> r.associationClassId]
<1>1. RelationshipShape(r)
  BY Shapes
<1>2. r = [id |-> r.id, kind |-> r.kind, name |-> r.name, source |-> r.source,
           target |-> r.target, associationClassId |-> r.associationClassId]
  BY <1>1, Zenon DEF RelationshipShape
<1>3. ASSUME NEW x, NEW y, NEW v, v = [r EXCEPT !.source = x, !.target = y]
      PROVE  v = [id |-> r.id, kind |-> r.kind, name |-> r.name, source |-> x,
                  target |-> y, associationClassId |-> r.associationClassId]
  BY <1>2, <1>3
<1> HIDE DEF Respelled
<1> QED
  BY <1>3 DEF Plain

\* Ends that come back alike were alike but for the spelling.
LEMMA EndsAlike ==
  ASSUME NEW d, DiagramShape(d), Valid(d), NEW r \in d.relationships, NEW s \in d.relationships,
         NEW x \in {r.source, r.target}, NEW y \in {s.source, s.target},
         RenamedEnd(d, x) = RenamedEnd(d, y)
  PROVE  Respelled(x) = Respelled(y)
<1>1. EndShape(x) /\ EndShape(y)
  <2>1. RelationshipShape(r) /\ RelationshipShape(s)
    BY Shapes
  <2>2. EndShape(r.source) /\ EndShape(r.target) /\ EndShape(s.source) /\ EndShape(s.target)
    BY <2>1, Zenon DEF RelationshipShape
  <2> QED
    BY <2>2
<1>2. x = [elementId |-> x.elementId, role |-> x.role,
           multiplicity |-> x.multiplicity, navigable |-> x.navigable]
  BY <1>1, Zenon DEF EndShape
<1>3. y = [elementId |-> y.elementId, role |-> y.role,
           multiplicity |-> y.multiplicity, navigable |-> y.navigable]
  BY <1>1, Zenon DEF EndShape
<1>4. PICK e \in d.elements : e.id = x.elementId
  BY EndsAre
<1>5. PICK f \in d.elements : f.id = y.elementId
  BY EndsAre
<1>6. /\ NewId(d, x.elementId) = NewId(d, y.elementId) /\ x.role = y.role
      /\ SemanticMultiplicity(x.multiplicity) = SemanticMultiplicity(y.multiplicity)
      /\ x.navigable = y.navigable
  <2>1. PICK v, w : v = RenamedEnd(d, x) /\ w = RenamedEnd(d, y)
    OBVIOUS
  <2>2. /\ v.elementId = NewId(d, x.elementId) /\ v.role = x.role
        /\ v.multiplicity = SemanticMultiplicity(x.multiplicity) /\ v.navigable = x.navigable
    BY <2>1 DEF RenamedEnd
  <2>3. /\ w.elementId = NewId(d, y.elementId) /\ w.role = y.role
        /\ w.multiplicity = SemanticMultiplicity(y.multiplicity) /\ w.navigable = y.navigable
    BY <2>1 DEF RenamedEnd
  <2>4. v = w
    BY <2>1
  <2> HIDE DEF RenamedEnd
  <2> QED
    BY <2>2, <2>3, <2>4, Zenon
<1>7. x.elementId # None /\ y.elementId # None
  BY <1>4, <1>5, ClassifierIs
<1>8. x.elementId = y.elementId
  BY <1>6, <1>7, IdsDiffer
<1>9. Respelled(x) = [elementId |-> x.elementId, role |-> x.role,
                      multiplicity |-> SemanticMultiplicity(x.multiplicity), navigable |-> x.navigable]
  BY <1>2 DEF Respelled
<1>10. Respelled(y) = [elementId |-> y.elementId, role |-> y.role,
                       multiplicity |-> SemanticMultiplicity(y.multiplicity), navigable |-> y.navigable]
  BY <1>3 DEF Respelled
<1> QED
  BY <1>6, <1>8, <1>9, <1>10

\* So are the association classes of two relationships.
LEMMA ClassesAlike ==
  ASSUME NEW d, DiagramShape(d), Valid(d), Apart(d), NEW r \in d.relationships, NEW s \in d.relationships,
         RenamedRelationship(d, r).associationClassId = RenamedRelationship(d, s).associationClassId
  PROVE  r.associationClassId = s.associationClassId
<1>1. ASSUME NEW q \in d.relationships, q.associationClassId # None
      PROVE  NewId(d, q.associationClassId) # None
  <2>1. PICK e \in d.elements : e.id = q.associationClassId
    BY <1>1, OwnedClass
  <2> QED
    BY <2>1, NewIdsAre
<1>2. (IF r.associationClassId = None THEN None ELSE NewId(d, r.associationClassId))
        = (IF s.associationClassId = None THEN None ELSE NewId(d, s.associationClassId))
  BY RenamedRelationships
<1>3. CASE r.associationClassId # None /\ s.associationClassId # None
  BY <1>2, <1>3, IdsDiffer
<1> QED
  BY <1>1, <1>2, <1>3

\* Relationships that mean the same after the import are one.
LEMMA RereadMeanings ==
  ASSUME NEW d, DiagramShape(d), Valid(d), Apart(d), Spelled(d),
         NEW r \in d.relationships, NEW s \in d.relationships,
         SameMeaning(RenamedRelationship(d, r), RenamedRelationship(d, s))
  PROVE  r = s
<1>1. PICK p, q : p = RenamedRelationship(d, r) /\ q = RenamedRelationship(d, s)
  OBVIOUS
<1>2. /\ p.kind = r.kind /\ p.name = r.name
      /\ p.source = RenamedEnd(d, r.source) /\ p.target = RenamedEnd(d, r.target)
  BY <1>1, RenamedRelationships
<1>3. /\ q.kind = s.kind /\ q.name = s.name
      /\ q.source = RenamedEnd(d, s.source) /\ q.target = RenamedEnd(d, s.target)
  BY <1>1, RenamedRelationships
<1>4. p.associationClassId = q.associationClassId => r.associationClassId = s.associationClassId
  BY <1>1, ClassesAlike
<1>5. PICK m, n : m = Plain(r) /\ n = Plain(s)
  OBVIOUS
<1>6. m = [id |-> r.id, kind |-> r.kind, name |-> r.name, source |-> Respelled(r.source),
           target |-> Respelled(r.target), associationClassId |-> r.associationClassId]
  BY <1>5, PlainIs
<1>7. n = [id |-> s.id, kind |-> s.kind, name |-> s.name, source |-> Respelled(s.source),
           target |-> Respelled(s.target), associationClassId |-> s.associationClassId]
  BY <1>5, PlainIs
<1>12. SameMeaning(p, q)
  BY <1>1
<1> HIDE DEF Respelled, Plain, RenamedEnd, RenamedRelationship
<1>8. ASSUME Signature(p) = Signature(q)
      PROVE  SameMeaning(m, n)
  <2>1. p.kind = q.kind /\ p.name = q.name /\ p.source = q.source /\ p.target = q.target
        /\ p.associationClassId = q.associationClassId
    BY <1>8 DEF Signature
  <2>2. Respelled(r.source) = Respelled(s.source)
    <3>1. RenamedEnd(d, r.source) = RenamedEnd(d, s.source)
      BY <1>2, <1>3, <2>1
    <3> QED
      BY <3>1, EndsAlike
  <2>3. Respelled(r.target) = Respelled(s.target)
    <3>1. RenamedEnd(d, r.target) = RenamedEnd(d, s.target)
      BY <1>2, <1>3, <2>1
    <3> QED
      BY <3>1, EndsAlike
  <2>4. Signature(m) = Signature(n)
    BY <1>2, <1>3, <1>4, <1>6, <1>7, <2>1, <2>2, <2>3 DEF Signature
  <2> QED
    BY <2>4 DEF SameMeaning
<1>9. ASSUME p.kind = "association", Signature(Reversed(p)) = Signature(q)
      PROVE  SameMeaning(m, n)
  <2>1. PICK v : v = Reversed(p)
    OBVIOUS
  <2>2. p = [id |-> <<"relationship", r.id>>, kind |-> p.kind, name |-> p.name,
             source |-> p.source, target |-> p.target, associationClassId |-> p.associationClassId]
    BY <1>1 DEF RenamedRelationship
  <2>3. /\ v.kind = p.kind /\ v.name = p.name /\ v.source = p.target /\ v.target = p.source
        /\ v.associationClassId = p.associationClassId
    BY <2>1, <2>2 DEF Reversed
  <2>4. v.kind = q.kind /\ v.name = q.name /\ v.source = q.source /\ v.target = q.target
        /\ v.associationClassId = q.associationClassId
    BY <1>9, <2>1 DEF Signature
  <2>5. Respelled(r.target) = Respelled(s.source)
    <3>1. RenamedEnd(d, r.target) = RenamedEnd(d, s.source)
      BY <1>2, <1>3, <2>3, <2>4
    <3> QED
      BY <3>1, EndsAlike
  <2>6. Respelled(r.source) = Respelled(s.target)
    <3>1. RenamedEnd(d, r.source) = RenamedEnd(d, s.target)
      BY <1>2, <1>3, <2>3, <2>4
    <3> QED
      BY <3>1, EndsAlike
  <2>7. PICK w : w = Reversed(m)
    OBVIOUS
  <2>8. /\ w.kind = m.kind /\ w.name = m.name /\ w.source = m.target /\ w.target = m.source
        /\ w.associationClassId = m.associationClassId
    BY <1>6, <2>7 DEF Reversed
  <2>9. Signature(w) = Signature(n)
    BY <1>2, <1>3, <1>4, <1>6, <1>7, <2>3, <2>4, <2>5, <2>6, <2>8 DEF Signature
  <2>10. m.kind = "association"
    BY <1>2, <1>6, <1>9
  <2> QED
    BY <2>7, <2>9, <2>10 DEF SameMeaning
<1>10. SameMeaning(m, n)
  <2>1. \/ Signature(p) = Signature(q)
        \/ p.kind = "association" /\ Signature(Reversed(p)) = Signature(q)
    BY <1>12, Zenon DEF SameMeaning
  <2> QED
    BY <1>8, <1>9, <2>1
<1>11. SameMeaning(Plain(r), Plain(s)) => r = s
  BY Zenon DEF Spelled, Plain, Respelled
<1> QED
  BY <1>5, <1>10, <1>11

\* A cycle of the import would be one of the document.
LEMMA RereadAcyclic ==
  ASSUME NEW d, DiagramShape(d), Valid(d), NEW kind, Acyclic(d, kind)
  PROVE  Acyclic(Reread(d), kind)
<1> DEFINE R == Reread(d)
           edges == {<<r.source.elementId, r.target.elementId>> :
                       r \in {x \in d.relationships : x.kind = kind}}
           anew == {<<r.source.elementId, r.target.elementId>> :
                      r \in {x \in R.relationships : x.kind = kind}}
<1>1. ASSUME NEW e \in d.elements, NEW y, <<NewId(d, e.id), y>> \in anew
      PROVE  \E f \in d.elements : y = NewId(d, f.id) /\ <<e.id, f.id>> \in edges
  <2>1. PICK q \in R.relationships : q.kind = kind /\ q.source.elementId = NewId(d, e.id)
                                     /\ q.target.elementId = y
    <3>1. PICK q \in {x \in R.relationships : x.kind = kind} :
            <<NewId(d, e.id), y>> = <<q.source.elementId, q.target.elementId>>
      BY <1>1
    <3> QED
      BY <3>1
  <2>2. PICK r \in d.relationships : q = RenamedRelationship(d, r)
    BY RereadParts
  <2>3. r.kind = kind /\ NewId(d, r.source.elementId) = NewId(d, e.id)
        /\ y = NewId(d, r.target.elementId)
    BY <2>1, <2>2, RenamedRelationships
  <2>4. PICK g \in d.elements : g.id = r.source.elementId
    BY EndsInDocument
  <2>5. PICK f \in d.elements : f.id = r.target.elementId
    BY EndsInDocument
  <2>6. e.id # None /\ g.id # None
    BY ClassifierIs
  <2>7. r.source.elementId = e.id
    BY <2>3, <2>4, <2>6, IdsDiffer
  <2>8. <<r.source.elementId, r.target.elementId>> \in edges
    BY <2>3
  <2> QED
    BY <2>3, <2>5, <2>7, <2>8
<1>2. ASSUME NEW S \in (SUBSET ElementIds(R)) \ {{}},
             \A x \in S : \E y \in S : <<x, y>> \in anew
      PROVE  FALSE
  <2>1. PICK T : T = {x \in ElementIds(d) : NewId(d, x) \in S}
    OBVIOUS
  <2>2. \A x : x \in T <=> \E e \in d.elements : x = e.id /\ NewId(d, e.id) \in S
    BY <2>1 DEF ElementIds
  <2>3. T # {}
    <3>1. PICK x \in S : x \in ElementIds(R)
      OBVIOUS
    <3>2. PICK e \in d.elements : x = NewId(d, e.id)
      BY <3>1, RereadParts
    <3>3. e.id \in T
      BY <2>2, <3>2
    <3> QED
      BY <3>3
  <2>4. ASSUME NEW x \in T
        PROVE  \E y \in T : <<x, y>> \in edges
    <3>1. PICK e \in d.elements : x = e.id /\ NewId(d, e.id) \in S
      BY <2>2
    <3>2. PICK y \in S : <<NewId(d, e.id), y>> \in anew
      BY <1>2, <3>1
    <3>3. PICK f \in d.elements : y = NewId(d, f.id) /\ <<e.id, f.id>> \in edges
      BY <1>1, <3>2
    <3>4. f.id \in T /\ <<x, f.id>> \in edges
      BY <2>2, <3>1, <3>3
    <3> QED
      BY <3>4
  <2>5. T \in (SUBSET ElementIds(d)) \ {{}}
    BY <2>1, <2>3
  <2> HIDE DEF edges
  <2>6. \E U \in (SUBSET ElementIds(d)) \ {{}} : \A x \in U : \E y \in U : <<x, y>> \in edges
    BY <2>4, <2>5, Zenon
  <2> QED
    BY <2>6, Zenon DEF Acyclic, edges
<1>3. ~ \E S \in (SUBSET ElementIds(R)) \ {{}} : \A x \in S : \E y \in S : <<x, y>> \in anew
  <2> HIDE DEF anew, R
  <2> QED
    BY <1>2
<1> QED
  BY <1>3, Zenon DEF Acyclic

\* What is imported of an exported document is a valid document.
LEMMA RereadValid ==
  ASSUME NEW d, DiagramShape(d), Valid(d), Apart(d), Spelled(d)
  PROVE  Valid(Reread(d))
<1>1. ASSUME NEW q \in Reread(d).relationships
      PROVE  RelationshipSound(Reread(d), q) /\ AssociationClassSound(Reread(d), q)
  <2>1. PICK r \in d.relationships : q = RenamedRelationship(d, r)
    BY RereadParts
  <2> QED
    BY <2>1, RereadSound, RereadAssociationClass
<1>2. ASSUME NEW p \in Reread(d).relationships, NEW q \in Reread(d).relationships, SameMeaning(p, q)
      PROVE  p = q
  <2>1. PICK r \in d.relationships : p = RenamedRelationship(d, r)
    BY RereadParts
  <2>2. PICK s \in d.relationships : q = RenamedRelationship(d, s)
    BY RereadParts
  <2>3. SameMeaning(RenamedRelationship(d, r), RenamedRelationship(d, s))
    BY <1>2, <2>1, <2>2
  <2>4. r = s
    BY <2>3, RereadMeanings
  <2> QED
    BY <2>1, <2>2, <2>4
<1>3. Acyclic(d, "generalization") /\ Acyclic(d, "composition")
  BY DEF Valid, RelationshipsSound
<1>4. Acyclic(Reread(d), "generalization") /\ Acyclic(Reread(d), "composition")
  BY <1>3, RereadAcyclic
<1>5. RelationshipsSound(Reread(d))
  BY <1>1, <1>2, <1>4 DEF RelationshipsSound
<1> QED
  BY <1>5, RereadIds, RereadNames, RereadTypes, RereadPositions DEF Valid

-----------------------------------------------------------------------------
(* It means what it did *)

\* A reference and an end mean what they did: they name the same classifier.
LEMMA NameRead ==
  ASSUME NEW d, DiagramShape(d), Valid(d), Apart(d), NEW e \in d.elements
  PROVE  NameOf(Reread(d), NewId(d, e.id)) = NameOf(d, e.id)
<1>1. e.id # None /\ Classifier(d, e.id) = e
  BY ClassifierIs
<1>2. NewId(d, e.id) # None
  BY NewIdsAre
<1>3. Classifier(Reread(d), NewId(d, e.id)).name = e.name
  BY RereadClassifier
<1> QED
  BY <1>1, <1>2, <1>3 DEF NameOf

\* So a type means what it did.
LEMMA TypeProjected ==
  ASSUME NEW d, DiagramShape(d), Valid(d), Apart(d), NEW e \in d.elements, NEW t \in TypesOf(e)
  PROVE  ProjectType(Reread(d), RenamedType(d, t)) = ProjectType(d, t)
<1>1. PICK u : u = RenamedType(d, t)
  OBVIOUS
<1>2. /\ u.name = t.name /\ u.collection = t.collection /\ u.nullable = t.nullable
      /\ u.elementId = IF t.elementId = None THEN None ELSE NewId(d, t.elementId)
  BY <1>1 DEF RenamedType
<1>3. NameOf(Reread(d), u.elementId) = NameOf(d, t.elementId)
  <2>1. CASE t.elementId = None
    BY <1>2, <2>1 DEF NameOf
  <2>2. CASE t.elementId # None
    <3>1. PICK f \in d.elements : f.id = t.elementId
      BY <2>2 DEF Valid, TypesResolve
    <3> QED
      BY <1>2, <2>2, <3>1, NameRead
  <2> QED
    BY <2>1, <2>2
<1> QED
  BY <1>1, <1>2, <1>3 DEF ProjectType

\* An operation means what it did.
LEMMA OperationProjected ==
  ASSUME NEW d, DiagramShape(d), Valid(d), Apart(d), NEW e \in d.elements, NEW o \in e.operations
  PROVE  ProjectOperation(Reread(d), RenamedOperation(d, o)) = ProjectOperation(d, o)
<1> DEFINE R == Reread(d)
<1>1. PICK q : q = RenamedOperation(d, o)
  OBVIOUS
<1>2. /\ q.name = o.name /\ q.returnType = RenamedType(d, o.returnType)
      /\ q.parameters = {RenamedParameter(d, p) : p \in o.parameters}
  BY <1>1 DEF RenamedOperation
<1>3. \A p : RenamedParameter(d, p).name = p.name
             /\ RenamedParameter(d, p).type = RenamedType(d, p.type)
  BY DEF RenamedParameter
<1>4. ProjectType(R, q.returnType) = ProjectType(d, o.returnType)
  BY <1>2, TypesAre, TypeProjected
<1>5. ASSUME NEW p \in o.parameters
      PROVE  <<RenamedParameter(d, p).name, ProjectType(R, RenamedParameter(d, p).type)>>
               = <<p.name, ProjectType(d, p.type)>>
  <2>1. p.type \in TypesOf(e)
    BY TypesAre
  <2>2. ProjectType(R, RenamedType(d, p.type)) = ProjectType(d, p.type)
    BY <2>1, TypeProjected
  <2> QED
    BY <1>3, <2>2
<1> DEFINE A == {<<p.name, ProjectType(R, p.type)>> : p \in q.parameters}
           B == {<<p.name, ProjectType(d, p.type)>> : p \in o.parameters}
<1>6. A = B
  <2>1. ASSUME NEW x \in A
        PROVE  x \in B
    <3>1. PICK w \in q.parameters : x = <<w.name, ProjectType(R, w.type)>>
      BY <2>1
    <3>2. PICK p \in o.parameters : w = RenamedParameter(d, p)
      BY <1>2
    <3>3. x = <<p.name, ProjectType(d, p.type)>>
      BY <1>5, <3>1, <3>2
    <3> QED
      BY <3>3
  <2>2. ASSUME NEW x \in B
        PROVE  x \in A
    <3>1. PICK p \in o.parameters : x = <<p.name, ProjectType(d, p.type)>>
      BY <2>2
    <3>2. PICK w : w = RenamedParameter(d, p)
      OBVIOUS
    <3>3. w \in q.parameters /\ x = <<w.name, ProjectType(R, w.type)>>
      BY <1>2, <1>5, <3>1, <3>2
    <3> QED
      BY <3>3
  <2> QED
    BY <2>1, <2>2
<1> HIDE DEF R
<1>7. ProjectOperation(R, q) = <<q.name, ProjectType(R, q.returnType), A>>
      /\ ProjectOperation(d, o) = <<o.name, ProjectType(d, o.returnType), B>>
  BY Zenon DEF ProjectOperation
<1> HIDE DEF A, B
<1>8. ProjectOperation(R, q) = ProjectOperation(d, o)
  BY <1>2, <1>4, <1>6, <1>7
<1> QED
  BY <1>1, <1>8 DEF R

\* As many operations of a classifier mean one thing as did.
LEMMA OperationsProjected ==
  ASSUME NEW d, DiagramShape(d), Valid(d), Apart(d), NEW e \in d.elements
  PROVE  ProjectOperations(Reread(d), RenamedClassifier(d, e)) = ProjectOperations(d, e)
<1> DEFINE R == Reread(d)
           O == RenamedClassifier(d, e).operations
<1>1. O = {RenamedOperation(d, o) : o \in e.operations}
  BY DEF RenamedClassifier
<1>2. \A o \in e.operations : ProjectOperation(R, RenamedOperation(d, o)) = ProjectOperation(d, o)
  BY OperationProjected
<1>3. ASSUME NEW o \in e.operations, NEW q \in e.operations,
             RenamedOperation(d, o) = RenamedOperation(d, q)
      PROVE  o = q
  <2>1. RenamedOperation(d, o).id = <<"operation", o.id>>
        /\ RenamedOperation(d, q).id = <<"operation", q.id>>
    BY DEF RenamedOperation
  <2>2. <<"operation", o.id>> = <<"operation", q.id>>
    BY <1>3, <2>1, Zenon
  <2>3. o.id = q.id
    BY <2>2
  <2>4. UniqueIds(d)
    BY DEF Valid
  <2> QED
    BY <2>3, <2>4, MembersOneEach
<1> HIDE DEF R, O
<1>4. {ProjectOperation(R, o) : o \in O} = {ProjectOperation(d, o) : o \in e.operations}
  <2>1. ASSUME NEW x \in {ProjectOperation(R, o) : o \in O}
        PROVE  x \in {ProjectOperation(d, o) : o \in e.operations}
    BY <1>1, <1>2
  <2>2. ASSUME NEW x \in {ProjectOperation(d, o) : o \in e.operations}
        PROVE  x \in {ProjectOperation(R, o) : o \in O}
    BY <1>1, <1>2
  <2> QED
    BY <2>1, <2>2
<1>5. ASSUME NEW p
      PROVE  Cardinality({o \in O : ProjectOperation(R, o) = p})
               = Cardinality({o \in e.operations : ProjectOperation(d, o) = p})
  <2> DEFINE S == {o \in e.operations : ProjectOperation(d, o) = p}
             T == {o \in O : ProjectOperation(R, o) = p}
             f == [o \in S |-> RenamedOperation(d, o)]
  <2>1. IsFiniteSet(S)
    <3>1. ClassifierShape(e)
      BY Shapes
    <3>2. IsFiniteSet(e.operations)
      BY <3>1, Zenon DEF ClassifierShape
    <3> QED
      BY <3>2, FS_Subset
  <2>2. f \in [S -> T]
    BY <1>1, <1>2
  <2>3. \A x, y \in S : f[x] = f[y] => x = y
    BY <1>3
  <2>4. \A t \in T : \E s \in S : f[s] = t
    <3>1. ASSUME NEW t \in T
          PROVE  \E s \in S : f[s] = t
      <4>1. PICK o \in e.operations : t = RenamedOperation(d, o)
        BY <1>1
      <4>2. o \in S
        BY <1>2, <4>1
      <4> QED
        BY <4>1, <4>2
    <3> QED
      BY <3>1
  <2> HIDE DEF S, T, f
  <2>5. f \in Bijection(S, T)
    BY <2>2, <2>3, <2>4, Fun_IsBij
  <2>6. ExistsBijection(S, T)
    BY <2>5 DEF ExistsBijection
  <2>7. Cardinality(T) = Cardinality(S)
    BY <2>1, <2>6, FS_Bijection
  <2> QED
    BY <2>7 DEF S, T
<1> DEFINE before == ProjectOperations(d, e)
           after == ProjectOperations(R, RenamedClassifier(d, e))
           P == {ProjectOperation(d, o) : o \in e.operations}
<1>6. before = [p \in P |-> Cardinality({o \in e.operations : ProjectOperation(d, o) = p})]
  BY DEF ProjectOperations
<1>7. after = [p \in {ProjectOperation(R, o) : o \in O} |-> Cardinality({o \in O : ProjectOperation(R, o) = p})]
  BY DEF ProjectOperations, O
<1>8. after = [p \in P |-> Cardinality({o \in O : ProjectOperation(R, o) = p})]
  BY <1>4, <1>7
<1> HIDE DEF before, after, P
<1>9. after = before
  BY <1>5, <1>6, <1>8
<1> QED
  BY <1>9 DEF before, after, R

\* A classifier means what it did.
LEMMA ElementProjected ==
  ASSUME NEW d, DiagramShape(d), Valid(d), Apart(d), NEW e \in d.elements
  PROVE  ProjectElement(Reread(d), RenamedClassifier(d, e)) = ProjectElement(d, e)
<1> DEFINE R == Reread(d)
<1>1. PICK g : g = RenamedClassifier(d, e)
  OBVIOUS
<1>2. g.kind = e.kind /\ g.name = e.name
      /\ g.attributes = {RenamedAttribute(d, a) : a \in e.attributes}
  BY <1>1 DEF RenamedClassifier
<1>3. \A a : RenamedAttribute(d, a).name = a.name /\ RenamedAttribute(d, a).isStatic = a.isStatic
             /\ RenamedAttribute(d, a).type = RenamedType(d, a.type)
  BY DEF RenamedAttribute
<1>4. ASSUME NEW a \in e.attributes, NEW b, b = RenamedAttribute(d, a)
      PROVE  <<b.name, b.isStatic, ProjectType(R, b.type)>> = <<a.name, a.isStatic, ProjectType(d, a.type)>>
  <2>1. ProjectType(R, RenamedType(d, a.type)) = ProjectType(d, a.type)
    BY TypesAre, TypeProjected
  <2> QED
    BY <1>3, <1>4, <2>1
<1> DEFINE A == {<<a.name, a.isStatic, ProjectType(R, a.type)>> : a \in g.attributes}
           B == {<<a.name, a.isStatic, ProjectType(d, a.type)>> : a \in e.attributes}
<1>5. A = B
  <2>1. ASSUME NEW x \in A
        PROVE  x \in B
    <3>1. PICK b \in g.attributes : x = <<b.name, b.isStatic, ProjectType(R, b.type)>>
      BY <2>1
    <3>2. PICK a \in e.attributes : b = RenamedAttribute(d, a)
      BY <1>2
    <3>3. x = <<a.name, a.isStatic, ProjectType(d, a.type)>>
      BY <1>4, <3>1, <3>2
    <3> QED
      BY <3>3
  <2>2. ASSUME NEW x \in B
        PROVE  x \in A
    <3>1. PICK a \in e.attributes : x = <<a.name, a.isStatic, ProjectType(d, a.type)>>
      BY <2>2
    <3>2. PICK b : b = RenamedAttribute(d, a)
      OBVIOUS
    <3>3. b \in g.attributes /\ x = <<b.name, b.isStatic, ProjectType(R, b.type)>>
      BY <1>2, <1>4, <3>1, <3>2
    <3> QED
      BY <3>3
  <2> QED
    BY <2>1, <2>2
<1>6. ProjectOperations(R, g) = ProjectOperations(d, e)
  BY <1>1, OperationsProjected
<1> HIDE DEF R
<1>7. ProjectElement(R, g) = <<g.kind, g.name, A, ProjectOperations(R, g)>>
      /\ ProjectElement(d, e) = <<e.kind, e.name, B, ProjectOperations(d, e)>>
  BY Zenon DEF ProjectElement
<1> HIDE DEF A, B
<1>8. ProjectElement(R, g) = ProjectElement(d, e)
  BY <1>2, <1>5, <1>6, <1>7
<1> QED
  BY <1>1, <1>8 DEF R

\* A relationship means what it did.
LEMMA RelationshipProjected ==
  ASSUME NEW d, DiagramShape(d), Valid(d), Apart(d), NEW r \in d.relationships
  PROVE  ProjectRelationship(Reread(d), RenamedRelationship(d, r)) = ProjectRelationship(d, r)
<1> DEFINE R == Reread(d)
<1>1. ASSUME NEW x \in {r.source, r.target}
      PROVE  ProjectEnd(R, RenamedEnd(d, x)) = ProjectEnd(d, x)
  <2>1. PICK w : w = RenamedEnd(d, x)
    OBVIOUS
  <2>2. /\ w.elementId = NewId(d, x.elementId) /\ w.role = x.role
        /\ w.multiplicity = SemanticMultiplicity(x.multiplicity) /\ w.navigable = x.navigable
    BY <2>1 DEF RenamedEnd
  <2>3. PICK e \in d.elements : e.id = x.elementId
    BY EndsAre
  <2>4. NameOf(R, w.elementId) = NameOf(d, x.elementId)
    BY <2>2, <2>3, NameRead
  <2>5. SemanticMultiplicity(w.multiplicity) = SemanticMultiplicity(x.multiplicity)
    BY <2>2 DEF SemanticMultiplicity
  <2> QED
    BY <2>1, <2>2, <2>4, <2>5 DEF ProjectEnd
<1>2. PICK q : q = RenamedRelationship(d, r)
  OBVIOUS
<1>3. /\ q.kind = r.kind /\ q.name = r.name
      /\ q.source = RenamedEnd(d, r.source) /\ q.target = RenamedEnd(d, r.target)
      /\ q.associationClassId = IF r.associationClassId = None THEN None ELSE NewId(d, r.associationClassId)
  BY <1>2, RenamedRelationships
<1>4. NameOf(R, q.associationClassId) = NameOf(d, r.associationClassId)
  <2>1. CASE r.associationClassId = None
    BY <1>3, <2>1 DEF NameOf
  <2>2. CASE r.associationClassId # None
    <3>1. PICK e \in d.elements : e.id = r.associationClassId
      BY <2>2, OwnedClass
    <3> QED
      BY <1>3, <2>2, <3>1, NameRead
  <2> QED
    BY <2>1, <2>2
<1>5. ProjectEnd(R, q.source) = ProjectEnd(d, r.source) /\ ProjectEnd(R, q.target) = ProjectEnd(d, r.target)
  BY <1>1, <1>3
<1> HIDE DEF R
<1>6. ProjectRelationship(R, q) = ProjectRelationship(d, r)
  BY <1>3, <1>4, <1>5 DEF ProjectRelationship
<1> QED
  BY <1>2, <1>6 DEF R

\* The import means what the document does.
LEMMA RereadEquivalent ==
  ASSUME NEW d, DiagramShape(d), Valid(d), Apart(d)
  PROVE  Equivalent(d, Reread(d))
<1> DEFINE R == Reread(d)
<1>1. R.elements = {RenamedClassifier(d, e) : e \in d.elements}
      /\ R.relationships = {RenamedRelationship(d, r) : r \in d.relationships}
  BY RereadParts
<1>2. \A e \in d.elements : ProjectElement(R, RenamedClassifier(d, e)) = ProjectElement(d, e)
  BY ElementProjected
<1>3. \A r \in d.relationships : ProjectRelationship(R, RenamedRelationship(d, r)) = ProjectRelationship(d, r)
  BY RelationshipProjected
<1> HIDE DEF R
<1>4. {ProjectElement(d, x) : x \in d.elements} = {ProjectElement(R, x) : x \in R.elements}
  <2>1. ASSUME NEW y \in {ProjectElement(d, x) : x \in d.elements}
        PROVE  y \in {ProjectElement(R, x) : x \in R.elements}
    BY <1>1, <1>2
  <2>2. ASSUME NEW y \in {ProjectElement(R, x) : x \in R.elements}
        PROVE  y \in {ProjectElement(d, x) : x \in d.elements}
    BY <1>1, <1>2
  <2> QED
    BY <2>1, <2>2
<1>5. {ProjectRelationship(d, r) : r \in d.relationships}
        = {ProjectRelationship(R, r) : r \in R.relationships}
  <2>1. ASSUME NEW y \in {ProjectRelationship(d, r) : r \in d.relationships}
        PROVE  y \in {ProjectRelationship(R, r) : r \in R.relationships}
    BY <1>1, <1>3
  <2>2. ASSUME NEW y \in {ProjectRelationship(R, r) : r \in R.relationships}
        PROVE  y \in {ProjectRelationship(d, r) : r \in d.relationships}
    BY <1>1, <1>3
  <2> QED
    BY <2>1, <2>2
<1>6. Equivalent(d, R)
  BY <1>4, <1>5 DEF Equivalent
<1> QED
  BY <1>6 DEF R

\* The program understands the file of any valid document it can export, if the
\* document is spelled as the importer spells and no hash is the identifier of
\* the project, of the diagram or of nothing.
THEOREM ExportsAreRead ==
  ASSUME NEW d, DiagramShape(d), Valid(d), Exportable(d), Spelled(d), Apart(d)
  PROVE  Understood(d, Exported(d))
<1>1. Imported(Exported(d)) = Reread(d)
  BY ImportedIs
<1>2. Importable(Exported(d)) /\ Diagnostics(Exported(d)) = {}
  BY FileImportable, FileUnremarkable
<1>3. Valid(Reread(d)) /\ Equivalent(d, Reread(d))
  BY RereadValid, RereadEquivalent
<1> QED
  BY <1>1, <1>2, <1>3 DEF Understood

\* A document that can be exported is imported again as a valid document that means
\* the same, whatever commands it was made by: what the two conditions leave out are
\* multiplicities spelled as the importer does not spell them, and identifiers a
\* hash repeats.
THEOREM OwnFilesAreUnderstood ==
  Spec => []OwnFilesUnderstood
<1>1. DocumentInv => OwnFilesUnderstood
  BY ExportsAreRead DEF DocumentInv, OwnFilesUnderstood
<1> QED
  BY <1>1, DocumentsStayValid, PTL
=============================================================================
