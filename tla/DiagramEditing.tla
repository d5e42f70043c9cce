--------------------------- MODULE DiagramEditing ---------------------------
(***************************************************************************)
(* A document edited by commands, and what every document reached so may   *)
(* rely on: the lock check covers what a command changes, a deletion or a  *)
(* rename is not refused by the validation, and the relational model of    *)
(* the document says what the diagram says.                                *)
(***************************************************************************)
EXTENDS UmlCommands, RelationalModel, XmiDialects

CONSTANTS
  NewClassifiers, NewAttributes, NewOperations, NewRelationships,
  NewNames,     \* what clients send in their commands
  MaxWeight     \* bound: how much a document holds beyond its classifiers

\* What clients send has the shape the JSON schema asks for.
ASSUME ShapeAssumption ==
  /\ \A e \in NewClassifiers : ClassifierShape(e)
  /\ \A a \in NewAttributes : AttributeShape(a)
  /\ \A o \in NewOperations : OperationShape(o)
  /\ \A r \in NewRelationships : RelationshipShape(r)

VARIABLE document

At(id, x) == [elementId |-> id, x |-> x]

(***************************************************************************)
(* The commands a client may send of a document, by type.                  *)
(***************************************************************************)

Creations == {[type |-> "classifier.create", classifier |-> e, position |-> At(e.id, 0)] :
                e \in NewClassifiers}
Duplications(d) ==
  {[type |-> "classifier.duplicate", elementId |-> id, classifier |-> e,
    position |-> At(e.id, 0)] : id \in ElementIds(d), e \in NewClassifiers}
Renames(d) ==
  {[type |-> "classifier.update", elementId |-> e.id, classifier |-> [e EXCEPT !.name = n]] :
     e \in d.elements, n \in NewNames}
Revisions(d) ==
  {[type |-> "classifier.update", elementId |-> e.id, classifier |-> e] :
     e \in {x \in NewClassifiers : Has(d, x.id)}}
Moves(d) == {[type |-> "classifier.move", elementId |-> id, x |-> x] :
               id \in ElementIds(d), x \in {0, 1}}
Deletions(d) ==
  {[type |-> "classifier.delete", elementId |-> id] : id \in ElementIds(d)}
    \cup {[type |-> "relationship.delete", relationshipId |-> r.id] : r \in d.relationships}
    \cup (UNION {{[type |-> "attribute.delete", elementId |-> e.id, memberId |-> m.id] :
                    m \in e.attributes} : e \in d.elements})
    \cup (UNION {{[type |-> "operation.delete", elementId |-> e.id, memberId |-> m.id] :
                    m \in e.operations} : e \in d.elements})
    \cup {[type |-> "diagram.clear"]}
Additions(type, d, new) ==
  {[type |-> type, elementId |-> id, member |-> m] : id \in ElementIds(d), m \in new}
Changes(type, d, new) ==
  {[type |-> type, elementId |-> id, memberId |-> m.id, member |-> m] :
     id \in ElementIds(d), m \in new}
Links == {[type |-> "relationship.create", relationship |-> r] : r \in NewRelationships}
Relinks(d) ==
  {[type |-> "relationship.update", relationshipId |-> r.id, relationship |-> r] :
     r \in NewRelationships}
Promotions(d) ==
  {[type |-> "association-class.create", relationshipId |-> r.id, classifier |-> e,
    position |-> At(e.id, 0)] : r \in d.relationships, e \in NewClassifiers}

Commands(d) ==
  Creations \cup Duplications(d) \cup Renames(d) \cup Revisions(d) \cup Moves(d)
    \cup Deletions(d)
    \cup Additions("attribute.add", d, NewAttributes)
    \cup Changes("attribute.update", d, NewAttributes)
    \cup Additions("operation.add", d, NewOperations)
    \cup Changes("operation.update", d, NewOperations)
    \cup Links \cup Relinks(d) \cup Promotions(d)

\* The bound: features and relationships; a classifier renamed counts
\* twice, one of a rare name once, one moved three times.
Weight(d) ==
  MapThenSumSet(LAMBDA e : Cardinality(e.attributes) + Cardinality(e.operations), d.elements)
    + Cardinality(d.relationships)
    + 3 * Cardinality({p \in d.positions : p.x # 0})
    + 2 * Cardinality({e \in d.elements : e.name \in NewNames})

Submit(c) ==
  LET next == Executed(document, c)
  IN /\ next # Refused /\ Weight(next) <= MaxWeight
     /\ Outcome(document, c, {}) = "accepted"
     /\ document' = next

Init == document = EmptyDiagram
Next ==
  \/ \E c \in Creations : Submit(c)
  \/ \E c \in Duplications(document) : Submit(c)
  \/ \E c \in Renames(document) : Submit(c)
  \/ \E c \in Revisions(document) : Submit(c)
  \/ \E c \in Moves(document) : Submit(c)
  \/ \E c \in Deletions(document) : Submit(c)
  \/ \E c \in Additions("attribute.add", document, NewAttributes) : Submit(c)
  \/ \E c \in Changes("attribute.update", document, NewAttributes) : Submit(c)
  \/ \E c \in Additions("operation.add", document, NewOperations) : Submit(c)
  \/ \E c \in Changes("operation.update", document, NewOperations) : Submit(c)
  \/ \E c \in Links : Submit(c)
  \/ \E c \in Relinks(document) : Submit(c)
  \/ \E c \in Promotions(document) : Submit(c)
Spec == Init /\ [][Next]_document

(***************************************************************************)
(* Properties of the commands                                              *)
(***************************************************************************)

\* The classifiers two documents do not agree on, and those whose
\* relationships they do not agree on.
Differing(d, e) ==
  {id \in ElementIds(d) \cup ElementIds(e) :
     {x \in d.elements : x.id = id} # {x \in e.elements : x.id = id}}
    \cup UNION {Ends(r) : r \in (d.relationships \ e.relationships)
                                  \cup (e.relationships \ d.relationships)}

\* The command service refuses a command when another socket holds a lock on
\* an element the executor calls affected.  Whatever an accepted command
\* changes is affected: renaming reaches the classifiers that refer to the
\* one renamed, a deletion the classes of the associations it takes along.
LockCheckCoversChanges ==
  \A c \in Commands(document) :
    LET next == Executed(document, c)
    IN \/ next = Refused
       \/ Differing(document, next) \subseteq Affected(document, c)
       \/ Outcome(document, c, {}) # "accepted"

\* An association that differs from another only by its class.
Twin(r) ==
  /\ r.associationClassId # None
  /\ \E s \in document.relationships \ {r} : SameMeaning([r EXCEPT !.associationClassId = None], s)

\* What a deletion leaves behind is a valid document, so that the validation
\* never refuses one: no reference, position, association end or association
\* class survives what it names.  The exception: an association may repeat
\* another once the class that told the two apart is deleted.
DeletionsAccepted ==
  \A c \in Deletions(document) :
    \/ Outcome(document, c, {}) # "INVALID_MODEL"
    \/ /\ c.type = "classifier.delete"
       /\ \E r \in document.relationships : r.associationClassId = c.elementId /\ Twin(r)

\* A rename is refused only where the name is taken or blank: every reference follows.
RenamesFollowed ==
  \A c \in Renames(document) :
    LET free == \A e \in document.elements :
                  e.id # c.elementId => Folded[e.name] # Folded[c.classifier.name]
        blank == Folded[c.classifier.name] = ""
        now == Executed(document, c)
    IN free /\ ~blank /\ now # Refused =>
         /\ Valid(now)
         /\ \A e \in document.elements : \A t \in TypesOf(e) :
              t.elementId = c.elementId =>
                \E u \in TypesOf(Classifier(now, e.id)) : u = [t EXCEPT !.name = c.classifier.name]

(***************************************************************************)
(* Properties of the relational model                                      *)
(***************************************************************************)

Tables(m) == {m.tables[i] : i \in DOMAIN m.tables}
Noted(m, id) == \E n \in m.notes : n[2] = id
TableOf(m, id) == CHOOSE t \in Tables(m) : t.classifierId = id
ClassId(d, id) == id \in ElementIds(d) /\ Classifier(d, id).kind = "class"

\* An attribute of a class in the relational model: a table of its own for
\* a collection, a foreign key to the class it names, a column.
AttributeStored(m, e, a) ==
  LET owner == TableOf(m, e.id)
      named == IF a.type.elementId = None THEN {} ELSE {TableOf(m, a.type.elementId).id}
  IN IF a.type.collection
       THEN \E t \in Tables(m) :
              /\ t.kind = "collection" /\ t.primaryKey.sources = {e.id, a.id}
              /\ {k.tableId : k \in t.foreignKeys} = {owner.id} \cup named
              /\ Cardinality(t.columns) = 2
       ELSE /\ {k.tableId : k \in {x \in owner.foreignKeys : a.id \in x.sources}} = named
            /\ Cardinality({c \in owner.columns : a.id \in c.sources}) = 1

\* A foreign key k of t from one end of r to the other: each row names at most
\* one, it must name one where the diagram asks for one, and no two rows name
\* the same where the diagram allows only one.
Refers(m, r, t, k, own, other) ==
  /\ t.classifierId = own.elementId /\ k.tableId = TableOf(m, other.elementId).id
  /\ ~IsMany(other.multiplicity)
  /\ Column(t, k.columnIds[1]).nullable = (Bounds[other.multiplicity].lower = 0)
  /\ IsMany(own.multiplicity) = (\A u \in t.uniques : u.columnIds # k.columnIds)
  /\ r.kind = "composition" => own = r.target /\ k.onDelete = "CASCADE"

\* A foreign key for the relationship of two classes, at most one of the
\* one for each of the other, and no second one.
Referenced(m, r) ==
  LET keys(t) == {k \in t.foreignKeys : r.id \in k.sources}
      referring == {t \in Tables(m) : keys(t) # {}}
  IN /\ Cardinality(referring) = 1
     /\ \A t \in referring :
          /\ Cardinality(keys(t)) = 1
          /\ \A k \in keys(t) : \/ Refers(m, r, t, k, r.source, r.target)
                              \/ Refers(m, r, t, k, r.target, r.source)

\* Many to many, or with a class of its own: a table that names both.
Joined(m, r) ==
  LET tables == {t \in Tables(m) : t.relationshipId = r.id}
  IN /\ Cardinality(tables) = 1
     /\ \A t \in tables :
          /\ t.classifierId = r.associationClassId
          /\ {k.tableId : k \in {x \in t.foreignKeys : r.id \in x.sources}}
               = {TableOf(m, id).id : id \in Ends(r)}
          /\ \A c \in t.columns : r.id \in c.sources => ~c.nullable

RelationshipStored(m, d, r) ==
  IF r.kind \in {"realization", "dependency"} \/ ~ \A id \in Ends(r) : ClassId(d, id)
    THEN Noted(m, r.id)
  ELSE IF r.kind = "generalization"
    THEN TableOf(m, r.source.elementId).parent = TableOf(m, r.target.elementId).id
  ELSE IF r.kind # "composition" /\ IsMany(r.source.multiplicity) /\ IsMany(r.target.multiplicity)
    THEN Joined(m, r)
  ELSE Referenced(m, r)

Represented(m, d) ==
  /\ \A e \in d.elements :
       IF e.kind = "class"
         THEN /\ Cardinality({t \in Tables(m) : t.classifierId = e.id}) = 1
              /\ \A a \in e.attributes \ ExplicitIds(e) :
                   IF a.isStatic \/ (a.type.elementId # None /\ ~ClassId(d, a.type.elementId))
                     THEN Noted(m, a.id) ELSE AttributeStored(m, e, a)
         ELSE Noted(m, e.id)
  /\ \A r \in d.relationships : RelationshipStored(m, d, r)

\* The model of a document leaves out nothing a class declares without
\* saying so, and says each thing once: one table for each class, one place
\* for each attribute that is no identifier, one for each relationship.
FeaturesRepresented ==
  LET Complete(m) == m.failed = None => Represented(m, document)
  IN Complete(Generated(document))

(***************************************************************************)
(* The exchange of XMI files                                               *)
(***************************************************************************)

\* A file is imported as a valid document that means the same, with no
\* diagnostic but that packages are flattened.
Understood(d, f) ==
  /\ Importable(f) /\ Diagnostics(f) \subseteq {"XMI_PACKAGE_FLATTENED"}
  /\ Valid(Imported(f)) /\ Equivalent(d, Imported(f))

\* The importer writes each multiplicity in one way, and semanticProjection
\* knows of one other, * for 0..*.  A document is spelled as both expect when
\* its multiplicities are written in one of the two ways, and no two
\* relationships differ in the way alone.
Spelled(d) ==
  LET respelled(end) == [end EXCEPT !.multiplicity = SemanticMultiplicity(@)]
      plain(r) == [r EXCEPT !.source = respelled(@), !.target = respelled(@)]
  IN /\ \A r \in d.relationships : \A end \in {r.source, r.target} :
          Literal[<<Bounds[end.multiplicity].lower, Bounds[end.multiplicity].upper>>]
            = SemanticMultiplicity(end.multiplicity)
     /\ \A r, s \in d.relationships : SameMeaning(plain(r), plain(s)) => r = s

\* What the parts of a document are called once its file is imported: no hash
\* is the identifier of the project or of the diagram.
Hashes(d) ==
  {<<t[1], t[3].id>> : t \in Registered(d)}
    \cup {<<"classifier", "relationship", r.id>> : r \in d.relationships}
Apart(d) == Hashes(d) \cap (RootIds \cup {None}) = {}

\* The program understands the files it writes itself: a document that can be
\* exported is imported again as a valid document that means the same.
OwnFilesUnderstood ==
  Exportable(document) /\ Spelled(document) /\ Apart(document) =>
    Understood(document, Exported(document))

\* The program understands the files other tools write of the same diagram; and a file
\* that says more than a document can hold, or names what it does not declare,
\* is refused or has its diagnostic.
ExchangeFaithful ==
  LET Told(f) == Importable(f) => Diagnostics(f) # {}
      file == Exported(document)
  IN Exportable(document) =>
       (\A f \in Dialects(file) : Understood(document, f)) /\ (\A f \in Lossy(file) : Told(f))

(***************************************************************************)
(* The contract                                                            *)
(***************************************************************************)

\* A class and those it inherits from.
Line(d, id) ==
  LET closed == {S \in SUBSET ElementIds(d) : id \in S /\ UNION {Parents(d, x) : x \in S} \subseteq S}
  IN CHOOSE S \in closed : \A T \in closed : S \subseteq T

\* Whether the identifier of a class is its own or that of an ancestor, of
\* another type.
OwnKey(d, id) ==
  LET explicit == ExplicitIds(Classifier(d, id))
  IN IF explicit = {} THEN UUID ELSE ScalarTypes[(CHOOSE a \in explicit : TRUE).type.name]
Rekeyed(d, id) == ClassId(d, id) /\ \E x \in Line(d, id) : OwnKey(d, x) # OwnKey(d, id)

\* The columns made before the generalizations are read copy the type of a
\* key that a generalization then changes.
ReferredEarly(d) ==
  {a.type.elementId : a \in UNION {e.attributes : e \in d.elements}}
    \cup {e.id : e \in {x \in d.elements : \E a \in x.attributes : a.type.collection}}
    \cup UNION {Ends(r) : r \in {x \in d.relationships : x.associationClassId # None}}

Classes(d) == {e \in d.elements : e.kind = "class"}

\* The two foreign keys of an association class are told apart by the names
\* of the ends only.
AlikeEnds(d, r) ==
  /\ r.associationClassId # None
  /\ LET name(end) == EndName(end, [name |-> Classifier(d, end.elementId).name])
     IN name(r.source) = name(r.target)

\* The tables of the schema share one space of names with their keys, and no name of
\* a table is checked against the keys: a class PkOwner beside a class Owner.
NamedAsKey(d) ==
  \E e, f \in Classes(d) : Words[e.name] = <<"pk">> \o Words[f.name]

\* The names by which the class refers to others: its attributes, and the ends of
\* its relationships.
ReferenceNames(d, e) ==
  LET ends == {<<r.source, r.target>> : r \in d.relationships}
                \cup {<<r.target, r.source>> : r \in d.relationships}
  IN {Words[a.name] : a \in {x \in e.attributes : x.type.elementId # None}}
       \cup {EndName(p[2], [name |-> Classifier(d, p[2].elementId).name]) :
                p \in {x \in ends : x[1].elementId = e.id}}

\* The foreign key to the parent is named like that of a reference: a parent
\* OwnerId of a class that refers to an owner.
NamedAsReference(d) ==
  \E r \in Generalizations(d) :
    \E name \in ReferenceNames(d, Classifier(d, r.source.elementId)) :
      name \o <<"id">> = Words[Classifier(d, r.target.elementId).name]

\* The name of a class and that of a reference, run together, name a unique key
\* twice: a class OwnerId with a person, and a class Owner with an idPerson.
RunTogether(d) ==
  \E e, f \in Classes(d) :
    /\ e # f
    /\ \E x \in ReferenceNames(d, e) : \E y \in ReferenceNames(d, f) :
         Words[e.name] \o x = Words[f.name] \o y

\* What the passes get wrong.
KnownGap(d) ==
  \/ \E id \in ReferredEarly(d) : Rekeyed(d, id)
  \/ \E r \in d.relationships : AlikeEnds(d, r)
  \/ \E r \in Generalizations(d) : r.target.elementId \in AssociationClassIds(d)
  \/ NamedAsKey(d) \/ NamedAsReference(d) \/ RunTogether(d)

Collisions == {"ARTIFACT_ID_COLLISION", "PHYSICAL_TABLE_NAME_COLLISION",
               "JAVA_ENTITY_NAME_COLLISION", "PHYSICAL_COLUMN_NAME_COLLISION",
               "JAVA_PROPERTY_NAME_COLLISION", "PHYSICAL_CONSTRAINT_NAME_COLLISION"}

\* Generated names are made apart where the names of classes, attributes and roles
\* meet, and the four passes leave a model that meets the contract, with the keys of
\* a hierarchy agreeing and every foreign key naming a key of its type: the known
\* gaps apart, three of keys and three of names.  The names of the instance reach each
\* gap between classes; the table of a collection or of a join, whose name is made of
\* several, can meet a key of another table in the same ways, and none does here.
ContractMet ==
  LET Met(m) == m.failed \notin Collisions /\ (m.failed = None => ContractHolds(m.tables))
  IN ~KnownGap(document) => Met(Transformed(document))

\* generateRelationalModel asserts the contract of its own result: the model
\* of a valid document never fails it.
OwnContractHolds == Generated(document).failed # "RELATIONAL_CONTRACT_INVALID"
=============================================================================
