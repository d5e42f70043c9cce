-------------------------- MODULE RelationalModel --------------------------
(***************************************************************************)
(* relational-model.transformer.ts: the tables, keys and columns that      *)
(* stand for a UML document, built in four passes over the document in the *)
(* order of identifiers, and relational-model.validator.ts: the contract   *)
(* the result is checked against before anything uses it.                  *)
(*                                                                         *)
(* A generated name or identifier is a sequence of words: snake_case joins *)
(* them with underscores and Java capitalises them, so that two of them    *)
(* collide where the sequences are equal.  A stable hash is Hash followed  *)
(* by what it is the hash of: hashes do not collide.  The names of the     *)
(* instances are short and unreserved (no truncation, no escape).  Labels  *)
(* and messages are left out; a diagnostic is its code and a source.       *)
(***************************************************************************)
EXTENDS Diagram, Sequences, SequencesExt, TLC

CONSTANTS
  Words,        \* toPhysicalName of a name or a role: its words
  Order,        \* the identifiers, names, roles and multiplicities, sorted
  ScalarTypes   \* the scalar types: [java, postgres] of a type name

Hash == "#"
UUID == [java |-> "UUID", postgres |-> "uuid"]

Rank(x) == CHOOSE i \in DOMAIN Order : Order[i] = x
Sorted(ids) == SelectSeq(Order, LAMBDA i : i \in ids)
\* sortedClassifiers, sortedAttributes, sortedRelationships.
ById(S) ==
  LET ids == Sorted({x.id : x \in S})
  IN [k \in DOMAIN ids |-> CHOOSE x \in S : x.id = ids[k]]

(***************************************************************************)
(* BuildState: the tables so far, the diagnostics, and the failure.        *)
(***************************************************************************)

Start == [tables |-> <<>>, failed |-> None, notes |-> {}]
Fail(s, code) == [s EXCEPT !.failed = code]
Note(s, code, id) == [s EXCEPT !.notes = @ \cup {<<code, id>>}]
\* A pass over a sequence ends at its first failure.
Through(s, seq, Step(_, _)) ==
  FoldLeft(LAMBDA t, x : IF t.failed = None THEN Step(t, x) ELSE t, s, seq)

\* Mutant: a name already taken is used again.
Unresolved(wanted, taken, by) == wanted
Resolved(wanted, taken, by) == IF wanted \in taken THEN wanted \o <<Hash>> \o by ELSE wanted

\* The column as a table stores it: its identifier and names made unique.
Renamed(t, c, id) ==
  [c EXCEPT !.id = id,
            !.physical = Resolved(@, {x.physical : x \in t.columns}, id),
            !.java = Resolved(@, {x.java : x \in t.columns}, id)]
Stored(t, c) ==
  Renamed(t, c, Resolved(c.id, {x.id : x \in t.columns}, Sorted(c.sources)))

Clash(t, code) == [t EXCEPT !.clash = code]

\* The rest of addColumn: c is a stored column.
Placed(t, c) ==
  CASE t.clash # None -> t
    [] \E x \in t.columns : x.id = c.id -> Clash(t, "ARTIFACT_ID_COLLISION")
    [] \E x \in t.columns : x.physical = c.physical -> Clash(t, "PHYSICAL_COLUMN_NAME_COLLISION")
    [] \E x \in t.columns : x.java = c.java -> Clash(t, "JAVA_PROPERTY_NAME_COLLISION")
    [] OTHER -> [t EXCEPT !.columns = @ \cup {c}]
AddColumn(t, c) == Placed(t, Stored(t, c))

\* A column that the constraints of a new table will name.
AddEnd(t, c) == [AddColumn(t, c) EXCEPT !.ends = Append(@, Stored(t, c))]

AddForeignKey(t, k) ==
  IF t.clash # None THEN t
  ELSE IF k.physical \in {x.physical : x \in t.foreignKeys} \cup {t.primaryKey.physical}
         THEN Clash(t, "PHYSICAL_CONSTRAINT_NAME_COLLISION")
         ELSE [t EXCEPT !.foreignKeys = @ \cup {k}]

AddUnique(t, u) ==
  IF t.clash # None THEN t
  ELSE IF u.physical \in {x.physical : x \in t.foreignKeys \cup t.uniques}
                           \cup {t.primaryKey.physical}
         THEN Clash(t, "PHYSICAL_CONSTRAINT_NAME_COLLISION")
         ELSE [t EXCEPT !.uniques = @ \cup {u}]

\* The table as it stands after a step on it.
Update(s, t) ==
  IF t.clash # None THEN Fail(s, t.clash)
  ELSE [s EXCEPT !.tables = (t.id :> t) @@ @]

\* One pass, or one step, after another.
Then(s, Pass(_)) == IF s.failed = None THEN Pass(s) ELSE s

PrimaryKey(physical, columnIds, sources) ==
  [physical |-> <<"pk">> \o physical, columnIds |-> columnIds, sources |-> sources]

\* A table, its key and names made unique.
AddNamed(s, t, physicals, javas) ==
  CASE t.clash # None -> Fail(s, t.clash)
    [] t.id \in DOMAIN s.tables -> Fail(s, "ARTIFACT_ID_COLLISION")
    [] t.physical \in physicals -> Fail(s, "PHYSICAL_TABLE_NAME_COLLISION")
    [] t.java \in javas -> Fail(s, "JAVA_ENTITY_NAME_COLLISION")
    [] OTHER -> Update(s, [t EXCEPT !.primaryKey.physical = <<"pk">> \o t.physical])

AddTable(s, t) ==
  LET others == {s.tables[i] : i \in DOMAIN s.tables}
      physicals == {x.physical : x \in others}
      javas == {x.java : x \in others}
  IN AddNamed(s, [t EXCEPT !.physical = Resolved(@, physicals, t.id),
                           !.java = Resolved(@, javas, t.id)], physicals, javas)

TablesOf(s, id) == {i \in DOMAIN s.tables : s.tables[i].classifierId = id}
TableId(s, id) == CHOOSE i \in TablesOf(s, id) : TRUE
Mapped(s, id) == TablesOf(s, id) # {}

KeyColumn(t) == CHOOSE c \in t.columns : c.id = t.primaryKey.columnIds[1]
Composite(t) == Len(t.primaryKey.columnIds) # 1
\* tableForClassifier and requireSinglePrimaryKey.
Unreferable(s, ids) ==
  IF \E id \in ids : ~Mapped(s, id) THEN "UNMAPPED_CLASSIFIER"
  ELSE IF \E id \in ids : Composite(s.tables[TableId(s, id)])
         THEN "COMPOSITE_PRIMARY_KEY_REFERENCE_UNSUPPORTED"
         ELSE None

(***************************************************************************)
(* Columns                                                                 *)
(***************************************************************************)

IdAttributes(e) == {a \in e.attributes : ~a.isStatic /\ Folded[a.name] = "id"}
CompatibleId(a) == ~a.type.collection /\ a.type.elementId = None
ExplicitIds(e) == {a \in IdAttributes(e) : CompatibleId(a)}
\* scalarType fails.
Unsupported(a) == a.type.name \notin DOMAIN ScalarTypes

AttributeColumn(tableId, e, a, primaryKey) ==
  [id |-> <<"column">> \o tableId \o Words[a.name], logical |-> Words[a.name],
   physical |-> Words[a.name], java |-> Words[a.name], type |-> ScalarTypes[a.type.name],
   nullable |-> ~primaryKey /\ a.type.nullable, primaryKey |-> primaryKey,
   generated |-> FALSE, sources |-> {e.id, a.id}]

SyntheticIdColumn(tableId, e) ==
  [id |-> <<"column">> \o tableId \o <<"id">>, logical |-> <<"id">>, physical |-> <<"id">>,
   java |-> <<"id">>, type |-> UUID, nullable |-> FALSE, primaryKey |-> TRUE,
   generated |-> TRUE, sources |-> {e.id}]

\* createRelationshipColumn: the key of an endpoint in a table of its own.
EndpointColumn(tableId, r, end, referenced, primaryKey, logical) ==
  [id |-> <<"column">> \o tableId \o logical \o <<"id">>, logical |-> logical,
   physical |-> logical \o <<"id">>, java |-> logical \o <<"id">>,
   type |-> KeyColumn(referenced).type, nullable |-> FALSE, primaryKey |-> primaryKey,
   generated |-> FALSE, sources |-> {r.id, end.elementId}]

ForeignKey(t, name, column, referenced, onDelete, sources) ==
  [id |-> <<"fk">> \o t.id \o name, physical |-> <<"fk">> \o t.physical \o column.physical,
   columnIds |-> <<column.id>>, tableId |-> referenced.id,
   referencedIds |-> referenced.primaryKey.columnIds, onDelete |-> onDelete,
   sources |-> sources]

\* addReferenceColumn: the constraints of a column just stored.
Referencing(t, column, referenced, unique, sources, onDelete) ==
  LET constraint == [id |-> <<"unique">> \o t.id \o column.id,
                     physical |-> <<"uk">> \o t.physical \o column.physical,
                     columnIds |-> <<column.id>>]
      keyed(u) == IF unique THEN AddUnique(u, constraint) ELSE u
  IN keyed(AddForeignKey(t, ForeignKey(t, column.id, column, referenced, onDelete, sources)))

\* addReferenceColumn: a column of one table that references another.
AddReference(s, owner, referenced, logical, nullable, unique, sources, onDelete) ==
  LET Refer(t, c) ==
        Referencing(Placed(t, c), c, referenced, unique, sources, onDelete)
      Column(logicalId) ==
        [id |-> <<"column">> \o owner.id \o logicalId, logical |-> logical,
         physical |-> logicalId, java |-> logical, type |-> KeyColumn(referenced).type,
         nullable |-> nullable, primaryKey |-> FALSE, generated |-> FALSE, sources |-> sources]
  IN IF Composite(referenced) THEN Fail(s, "COMPOSITE_PRIMARY_KEY_REFERENCE_UNSUPPORTED")
     ELSE Update(s, Refer(owner, Stored(owner, Column(logical \o <<"id">>))))

Table(id, kind, classifierId, relationshipId, name, physical, java, columns, key) ==
  [id |-> id, kind |-> kind, classifierId |-> classifierId, relationshipId |-> relationshipId,
   name |-> name, physical |-> physical, java |-> java, columns |-> columns,
   primaryKey |-> key, foreignKeys |-> {}, uniques |-> {}, parent |-> None, ends |-> <<>>, clash |-> None]

(***************************************************************************)
(* Entity tables                                                           *)
(***************************************************************************)

AssociationClassIds(d) == {r.associationClassId : r \in d.relationships} \ {None}

EntityTable(s, e) ==
  LET id == <<"table", e.id>>
      explicit == ExplicitIds(e)
      attribute == CHOOSE a \in explicit : TRUE
      column == IF explicit = {} THEN SyntheticIdColumn(id, e)
                ELSE AttributeColumn(id, e, attribute, TRUE)
      name == Words[e.name]
      table == Table(id, "entity", e.id, None, e.name, name, name, {column},
                     PrimaryKey(name, <<column.id>>, {e.id}))
      noted == IF IdAttributes(e) = explicit THEN s
               ELSE Note(s, "INCOMPATIBLE_IDENTIFIER_ATTRIBUTE", e.id)
  IN IF explicit # {} /\ Unsupported(attribute)
       THEN Fail(s, "UNSUPPORTED_UML_TYPE")
       ELSE AddTable(noted, table)

EntityTables(s, d) ==
  LET Step(t, e) ==
        IF e.kind = "interface" THEN Note(t, "INTERFACE_NOT_PERSISTED", e.id)
        ELSE IF e.id \in AssociationClassIds(d) THEN t ELSE EntityTable(t, e)
  IN Through(s, ById(d.elements), Step)

(***************************************************************************)
(* Attributes                                                              *)
(***************************************************************************)

\* A collection: a row for each value of each owner.
CollectionOf(s, owner, e, a, named, type) ==
  LET id == <<"table", "collection", e.id, a.id>>
      physical == owner.physical \o Words[a.name]
      sources == {e.id, a.id}
      Key(name, java, keyType) ==
        [id |-> <<"column">> \o id \o name, logical |-> name, physical |-> name, java |-> java,
         type |-> keyType, nullable |-> FALSE, primaryKey |-> TRUE, generated |-> FALSE,
         sources |-> sources]
      value == IF named = {} THEN Key(<<"value">>, <<"value">>, type)
               ELSE Key(<<"value", "id">>, Words[a.name], type)
      bare == Table(id, "collection", None, None, a.name, physical,
                    Words[e.name] \o <<"+">> \o Words[a.name], {},
                    PrimaryKey(physical, <<>>, sources))
      Keyed(t) == [t EXCEPT !.primaryKey.columnIds = <<t.ends[1].id, t.ends[2].id>>]
      Side(t, i, name, other, onDelete) ==
        AddForeignKey(t, [ForeignKey(t, name, t.ends[i], other, onDelete, sources)
                            EXCEPT !.physical = <<"fk">> \o physical \o name])
      Owned(t) == Side(t, 1, <<"owner">>, owner, "CASCADE")
      Linked(u) ==
        Update(u, FoldSet(LAMBDA x, t : Side(t, 2, <<"value">>, x, "NO_ACTION"),
                          Owned(u.tables[id]), named))
      owned == Key(<<"owner", "id">>, <<"owner", "id">>, KeyColumn(owner).type)
  IN Then(AddTable(s, Keyed(AddEnd(AddEnd(bare, owned), value))), Linked)

CollectionTable(s, owner, e, a) ==
  LET target == a.type.elementId
      Named(t) == CollectionOf(s, owner, e, a, {t}, KeyColumn(t).type)
  IN CASE Composite(owner) -> Fail(s, "COMPOSITE_PRIMARY_KEY_REFERENCE_UNSUPPORTED")
       [] ~Composite(owner) /\ target = None ->
            IF Unsupported(a) THEN Fail(s, "UNSUPPORTED_UML_TYPE")
            ELSE CollectionOf(s, owner, e, a, {}, ScalarTypes[a.type.name])
       [] OTHER ->
            IF Unreferable(s, {target}) # None THEN Fail(s, Unreferable(s, {target}))
            ELSE Named(s.tables[TableId(s, target)])

\* The key is the attribute if its trace says so; that of an entity table
\* traces to the classifier alone.
IsKeyAttribute(t, e, a) == a \in IdAttributes(e) /\ a.id \in t.primaryKey.sources

\* addAttributeToTable.
AddAttributeTo(s, tableId, d, e, a) ==
  LET table == s.tables[tableId]
      target == a.type.elementId
  IN CASE a.isStatic -> Note(s, "STATIC_ATTRIBUTE_IGNORED", a.id)
       [] ~a.isStatic /\ IsKeyAttribute(table, e, a) -> s
       [] OTHER ->
            IF a.type.collection THEN CollectionTable(s, table, e, a)
            ELSE IF target # None THEN
              IF Classifier(d, target).kind # "class"
                THEN Note(s, "INTERFACE_ATTRIBUTE_REFERENCE", a.id)
                ELSE IF ~Mapped(s, target) THEN Fail(s, "UNMAPPED_CLASSIFIER")
                ELSE AddReference(s, table, s.tables[TableId(s, target)], Words[a.name],
                       a.type.nullable, FALSE, {e.id, a.id, target}, "NO_ACTION")
            ELSE IF Unsupported(a) THEN Fail(s, "UNSUPPORTED_UML_TYPE")
            ELSE Update(s, AddColumn(table, AttributeColumn(tableId, e, a, FALSE)))

AttributesInto(s, tableId, d, e) ==
  LET Step(t, a) == AddAttributeTo(t, tableId, d, e, a)
  IN Through(s, ById(e.attributes), Step)

ClassifierAttributes(s, d) ==
  LET Step(t, e) ==
        IF e.kind = "class" /\ Mapped(t, e.id) /\ t.tables[TableId(t, e.id)].kind = "entity"
          THEN AttributesInto(t, TableId(t, e.id), d, e) ELSE t
  IN Through(s, ById(d.elements), Step)

(***************************************************************************)
(* Association classes and join tables                                     *)
(***************************************************************************)

\* relationshipEndpointKey: classifier, role, multiplicity, navigability.
EndBefore(x, y) ==
  LET Key(end) == <<Rank(end.elementId), Rank(end.role), Rank(end.multiplicity),
                    IF end.navigable THEN 1 ELSE 0>>
      differing == {i \in 1 .. 4 : Key(x)[i] # Key(y)[i]}
  IN differing # {} /\ Key(x)[Min(differing)] < Key(y)[Min(differing)]

SortedEnds(r) ==
  IF EndBefore(r.target, r.source) THEN <<r.target, r.source>> ELSE <<r.source, r.target>>

EndName(end, table) == IF end.role = "" THEN Words[table.name] ELSE Words[end.role]

\* addForeignKeyForRelationship, for both ends.
LinkEnds(t, tables, r) ==
  LET Key(u, i) ==
        AddForeignKey(u, ForeignKey(u, u.ends[i].logical, u.ends[i], tables[i], "NO_ACTION",
                                    {r.id} \cup Ends(r)))
  IN Key(Key(t, 1), 2)

\* The key of an association class: its identifier, or its two ends.
ClassKeyed(t, e, r) ==
  LET Pair == PrimaryKey(t.physical, <<t.ends[1].id, t.ends[2].id>>, {e.id, r.id})
      Own(c) == [Placed(t, c) EXCEPT !.primaryKey = PrimaryKey(t.physical, <<c.id>>, c.sources)]
      Identified(a) == Own(Stored(t, AttributeColumn(t.id, e, a, TRUE)))
  IN IF IdAttributes(e) = {} THEN [t EXCEPT !.primaryKey = Pair]
     ELSE Identified(CHOOSE a \in IdAttributes(e) : TRUE)

AssociationClassOf(s, d, r, e) ==
  LET id == <<"table", e.id>>
      ends == SortedEnds(r)
      tables == [i \in 1 .. 2 |-> s.tables[TableId(s, ends[i].elementId)]]
      Column(i) == EndpointColumn(id, r, ends[i], tables[i], IdAttributes(e) = {},
                                  EndName(ends[i], tables[i]))
      bare == Table(id, "association-class", e.id, r.id, e.name, Words[e.name], Words[e.name],
                    {}, PrimaryKey(Words[e.name], <<>>, {e.id, r.id}))
      Unique(t) ==
        IF IdAttributes(e) = {} THEN t
        ELSE AddUnique(t, [id |-> <<"unique">> \o id \o <<"endpoints">>,
                           physical |-> <<"uk">> \o t.physical \o <<"endpoints">>,
                           columnIds |-> <<t.ends[1].id, t.ends[2].id>>])
      Linked(u) == Update(u, Unique(LinkEnds(u.tables[id], tables, r)))
      Described(u) == AttributesInto(u, id, d, e)
      table == ClassKeyed(AddEnd(AddEnd(bare, Column(1)), Column(2)), e, r)
  IN Then(Then(AddTable(s, table), Linked), Described)

AssociationClassTable(s, d, r) ==
  LET e == Classifier(d, r.associationClassId)
  IN CASE \E x \in Ends(r) : ~Mapped(s, x) -> Fail(s, "UNMAPPED_CLASSIFIER")
       [] IdAttributes(e) # ExplicitIds(e) -> Fail(s, "INCOMPATIBLE_ASSOCIATION_CLASS_IDENTIFIER")
       [] \E a \in ExplicitIds(e) : Unsupported(a) ->
            Fail(s, "UNSUPPORTED_UML_TYPE")
       [] OTHER ->
            IF Unreferable(s, Ends(r)) # None THEN Fail(s, Unreferable(s, Ends(r)))
            ELSE AssociationClassOf(s, d, r, e)

AssociationClassTables(s, d) ==
  LET Step(t, r) == AssociationClassTable(t, d, r)
  IN Through(s, ById({r \in d.relationships : r.associationClassId # None}), Step)

IsJoin(r) ==
  /\ r.associationClassId = None /\ r.kind \in {"association", "aggregation"}
  /\ IsMany(r.source.multiplicity) /\ IsMany(r.target.multiplicity)

\* joinEndpointLogicalName: ends of the same name are told apart.
JoinEndName(ends, tables, i) ==
  LET name == EndName(ends[i], tables[i])
  IN IF EndName(ends[3 - i], tables[3 - i]) # name THEN name
     ELSE name \o <<ends[i].elementId>>
            \o (IF ends[i].role = "" THEN <<"endpoint">> ELSE Words[ends[i].role])
            \o <<ToString(i - 1)>>

Discriminator(r) == IF r.name = None THEN <<r.id>> ELSE Words[r.name]

\* joinTablePhysicalName.
JoinName(d, r, source, target) ==
  LET Role(end, otherwise) == IF end.role = "" THEN otherwise ELSE end.role
      Pair(x, y) == LET seq == Sorted({x, y})
                    IN IF Len(seq) = 1 THEN <<x, x>> ELSE seq
      roles == Pair(Role(r.source, "source"), Role(r.target, "target"))
      base == IF source.id = target.id
                THEN source.physical \o Words[roles[1]] \o Words[roles[2]]
                ELSE IF Rank(source.name) < Rank(target.name)
                       THEN source.physical \o target.physical
                       ELSE target.physical \o source.physical
      parallel == {x \in d.relationships : IsJoin(x) /\ x.kind = r.kind /\ Ends(x) = Ends(r)}
      same == {x \in parallel : Discriminator(x) = Discriminator(r)}
  IN IF Cardinality(parallel) <= 1 THEN base
     ELSE base \o Discriminator(r) \o (IF Cardinality(same) > 1 THEN <<r.id>> ELSE <<>>)

JoinOf(s, d, r) ==
  LET ends == SortedEnds(r)
      tables == [i \in 1 .. 2 |-> s.tables[TableId(s, ends[i].elementId)]]
      id == <<"table", "relation", r.id>>
      physical == JoinName(d, r, s.tables[TableId(s, r.source.elementId)],
                           s.tables[TableId(s, r.target.elementId)])
      Column(i) == EndpointColumn(id, r, ends[i], tables[i], TRUE, JoinEndName(ends, tables, i))
      bare == Table(id, "join", None, r.id, None, physical,
                    tables[1].java \o tables[2].java \o <<"join">>, {},
                    PrimaryKey(physical, <<>>, {r.id} \cup Ends(r)))
      Keyed(t) == [t EXCEPT !.primaryKey.columnIds = <<t.ends[1].id, t.ends[2].id>>]
      Linked(u) == Update(u, LinkEnds(u.tables[id], tables, r))
  IN Then(AddTable(s, Keyed(AddEnd(AddEnd(bare, Column(1)), Column(2)))), Linked)

JoinTable(s, d, r) ==
  IF Unreferable(s, Ends(r)) # None THEN Fail(s, Unreferable(s, Ends(r))) ELSE JoinOf(s, d, r)

(***************************************************************************)
(* Generalizations: the keys of subclasses join those of their parents.    *)
(***************************************************************************)

Generalizations(d) == {r \in d.relationships : r.kind = "generalization"}
Parents(d, id) == {r.target.elementId : r \in {x \in Generalizations(d) : x.source.elementId = id}}

\* How many generalizations lie above a classifier, at most.
Depth(d, id) ==
  LET depth[n \in 0 .. Cardinality(d.elements)] ==
        [x \in ElementIds(d) |->
           IF n = 0 \/ Parents(d, x) = {} THEN 0
           ELSE 1 + Max({depth[n - 1][p] : p \in Parents(d, x)})]
  IN depth[Cardinality(d.elements)][id]

\* Mutant: in the order of identifiers alone.
UnsortedGeneralizations(d) == ById(Generalizations(d))
SortedGeneralizations(d) ==
  LET Below(r, s) ==
        LET x == Depth(d, r.target.elementId)
            y == Depth(d, s.target.elementId)
        IN x < y \/ (x = y /\ Rank(r.id) < Rank(s.id))
  IN SortSeq(ById(Generalizations(d)), Below)

BuildGeneralization(s, d, r) ==
  LET child == s.tables[TableId(s, r.source.elementId)]
      parent == s.tables[TableId(s, r.target.elementId)]
      childId == KeyColumn(child)
      parentId == KeyColumn(parent)
      joined == [childId EXCEPT !.type = parentId.type, !.nullable = FALSE, !.generated = FALSE,
                                !.sources = @ \cup {r.id} \cup Ends(r)]
      table == [child EXCEPT !.columns = (@ \ {childId}) \cup {joined}, !.parent = parent.id]
      key == [ForeignKey(child, <<"joined", "parent">>, childId, parent, "CASCADE",
                         {r.id} \cup Ends(r))
                EXCEPT !.physical = <<"fk">> \o child.physical \o parent.physical]
  IN IF \E id \in Ends(r) : Classifier(d, id).kind # "class"
       THEN Note(s, "INTERFACE_INHERITANCE_NOT_PERSISTED", r.id)
       ELSE CASE \E id \in Ends(r) : ~Mapped(s, id) -> Fail(s, "UNMAPPED_CLASSIFIER")
              [] OTHER ->
                   IF child.parent # None THEN Fail(s, "MULTIPLE_INHERITANCE_PARENTS")
                   ELSE IF Unreferable(s, Ends(r)) # None THEN Fail(s, Unreferable(s, Ends(r)))
                   ELSE IF ~childId.generated /\ ~parentId.generated /\ childId.type # parentId.type
                     THEN Fail(s, "JOINED_IDENTIFIER_TYPE_MISMATCH")
                   ELSE Update(s, AddForeignKey(table, key))

(***************************************************************************)
(* Associations, aggregations and compositions                             *)
(***************************************************************************)

\* chooseOneToOneOwner: the navigable end is the referenced one.
SourceOwns(r) ==
  IF r.source.navigable # r.target.navigable THEN r.target.navigable
  ELSE Rank(r.source.elementId) <= Rank(r.target.elementId)

\* referenceLogicalName: a taken name is qualified by the relationship.
ReferenceName(owner, name, r) ==
  LET taken == {c.physical : c \in owner.columns}
      named == name \o Discriminator(r)
  IN IF name \o <<"id">> \notin taken THEN name
     ELSE IF named \o <<"id">> \notin taken THEN named ELSE name \o <<r.id>>

\* The owner of the foreign key holds one column that references the other.
\* `end` is the end of the referenced classifier.
Link(s, r, owner, referenced, end, unique, onDelete) ==
  AddReference(s, owner, referenced, ReferenceName(owner, EndName(end, referenced), r),
    Bounds[end.multiplicity].lower = 0, unique, {r.id} \cup Ends(r), onDelete)

Composition(s, r, source, target) ==
  LET part == Bounds[r.target.multiplicity].upper
  IN IF IsMany(r.source.multiplicity) THEN Fail(s, "COMPOSITION_MULTIPLE_OWNERS_UNSUPPORTED")
     ELSE Link(s, r, target, source, r.source, part # Unbounded /\ part <= 1, "CASCADE")

\* Mutant: the foreign key of one to many is put on the side of the one.
OwnerIsOne(r) == IsMany(r.source.multiplicity)
\* Of an association that is not many to many: does the target own the key?
TargetOwns(r) ==
  IF IsMany(r.source.multiplicity) \/ IsMany(r.target.multiplicity)
    THEN IsMany(r.target.multiplicity) ELSE ~SourceOwns(r)

BuildAssociation(s, d, r) ==
  LET source == s.tables[TableId(s, r.source.elementId)]
      target == s.tables[TableId(s, r.target.elementId)]
      single == ~IsMany(r.source.multiplicity) /\ ~IsMany(r.target.multiplicity)
      Refer(owner, referenced, end) == Link(s, r, owner, referenced, end, single, "NO_ACTION")
  IN IF \E id \in Ends(r) : Classifier(d, id).kind # "class"
       THEN Note(s, "INTERFACE_ASSOCIATION_NOT_PERSISTED", r.id)
     ELSE IF \E id \in Ends(r) : ~Mapped(s, id) THEN Fail(s, "UNMAPPED_CLASSIFIER")
     ELSE IF \E end \in {r.source, r.target} : Bounds[end.multiplicity].upper = 0
       THEN Fail(s, "ZERO_MULTIPLICITY_UNSUPPORTED")
     ELSE IF r.kind = "composition" THEN Composition(s, r, source, target)
     ELSE IF IsJoin(r) THEN JoinTable(s, d, r)
     ELSE IF TargetOwns(r) THEN Refer(target, source, r.source)
     ELSE Refer(source, target, r.target)

Relationships(s, d) ==
  LET Inherit(t, r) == BuildGeneralization(t, d, r)
      Step(t, r) ==
        CASE r.kind = "realization" -> Note(t, "REALIZATION_NOT_PERSISTED", r.id)
          [] r.kind = "dependency" -> Note(t, "DEPENDENCY_NOT_PERSISTED", r.id)
          [] OTHER -> IF r.associationClassId # None THEN t ELSE BuildAssociation(t, d, r)
      inherited == Through(s, SortedGeneralizations(d), Inherit)
  IN Through(inherited, ById(d.relationships \ Generalizations(d)), Step)

\* The passes of generateRelationalModel on a valid document.
Transformed(d) ==
  LET Classes(s) == AssociationClassTables(s, d)
      Attributes(s) == ClassifierAttributes(s, d)
      Links(s) == Relationships(s, d)
  IN Then(Then(Then(EntityTables(Start, d), Classes), Attributes), Links)

(***************************************************************************)
(* assertRelationalModelContract                                           *)
(***************************************************************************)

Distinct(S, F(_)) == \A x, y \in S : F(x) = F(y) => x = y
IdOf(x) == x.id
PhysicalOf(x) == x.physical
JavaOf(x) == x.java

\* The names of the tables and of the indexes of the whole schema.
RelationNamesDistinct(T) ==
  LET keys == {<<t.id, t.primaryKey.physical>> : t \in T}
                \cup UNION {{<<t.id, u.physical>> : u \in t.uniques} : t \in T}
      names == {t.physical : t \in T} \cup {k[2] : k \in keys}
  IN Cardinality(names) = Cardinality(T) + Cardinality(keys)

ConstraintNamesDistinct(t) ==
  LET names == {t.primaryKey.physical} \cup {x.physical : x \in t.foreignKeys \cup t.uniques}
  IN Cardinality(names) = 1 + Cardinality(t.foreignKeys) + Cardinality(t.uniques)

PrimaryKeySound(t) ==
  /\ \A i \in DOMAIN t.primaryKey.columnIds :
       \E c \in t.columns : c.id = t.primaryKey.columnIds[i] /\ c.primaryKey /\ ~c.nullable
  /\ \A c \in t.columns :
       c.primaryKey => \E i \in DOMAIN t.primaryKey.columnIds : t.primaryKey.columnIds[i] = c.id

Column(t, id) == CHOOSE c \in t.columns : c.id = id
HasColumn(t, id) == \E c \in t.columns : c.id = id

ForeignKeySound(T, t, k) ==
  \E u \in T :
    /\ u.id = k.tableId
    /\ Len(k.columnIds) = Len(k.referencedIds)
    /\ \A i \in DOMAIN k.columnIds :
         /\ HasColumn(t, k.columnIds[i]) /\ HasColumn(u, k.referencedIds[i])
         /\ Column(t, k.columnIds[i]).type.postgres = Column(u, k.referencedIds[i]).type.postgres
    /\ \/ k.referencedIds = u.primaryKey.columnIds
       \/ \E x \in u.uniques : x.columnIds = k.referencedIds

\* Subclasses lead to an entity table without parent: the role of root.
InheritanceSound(T, t) ==
  t.parent # None =>
    \E u \in T :
      /\ u.id = t.parent
      /\ u.kind = "entity" \/ u.parent # None
      /\ Cardinality({k \in t.foreignKeys :
           /\ k.tableId = u.id /\ k.onDelete = "CASCADE"
           /\ k.columnIds = t.primaryKey.columnIds
           /\ k.referencedIds = u.primaryKey.columnIds}) = 1

ContractHolds(tables) ==
  LET T == {tables[i] : i \in DOMAIN tables}
  IN /\ Distinct(T, JavaOf) /\ RelationNamesDistinct(T)
     /\ \A t \in T :
          /\ Distinct(t.columns, IdOf) /\ Distinct(t.columns, PhysicalOf)
          /\ Distinct(t.columns, JavaOf)
          /\ Distinct(t.foreignKeys, IdOf) /\ Distinct(t.uniques, IdOf)
          /\ ConstraintNamesDistinct(t)
          /\ PrimaryKeySound(t)
          /\ \A u \in t.uniques : \A i \in DOMAIN u.columnIds : HasColumn(t, u.columnIds[i])
          /\ \A k \in t.foreignKeys : ForeignKeySound(T, t, k)
          /\ InheritanceSound(T, t)

Asserted(s) ==
  IF s.failed # None \/ ContractHolds(s.tables) THEN s ELSE Fail(s, "RELATIONAL_CONTRACT_INVALID")

\* generateRelationalModel.
Generated(d) ==
  IF Valid(d) THEN Asserted(Transformed(d)) ELSE Fail(Start, "CANONICAL_SEMANTIC_INVALID")
=============================================================================
