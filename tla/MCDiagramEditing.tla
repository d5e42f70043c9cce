-------------------------- MODULE MCDiagramEditing --------------------------
EXTENDS DiagramEditing

Range1(lower, upper) == [lower |-> lower, upper |-> upper]
MCBounds ==
  ("1" :> Range1(1, 1)) @@ ("0..1" :> Range1(0, 1)) @@ ("*" :> Range1(0, Unbounded))
    @@ ("0..*" :> Range1(0, Unbounded)) @@ ("1..1" :> Range1(1, 1))
MCFolded ==
  ("Person" :> "person") @@ ("id" :> "id") @@ ("owner" :> "owner") @@ ("ownerId" :> "ownerid") @@ ("tags" :> "tags")
    @@ ("place" :> "place") @@ ("Long" :> "long") @@ ("Integer" :> "integer")
    @@ ("Owner" :> "owner") @@ ("OwnerId" :> "ownerid") @@ ("PkOwner" :> "pkowner")
\* The names of more than one word.
Compound ==
  ("ownerId" :> <<"owner", "id">>) @@ ("OwnerId" :> <<"owner", "id">>)
    @@ ("PkOwner" :> <<"pk", "owner">>) @@ ("idPerson" :> <<"id", "person">>)
MCWords ==
  Compound @@ [n \in {"source", "target", "holds"} |-> <<n>>]
    @@ [n \in DOMAIN MCFolded |-> <<MCFolded[n]>>]
MCOrder == <<"", "*", "0..1", "1", "a1", "a2", "a3", "a4", "c1", "c2", "c3", "id",
             "idPerson", "owner", "Owner", "ownerId", "OwnerId", "Person", "PkOwner",
             "place", "r1", "r2", "source", "tags", "target">>
MCPrimitive == ("Integer" :> "Integer")
MCLiteral == (<<1, 1>> :> "1") @@ (<<0, 1>> :> "0..1") @@ (<<0, Unbounded>> :> "0..*")
MCScalarTypes == ("Long" :> [java |-> "Long", postgres |-> "bigint"])

Type(name, id, collection) ==
  [name |-> name, elementId |-> id, collection |-> collection, nullable |-> FALSE]
Attribute(id, name, type, isStatic) ==
  [id |-> id, name |-> name, type |-> type, isStatic |-> isStatic]
New(id, kind, name) ==
  [id |-> id, kind |-> kind, name |-> name, attributes |-> {}, operations |-> {}]
End(id, role, multiplicity, navigable) ==
  [elementId |-> id, role |-> role, multiplicity |-> multiplicity, navigable |-> navigable]
Rel(id, kind, source, target) ==
  [id |-> id, kind |-> kind, name |-> None, source |-> source, target |-> target,
   associationClassId |-> None]

\* PkOwner, OwnerId and Owner meet the names that are made of others.
MCClassifiers == {New("c1", "class", "Person"), New("c2", "class", "OwnerId"),
                  New("c3", "class", "Owner"), New("c3", "interface", "Owner")}
MCAttributes ==
  {Attribute("a1", "id", Type("Long", None, FALSE), FALSE),
   Attribute("a1", "ownerId", Type("Long", None, FALSE), FALSE),
   Attribute("a2", "owner", Type("Person", "c1", FALSE), FALSE),
   Attribute("a2", "tags", Type("OwnerId", "c2", TRUE), FALSE),
   Attribute("a3", "tags", Type("Integer", None, TRUE), TRUE)}
MCOperations == {[id |-> "o1", name |-> "place", returnType |-> Type("OwnerId", "c2", FALSE),
                  parameters |-> {[id |-> "p1", name |-> "owner", type |-> Type("Person", "c1", FALSE)]}]}
Plain(c) == End(c, "", "1", FALSE)
One(c) == End(c, "", "1", TRUE)
Many(c) == End(c, "", "*", TRUE)
MCRelationships ==
  {Rel("r1", "generalization", Plain("c1"), Plain("c2")),
   Rel("r2", "generalization", Plain("c2"), Plain("c3")),
   [Rel("r1", "association", Many("c1"), Many("c2")) EXCEPT !.name = "holds"],
   Rel("r2", "association", Many("c2"), Many("c1")),
   Rel("r1", "association", Many("c1"), Many("c1")),
   Rel("r2", "association", End("c1", "owner", "0..1", TRUE), Many("c2")),
   Rel("r1", "association", One("c1"), End("c2", "", "0..1", FALSE)),
   Rel("r2", "composition", One("c1"), Many("c2")),
   Rel("r2", "association", End("c1", "idPerson", "1", TRUE), End("c3", "", "0..1", FALSE)),
   Rel("r1", "realization", Plain("c1"), Plain("c3"))}
=============================================================================
