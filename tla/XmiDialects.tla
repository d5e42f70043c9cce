---------------------------- MODULE XmiDialects ----------------------------
(***************************************************************************)
(* The files other tools write: the same diagram in the forms the importer *)
(* accepts (Enterprise Architect and the UML standard write some of them), *)
(* and files that say more than a document can, or contradict themselves.  *)
(***************************************************************************)
EXTENDS XmiExchange

Replaced(f, old, New(_)) == (f \ old) \cup {New(t) : t \in old}
Without(t, fields) == [x \in DOMAIN t \ fields |-> t[x]]

\* Navigable ends are attributes of the classifier at the other end.
EndsInClassifiers(f) ==
  LET associations == Packaged(f, {"association"})
      movable == {t \in Tagged(f, "ownedEnd") :
                    /\ t.isNavigable /\ t.aggregation = "none"
                    /\ \E a \in associations : a.id = t.owner}
      opposite(t) == CHOOSE u \in Tagged(f, "ownedEnd") : u.owner = t.owner /\ u.id # t.id
      moved(t) == Without(t, {"aggregation", "isNavigable"})
                    @@ [association |-> t.owner, isStatic |-> FALSE]
      within(t) == [moved(t) EXCEPT !.tag = "ownedAttribute", !.owner = opposite(t).type.to]
      unlisted(a) == [a EXCEPT !.navigableEnds = None]
  IN Replaced(Replaced(f, movable, within), associations, unlisted)

\* Only navigableOwnedEnd says what is navigable.
EndsListed(f) ==
  LET unsaid(t) == [t EXCEPT !.isNavigable = None]
  IN Replaced(f, Tagged(f, "ownedEnd"), unsaid)

\* The whole of an aggregation is the second end.
WholeLast(f) ==
  LET turned(a) == [a EXCEPT !.memberEnds = <<@[2], @[1]>>]
      whole(a) == \E t \in Tagged(f, "ownedEnd") : t.owner = a.id /\ t.aggregation # "none"
  IN Replaced(f, {a \in Packaged(f, {"association"}) : whole(a)}, turned)

\* A type is the name of a classifier behind that of a language.
TypesByName(f) ==
  LET typed == {t \in Tagged(f, "ownedAttribute") \cup Tagged(f, "ownedParameter") :
                  t.type.by = "id" /\ IsClassifier(f, t.type.to)}
      named(t) == [t EXCEPT !.type = [by |-> "vendor", to |-> RawClassifier(f, @.to).name]]
  IN Replaced(f, typed, named)

\* Realizations are elements of the package, and a result that is a
\* classifier comes twice.
RealizationsApart(f) ==
  LET apart(t) == Without(t, {"owner"}) @@ [client |-> t.owner, type |-> "realization"]
      packaged(t) == [apart(t) EXCEPT !.tag = "packagedElement"]
  IN Replaced(f, Tagged(f, "interfaceRealization"), packaged)
ResultsTwice(f) ==
  f \cup {[t EXCEPT !.id = Append(@, "RT")] :
            t \in {u \in Tagged(f, "ownedParameter") :
                    u.direction = "return" /\ InTag(f, u.type) /\ <<u.lower, u.upper>> = <<1, 1>>}}

InPackage(f) ==
  f \cup {[tag |-> "packagedElement", type |-> "package", id |-> <<"package">>, name |-> "Model"]}

Dialects(f) ==
  {EndsInClassifiers(f), WholeLast(EndsListed(f)),
   InPackage(ResultsTwice(RealizationsApart(TypesByName(f))))}

\* An element no document holds, a third end, a data type nobody uses.
UseCase(f) ==
  f \cup {[tag |-> "packagedElement", type |-> "usecase", id |-> <<"usecase">>, name |-> "Buy"]}
ThirdEnd(f, a) ==
  LET end == CHOOSE t \in RawEnds(f, a) : TRUE
      third == [end EXCEPT !.id = Append(@, "third")]
  IN (f \ {a}) \cup {third, [a EXCEPT !.memberEnds = Append(@, third.id)]}
SpareType(f) ==
  f \cup {[tag |-> "packagedElement", type |-> "datatype", id |-> <<"spare">>, name |-> "Spare"]}
\* A classifier is missing that something names.
Dangling(f, c) == f \ ({c} \cup {t \in f : "owner" \in DOMAIN t /\ t.owner = c.id})
Named(f, x) ==
  \/ \E t \in f : "supplier" \in DOMAIN t /\ t.supplier = x /\ ("owner" \notin DOMAIN t \/ t.owner # x)
  \/ \E t \in Tagged(f, "ownedEnd") : t.owner # x /\ t.type.to = x

Lossy(f) ==
  {UseCase(f), SpareType(f)}
    \cup {ThirdEnd(f, a) : a \in Packaged(f, {"association"})}
    \cup {Dangling(f, c) : c \in {x \in RawClassifiers(f) : Named(f, x.id)}}
=============================================================================
