---------------------- MODULE DocumentTransfers_proofs ----------------------
(***************************************************************************)
(* Proofs about DocumentTransfers, for any number of requests, actors,     *)
(* files and any limits.                                                   *)
(***************************************************************************)
EXTENDS DocumentTransfers, FiniteSetTheorems, TLAPS

(***************************************************************************)
(* Types: what a request knows at each of its steps.                       *)
(***************************************************************************)

Exporting ==
  [step : {"granted"}, expected : Nat] \cup [step : {"archiving"}, timedOut : BOOLEAN]
Previewing ==
  [step : {"checking", "reading"}, kind : {"preview"}, actor : Importer, file : File]
    \cup [step : {"rechecking", "previewed"}, kind : {"preview"}, actor : Importer,
          file : File, revision : Nat]
Applying ==
  [step : {"checking", "reading", "rechecking", "writing"}, kind : {"apply"}, actor : Importer,
   file : File, expected : Nat, hash : File, acknowledged : BOOLEAN]

CallRecord == {Idle, Done} \cup Exporting \cup Previewing \cup Applying

TypeInv ==
  /\ call \in [Request -> CallRecord]
  /\ saved \in Seq({"created", "edited"} \cup File)
  /\ saved # <<>>
  /\ active \in Nat
  /\ closed \in BOOLEAN

(***************************************************************************)
(* Lemmas                                                                  *)
(***************************************************************************)

\* The larger of zero and a number.
LEMMA MaxWithZero ==
  ASSUME NEW n \in Int
  PROVE  Max({0, n}) = IF n > 0 THEN n ELSE 0
<1>1. CASE n > 0
  <2>1. \A x \in {0, n} : (\A y \in {0, n} : x >= y) <=> x = n
    BY <1>1
  <2>. QED BY <1>1, <2>1 DEF Max
<1>2. CASE ~(n > 0)
  <2>1. \A x \in {0, n} : (\A y \in {0, n} : x >= y) <=> x = 0
    BY <1>2
  <2>. QED BY <1>2, <2>1 DEF Max
<1>. QED BY <1>1, <1>2

\* The revision of a document is a number, and so is one a client asks for.
LEMMA Revisions ==
  ASSUME TypeInv
  PROVE  Revision \in Nat /\ Expected \subseteq Nat
<1>1. Revision \in Nat
  BY DEF TypeInv, Revision
<1>2. Max({0, Revision - 1}) \in Nat
  BY <1>1, MaxWithZero
<1>. QED BY <1>1, <1>2 DEF Expected

\* Every step keeps the types.
LEMMA Typed ==
  ASSUME TypeInv, [Next]_vars
  PROVE  TypeInv'
<1>. USE DEF TypeInv
<1>0. Revision \in Nat /\ Expected \subseteq Nat
  BY Revisions
<1>a. Done \in CallRecord
  BY DEF CallRecord
<1>1. ASSUME NEW r \in Request, NEW a \in Exporter, NEW e \in Expected, StartExport(r, a, e)
      PROVE  TypeInv'
  <2>1. [step |-> "granted", expected |-> e] \in CallRecord
    BY <1>0 DEF CallRecord, Exporting
  <2>. QED BY <1>1, <1>a, <2>1 DEF StartExport, document
<1>e. ASSUME NEW r \in Request, NEW b \in BOOLEAN, EndExport(r, b)
      PROVE  TypeInv'
  <2>1. active - 1 \in Int
    OBVIOUS
  <2>2. Freed(b) \in Nat
    BY <2>1, MaxWithZero DEF Freed
  <2>. QED BY <1>e, <1>a, <2>2 DEF EndExport, document
<1>2. ASSUME NEW r \in Request, DeriveProject(r)
      PROVE  TypeInv'
  <2>1. [step |-> "archiving", timedOut |-> FALSE] \in CallRecord
    BY DEF CallRecord, Exporting
  <2>. QED BY <1>2, <1>e, <2>1 DEF DeriveProject, document, quota
<1>3. ASSUME NEW r \in Request, ArchiveTimeout(r)
      PROVE  TypeInv'
  <2>1. call[r] \in [step : {"archiving"}, timedOut : BOOLEAN]
    BY <1>3 DEF ArchiveTimeout, CallRecord, Idle, Done, Exporting, Previewing, Applying
  <2>2. [call[r] EXCEPT !.timedOut = TRUE] \in CallRecord
    BY <2>1 DEF CallRecord, Exporting
  <2>. QED BY <1>3, <2>2 DEF ArchiveTimeout, document, quota
<1>4. ASSUME NEW r \in Request, ArchiveSettles(r)
      PROVE  TypeInv'
  BY <1>4, <1>e DEF ArchiveSettles
<1>b. ASSUME NEW r \in Request, NEW c \in CallRecord, Becomes(r, c)
      PROVE  TypeInv'
  <2>. QED BY <1>b DEF Becomes, document, quota
<1>5. ASSUME NEW r \in Request, NEW a \in Importer, NEW f \in File, StartPreview(r, a, f)
      PROVE  TypeInv'
  <2>1. [step |-> "checking", kind |-> "preview", actor |-> a, file |-> f] \in CallRecord
    BY DEF CallRecord, Previewing
  <2>. QED BY <1>5, <1>b, <2>1 DEF StartPreview
<1>6. ASSUME NEW r \in Request, NEW a \in Importer, NEW f \in File, NEW k \in BOOLEAN,
             NEW p \in Previews(a), StartApply(r, a, f, p, k)
      PROVE  TypeInv'
  <2>1. PICK q \in Request : /\ call[q].step = "previewed"
                             /\ p = [revision |-> call[q].revision, hash |-> call[q].file]
    BY DEF Previews
  <2>2. call[q] \in [step : {"rechecking", "previewed"}, kind : {"preview"}, actor : Importer,
                     file : File, revision : Nat]
    BY <2>1 DEF CallRecord, Idle, Done, Exporting, Previewing, Applying
  <2>3. p.revision \in Nat /\ p.hash \in File
    BY <2>1, <2>2
  <2>4. [step |-> "checking", kind |-> "apply", actor |-> a, file |-> f,
         expected |-> p.revision, hash |-> p.hash, acknowledged |-> k] \in CallRecord
    BY <2>3 DEF CallRecord, Applying
  <2>. QED BY <1>6, <1>b, <2>4 DEF StartApply
<1>7. ASSUME NEW r \in Request, CheckSession(r)
      PROVE  TypeInv'
  <2>. DEFINE c == call[r]
  <2>1. c \in Previewing \cup Applying
    BY <1>7 DEF CheckSession, CallRecord, Idle, Done, Exporting
  <2>2. CASE c.step = "checking"
    <3>1. [c EXCEPT !.step = "reading"] \in CallRecord
      BY <2>1, <2>2 DEF CallRecord, Previewing, Applying
    <3>. QED BY <1>7, <1>a, <1>b, <2>2, <3>1 DEF CheckSession
  <2>3. CASE c.step = "rechecking"
    <3>1. [c EXCEPT !.step = IF c.kind = "apply" THEN "writing" ELSE "previewed"] \in CallRecord
      BY <2>1, <2>3 DEF CallRecord, Previewing, Applying
    <3>. QED BY <1>7, <1>a, <1>b, <2>3, <3>1 DEF CheckSession
  <2>. QED BY <1>7, <2>2, <2>3 DEF CheckSession
<1>8. ASSUME NEW r \in Request, ReadForPreview(r)
      PROVE  TypeInv'
  <2>. DEFINE c == call[r]
  <2>1. c \in Previewing
    BY <1>8 DEF ReadForPreview, CallRecord, Idle, Done, Exporting, Applying
  <2>2. [step |-> "rechecking", kind |-> "preview", actor |-> c.actor, file |-> c.file,
         revision |-> Revision] \in CallRecord
    BY <1>0, <2>1 DEF CallRecord, Previewing
  <2>. QED BY <1>8, <1>a, <1>b, <2>2 DEF ReadForPreview
<1>9. ASSUME NEW r \in Request, ReadForApply(r)
      PROVE  TypeInv'
  <2>. DEFINE c == call[r]
  <2>1. c \in Applying
    BY <1>9 DEF ReadForApply, CallRecord, Idle, Done, Exporting, Previewing
  <2>2. [c EXCEPT !.step = "rechecking"] \in CallRecord
    BY <2>1 DEF CallRecord, Applying
  <2>. QED BY <1>9, <1>a, <1>b, <2>2 DEF ReadForApply
<1>10. ASSUME NEW r \in Request, Replace(r)
       PROVE  TypeInv'
  <2>1. call[r] \in Applying
    BY <1>10 DEF Replace, CallRecord, Idle, Done, Exporting, Previewing
  <2>2. call[r].file \in File
    BY <2>1 DEF Applying
  <2>3. CASE Becomes(r, Done)
    BY <1>a, <1>b, <2>3
  <2>4. CASE saved' = Append(saved, call[r].file) /\ call' = [call EXCEPT ![r] = Done]
             /\ UNCHANGED <<deleted, ended, quota, now, closed>>
    BY <1>a, <2>2, <2>4 DEF quota
  <2>. QED BY <1>10, <2>3, <2>4 DEF Replace
<1>11. CASE Others
  <2>1. CASE Edit
    BY <2>1 DEF Edit, quota
  <2>2. CASE Delete
    BY <2>2 DEF Delete, quota
  <2>3. ASSUME NEW a \in Importer, EndSession(a)
        PROVE  TypeInv'
    BY <2>3 DEF EndSession, quota, document
  <2>4. CASE Tick
    BY <2>4 DEF Tick, quota, document
  <2>5. CASE Prune
    BY <2>5 DEF Prune, document
  <2>6. CASE Shutdown
    BY <2>6 DEF Shutdown, document
  <2>. QED BY <1>11, <2>1, <2>2, <2>3, <2>4, <2>5, <2>6 DEF Others
<1>12. CASE UNCHANGED vars
  BY <1>12 DEF vars
<1>. QED BY <1>1, <1>2, <1>3, <1>4, <1>5, <1>6, <1>7, <1>8, <1>9, <1>10, <1>11, <1>12
         DEF Next, Export, Xmi

\* The types hold at the start.
LEMMA TypedInit ==
  ASSUME Init
  PROVE  TypeInv
<1>1. Idle \in CallRecord
  BY DEF CallRecord
<1>2. <<"created">> \in Seq({"created", "edited"} \cup File)
  OBVIOUS
<1>. QED BY <1>1, <1>2 DEF Init, TypeInv

(***************************************************************************)
(* The slots                                                               *)
(***************************************************************************)

Holders == {r \in Request : Holding(r)}

\* Finitely many requests hold a slot.
LEMMA HoldersFinite == IsFiniteSet(Holders)
<1>1. IsFiniteSet(Request)
  BY FS_Interval, LimitsAssumption DEF Request
<1>. QED BY <1>1, FS_Subset DEF Holders

\* A step that neither takes nor gives back a slot.
LEMMA SlotsKept ==
  ASSUME SlotsExact, UNCHANGED <<active, closed>>,
         \A q \in Request : Holding(q)' = Holding(q)
  PROVE  SlotsExact'
<1>1. Holders' = Holders
  BY DEF Holders
<1>. QED BY <1>1 DEF SlotsExact, Holders

\* An export that ends gives back its own slot, and after a shutdown none.
LEMMA SlotGivenBack ==
  ASSUME TypeInv, SlotsExact, NEW r \in Request, NEW b \in BOOLEAN, Holding(r), EndExport(r, b)
  PROVE  SlotsExact'
<1>. DEFINE n == Cardinality(Holders)
<1>1. Holders' = Holders \ {r}
  BY DEF Holders, Holding, EndExport, Done, TypeInv
<1>2. r \in Holders
  BY DEF Holders
<1>3. Cardinality(Holders') = n - 1 /\ n \in Nat /\ n > 0
  <2>1. n \in Nat
    BY HoldersFinite, FS_CardinalityType
  <2>2. n # 0
    BY <1>2, HoldersFinite, FS_EmptySet
  <2>3. Cardinality(Holders \ {r}) = n - 1
    BY <1>2, HoldersFinite, FS_RemoveElement
  <2>. QED BY <1>1, <2>1, <2>2, <2>3
<1>4. active' = Max({0, active - 1}) /\ closed' = closed
  BY DEF EndExport, Freed
<1>5. active = IF closed THEN 0 ELSE n
  BY DEF SlotsExact, Holders
<1>6. active' = IF active - 1 > 0 THEN active - 1 ELSE 0
  BY <1>4, MaxWithZero DEF TypeInv
<1>7. active' = IF closed' THEN 0 ELSE Cardinality(Holders')
  BY <1>3, <1>4, <1>5, <1>6
<1>. QED BY <1>7 DEF SlotsExact, Holders

\* A request that takes no slot goes on without one.
LEMMA SlotsAside ==
  ASSUME TypeInv, SlotsExact, NEW r \in Request, NEW c,
         ~Holding(r), c.step \notin {"granted", "archiving"},
         call' = [call EXCEPT ![r] = c], active' = active, closed' = closed
  PROVE  SlotsExact'
<1>1. \A q \in Request : Holding(q)' = Holding(q)
  BY DEF Holding, TypeInv
<1>. QED BY <1>1, SlotsKept

\* The same of a request that awaits something.
LEMMA SlotsWhileBecoming ==
  ASSUME TypeInv, SlotsExact, NEW r \in Request, NEW c, ~Holding(r),
         c.step \notin {"granted", "archiving"}, Becomes(r, c)
  PROVE  SlotsExact'
BY SlotsAside DEF Becomes, quota

\* The same of a request that ends.
LEMMA SlotsWhileDone ==
  ASSUME TypeInv, SlotsExact, NEW r \in Request, ~Holding(r),
         call' = [call EXCEPT ![r] = Done], active' = active, closed' = closed
  PROVE  SlotsExact'
<1>1. Done.step \notin {"granted", "archiving"}
  BY DEF Done
<1>. QED BY <1>1, SlotsAside

\* Every step keeps the slots exact.
LEMMA SlotsStep ==
  ASSUME TypeInv, SlotsExact, [Next]_vars
  PROVE  SlotsExact'
<1>1. ASSUME NEW r \in Request, NEW a \in Exporter, NEW e \in Expected, StartExport(r, a, e)
      PROVE  SlotsExact'
  <2>1. ~Holding(r) /\ ~closed /\ closed' = closed
    BY <1>1 DEF StartExport, Arrives, Holding, Idle
  <2>2. CASE Exceeded(a)
    <3>1. call' = [call EXCEPT ![r] = Done] /\ active' = active
      BY <1>1, <2>2 DEF StartExport
    <3>. QED BY <2>1, <3>1, SlotsWhileDone
  <2>3. CASE ~Exceeded(a)
    <3>1. /\ call' = [call EXCEPT ![r] = [step |-> "granted", expected |-> e]]
          /\ active' = active + 1
      BY <1>1, <2>3 DEF StartExport
    <3>2. Holders' = Holders \cup {r}
      BY <3>1 DEF Holders, Holding, TypeInv
    <3>3. Cardinality(Holders') = Cardinality(Holders) + 1
      BY <2>1, <3>2, HoldersFinite, FS_AddElement DEF Holders
    <3>. QED BY <2>1, <3>1, <3>3 DEF SlotsExact, Holders
  <2>. QED BY <2>2, <2>3
<1>2. ASSUME NEW r \in Request, DeriveProject(r)
      PROVE  SlotsExact'
  <2>1. Holding(r)
    BY <1>2 DEF DeriveProject, Holding
  <2>2. CASE EndExport(r, FALSE)
    BY <2>1, <2>2, SlotGivenBack
  <2>3. CASE call' = [call EXCEPT ![r] = [step |-> "archiving", timedOut |-> FALSE]]
             /\ UNCHANGED <<active, closed>>
    <3>1. \A q \in Request : Holding(q)' = Holding(q)
      BY <2>1, <2>3 DEF Holding, TypeInv
    <3>. QED BY <2>3, <3>1, SlotsKept
  <2>. QED BY <1>2, <2>2, <2>3 DEF DeriveProject, quota
<1>3. ASSUME NEW r \in Request, ArchiveTimeout(r)
      PROVE  SlotsExact'
  <2>1. \A q \in Request : Holding(q)' = Holding(q)
    <3>1. call[r] \in [step : {"archiving"}, timedOut : BOOLEAN]
      BY <1>3 DEF ArchiveTimeout, TypeInv, CallRecord, Idle, Done, Exporting, Previewing, Applying
    <3>2. [call[r] EXCEPT !.timedOut = TRUE].step = "archiving"
      BY <3>1
    <3>. QED BY <1>3, <3>1, <3>2 DEF ArchiveTimeout, Holding, TypeInv
  <2>. QED BY <1>3, <2>1, SlotsKept DEF ArchiveTimeout, quota
<1>4. ASSUME NEW r \in Request, ArchiveSettles(r)
      PROVE  SlotsExact'
  BY <1>4, SlotGivenBack DEF ArchiveSettles, Holding
<1>5. ASSUME NEW r \in Request, NEW a \in Importer, NEW f \in File, StartPreview(r, a, f)
      PROVE  SlotsExact'
  <2>. DEFINE c == [step |-> "checking", kind |-> "preview", actor |-> a, file |-> f]
  <2>1. ~Holding(r) /\ Becomes(r, c)
    BY <1>5 DEF StartPreview, Arrives, Holding, Idle
  <2>2. c.step \notin {"granted", "archiving"}
    OBVIOUS
  <2>. HIDE DEF c
  <2>. QED BY <2>1, <2>2, SlotsWhileBecoming
<1>6. ASSUME NEW r \in Request, NEW a \in Importer, NEW f \in File, NEW k \in BOOLEAN,
             NEW p \in Previews(a), StartApply(r, a, f, p, k)
      PROVE  SlotsExact'
  <2>. DEFINE c == [step |-> "checking", kind |-> "apply", actor |-> a, file |-> f,
                    expected |-> p.revision, hash |-> p.hash, acknowledged |-> k]
  <2>1. ~Holding(r) /\ Becomes(r, c)
    BY <1>6 DEF StartApply, Arrives, Holding, Idle
  <2>2. c.step \notin {"granted", "archiving"}
    OBVIOUS
  <2>. HIDE DEF c
  <2>. QED BY <2>1, <2>2, SlotsWhileBecoming
<1>7. ASSUME NEW r \in Request, CheckSession(r)
      PROVE  SlotsExact'
  <2>1. ~Holding(r)
    BY <1>7 DEF CheckSession, Holding
  <2>2. call[r] \in Previewing \cup Applying
    BY <1>7 DEF CheckSession, TypeInv, CallRecord, Idle, Done, Exporting
  <2>3. CASE Becomes(r, Done)
    BY <2>1, <2>3, SlotsWhileDone DEF Becomes, quota
  <2>4. CASE Becomes(r, [call[r] EXCEPT !.step = "reading"])
    <3>1. [call[r] EXCEPT !.step = "reading"].step = "reading"
      BY <2>2 DEF Previewing, Applying
    <3>. QED BY <2>1, <2>4, <3>1, SlotsWhileBecoming
  <2>5. ASSUME NEW step \in {"writing", "previewed"}, Becomes(r, [call[r] EXCEPT !.step = step])
        PROVE  SlotsExact'
    <3>1. [call[r] EXCEPT !.step = step].step = step
      BY <2>2 DEF Previewing, Applying
    <3>. QED BY <2>1, <2>5, <3>1, SlotsWhileBecoming
  <2>. QED BY <1>7, <2>3, <2>4, <2>5 DEF CheckSession
<1>8. ASSUME NEW r \in Request, ReadForPreview(r)
      PROVE  SlotsExact'
  <2>. DEFINE c == [step |-> "rechecking", kind |-> "preview", actor |-> call[r].actor,
                    file |-> call[r].file, revision |-> Revision]
  <2>1. ~Holding(r) /\ (Becomes(r, Done) \/ Becomes(r, c))
    BY <1>8 DEF ReadForPreview, Holding
  <2>2. c.step \notin {"granted", "archiving"} /\ Done.step \notin {"granted", "archiving"}
    BY DEF Done
  <2>. HIDE DEF c
  <2>. QED BY <2>1, <2>2, SlotsWhileBecoming
<1>9. ASSUME NEW r \in Request, ReadForApply(r)
      PROVE  SlotsExact'
  <2>1. ~Holding(r)
    BY <1>9 DEF ReadForApply, Holding
  <2>2. call[r] \in Applying
    BY <1>9 DEF ReadForApply, TypeInv, CallRecord, Idle, Done, Exporting, Previewing
  <2>3. [call[r] EXCEPT !.step = "rechecking"].step = "rechecking"
    BY <2>2 DEF Applying
  <2>4. Done.step = "done"
    BY DEF Done
  <2>. QED BY <1>9, <2>1, <2>3, <2>4, SlotsWhileBecoming DEF ReadForApply
<1>10. ASSUME NEW r \in Request, Replace(r)
       PROVE  SlotsExact'
  BY <1>10, SlotsWhileDone DEF Replace, Becomes, quota, Holding
<1>11. CASE Shutdown
  BY <1>11 DEF Shutdown, SlotsExact
<1>12. ASSUME UNCHANGED <<call, active, closed>>
       PROVE  SlotsExact'
  BY <1>12, SlotsKept DEF Holding
<1>13. CASE Others
  <2>1. Others => Shutdown \/ UNCHANGED <<call, active, closed>>
    BY DEF Others, Edit, Delete, EndSession, Tick, Prune, document, quota
  <2>. QED BY <1>11, <1>12, <1>13, <2>1
<1>. QED BY <1>1, <1>2, <1>3, <1>4, <1>5, <1>6, <1>7, <1>8, <1>9, <1>10, <1>12, <1>13
         DEF Next, Export, Xmi, vars

\* The slots of exports are counted exactly: each export gives back the one
\* it took, however it ends, and none that a shutdown has cleared.
THEOREM SlotsAreExact == Spec => []SlotsExact
<1>1. Init => TypeInv /\ SlotsExact
  <2>1. Init => Holders = {}
    BY DEF Init, Holders, Holding, Idle
  <2>. QED BY <2>1, TypedInit, FS_EmptySet DEF Init, SlotsExact, Holders
<1>2. TypeInv /\ SlotsExact /\ [Next]_vars => (TypeInv /\ SlotsExact)'
  BY Typed, SlotsStep
<1>. QED BY <1>1, <1>2, PTL DEF Spec

(***************************************************************************)
(* Imports                                                                 *)
(***************************************************************************)

\* What an application rests on: a preview has told its actor the revision
\* and the hash, and once past the checks it brings that file, acknowledged.
Told(c) == [revision |-> c.expected, hash |-> c.hash] \in Previews(c.actor)
Checked(c) == c.step \in {"rechecking", "writing"} => SameHash(c) /\ Acknowledged(c)
Sound(c) == c \in Applying => Told(c) /\ Checked(c)

ApplyingInv == \A r \in Request : Sound(call[r])

\* A request that changes becomes a sound one, and no preview is forgotten.
Moves ==
  \/ call' = call
  \/ \E r \in Request : \E c :
       call' = [call EXCEPT ![r] = c] /\ call[r].step # "previewed" /\ Sound(c)

\* Only the records of applications need to be told of.
LEMMA OthersSound ==
  ASSUME NEW c, c \in {Idle, Done} \cup Exporting \cup Previewing
  PROVE  Sound(c)
BY DEF Sound, Applying, Idle, Done, Exporting, Previewing

\* Every step is such a move.
LEMMA StepsMove ==
  ASSUME TypeInv, ApplyingInv, [Next]_vars
  PROVE  Moves
<1>0. Revision \in Nat /\ Expected \subseteq Nat
  BY Revisions
<1>d. Sound(Done)
  BY OthersSound
<1>1. ASSUME NEW r \in Request, NEW a \in Exporter, NEW e \in Expected, StartExport(r, a, e)
      PROVE  Moves
  <2>1. Sound([step |-> "granted", expected |-> e])
    BY <1>0, OthersSound DEF Exporting
  <2>2. call[r].step # "previewed"
    BY <1>1 DEF StartExport, Arrives, Idle
  <2>. QED BY <1>1, <1>d, <2>1, <2>2 DEF StartExport, Moves
<1>2. ASSUME NEW r \in Request, DeriveProject(r)
      PROVE  Moves
  <2>1. Sound([step |-> "archiving", timedOut |-> FALSE])
    BY OthersSound DEF Exporting
  <2>. QED BY <1>2, <1>d, <2>1 DEF DeriveProject, EndExport, Moves
<1>3. ASSUME NEW r \in Request, ArchiveTimeout(r)
      PROVE  Moves
  <2>1. call[r] \in [step : {"archiving"}, timedOut : BOOLEAN]
    BY <1>3 DEF ArchiveTimeout, TypeInv, CallRecord, Idle, Done, Exporting, Previewing, Applying
  <2>. DEFINE c == [call[r] EXCEPT !.timedOut = TRUE]
  <2>2. c \in Exporting
    BY <2>1 DEF Exporting
  <2>3. call' = [call EXCEPT ![r] = c]
    BY <1>3 DEF ArchiveTimeout
  <2>. HIDE DEF c
  <2>4. Sound(c)
    BY <2>2, OthersSound
  <2>. QED BY <1>3, <2>3, <2>4 DEF ArchiveTimeout, Moves
<1>4. ASSUME NEW r \in Request, ArchiveSettles(r)
      PROVE  Moves
  BY <1>4, <1>d DEF ArchiveSettles, EndExport, Moves
<1>5. ASSUME NEW r \in Request, NEW a \in Importer, NEW f \in File, StartPreview(r, a, f)
      PROVE  Moves
  <2>1. Sound([step |-> "checking", kind |-> "preview", actor |-> a, file |-> f])
    BY OthersSound DEF Previewing
  <2>2. call[r].step # "previewed"
    BY <1>5 DEF StartPreview, Arrives, Idle
  <2>. QED BY <1>5, <2>1, <2>2 DEF StartPreview, Becomes, Moves
<1>6. ASSUME NEW r \in Request, NEW a \in Importer, NEW f \in File, NEW k \in BOOLEAN,
             NEW p \in Previews(a), StartApply(r, a, f, p, k)
      PROVE  Moves
  <2>. DEFINE c == [step |-> "checking", kind |-> "apply", actor |-> a, file |-> f,
                    expected |-> p.revision, hash |-> p.hash, acknowledged |-> k]
  <2>1. p = [revision |-> p.revision, hash |-> p.hash]
    BY DEF Previews
  <2>2. Told(c)
    BY <2>1 DEF Told
  <2>3. Checked(c)
    BY DEF Checked
  <2>4. call[r].step # "previewed"
    BY <1>6 DEF StartApply, Arrives, Idle
  <2>5. call' = [call EXCEPT ![r] = c]
    BY <1>6 DEF StartApply, Becomes
  <2>. HIDE DEF c
  <2>. QED BY <2>2, <2>3, <2>4, <2>5 DEF Sound, Moves
<1>7. ASSUME NEW r \in Request, CheckSession(r)
      PROVE  Moves
  <2>1. call[r] \in Previewing \cup Applying
    BY <1>7 DEF CheckSession, TypeInv, CallRecord, Idle, Done, Exporting
  <2>2. call[r].step # "previewed"
    BY <1>7 DEF CheckSession
  <2>3. ASSUME NEW step \in {"reading", "writing", "previewed"},
               step = "reading" <=> call[r].step = "checking",
               step = "writing" => call[r].kind = "apply",
               step = "previewed" => call[r].kind # "apply",
               call[r].step \in {"checking", "rechecking"},
               Becomes(r, [call[r] EXCEPT !.step = step])
        PROVE  Moves
    <3>. DEFINE c == [call[r] EXCEPT !.step = step]
    <3>1. call' = [call EXCEPT ![r] = c]
      BY <2>3 DEF Becomes
    <3>2. CASE call[r] \in Previewing
      <4>1. c \in Previewing
        BY <2>3, <3>2 DEF Previewing
      <4>. HIDE DEF c
      <4>. QED BY <2>2, <3>1, <4>1, OthersSound DEF Moves
    <3>3. CASE call[r] \in Applying
      <4>1. /\ c.step = step
            /\ c.actor = call[r].actor /\ c.expected = call[r].expected /\ c.hash = call[r].hash
            /\ c.file = call[r].file /\ c.acknowledged = call[r].acknowledged
        BY <3>3 DEF Applying
      <4>2. Told(call[r]) /\ Checked(call[r])
        BY <3>3 DEF ApplyingInv, Sound
      <4>3. step = "writing" => call[r].step = "rechecking"
        BY <2>3
      <4>. HIDE DEF c
      <4>4. Told(c)
        BY <4>1, <4>2 DEF Told
      <4>5. Checked(c)
        BY <2>3, <4>1, <4>2, <4>3 DEF Checked, SameHash, Acknowledged
      <4>. QED BY <2>2, <3>1, <4>4, <4>5 DEF Moves, Sound
    <3>. QED BY <2>1, <3>2, <3>3
  <2>. QED BY <1>7, <1>d, <2>2, <2>3 DEF CheckSession, Becomes, Moves
<1>8. ASSUME NEW r \in Request, ReadForPreview(r)
      PROVE  Moves
  <2>. DEFINE c == [step |-> "rechecking", kind |-> "preview", actor |-> call[r].actor,
                    file |-> call[r].file, revision |-> Revision]
  <2>1. call[r] \in Previewing
    BY <1>8 DEF ReadForPreview, TypeInv, CallRecord, Idle, Done, Exporting, Applying
  <2>2. c \in Previewing
    BY <1>0, <2>1 DEF Previewing
  <2>3. call' = [call EXCEPT ![r] = Done] \/ call' = [call EXCEPT ![r] = c]
    BY <1>8 DEF ReadForPreview, Becomes
  <2>. HIDE DEF c
  <2>4. Sound(c)
    BY <2>2, OthersSound
  <2>. QED BY <1>8, <1>d, <2>3, <2>4 DEF ReadForPreview, Moves
<1>9. ASSUME NEW r \in Request, ReadForApply(r)
      PROVE  Moves
  <2>. DEFINE c == [call[r] EXCEPT !.step = "rechecking"]
  <2>1. call[r] \in Applying
    BY <1>9 DEF ReadForApply, TypeInv, CallRecord, Idle, Done, Exporting, Previewing
  <2>2. /\ c.actor = call[r].actor /\ c.expected = call[r].expected /\ c.hash = call[r].hash
        /\ c.file = call[r].file /\ c.acknowledged = call[r].acknowledged
    BY <2>1 DEF Applying
  <2>3. CASE Becomes(r, Done)
    BY <1>9, <1>d, <2>3 DEF ReadForApply, Becomes, Moves
  <2>4. CASE SameHash(call[r]) /\ Acknowledged(call[r]) /\ Becomes(r, c)
    <3>1. call' = [call EXCEPT ![r] = c] /\ call[r].step # "previewed"
      BY <1>9, <2>4 DEF ReadForApply, Becomes
    <3>. HIDE DEF c
    <3>2. Told(c)
      BY <2>1, <2>2 DEF ApplyingInv, Sound, Told
    <3>3. Checked(c)
      BY <2>2, <2>4 DEF Checked, SameHash, Acknowledged
    <3>. QED BY <3>1, <3>2, <3>3 DEF Moves, Sound
  <2>. QED BY <1>9, <2>3, <2>4 DEF ReadForApply
<1>10. ASSUME NEW r \in Request, Replace(r)
       PROVE  Moves
  BY <1>10, <1>d DEF Replace, Becomes, Moves
<1>11. CASE Others
  BY <1>11 DEF Others, Edit, Delete, EndSession, Tick, Prune, Shutdown, document, quota, Moves
<1>. QED BY <1>1, <1>2, <1>3, <1>4, <1>5, <1>6, <1>7, <1>8, <1>9, <1>10, <1>11
         DEF Next, Export, Xmi, vars, Moves

\* A move forgets no preview, and so leaves every application sound.
LEMMA StaysSound ==
  ASSUME TypeInv, ApplyingInv, Moves
  PROVE  ApplyingInv'
<1>1. ASSUME NEW q \in Request, call[q].step = "previewed"
      PROVE  call'[q] = call[q]
  BY <1>1 DEF Moves, TypeInv
<1>2. \A a : Previews(a) \subseteq Previews(a)'
  BY <1>1 DEF Previews
<1>3. \A c : Sound(c) => Sound(c)'
  BY <1>2 DEF Sound, Told, Checked, SameHash, Acknowledged
<1>4. ASSUME NEW q \in Request
      PROVE  Sound(call'[q])
  BY <1>4 DEF Moves, ApplyingInv, TypeInv
<1>. QED BY <1>3, <1>4 DEF ApplyingInv

\* What a step from writing may do to the document.
LEMMA WritesWhatWasPreviewed ==
  ASSUME TypeInv, ApplyingInv, [Next]_vars
  PROVE  \A r \in Request :
           (call[r].step = "writing" /\ call'[r] # call[r] /\ saved' # saved) =>
             /\ \E p \in Previews(call[r].actor) :
                  p.revision = Revision /\ saved' = Append(saved, p.hash)
             /\ Last(saved') \in Lossy => call[r].acknowledged
             /\ call[r].actor \notin ended
<1>. SUFFICES ASSUME NEW r \in Request,
                     call[r].step = "writing", call'[r] # call[r], saved' # saved
              PROVE  /\ \E p \in Previews(call[r].actor) :
                          p.revision = Revision /\ saved' = Append(saved, p.hash)
                     /\ Last(saved') \in Lossy => call[r].acknowledged
                     /\ call[r].actor \notin ended
  OBVIOUS
<1>1. \E q \in Request : Replace(q)
  BY DEF Next, vars, Export, Xmi, Others, StartExport, DeriveProject, EndExport, ArchiveTimeout,
         ArchiveSettles, StartPreview, StartApply, CheckSession, ReadForPreview, ReadForApply,
         Becomes, Edit, Delete, EndSession, Tick, Prune, Shutdown, document, quota
<1>2. PICK q \in Request : Replace(q)
  BY <1>1
<1>3. q = r
  BY <1>2 DEF Replace, Becomes, document, TypeInv
<1>4. /\ saved' = Append(saved, call[r].file) /\ Revision = call[r].expected
      /\ call[r].actor \notin ended
  BY <1>2, <1>3 DEF Replace, Becomes, document
<1>5. call[r] \in Applying
  BY DEF TypeInv, CallRecord, Idle, Done, Exporting, Previewing
<1>6. Told(call[r]) /\ call[r].hash = call[r].file /\ Acknowledged(call[r])
  BY <1>5 DEF ApplyingInv, Sound, Checked, SameHash
<1>7. Last(saved') = call[r].file
  BY <1>4, <1>5 DEF Last, Applying, TypeInv
<1>. QED BY <1>4, <1>6, <1>7 DEF Told, Acknowledged

\* An import is written over the revision its actor previewed, with the file
\* that was previewed, acknowledged where it loses something, whatever comes
\* between the awaits of the preview, of the application and of others.
THEOREM ImportsApplyTheirPreview == Spec => AppliedAsPreviewed
<1>1. Init => TypeInv /\ ApplyingInv
  <2>1. Sound(Idle)
    BY OthersSound
  <2>. QED BY <2>1, TypedInit DEF Init, ApplyingInv
<1>2. TypeInv /\ ApplyingInv /\ [Next]_vars => (TypeInv /\ ApplyingInv)'
  BY Typed, StepsMove, StaysSound
<1>. DEFINE Step ==
       \A r \in Request :
         (call[r].step = "writing" /\ call'[r] # call[r] /\ saved' # saved) =>
           /\ \E p \in Previews(call[r].actor) :
                /\ p.revision = Revision
                /\ saved' = Append(saved, p.hash)
           /\ Last(saved') \in Lossy => call[r].acknowledged
           /\ call[r].actor \notin ended
<1>3. TypeInv /\ ApplyingInv /\ [Next]_vars => [Step]_vars
  BY WritesWhatWasPreviewed
<1>. QED BY <1>1, <1>2, <1>3, PTL DEF Spec, AppliedAsPreviewed

(***************************************************************************)
(* The window of the quota                                                 *)
(***************************************************************************)

\* What an actor was granted in the window that ends with a grant.
Span(a, g) == {h \in granted[a] : h[1] <= g[1] /\ g[1] - h[1] < Window}

\* The past is what was granted until now, and what of it lies in the window
\* that ends now is in the tables of the quota, until a shutdown empties them.
WindowInv ==
  /\ now \in Nat
  /\ stamps \in [Exporter -> SUBSET (Nat \X Request)]
  /\ granted \in [Exporter -> SUBSET (Nat \X Request)]
  /\ \A a \in Exporter : IsFiniteSet(stamps[a]) /\ IsFiniteSet(granted[a])
  /\ \A a \in Exporter : \A g \in granted[a] : g[1] <= now
  /\ ~closed => \A a \in Exporter : \A g \in granted[a] : now - g[1] < Window => g \in stamps[a]
  /\ WindowRespected

\* What is pruned is what the window has left behind.
LEMMA PrunedKeepsWindow ==
  ASSUME WindowInv
  PROVE  /\ Pruned \in [Exporter -> SUBSET (Nat \X Request)]
         /\ \A a \in Exporter : IsFiniteSet(Pruned[a])
         /\ ~closed => \A a \in Exporter : \A g \in granted[a] :
                         now - g[1] < Window => g \in Pruned[a]
<1>1. Window \in Nat
  BY LimitsAssumption
<1>2. Pruned \in [Exporter -> SUBSET (Nat \X Request)]
  BY DEF Pruned, WindowInv
<1>3. ASSUME NEW a \in Exporter
      PROVE  IsFiniteSet(Pruned[a])
  <2>1. Pruned[a] \in SUBSET stamps[a]
    BY DEF Pruned
  <2>. QED BY <2>1, FS_Subset DEF WindowInv
<1>4. ASSUME ~closed, NEW a \in Exporter, NEW g \in granted[a], now - g[1] < Window
      PROVE  g \in Pruned[a]
  <2>1. g \in stamps[a] /\ g[1] \in Nat /\ now \in Nat
    BY <1>4 DEF WindowInv
  <2>. QED BY <1>1, <1>4, <2>1 DEF Pruned, InWindow
<1>. QED BY <1>2, <1>3, <1>4

\* Steps that grant nothing.
LEMMA WindowAside ==
  ASSUME WindowInv, granted' = granted, now' \in Nat, now <= now',
         stamps' \in [Exporter -> SUBSET (Nat \X Request)],
         \A a \in Exporter : IsFiniteSet(stamps'[a]),
         ~closed' => ~closed /\ \A a \in Exporter : \A g \in granted[a] :
                       now - g[1] < Window => g \in stamps'[a]
  PROVE  WindowInv'
<1>1. Window \in Nat
  BY LimitsAssumption
<1>2. ASSUME NEW a \in Exporter, NEW g \in granted[a]
      PROVE  g[1] \in Nat /\ g[1] <= now
  BY DEF WindowInv
<1>3. \A a \in Exporter : \A g \in granted[a] : g[1] <= now'
  BY <1>2 DEF WindowInv
<1>4. \A a \in Exporter : \A g \in granted[a] : now' - g[1] < Window => now - g[1] < Window
  BY <1>1, <1>2 DEF WindowInv
<1>5. WindowRespected'
  BY DEF WindowInv, WindowRespected
<1>. QED BY <1>3, <1>4, <1>5 DEF WindowInv

\* A grant is one more of what the window holds, and the limit had room.
LEMMA GrantInWindow ==
  ASSUME WindowInv, NEW r \in Request, NEW a \in Exporter, NEW e, StartExport(r, a, e), ~Exceeded(a),
         ~closed,
         stamps' = [Pruned EXCEPT ![a] = @ \cup {<<now, r>>}],
         granted' = [granted EXCEPT ![a] = @ \cup {<<now, r>>}]
  PROVE  WindowInv'
<1>. DEFINE new == <<now, r>>
<1>1. Window \in Nat \ {0} /\ ActorLimit \in Nat /\ now \in Nat /\ new \in Nat \X Request
  BY LimitsAssumption DEF WindowInv
<1>2. now' = now /\ closed' = closed
  BY DEF StartExport
<1>3. /\ Pruned \in [Exporter -> SUBSET (Nat \X Request)]
      /\ \A b \in Exporter : IsFiniteSet(Pruned[b])
      /\ \A b \in Exporter : \A g \in granted[b] : now - g[1] < Window => g \in Pruned[b]
  BY PrunedKeepsWindow
<1>. HIDE DEF new
<1>4. /\ stamps' = [Pruned EXCEPT ![a] = @ \cup {new}]
      /\ granted' = [granted EXCEPT ![a] = @ \cup {new}]
      /\ new[1] = now
  BY DEF new
<1>5. /\ stamps' \in [Exporter -> SUBSET (Nat \X Request)]
      /\ granted' \in [Exporter -> SUBSET (Nat \X Request)]
  BY <1>1, <1>3, <1>4 DEF WindowInv
<1>6. /\ stamps'[a] = Pruned[a] \cup {new} /\ granted'[a] = granted[a] \cup {new}
      /\ \A b \in Exporter \ {a} : stamps'[b] = Pruned[b] /\ granted'[b] = granted[b]
  BY <1>3, <1>4 DEF WindowInv
<1>7. IsFiniteSet(Pruned[a] \cup {new}) /\ IsFiniteSet(granted[a] \cup {new})
  BY <1>3, FS_AddElement DEF WindowInv
<1>8. \A b \in Exporter : IsFiniteSet(stamps'[b]) /\ IsFiniteSet(granted'[b])
  BY <1>3, <1>6, <1>7 DEF WindowInv
<1>9. \A b \in Exporter : \A g \in granted'[b] : g[1] <= now'
  BY <1>1, <1>2, <1>4, <1>6 DEF WindowInv
<1>10. \A b \in Exporter : \A g \in granted'[b] : now' - g[1] < Window => g \in stamps'[b]
  BY <1>2, <1>3, <1>6
<1>11. Cardinality(Pruned[a] \cup {new}) \in Nat /\ Cardinality(Pruned[a] \cup {new}) <= ActorLimit
  <2>1. Cardinality(Pruned[a]) \in Nat
    BY <1>3, FS_CardinalityType
  <2>2. Cardinality(Pruned[a]) < ActorLimit
    BY <1>1, <2>1 DEF Exceeded
  <2>3. \/ Cardinality(Pruned[a] \cup {new}) = Cardinality(Pruned[a])
        \/ Cardinality(Pruned[a] \cup {new}) = Cardinality(Pruned[a]) + 1
    BY <1>3, FS_AddElement
  <2>. QED BY <1>1, <2>1, <2>2, <2>3
<1>12. ASSUME NEW b \in Exporter, NEW g \in granted'[b]
       PROVE  Cardinality({h \in granted'[b] : h[1] <= g[1] /\ g[1] - h[1] < Window}) <= ActorLimit
  <2>. DEFINE S == {h \in granted'[b] : h[1] <= g[1] /\ g[1] - h[1] < Window}
  <2>1. g[1] \in Nat /\ g[1] <= now
    BY <1>2, <1>5, <1>9
  <2>2. CASE b = a /\ g[1] = now
    <3>1. S \subseteq Pruned[a] \cup {new}
      <4>. SUFFICES ASSUME NEW h \in S PROVE h \in Pruned[a] \cup {new}
        OBVIOUS
      <4>1. h \in granted[a] \cup {new} /\ now - h[1] < Window
        BY <1>6, <2>2
      <4>. QED BY <1>3, <4>1
    <3>. HIDE DEF S
    <3>2. Cardinality(S) <= Cardinality(Pruned[a] \cup {new}) /\ IsFiniteSet(S)
      BY <1>7, <3>1, FS_Subset
    <3>3. Cardinality(S) \in Nat
      BY <3>2, FS_CardinalityType
    <3>4. Cardinality(S) <= ActorLimit
      BY <1>1, <1>11, <3>2, <3>3
    <3>. QED BY <3>4 DEF S
  <2>3. CASE b = a /\ g[1] # now
    <3>1. g \in granted[a] /\ g[1] < now
      BY <1>1, <1>4, <1>6, <2>1, <2>3
    <3>2. S = {h \in granted[a] : h[1] <= g[1] /\ g[1] - h[1] < Window}
      BY <1>1, <1>4, <1>6, <2>1, <2>3, <3>1
    <3>. QED BY <3>1, <3>2 DEF WindowInv, WindowRespected
  <2>4. CASE b # a
    <3>1. granted'[b] = granted[b]
      BY <1>6, <2>4
    <3>. QED BY <3>1 DEF WindowInv, WindowRespected
  <2>. QED BY <2>2, <2>3, <2>4
<1>13. WindowRespected'
  BY <1>12 DEF WindowRespected
<1>. QED BY <1>1, <1>2, <1>5, <1>8, <1>9, <1>10, <1>13 DEF WindowInv

\* Every step keeps the window.
LEMMA WindowSound ==
  ASSUME WindowInv, [Next]_vars
  PROVE  WindowInv'
<1>0. now <= now
  BY DEF WindowInv
<1>p. /\ Pruned \in [Exporter -> SUBSET (Nat \X Request)]
      /\ \A a \in Exporter : IsFiniteSet(Pruned[a])
      /\ ~closed => \A a \in Exporter : \A g \in granted[a] :
                      now - g[1] < Window => g \in Pruned[a]
  BY PrunedKeepsWindow
<1>1. ASSUME UNCHANGED <<stamps, granted, now, closed>>
      PROVE  WindowInv'
  BY <1>0, <1>1, WindowAside DEF WindowInv
<1>2. ASSUME stamps' = Pruned, UNCHANGED <<granted, now, closed>>
      PROVE  WindowInv'
  BY <1>0, <1>p, <1>2, WindowAside DEF WindowInv
<1>3. ASSUME NEW r \in Request, NEW a \in Exporter, NEW e \in Expected, StartExport(r, a, e)
      PROVE  WindowInv'
  <2>1. CASE stamps' = Pruned /\ granted' = granted
    BY <1>2, <1>3, <2>1 DEF StartExport
  <2>2. CASE ~Exceeded(a) /\ stamps' = [Pruned EXCEPT ![a] = @ \cup {<<now, r>>}]
             /\ granted' = [granted EXCEPT ![a] = @ \cup {<<now, r>>}]
    BY <1>3, <2>2, GrantInWindow DEF StartExport, Arrives
  <2>. QED BY <1>3, <2>1, <2>2 DEF StartExport
<1>4. ASSUME NEW r \in Request, DeriveProject(r) \/ ArchiveTimeout(r) \/ ArchiveSettles(r)
      PROVE  WindowInv'
  BY <1>1, <1>4 DEF DeriveProject, ArchiveTimeout, ArchiveSettles, EndExport, quota
<1>5. ASSUME NEW r \in Request, Xmi(r)
      PROVE  WindowInv'
  BY <1>1, <1>5 DEF Xmi, StartPreview, StartApply, CheckSession, ReadForPreview, ReadForApply,
                    Replace, Becomes, quota
<1>6. CASE Others
  <2>1. CASE Edit \/ Delete \/ \E a \in Importer : EndSession(a)
    BY <1>1, <2>1 DEF Edit, Delete, EndSession, quota
  <2>2. CASE Tick
    <3>1. /\ UNCHANGED <<stamps, granted, closed>> /\ now' \in Nat /\ now <= now'
      BY <2>2 DEF Tick, quota, WindowInv
    <3>. QED BY <3>1, WindowAside DEF WindowInv
  <2>3. CASE Prune
    BY <1>2, <2>3 DEF Prune
  <2>4. CASE Shutdown
    <3>1. /\ UNCHANGED <<granted, now>> /\ closed' /\ stamps' = [a \in Exporter |-> {}]
      BY <2>4 DEF Shutdown
    <3>. QED BY <1>0, <3>1, WindowAside, FS_EmptySet DEF WindowInv
  <2>. QED BY <1>6, <2>1, <2>2, <2>3, <2>4 DEF Others
<1>7. CASE UNCHANGED vars
  BY <1>1, <1>7 DEF vars
<1>. QED BY <1>3, <1>4, <1>5, <1>6, <1>7 DEF Next, Export

\* No window holds more exports of an actor than the limit, whenever the tables
\* of the quota were pruned: what is pruned lies outside every window to come.
THEOREM WindowsAreRespected == Spec => []WindowRespected
<1>1. Init => WindowInv
  BY FS_EmptySet DEF Init, WindowInv, WindowRespected
<1>2. WindowInv /\ [Next]_vars => WindowInv'
  BY WindowSound
<1>3. WindowInv => WindowRespected
  BY DEF WindowInv
<1>. QED BY <1>1, <1>2, <1>3, PTL DEF Spec

=============================================================================
