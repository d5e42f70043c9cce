------------------------- MODULE DocumentTransfers -------------------------
(***************************************************************************)
(* The requests that carry a whole document out of the system or into it:  *)
(* the Spring Boot export with its quota (spring-boot-export.service.ts,   *)
(* spring-boot-export-quota.service.ts, spring-boot-export.archive.ts) and *)
(* the preview and the application of XMI files                            *)
(* (xmi-interoperability.service.ts), while others edit the document.      *)
(*                                                                         *)
(* An action is what runs between two awaits.  The document is the         *)
(* sequence of its contents: the content of revision n is saved[n + 1].    *)
(* What an edit makes is told by its revision, what an import makes by the *)
(* file.  Every refusal is an answer alike; where PostgreSQL, a limit or a *)
(* model the generator or the importer refuses may end a request at any    *)
(* time, the refusals the code decides on the document are among those.    *)
(***************************************************************************)
EXTENDS Integers, Sequences, FiniteSets, SequencesExt, FiniteSetsExt

CONSTANTS
  MaxRequests,     \* bound: requests, numbered in the order they come
  Exporter,        \* the actors who export
  Importer,        \* the actors who import
  File,
  Lossy,           \* the files whose import raises a diagnostic
  Window,          \* actorWindowMs, in ticks
  ActorLimit,      \* exports of an actor in a window
  MaxConcurrent,   \* exports at a time
  MaxTracked,      \* actors with exports in the window
  MaxTime,         \* bound: ticks
  MaxRevision      \* bound: revisions

ASSUME LimitsAssumption ==
  /\ {Window, ActorLimit, MaxConcurrent, MaxTracked} \subseteq Nat \ {0}
  /\ {MaxRequests, MaxTime, MaxRevision} \subseteq Nat \ {0}
  /\ Lossy \subseteq File

VARIABLES
  saved,      \* the contents of the document, by revision
  deleted,    \* the document is gone
  ended,      \* the actors whose sessions have ended
  call,       \* the requests
  stamps,     \* actorRequests: the exports of an actor, each with its time
  active,     \* activeExports
  now,        \* Date.now()
  closed,     \* onApplicationShutdown has run
  granted     \* history: the <<time, request>> of every slot an actor was granted

quota == <<stamps, active, granted>>
document == <<saved, deleted>>
vars == <<saved, deleted, ended, call, stamps, active, now, closed, granted>>

Request == 1..MaxRequests
Revision == Len(saved) - 1
\* The revisions a client may ask for: the current one, or the one before.
Expected == {Revision, Max({0, Revision - 1})}

Idle == [step |-> "idle"]
Done == [step |-> "done"]
\* r is the next request to come.
Arrives(r) == ~closed /\ call[r] = Idle /\ \A q \in 1..(r - 1) : call[q] # Idle

Init ==
  /\ saved = <<"created">>
  /\ deleted = FALSE
  /\ ended = {}
  /\ call = [r \in Request |-> Idle]
  /\ stamps = [a \in Exporter |-> {}]
  /\ active = 0
  /\ now = 0
  /\ closed = FALSE
  /\ granted = [a \in Exporter |-> {}]

(***************************************************************************)
(* The quota of Spring Boot exports                                        *)
(***************************************************************************)

\* Mutant: a window one tick short.
InShortWindow(s) == s[1] > now - Window + 1
InWindow(s) == s[1] > now - Window
\* pruneExpiredActorRequests; an actor without requests has no entry.  Only the
\* length of an array of times counts: it is the set of what was granted then.
Pruned == [a \in Exporter |-> {s \in stamps[a] : InWindow(s)}]
Tracked == {a \in Exporter : Pruned[a] # {}}

\* acquire refuses.
Exceeded(a) ==
  \/ Cardinality(Pruned[a]) >= ActorLimit
  \/ active >= MaxConcurrent
  \/ a \notin Tracked /\ Cardinality(Tracked) >= MaxTracked

StartExport(r, a, expected) ==
  /\ Arrives(r)
  /\ \/ /\ Exceeded(a)
        /\ call' = [call EXCEPT ![r] = Done]
        /\ stamps' = Pruned
        /\ UNCHANGED <<active, granted>>
     \/ /\ ~Exceeded(a)
        /\ call' = [call EXCEPT ![r] = [step |-> "granted", expected |-> expected]]
        /\ stamps' = [Pruned EXCEPT ![a] = @ \cup {<<now, r>>}]
        /\ active' = active + 1
        /\ granted' = [granted EXCEPT ![a] = @ \cup {<<now, r>>}]
  /\ UNCHANGED <<document, ended, now, closed>>

\* Mutant: the slot is given back where the archive is returned.
FreedBySuccess(archived) == IF archived THEN Max({0, active - 1}) ELSE active
\* The slots after the finally of exportDocument.
Freed(archived) == Max({0, active - 1})

EndExport(r, archived) ==
  /\ call' = [call EXCEPT ![r] = Done]
  /\ active' = Freed(archived)
  /\ UNCHANGED <<document, ended, stamps, now, closed, granted>>

\* The answer to findFirst, and all that is derived of it without an await:
\* preflight, relational model, project, artifacts.
DeriveProject(r) ==
  /\ call[r].step = "granted"
  /\ \/ EndExport(r, FALSE)
     \/ /\ ~deleted /\ Revision = call[r].expected
        /\ call' = [call EXCEPT ![r] = [step |-> "archiving", timedOut |-> FALSE]]
        /\ UNCHANGED <<document, ended, quota, now, closed>>

\* The timer of the archive: archive.abort().
ArchiveTimeout(r) ==
  /\ call[r].step = "archiving" /\ ~call[r].timedOut
  /\ call' = [call EXCEPT ![r].timedOut = TRUE]
  /\ UNCHANGED <<document, ended, quota, now, closed>>

\* finalize() settles: with an error, or with the bytes in time.
ArchiveSettles(r) ==
  /\ call[r].step = "archiving"
  /\ EndExport(r, FALSE) \/ (~call[r].timedOut /\ EndExport(r, TRUE))

\* The cleanup timer.
Prune ==
  /\ ~closed /\ Pruned # stamps
  /\ stamps' = Pruned
  /\ UNCHANGED <<document, ended, call, active, now, closed, granted>>

Shutdown ==
  /\ ~closed
  /\ closed' = TRUE
  /\ stamps' = [a \in Exporter |-> {}]
  /\ active' = 0
  /\ UNCHANGED <<document, ended, call, now, granted>>

(***************************************************************************)
(* XMI                                                                     *)
(***************************************************************************)

Becomes(r, c) ==
  /\ call' = [call EXCEPT ![r] = c]
  /\ UNCHANGED <<document, ended, quota, now, closed>>

StartPreview(r, a, f) ==
  /\ Arrives(r)
  /\ Becomes(r, [step |-> "checking", kind |-> "preview", actor |-> a, file |-> f])

\* What previews have told the actor: a revision and the hash of a file.
Previews(a) ==
  {[revision |-> call[r].revision, hash |-> call[r].file] :
     r \in {q \in Request : call[q].step = "previewed" /\ call[q].actor = a}}

\* The file sent to be applied need not be the one previewed.
StartApply(r, a, f, p, acknowledged) ==
  /\ Arrives(r)
  /\ Becomes(r, [step |-> "checking", kind |-> "apply", actor |-> a, file |-> f,
                 expected |-> p.revision, hash |-> p.hash, acknowledged |-> acknowledged])

\* assertActiveSession, before the document is read and after.
CheckSession(r) ==
  LET c == call[r] IN
  \/ /\ c.step \in {"checking", "rechecking"} /\ c.actor \in ended
     /\ Becomes(r, Done)
  \/ /\ c.step = "checking" /\ c.actor \notin ended
     /\ Becomes(r, [c EXCEPT !.step = "reading"])
  \/ /\ c.step = "rechecking" /\ c.actor \notin ended
     /\ Becomes(r, [c EXCEPT !.step = IF c.kind = "apply" THEN "writing" ELSE "previewed"])

ReadForPreview(r) ==
  LET c == call[r] IN
  /\ c.step = "reading" /\ c.kind = "preview"
  /\ \/ Becomes(r, Done)
     \/ /\ ~deleted
        /\ Becomes(r, [step |-> "rechecking", kind |-> "preview", actor |-> c.actor,
                       file |-> c.file, revision |-> Revision])

\* Mutant: the hash is not compared.
AnyHash(c) == TRUE
SameHash(c) == c.hash = c.file
Acknowledged(c) == c.file \in Lossy => c.acknowledged

ReadForApply(r) ==
  LET c == call[r] IN
  /\ c.step = "reading" /\ c.kind = "apply"
  /\ \/ Becomes(r, Done)
     \/ /\ ~deleted /\ Revision = c.expected /\ SameHash(c) /\ Acknowledged(c)
        /\ Becomes(r, [c EXCEPT !.step = "rechecking"])

\* The transaction of DocumentsService.update: session, document, revision.
Replace(r) ==
  LET c == call[r] IN
  /\ c.step = "writing"
  /\ \/ Becomes(r, Done)
     \/ /\ c.actor \notin ended /\ ~deleted /\ Revision = c.expected
        /\ saved' = Append(saved, c.file)
        /\ call' = [call EXCEPT ![r] = Done]
        /\ UNCHANGED <<deleted, ended, quota, now, closed>>

(***************************************************************************)
(* The rest of the system, and time                                        *)
(***************************************************************************)

\* A command or a replacement by somebody else is committed.
Edit ==
  /\ ~deleted /\ Revision < MaxRevision
  /\ saved' = Append(saved, "edited")
  /\ UNCHANGED <<deleted, ended, call, quota, now, closed>>

Delete ==
  /\ ~deleted
  /\ deleted' = TRUE
  /\ UNCHANGED <<saved, ended, call, quota, now, closed>>

EndSession(a) ==
  /\ a \notin ended
  /\ ended' = ended \cup {a}
  /\ UNCHANGED <<document, call, quota, now, closed>>

Tick ==
  /\ now < MaxTime
  /\ now' = now + 1
  /\ UNCHANGED <<document, ended, call, quota, closed>>

Export(r) ==
  \/ \E a \in Exporter, e \in Expected : StartExport(r, a, e)
  \/ DeriveProject(r) \/ ArchiveTimeout(r) \/ ArchiveSettles(r)
Xmi(r) ==
  \/ \E a \in Importer, f \in File : StartPreview(r, a, f)
  \/ \E a \in Importer, f \in File, k \in BOOLEAN : \E p \in Previews(a) : StartApply(r, a, f, p, k)
  \/ CheckSession(r) \/ ReadForPreview(r) \/ ReadForApply(r) \/ Replace(r)
Others == Edit \/ Delete \/ (\E a \in Importer : EndSession(a)) \/ Tick \/ Prune \/ Shutdown

Next == (\E r \in Request : Export(r) \/ Xmi(r)) \/ Others
Spec == Init /\ [][Next]_vars

(***************************************************************************)
(* Properties                                                              *)
(***************************************************************************)

Holding(r) == call[r].step \in {"granted", "archiving"}

\* The slots taken are those of the exports that run, however the others
\* ended: refused, failed, timed out, with a document gone or moved on; a
\* shutdown clears the counter under them and never makes it negative.
SlotsExact ==
  active = IF closed THEN 0 ELSE Cardinality({r \in Request : Holding(r)})

\* No span of the length of the window holds more exports of an actor than
\* the limit, whenever the expired ones were pruned.
WindowRespected ==
  \A a \in Exporter : \A g \in granted[a] :
    Cardinality({h \in granted[a] : h[1] <= g[1] /\ g[1] - h[1] < Window}) <= ActorLimit

\* An import replaces the document that was previewed and no later one, with
\* the file that was previewed, and with what is lost acknowledged: edits
\* that come at any await between preview and commit are never overwritten.
AppliedAsPreviewed ==
  [][\A r \in Request :
       (call[r].step = "writing" /\ call'[r] # call[r] /\ saved' # saved) =>
         /\ \E p \in Previews(call[r].actor) :
              /\ p.revision = Revision
              /\ saved' = Append(saved, p.hash)
         /\ Last(saved') \in Lossy => call[r].acknowledged
         /\ call[r].actor \notin ended]_vars
=============================================================================
