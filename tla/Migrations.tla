------------------------------ MODULE Migrations ------------------------------
(***************************************************************************)
(* The schema migrations that every API server, worker and bootstrap run   *)
(* makes when it starts (WebStore.initialize) and every batch run begins   *)
(* (FinanceDatabase.create_tables): the identity of the sources first,     *)
(* then the five versions of the Web control plane.                        *)
(*                                                                         *)
(* On SQLite each of the two is one BEGIN IMMEDIATE transaction.  On MySQL *)
(* a named lock admits one process, and every ALTER TABLE commits what     *)
(* went before it and ends the transaction it stands in.  Processes may be *)
(* killed anywhere, and start again.                                       *)
(*                                                                         *)
(* `legacy` is a database as an earlier release left it, with the tables   *)
(* CREATE TABLE IF NOT EXISTS adds; that release is not running any more.  *)
(* Its jobs do not change: a worker of this release starts with a start.   *)
(***************************************************************************)
EXTENDS Naturals, Sequences, FiniteSets

CONSTANTS
  Starters,   \* processes that start
  NoStarter,
  Documents,
  Jobs,       \* ingestion jobs, numbers
  Sources,    \* sources, each of a period of its own
  Legacies    \* the databases there may be

NoJob == 0

ASSUME MigrationAssumption ==
  /\ NoStarter \notin Starters
  /\ Jobs \subseteq Nat \ {NoJob} /\ IsFiniteSet(Jobs)

VARIABLES
  backend,    \* "sqlite" or "mysql"
  legacy,     \* the database before the first start; its documents and jobs
  columns,    \* what the schema has
  recorded,   \* schema_migration: versions
  pointers,   \* document.active_ingestion_job_id
  rows,       \* sources that have a financial_source row
  digests,    \* those of them with a content_sha256, from which their key is built
  authority,  \* authority_status
  keys,       \* source_key of a source's facts
  lock,       \* holder of the named lock
  procs,      \* per process: place, version, what it read, what it has not committed
  identified, \* history: a process has finished the identity migration
  decided     \* history: the authority the commands gave a source

identity == <<rows, digests, authority, keys>>
database == <<columns, recorded, pointers, identity>>
vars == <<backend, legacy, database, lock, procs, identified, decided>>

-----------------------------------------------------------------------------
Versions == 1..5

\* What a version adds, in this order; and what the identity of sources needs.
Elements ==
  << <<"document", "job">>, <<"review_version", "document_id">>, <<"attempt">>,
     <<"page_count", "lease_token">>, <<"active_ingestion_job_id">> >>
IdentityElements == <<"content_sha256", "source_owner", "source_key">>

\* Of the tables of version 1 these are altered later; a job table that is created
\* today has the attempt of version 3.
Tables == {"document", "job"}
Created(element) == IF element = "job" THEN {"job", "attempt"} ELSE {element}

ElementsOf(sequence) == {sequence[i] : i \in DOMAIN sequence}
Columns == (UNION {ElementsOf(Elements[v]) : v \in Versions}) \cup ElementsOf(IdentityElements)

Authorities == {"CURRENT", "REMOVED"}
KeyKinds == {"none", "path", "content"}

Job == [document : Documents, status : {"OPEN", "ENDED"}, attempt : Nat \ {0}]

\* The schema, and the documents with the jobs that are open, failed or interrupted
\* (a job may name a document there is not); which sources have facts, which
\* have a row, with a digest, as the CURRENT one of their period; and which belong
\* to a document, whose row has the digest.  The columns of the identity came in
\* their order, and a release that kept rows of sources kept one for each.
IsLegacy(l) ==
  /\ l.columns \subseteq Columns
  /\ l.recorded \subseteq {v \in Versions : ElementsOf(Elements[v]) \subseteq l.columns}
  /\ l.documents \in [Documents -> {"ABSENT", "STORED", "PROCESSING", "FAILED"}]
  /\ DOMAIN l.jobs \subseteq Jobs /\ \A j \in DOMAIN l.jobs : l.jobs[j] \in Job
  /\ l.sources \subseteq Sources /\ l.rows \subseteq Sources /\ l.documented \subseteq Sources
  /\ l.digests \subseteq l.rows /\ l.current \subseteq l.rows
  /\ l.rows = {} \/ l.sources \subseteq l.rows
  /\ "source_key" \in l.columns => ElementsOf(IdentityElements) \subseteq l.columns
  /\ DOMAIN l.jobs # {} => "job" \in l.columns
  /\ "document" \notin l.columns =>
       l.documented = {} /\ \A d \in Documents : l.documents[d] = "ABSENT"

ASSUME LegacyAssumption == \A l \in Legacies : IsLegacy(l)

Read == [rows : SUBSET Sources, digests : SUBSET Sources, authority : [Sources -> Authorities]]

\* Where a process has not begun or has ended: it waited too long ("late"), or what
\* it did met an error ("refused").
Resting == {"idle", "late", "done", "refused"}
Places == Resting \cup {"locked", "altering", "writing", "migrating", "adding"}

\* What a process knows, and the versions it has inserted and not committed.
Proc ==
  [at : Places, version : 1..6, seen : SUBSET Columns, altered : BOOLEAN, read : Read,
   left : SUBSET Sources, keying : SUBSET Sources, inserted : SUBSET Versions]

NothingRead == [rows |-> {}, digests |-> {}, authority |-> [s \in Sources |-> "REMOVED"]]
IdleProc ==
  [at |-> "idle", version |-> 1, seen |-> {}, altered |-> FALSE, read |-> NothingRead,
   left |-> {}, keying |-> {}, inserted |-> {}]

\* build_source_key, or the key a path had
RowKey(s) == IF s \in digests THEN "content" ELSE "path"

AtWork(p) == procs[p].at \notin Resting

\* On MySQL the one process at work holds the lock.
MigrationTypeOK ==
  /\ backend \in {"sqlite", "mysql"} /\ legacy \in Legacies
  /\ columns \subseteq Columns /\ recorded \subseteq Versions
  /\ pointers \in [Documents -> Jobs \cup {NoJob}]
  /\ rows \subseteq Sources /\ digests \subseteq rows
  /\ authority \in [Sources -> Authorities] /\ keys \in [Sources -> KeyKinds]
  /\ lock \in Starters \cup {NoStarter} /\ procs \in [Starters -> Proc]
  /\ lock # NoStarter => AtWork(lock)
  /\ backend = "mysql" => \A p \in Starters : AtWork(p) => lock = p
  /\ identified \in BOOLEAN /\ decided \in [Sources -> Authorities]

Init ==
  /\ backend \in {"sqlite", "mysql"}
  /\ legacy \in Legacies
  /\ columns = legacy.columns /\ recorded = legacy.recorded
  /\ pointers = [d \in Documents |-> NoJob]
  /\ rows = legacy.rows /\ digests = legacy.digests
  /\ authority = [s \in Sources |-> IF s \in legacy.current THEN "CURRENT" ELSE "REMOVED"]
  /\ keys = [s \in Sources |->
               IF s \notin legacy.sources \/ "source_key" \notin columns THEN "none" ELSE RowKey(s)]
  /\ lock = NoStarter
  /\ procs = [p \in Starters |-> IdleProc]
  /\ identified = FALSE /\ decided = authority

-----------------------------------------------------------------------------
(* The identity of sources.                                                *)

\* c is the first of them that is missing.
NextMissing(c, sequence, seen) ==
  \E i \in DOMAIN sequence :
    /\ c = sequence[i] /\ c \notin seen
    /\ \A j \in 1..(i - 1) : sequence[j] \in seen

\* What there is to write: the rows read, or, if there are none, a row for every
\* source of a fact.
Targets(read) == IF read.rows = {} THEN legacy.sources ELSE read.rows

\* The statement that finds the sources of facts names their document.
Readable(read) == read.rows = {} /\ legacy.sources # {} => "document_id" \in columns

\* The digest is in the row, or its document has one.
Known(read, s) == s \in read.digests \cup legacy.documented

\* The row: a source without a digest is nobody's authority, and neither is one
\* that is found in facts alone.
WriteRows(read, S) ==
  /\ rows' = rows \cup S
  /\ digests' = digests \cup {s \in S : Known(read, s)}
  /\ authority' = [s \in Sources |->
       IF s \notin S THEN authority[s]
       ELSE IF s \in read.rows /\ Known(read, s) THEN read.authority[s] ELSE "REMOVED"]

\* Bug: facts that have the key the row had are left.
WriteKeysOfNone(read, S, known) ==
  keys' = [s \in Sources |->
    IF s \in S \cap legacy.sources /\ (read.rows = {} \/ keys[s] = "none")
      THEN IF s \in known THEN "content" ELSE "path"
      ELSE keys[s]]

\* Its facts: those without a key, or with the key the row had.
WriteKeys(read, S, known) ==
  keys' = [s \in Sources |->
    LET old == IF s \in read.digests THEN "content" ELSE "path"
    IN  IF s \in S \cap legacy.sources /\ (read.rows = {} \/ keys[s] \in {"none", old})
          THEN IF s \in known THEN "content" ELSE "path"
        ELSE keys[s]]

Database == [rows |-> rows, digests |-> digests, authority |-> authority]

-----------------------------------------------------------------------------
(* The versions of the control plane.                                      *)

JobsOf(d) == {j \in DOMAIN legacy.jobs : legacy.jobs[j].document = d}
OpenJobs(d) == {j \in JobsOf(d) : legacy.jobs[j].status = "OPEN"}

\* The ended jobs with the highest attempt.
Latest(d) ==
  {j \in JobsOf(d) : \A k \in JobsOf(d) : legacy.jobs[k].attempt <= legacy.jobs[j].attempt}

\* _migration_005 raises over jobs of an unknown document, over jobs it cannot choose
\* between, and over a document in work that has no job.
Ambiguous ==
  \E d \in Documents :
    \/ Cardinality(OpenJobs(d)) > 1
    \/ JobsOf(d) # {} /\ legacy.documents[d] = "ABSENT"
    \/ OpenJobs(d) # {} /\ legacy.documents[d] \notin {"PROCESSING", "FAILED"}
    \/ OpenJobs(d) = {} /\ legacy.documents[d] = "FAILED" /\ Cardinality(Latest(d)) > 1
    \/ legacy.documents[d] = "PROCESSING" /\ JobsOf(d) = {}

\* The attempt a document is given.
Selected(d) ==
  CASE OpenJobs(d) # {} -> CHOOSE j \in OpenJobs(d) : TRUE
    [] OpenJobs(d) = {} /\ legacy.documents[d] = "FAILED" /\ JobsOf(d) # {} ->
         CHOOSE j \in Latest(d) : TRUE
    [] OTHER -> NoJob

\* What the commit after the last version writes.
Adopted == [d \in Documents |-> IF Selected(d) = NoJob THEN pointers[d] ELSE Selected(d)]

-----------------------------------------------------------------------------
(* A start.                                                                *)

\* Bug: the lock outlives the connection.
ReleaseNot(p) == lock' = lock

Release(p) == lock' = IF lock = p THEN NoStarter ELSE lock

Goes(p, proc) == procs' = [procs EXCEPT ![p] = proc]

\* An error: the transaction is rolled back, the connection closed.
Refuse(p) ==
  /\ Goes(p, [IdleProc EXCEPT !.at = "refused"])
  /\ Release(p)
  /\ UNCHANGED database

\* Bug: the lock is not waited for.
LockUnlessHeld(p) ==
  /\ procs[p].at = "idle"
  /\ lock' = IF backend = "mysql" THEN p ELSE lock
  /\ Goes(p, [IdleProc EXCEPT !.at = "locked"])
  /\ UNCHANGED <<backend, legacy, database, identified, decided>>

\* schema_migration_lock, with the lock
Lock(p) ==
  /\ procs[p].at = "idle"
  /\ backend = "mysql" => lock = NoStarter
  /\ lock' = IF backend = "mysql" THEN p ELSE lock
  /\ Goes(p, [IdleProc EXCEPT !.at = "locked"])
  /\ UNCHANGED <<backend, legacy, database, identified, decided>>

\* An error: GET_LOCK has waited for the process that holds the lock as long as it
\* may, or BEGIN IMMEDIATE for any that writes.  What is committed stays.
LockTimesOut(p) ==
  /\ \/ backend = "mysql" /\ procs[p].at = "idle" /\ lock # NoStarter
     \/ backend = "sqlite" /\ procs[p].at \in {"locked", "migrating"}
  /\ Goes(p, [IdleProc EXCEPT !.at = "late"])
  /\ UNCHANGED <<backend, legacy, database, lock, identified, decided>>

\* SQLite: the columns and what they are filled with are one transaction.
IdentifyAtOnce(p) ==
  /\ procs[p].at = "locked" /\ backend = "sqlite"
  /\ IF Readable(Database)
       THEN /\ columns' = columns \cup ElementsOf(IdentityElements)
            /\ WriteRows(Database, Targets(Database))
            /\ WriteKeys(Database, Targets(Database), digests')
            /\ identified' = TRUE
            /\ Goes(p, [procs[p] EXCEPT !.at = "migrating"])
            /\ UNCHANGED <<recorded, pointers, lock>>
       ELSE Refuse(p) /\ UNCHANGED identified
  /\ UNCHANGED <<backend, legacy, decided>>

\* MySQL: the columns are read once, and what is missing is added one by one.
ReadColumns(p) ==
  /\ procs[p].at = "locked" /\ backend = "mysql"
  /\ Goes(p, [procs[p] EXCEPT !.at = "altering", !.seen = columns])
  /\ UNCHANGED <<backend, legacy, database, lock, identified, decided>>

\* A column that has come to be there is an error.
AddIdentityElement(p) ==
  /\ procs[p].at = "altering"
  /\ \E c \in ElementsOf(IdentityElements) :
       /\ NextMissing(c, IdentityElements, procs[p].seen)
       /\ IF c \in columns THEN Refuse(p)
          ELSE /\ columns' = columns \cup {c}
               /\ Goes(p, [procs[p] EXCEPT !.seen = @ \cup {c}, !.altered = TRUE])
               /\ UNCHANGED <<recorded, pointers, identity, lock>>
  /\ UNCHANGED <<backend, legacy, identified, decided>>

ReadSources(p) ==
  /\ procs[p].at = "altering"
  /\ ElementsOf(IdentityElements) \subseteq procs[p].seen
  /\ IF Readable(Database)
       THEN /\ Goes(p, [procs[p] EXCEPT !.at = "writing", !.read = Database,
                                        !.left = Targets(Database)])
            /\ UNCHANGED <<database, lock>>
       ELSE Refuse(p)
  /\ UNCHANGED <<backend, legacy, identified, decided>>

\* Without an ALTER the transaction is still open, and commits as one.
CommitIdentity(p) ==
  /\ procs[p].at = "writing" /\ ~procs[p].altered
  /\ WriteRows(procs[p].read, procs[p].left)
  /\ WriteKeys(procs[p].read, procs[p].left, digests')
  /\ identified' = TRUE
  /\ Goes(p, [procs[p] EXCEPT !.at = "migrating", !.left = {}])
  /\ UNCHANGED <<backend, legacy, columns, recorded, pointers, lock, decided>>

\* After one, every statement commits by itself.
WriteRow(p, s) ==
  /\ procs[p].at = "writing" /\ procs[p].altered
  /\ s \in procs[p].left /\ procs[p].keying = {}
  /\ WriteRows(procs[p].read, {s})
  /\ Goes(p, [procs[p] EXCEPT !.left = @ \ {s}, !.keying = {s}])
  /\ UNCHANGED <<backend, legacy, columns, recorded, pointers, keys, lock, identified, decided>>

WriteKey(p, s) ==
  /\ procs[p].at = "writing" /\ s \in procs[p].keying
  /\ WriteKeys(procs[p].read, {s}, digests)
  /\ Goes(p, [procs[p] EXCEPT !.keying = {}])
  /\ UNCHANGED <<backend, legacy, columns, recorded, pointers, rows, digests, authority,
                 lock, identified, decided>>

FinishIdentity(p) ==
  /\ procs[p].at = "writing" /\ procs[p].altered
  /\ procs[p].left = {} /\ procs[p].keying = {}
  /\ identified' = TRUE
  /\ Goes(p, [procs[p] EXCEPT !.at = "migrating"])
  /\ UNCHANGED <<backend, legacy, database, lock, decided>>

\* SQLite: all versions that are not recorded are one transaction.
MigrateAtOnce(p) ==
  /\ procs[p].at = "migrating" /\ backend = "sqlite"
  /\ IF 5 \notin recorded /\ Ambiguous THEN Refuse(p)
     ELSE /\ columns' = columns \cup UNION {ElementsOf(Elements[v]) : v \in Versions \ recorded}
          /\ recorded' = Versions
          /\ pointers' = IF 5 \in recorded THEN pointers ELSE Adopted
          /\ Goes(p, [procs[p] EXCEPT !.at = "done"])
          /\ UNCHANGED <<identity, lock>>
  /\ UNCHANGED <<backend, legacy, identified, decided>>

\* MySQL: _apply_pending_migrations sees what it has inserted itself.
CheckVersion(p) ==
  /\ procs[p].at = "migrating" /\ backend = "mysql" /\ procs[p].version \in Versions
  /\ IF procs[p].version \in recorded \cup procs[p].inserted
       THEN Goes(p, [procs[p] EXCEPT !.version = @ + 1])
       ELSE Goes(p, [procs[p] EXCEPT !.at = "adding", !.seen = columns])
  /\ UNCHANGED <<backend, legacy, database, lock, identified, decided>>

\* Bug: a version is inserted before its columns are there.
AddElementRecording(p) ==
  /\ procs[p].at = "adding"
  /\ \E c \in ElementsOf(Elements[procs[p].version]) :
       /\ NextMissing(c, Elements[procs[p].version], procs[p].seen)
       /\ columns' = columns \cup Created(c)
       /\ recorded' = recorded \cup procs[p].inserted \cup {procs[p].version}
       /\ Goes(p, [procs[p] EXCEPT !.seen = @ \cup {c}, !.inserted = {}])
       /\ UNCHANGED <<pointers, identity, lock>>
  /\ UNCHANGED <<backend, legacy, identified, decided>>

\* An ALTER TABLE commits the versions inserted before it.
AddElement(p) ==
  /\ procs[p].at = "adding"
  /\ \E c \in ElementsOf(Elements[procs[p].version]) :
       /\ NextMissing(c, Elements[procs[p].version], procs[p].seen)
       /\ IF c \in columns \ Tables THEN Refuse(p)
          ELSE /\ columns' = columns \cup Created(c)
               /\ recorded' = recorded \cup procs[p].inserted
               /\ Goes(p, [procs[p] EXCEPT !.seen = @ \cup {c}, !.inserted = {}])
               /\ UNCHANGED <<pointers, identity, lock>>
  /\ UNCHANGED <<backend, legacy, identified, decided>>

RecordVersion(p) ==
  /\ procs[p].at = "adding"
  /\ ElementsOf(Elements[procs[p].version]) \subseteq procs[p].seen
  /\ IF \/ procs[p].version \in recorded
        \/ procs[p].version = 5 /\ Ambiguous
       THEN Refuse(p)
       ELSE /\ Goes(p, [procs[p] EXCEPT !.at = "migrating", !.inserted = @ \cup {procs[p].version},
                                        !.version = @ + 1])
            /\ UNCHANGED <<database, lock>>
  /\ UNCHANGED <<backend, legacy, identified, decided>>

CommitVersions(p) ==
  /\ procs[p].at = "migrating" /\ procs[p].version = 6
  /\ recorded' = recorded \cup procs[p].inserted
  /\ pointers' = IF 5 \in procs[p].inserted THEN Adopted ELSE pointers
  /\ Goes(p, [IdleProc EXCEPT !.at = "done"])
  /\ Release(p)
  /\ UNCHANGED <<backend, legacy, columns, identity, identified, decided>>

\* The process ends or is killed, a batch run after the identity migration; it may
\* start again.
Stop(p) ==
  /\ procs[p].at # "idle"
  /\ Goes(p, IdleProc)
  /\ Release(p)
  /\ UNCHANGED <<backend, legacy, database, identified, decided>>

\* A batch run or a promotion of a process that has started.
Decide(s, a) ==
  /\ identified /\ s \in digests
  /\ authority' = [authority EXCEPT ![s] = a]
  /\ decided' = [decided EXCEPT ![s] = a]
  /\ UNCHANGED <<backend, legacy, columns, recorded, pointers, rows, digests, keys, lock,
                 procs, identified>>

Next ==
  \/ \E p \in Starters :
       \/ Lock(p) \/ LockTimesOut(p) \/ IdentifyAtOnce(p) \/ ReadColumns(p) \/ AddIdentityElement(p)
       \/ ReadSources(p) \/ CommitIdentity(p) \/ FinishIdentity(p)
       \/ \E s \in Sources : WriteRow(p, s) \/ WriteKey(p, s)
       \/ MigrateAtOnce(p) \/ CheckVersion(p) \/ AddElement(p) \/ RecordVersion(p)
       \/ CommitVersions(p) \/ Stop(p)
  \/ \E s \in Sources, a \in Authorities : Decide(s, a)

Spec == Init /\ [][Next]_vars

-----------------------------------------------------------------------------
(* Properties.                                                             *)

\* A version that is recorded is in the schema, wherever a start was killed and
\* whatever MySQL committed on its own; version 5 has given every document the
\* attempt the job store works with: its open job, or, when it failed, the last
\* one, which can be retried.
RecordedMeansDone ==
  /\ \A v \in recorded : ElementsOf(Elements[v]) \subseteq columns
  /\ 5 \in recorded \ legacy.recorded => \A d \in Documents :
       /\ \A j \in OpenJobs(d) : pointers[d] = j
       /\ pointers[d] # NoJob =>
            pointers[d] \in JobsOf(d) /\ legacy.documents[d] \in {"PROCESSING", "FAILED"}
       /\ legacy.documents[d] = "FAILED" /\ JobsOf(d) # {} => pointers[d] # NoJob

\* A start that gets the lock ends without an error, wherever earlier starts were
\* killed or gave up and whatever others do meanwhile, but for a database no start
\* can bring up to date.  One that waits too long for another ends with an error
\* ("late"), as the code has it.
StartsAreRepeatable ==
  \A p \in Starters : procs[p].at = "refused" => Ambiguous \/ ~Readable(legacy)

\* Once identified, every source of facts has its row and its facts the key of the
\* row; a source without a digest is never CURRENT again, and no start undoes what
\* a command decided.  The code keeps this on MySQL only in part: rows found in
\* facts are committed one by one, and a start writes back the authority it read
\* without a lock (README).
SourcesSurvive ==
  identified =>
    /\ \A s \in legacy.sources : backend = "sqlite" \/ legacy.rows # {} =>
         s \in rows /\ keys[s] = RowKey(s)
    /\ \A s \in rows \ digests : authority[s] = "REMOVED"
    /\ backend = "sqlite" => \A s \in digests : authority[s] = decided[s]
=============================================================================
