--------------------------- MODULE MigrationsProofs ---------------------------
(***************************************************************************)
(* Proofs about Migrations.                                                *)
(*                                                                         *)
(* On MySQL the named lock leaves one process at work, so that what it has *)
(* seen of the schema stays true until it stops; on SQLite a process sees  *)
(* and writes in one step.  Every invariant of a process below speaks of   *)
(* the places it can only be in while it is alone.                         *)
(***************************************************************************)
EXTENDS Migrations, FiniteSetTheorems, WellFoundedInduction, TLAPS

USE DEF Resting

-----------------------------------------------------------------------------
(* Types and places.                                                       *)

\* What a process has only while it is at work, and what it never has on SQLite.
PlacesInv ==
  \A p \in Starters :
    /\ procs[p].at \notin {"migrating", "adding"} => procs[p].version = 1 /\ procs[p].inserted = {}
    /\ procs[p].at \in {"idle", "locked"} => ~procs[p].altered
    /\ procs[p].at = "adding" => procs[p].version \in Versions
    /\ backend = "sqlite" =>
         /\ procs[p].at \in Resting \cup {"locked", "migrating"}
         /\ procs[p].version = 1 /\ procs[p].inserted = {}

BaseInv ==
  /\ MigrationTypeOK
  /\ PlacesInv
  /\ backend = "sqlite" => lock = NoStarter

LEMMA LegacyTyped == \A l \in Legacies : IsLegacy(l)
  BY LegacyAssumption

LEMMA IdentityColumns == ElementsOf(IdentityElements) \subseteq Columns
  BY DEF Columns

LEMMA VersionColumns == \A v \in Versions : ElementsOf(Elements[v]) \subseteq Columns
<1>1. ASSUME NEW v \in Versions
      PROVE  ElementsOf(Elements[v]) \subseteq UNION {ElementsOf(Elements[w]) : w \in Versions}
  <2>1. ElementsOf(Elements[v]) \in {ElementsOf(Elements[w]) : w \in Versions}
    OBVIOUS
  <2>2. QED
    BY <2>1
<1>2. QED
  BY <1>1 DEF Columns

LEMMA CreatedColumns ==
  ASSUME NEW c \in Columns
  PROVE  c \in Created(c) /\ Created(c) \subseteq Columns
<1>1. Elements[3] = <<"attempt">> /\ 3 \in Versions
  BY DEF Elements, Versions
<1>2. "attempt" \in ElementsOf(Elements[3])
  BY <1>1 DEF ElementsOf
<1>3. "attempt" \in Columns
  BY <1>1, <1>2, VersionColumns
<1>4. QED
  BY <1>3 DEF Created

LEMMA NextIsMissing ==
  ASSUME NEW sequence, NEW seen, NEW c, NextMissing(c, sequence, seen)
  PROVE  c \in ElementsOf(sequence) /\ c \notin seen
  BY DEF NextMissing, ElementsOf

LEMMA IdleProcTyped == IdleProc \in Proc
  BY DEF IdleProc, Proc, NothingRead, Read, Places, Authorities

\* On MySQL nobody else is at work.
LEMMA OthersRest ==
  ASSUME BaseInv, backend = "mysql", NEW p \in Starters, AtWork(p)
  PROVE  lock = p /\ \A q \in Starters \ {p} : ~AtWork(q)
  BY DEF BaseInv, MigrationTypeOK

\* The process that moves is the only one whose record changes.
LEMMA Going ==
  ASSUME BaseInv, NEW p \in Starters, NEW proc, Goes(p, proc)
  PROVE  /\ procs'[p] = proc
         /\ \A q \in Starters \ {p} : procs'[q] = procs[q]
         /\ proc \in Proc => procs' \in [Starters -> Proc]
  BY DEF BaseInv, MigrationTypeOK, Goes

LEMMA InitBase == Init => BaseInv
<1> SUFFICES ASSUME Init
             PROVE  BaseInv
  OBVIOUS
<1>1. IsLegacy(legacy)
  BY LegacyTyped DEF Init
<1>2. /\ columns \subseteq Columns /\ recorded \subseteq Versions
      /\ rows \subseteq Sources /\ digests \subseteq rows
  BY <1>1 DEF Init, IsLegacy
<1>3. authority \in [Sources -> Authorities] /\ keys \in [Sources -> KeyKinds]
  BY DEF Init, Authorities, KeyKinds, RowKey
<1>4. procs \in [Starters -> Proc] /\ \A p \in Starters : procs[p] = IdleProc
  BY IdleProcTyped DEF Init
<1>5. MigrationTypeOK
  BY <1>2, <1>3, <1>4 DEF Init, MigrationTypeOK, AtWork, IdleProc
<1>6. PlacesInv
  BY <1>4 DEF PlacesInv, IdleProc
<1>7. QED
  BY <1>5, <1>6 DEF BaseInv, Init

\* A process that moves to a place, holding the lock on MySQL as long as it is at
\* work, keeps the types of everything but the data.
LEMMA MoveKeepsBase ==
  ASSUME BaseInv, NEW p \in Starters, NEW proc \in Proc, Goes(p, proc),
         UNCHANGED <<backend, legacy>>,
         \/ proc.at \in Resting /\ Release(p)
         \/ /\ proc.at \notin Resting
            /\ backend = "mysql" => lock' = p
            /\ backend = "sqlite" => lock' = lock
            /\ backend = "mysql" => AtWork(p) \/ lock = NoStarter
         \/ proc.at = "done" /\ backend = "sqlite" /\ lock' = lock,
         columns' \subseteq Columns, recorded' \subseteq Versions,
         pointers' \in [Documents -> Jobs \cup {NoJob}],
         rows' \subseteq Sources, digests' \subseteq rows',
         authority' \in [Sources -> Authorities], keys' \in [Sources -> KeyKinds],
         identified' \in BOOLEAN, decided' \in [Sources -> Authorities],
         proc.at \notin {"migrating", "adding"} => proc.version = 1 /\ proc.inserted = {},
         proc.at \in {"idle", "locked"} => ~proc.altered,
         proc.at = "adding" => proc.version \in Versions,
         backend = "sqlite" =>
           /\ proc.at \in Resting \cup {"locked", "migrating"}
           /\ proc.version = 1 /\ proc.inserted = {}
  PROVE  BaseInv'
<1>1. /\ procs'[p] = proc /\ \A q \in Starters \ {p} : procs'[q] = procs[q]
      /\ procs' \in [Starters -> Proc]
  BY Going
<1>2. PlacesInv'
  BY <1>1 DEF BaseInv, PlacesInv
<1>3. \A q \in Starters \ {p} : AtWork(q)' <=> AtWork(q)
  BY <1>1 DEF AtWork
<1>4. AtWork(p)' <=> proc.at \notin Resting
  BY <1>1 DEF AtWork
<1>5. /\ lock \in Starters \cup {NoStarter} /\ backend \in {"sqlite", "mysql"}
      /\ lock # NoStarter => AtWork(lock)
      /\ backend = "mysql" => \A q \in Starters : AtWork(q) => lock = q
      /\ NoStarter \notin Starters
      /\ backend = "sqlite" => lock = NoStarter
  BY MigrationAssumption DEF BaseInv, MigrationTypeOK
<1>6. backend = "sqlite" => lock' = NoStarter
  BY <1>5 DEF Release
<1>7. /\ lock' \in Starters \cup {NoStarter}
      /\ (lock # NoStarter => AtWork(lock))'
      /\ backend' = "mysql" => \A q \in Starters : AtWork(q)' => lock' = q
  <2>1. CASE backend = "sqlite"
    BY <1>5, <1>6, <2>1
  <2>2. CASE backend = "mysql" /\ proc.at \in Resting /\ Release(p)
    BY <1>3, <1>4, <1>5, <2>2 DEF Release
  <2>3. CASE /\ backend = "mysql" /\ proc.at \notin Resting
             /\ lock' = p /\ (AtWork(p) \/ lock = NoStarter)
    BY <1>3, <1>4, <1>5, <2>3
  <2>4. QED
    BY <1>5, <2>1, <2>2, <2>3
<1>8. MigrationTypeOK'
  BY <1>1, <1>7 DEF BaseInv, MigrationTypeOK
<1>9. QED
  BY <1>2, <1>6, <1>8 DEF BaseInv

LEMMA BaseFacts ==
  ASSUME BaseInv
  PROVE  /\ legacy \in Legacies /\ IsLegacy(legacy)
         /\ columns \subseteq Columns /\ recorded \subseteq Versions
         /\ pointers \in [Documents -> Jobs \cup {NoJob}]
         /\ rows \subseteq Sources /\ digests \subseteq rows
         /\ authority \in [Sources -> Authorities] /\ keys \in [Sources -> KeyKinds]
         /\ identified \in BOOLEAN /\ decided \in [Sources -> Authorities]
         /\ \A p \in Starters : procs[p] \in Proc
  BY LegacyTyped DEF BaseInv, MigrationTypeOK

LEMMA PlaceFacts ==
  ASSUME BaseInv, NEW p \in Starters
  PROVE  /\ procs[p] \in Proc
         /\ procs[p].at \notin {"migrating", "adding"} =>
              procs[p].version = 1 /\ procs[p].inserted = {}
         /\ procs[p].at = "adding" => procs[p].version \in Versions
         /\ backend = "sqlite" =>
              /\ procs[p].at \in Resting \cup {"locked", "migrating"}
              /\ procs[p].version = 1 /\ procs[p].inserted = {}
         /\ AtWork(p) /\ backend = "mysql" => lock = p
         /\ backend = "sqlite" => lock = NoStarter
         /\ backend \in {"sqlite", "mysql"}
  BY DEF BaseInv, PlacesInv, MigrationTypeOK

LEMMA RefusalKeepsBase ==
  ASSUME BaseInv, NEW p \in Starters, Refuse(p), UNCHANGED <<backend, legacy, decided>>,
         identified' \in BOOLEAN
  PROVE  BaseInv'
<1>1. [IdleProc EXCEPT !.at = "refused"] \in Proc
  BY IdleProcTyped DEF Proc, Places
<1>2. QED
  BY <1>1, BaseFacts, MoveKeepsBase DEF Refuse, database, identity, IdleProc

\* Steps that move a process and write nothing.
LEMMA MovesKeepBase ==
  ASSUME BaseInv, NEW p \in Starters,
         Lock(p) \/ LockTimesOut(p) \/ ReadColumns(p) \/ ReadSources(p) \/ CheckVersion(p)
         \/ RecordVersion(p) \/ Stop(p) \/ FinishIdentity(p)
  PROVE  BaseInv'
<1>1. /\ columns \subseteq Columns /\ recorded \subseteq Versions
      /\ pointers \in [Documents -> Jobs \cup {NoJob}]
      /\ rows \subseteq Sources /\ digests \subseteq rows
      /\ authority \in [Sources -> Authorities] /\ keys \in [Sources -> KeyKinds]
      /\ identified \in BOOLEAN /\ decided \in [Sources -> Authorities]
      /\ legacy.sources \subseteq Sources
  BY BaseFacts DEF IsLegacy
<1>2. /\ procs[p] \in Proc
      /\ procs[p].at \notin {"migrating", "adding"} => procs[p].version = 1 /\ procs[p].inserted = {}
      /\ procs[p].at = "adding" => procs[p].version \in Versions
      /\ backend = "sqlite" =>
           /\ procs[p].at \in Resting \cup {"locked", "migrating"}
           /\ procs[p].version = 1 /\ procs[p].inserted = {}
      /\ AtWork(p) /\ backend = "mysql" => lock = p
      /\ backend = "sqlite" => lock = NoStarter
      /\ backend \in {"sqlite", "mysql"}
  BY PlaceFacts
<1>3. CASE Lock(p)
  <2>1. /\ Goes(p, [IdleProc EXCEPT !.at = "locked"])
        /\ [IdleProc EXCEPT !.at = "locked"] \in Proc
    BY <1>3, IdleProcTyped DEF Lock, Proc, Places
  <2>2. QED
    BY <1>1, <1>2, <1>3, <2>1, MoveKeepsBase DEF Lock, database, identity, IdleProc
<1>4. CASE ReadColumns(p)
  <2>1. [procs[p] EXCEPT !.at = "altering", !.seen = columns] \in Proc
    BY <1>1, <1>2 DEF Proc, Places
  <2>2. procs[p].at = "locked" /\ AtWork(p)
    BY <1>4 DEF ReadColumns, AtWork
  <2>3. QED
    BY <1>1, <1>2, <1>4, <2>1, <2>2, MoveKeepsBase DEF ReadColumns, database, identity, Proc
<1>5. CASE Stop(p)
  BY <1>1, <1>5, IdleProcTyped, MoveKeepsBase DEF Stop, database, identity, IdleProc
<1>6. CASE ReadSources(p)
  <2>1. procs[p].at = "altering" /\ AtWork(p)
    BY <1>6 DEF ReadSources, AtWork
  <2>2. CASE Refuse(p)
    BY <1>1, <1>6, <2>2, RefusalKeepsBase DEF ReadSources
  <2>3. CASE /\ Goes(p, [procs[p] EXCEPT !.at = "writing", !.read = Database,
                                         !.left = Targets(Database)])
             /\ UNCHANGED <<database, lock>>
    <3>1. Database \in Read /\ Targets(Database) \subseteq Sources
      BY <1>1 DEF Database, Read, Targets
    <3>2. [procs[p] EXCEPT !.at = "writing", !.read = Database, !.left = Targets(Database)] \in Proc
      BY <1>2, <3>1 DEF Proc, Places
    <3>3. QED
      BY <1>1, <1>2, <1>6, <2>1, <2>3, <3>2, MoveKeepsBase DEF ReadSources, database, identity, Proc
  <2>4. QED
    BY <1>6, <2>2, <2>3 DEF ReadSources
<1>7. CASE CheckVersion(p)
  <2>1. /\ procs[p].at = "migrating" /\ AtWork(p) /\ procs[p].version \in Versions
        /\ backend = "mysql"
    BY <1>7 DEF CheckVersion, AtWork
  <2>2. /\ [procs[p] EXCEPT !.version = @ + 1] \in Proc
        /\ [procs[p] EXCEPT !.at = "adding", !.seen = columns] \in Proc
    <3>1. procs[p].version + 1 \in 1..6
      BY <2>1 DEF Versions
    <3>2. [procs[p] EXCEPT !.version = procs[p].version + 1] \in Proc
      BY <1>2, <3>1 DEF Proc
    <3>3. [procs[p] EXCEPT !.at = "adding", !.seen = columns] \in Proc
      BY <1>1, <1>2 DEF Proc, Places
    <3>4. QED
      BY <3>2, <3>3
  <2>3. CASE Goes(p, [procs[p] EXCEPT !.version = @ + 1])
    BY <1>1, <1>2, <1>7, <2>1, <2>2, <2>3, MoveKeepsBase
    DEF CheckVersion, database, identity, Proc
  <2>4. CASE Goes(p, [procs[p] EXCEPT !.at = "adding", !.seen = columns])
    BY <1>1, <1>2, <1>7, <2>1, <2>2, <2>4, MoveKeepsBase
    DEF CheckVersion, database, identity, Proc
  <2>5. QED
    BY <1>7, <2>3, <2>4 DEF CheckVersion
<1>8. CASE RecordVersion(p)
  <2>1. procs[p].at = "adding" /\ AtWork(p) /\ procs[p].version \in Versions /\ backend = "mysql"
    BY <1>2, <1>8 DEF RecordVersion, AtWork
  <2>2. CASE Refuse(p)
    BY <1>1, <1>8, <2>2, RefusalKeepsBase DEF RecordVersion
  <2>3. CASE /\ Goes(p, [procs[p] EXCEPT !.at = "migrating", !.inserted = @ \cup {procs[p].version},
                                         !.version = @ + 1])
             /\ UNCHANGED <<database, lock>>
    <3>1. [procs[p] EXCEPT !.at = "migrating", !.inserted = @ \cup {procs[p].version},
                           !.version = @ + 1] \in Proc
      <4>1. procs[p].version + 1 \in 1..6
        BY <2>1 DEF Versions
      <4>2. procs[p].inserted \cup {procs[p].version} \subseteq Versions
        BY <1>2, <2>1 DEF Proc
      <4>3. QED
        BY <1>2, <4>1, <4>2 DEF Proc, Places
    <3>2. QED
      BY <1>1, <1>2, <1>8, <2>1, <2>3, <3>1, MoveKeepsBase
      DEF RecordVersion, database, identity, Proc
  <2>4. QED
    BY <1>8, <2>2, <2>3 DEF RecordVersion
<1>9. CASE FinishIdentity(p)
  <2>1. procs[p].at = "writing" /\ AtWork(p)
    BY <1>9 DEF FinishIdentity, AtWork
  <2>2. [procs[p] EXCEPT !.at = "migrating"] \in Proc
    BY <1>2 DEF Proc, Places
  <2>3. QED
    BY <1>1, <1>2, <1>9, <2>1, <2>2, MoveKeepsBase DEF FinishIdentity, database, identity, Proc
<1>10. CASE LockTimesOut(p)
  <2>1. lock # p
    BY <1>2, <1>10, MigrationAssumption DEF LockTimesOut, BaseInv, MigrationTypeOK, AtWork
  <2>2. Release(p)
    BY <1>10, <2>1 DEF LockTimesOut, Release
  <2>3. [IdleProc EXCEPT !.at = "late"] \in Proc
    BY IdleProcTyped DEF Proc, Places
  <2>4. QED
    BY <1>1, <1>10, <2>2, <2>3, MoveKeepsBase DEF LockTimesOut, database, identity, IdleProc
<1>11. QED
  BY <1>3, <1>4, <1>5, <1>6, <1>7, <1>8, <1>9, <1>10

\* The identity migration writes rows, digests, authority and keys of sources.
LEMMA IdentityTyped ==
  ASSUME BaseInv, NEW read \in Read, NEW S \in SUBSET Sources, NEW known \in SUBSET Sources
  PROVE  /\ WriteRows(read, S) =>
              /\ rows' \subseteq Sources /\ digests' \subseteq rows'
              /\ authority' \in [Sources -> Authorities]
         /\ WriteKeys(read, S, known) => keys' \in [Sources -> KeyKinds]
<1>1. /\ rows \subseteq Sources /\ digests \subseteq rows
      /\ authority \in [Sources -> Authorities] /\ keys \in [Sources -> KeyKinds]
      /\ read.authority \in [Sources -> Authorities]
  BY BaseFacts DEF Read
<1>2. "REMOVED" \in Authorities /\ "content" \in KeyKinds /\ "path" \in KeyKinds
  BY DEF Authorities, KeyKinds
<1>3. ASSUME WriteRows(read, S)
      PROVE  /\ rows' \subseteq Sources /\ digests' \subseteq rows'
             /\ authority' \in [Sources -> Authorities]
  BY <1>1, <1>2, <1>3 DEF WriteRows
<1>4. ASSUME WriteKeys(read, S, known)
      PROVE  keys' \in [Sources -> KeyKinds]
  BY <1>1, <1>2, <1>4 DEF WriteKeys
<1>5. QED
  BY <1>3, <1>4

-----------------------------------------------------------------------------
(* The attempt a document is given.                                        *)

LEMMA JobFacts ==
  ASSUME IsLegacy(legacy), NEW d \in Documents
  PROVE  /\ JobsOf(d) \subseteq Jobs /\ IsFiniteSet(JobsOf(d))
         /\ OpenJobs(d) \subseteq JobsOf(d) /\ IsFiniteSet(OpenJobs(d))
         /\ \A j \in JobsOf(d) : legacy.jobs[j].attempt \in Nat
<1>1. JobsOf(d) \subseteq Jobs /\ \A j \in JobsOf(d) : legacy.jobs[j].attempt \in Nat
  BY DEF JobsOf, IsLegacy, Job
<1>2. IsFiniteSet(Jobs)
  BY MigrationAssumption
<1>3. IsFiniteSet(JobsOf(d))
  BY <1>1, <1>2, FS_Subset
<1>4. OpenJobs(d) \subseteq JobsOf(d)
  BY DEF OpenJobs
<1>5. QED
  BY <1>1, <1>3, <1>4, FS_Subset

\* Of finitely many jobs one has the highest attempt: take one with the fewest
\* above it.
LEMMA LatestExists ==
  ASSUME IsLegacy(legacy), NEW d \in Documents, JobsOf(d) # {}
  PROVE  Latest(d) # {}
<1> DEFINE Above(j) == {k \in JobsOf(d) : legacy.jobs[k].attempt > legacy.jobs[j].attempt}
<1> DEFINE T == {Above(j) : j \in JobsOf(d)}
<1>1. IsFiniteSet(JobsOf(d)) /\ \A j \in JobsOf(d) : legacy.jobs[j].attempt \in Nat
  BY JobFacts
<1>2. IsWellFoundedOn(StrictSubsetOrdering(JobsOf(d)), SUBSET JobsOf(d))
  BY <1>1, FS_FiniteSubsetsOfFinite, FS_StrictSubsetOrderingWellFounded
<1>3. T \subseteq SUBSET JobsOf(d) /\ T # {}
  OBVIOUS
<1>4. PICK x \in T : \A y \in T : ~(<<y, x>> \in StrictSubsetOrdering(JobsOf(d)))
  <2> HIDE DEF T
  <2>1. QED
    BY <1>2, <1>3, WFMin
<1>5. PICK j \in JobsOf(d) : x = Above(j)
  OBVIOUS
<1>6. ASSUME NEW k \in JobsOf(d), ~(legacy.jobs[k].attempt <= legacy.jobs[j].attempt)
      PROVE  FALSE
  <2>1. k \in Above(j) /\ k \notin Above(k) /\ Above(k) \subseteq Above(j)
    BY <1>1, <1>6
  <2>2. Above(k) \in T /\ Above(k) # Above(j)
    BY <2>1
  <2>3. <<Above(k), Above(j)>> \in StrictSubsetOrdering(JobsOf(d))
    BY <2>1, <2>2 DEF StrictSubsetOrdering
  <2>4. QED
    BY <1>4, <1>5, <2>2, <2>3
<1>7. j \in Latest(d)
  BY <1>6 DEF Latest
<1>8. QED
  BY <1>7

LEMMA SelectedTyped ==
  ASSUME IsLegacy(legacy), NEW d \in Documents
  PROVE  Selected(d) \in JobsOf(d) \cup {NoJob}
<1>1. CASE OpenJobs(d) # {}
  <2>1. Selected(d) \in OpenJobs(d)
    BY <1>1 DEF Selected
  <2>2. QED
    BY <2>1, JobFacts
<1>2. CASE OpenJobs(d) = {} /\ legacy.documents[d] = "FAILED" /\ JobsOf(d) # {}
  <2>1. Latest(d) # {}
    BY <1>2, LatestExists
  <2>2. Selected(d) \in Latest(d)
    BY <1>2, <2>1 DEF Selected
  <2>3. QED
    BY <2>2 DEF Latest
<1>3. CASE /\ OpenJobs(d) = {}
           /\ ~(legacy.documents[d] = "FAILED" /\ JobsOf(d) # {})
  BY <1>3 DEF Selected
<1>4. QED
  BY <1>1, <1>2, <1>3

\* Unless the jobs are ambiguous, Selected is what RecordedMeansDone asks for.
LEMMA SelectedIsRight ==
  ASSUME IsLegacy(legacy), ~Ambiguous, NEW d \in Documents
  PROVE  /\ \A j \in OpenJobs(d) : Selected(d) = j
         /\ Selected(d) # NoJob => Selected(d) \in JobsOf(d) /\ legacy.documents[d] \in {"PROCESSING", "FAILED"}
         /\ legacy.documents[d] = "FAILED" /\ JobsOf(d) # {} => Selected(d) # NoJob
<1>1. /\ ~(Cardinality(OpenJobs(d)) > 1)
      /\ OpenJobs(d) # {} => legacy.documents[d] \in {"PROCESSING", "FAILED"}
  BY DEF Ambiguous
<1>2. /\ OpenJobs(d) \subseteq JobsOf(d) /\ JobsOf(d) \subseteq Jobs /\ IsFiniteSet(OpenJobs(d))
      /\ NoJob \notin Jobs
  BY JobFacts, MigrationAssumption
<1>3. \A j, k \in OpenJobs(d) : j = k
  <2>1. ASSUME NEW j \in OpenJobs(d), NEW k \in OpenJobs(d), j # k
        PROVE  FALSE
    <3>1. IsFiniteSet({j}) /\ Cardinality({j}) = 1
      BY FS_Singleton
    <3>2. Cardinality({j} \cup {k}) = 2
      BY <2>1, <3>1, FS_AddElement
    <3>3. Cardinality({j} \cup {k}) <= Cardinality(OpenJobs(d))
      BY <1>2, FS_Subset
    <3>4. Cardinality(OpenJobs(d)) \in Nat
      BY <1>2, FS_CardinalityType
    <3>5. QED
      BY <1>1, <3>2, <3>3, <3>4
  <2>2. QED
    BY <2>1
<1>4. CASE OpenJobs(d) # {}
  <2>1. Selected(d) \in OpenJobs(d)
    BY <1>4 DEF Selected
  <2>2. QED
    BY <1>1, <1>2, <1>3, <1>4, <2>1
<1>5. CASE OpenJobs(d) = {}
  <2>1. CASE legacy.documents[d] = "FAILED" /\ JobsOf(d) # {}
    <3>1. Latest(d) # {}
      BY <2>1, LatestExists
    <3>2. Selected(d) \in Latest(d)
      BY <1>5, <2>1, <3>1 DEF Selected
    <3>3. Selected(d) \in JobsOf(d)
      BY <3>2 DEF Latest
    <3>4. QED
      BY <1>2, <1>5, <2>1, <3>3
  <2>2. CASE ~(legacy.documents[d] = "FAILED" /\ JobsOf(d) # {})
    <3>1. Selected(d) = NoJob
      BY <1>5, <2>2 DEF Selected
    <3>2. QED
      BY <1>5, <2>2, <3>1
  <2>3. QED
    BY <2>1, <2>2
<1>6. QED
  BY <1>4, <1>5

LEMMA AdoptedTyped ==
  ASSUME BaseInv
  PROVE  Adopted \in [Documents -> Jobs \cup {NoJob}]
<1>1. \A d \in Documents : Selected(d) \in Jobs \cup {NoJob}
  BY BaseFacts, SelectedTyped, JobFacts
<1>2. QED
  BY <1>1, BaseFacts DEF Adopted

-----------------------------------------------------------------------------
(* Type correctness.                                                       *)

\* Steps that write the sources.
LEMMA SourceWritesKeepBase ==
  ASSUME BaseInv, NEW p \in Starters,
         \/ IdentifyAtOnce(p) \/ CommitIdentity(p)
         \/ \E s \in Sources : WriteRow(p, s) \/ WriteKey(p, s)
  PROVE  BaseInv'
<1>1. /\ columns \subseteq Columns /\ recorded \subseteq Versions
      /\ pointers \in [Documents -> Jobs \cup {NoJob}]
      /\ rows \subseteq Sources /\ digests \subseteq rows
      /\ authority \in [Sources -> Authorities] /\ keys \in [Sources -> KeyKinds]
      /\ identified \in BOOLEAN /\ decided \in [Sources -> Authorities]
      /\ legacy.sources \subseteq Sources
  BY BaseFacts DEF IsLegacy
<1>2. /\ procs[p] \in Proc
      /\ procs[p].at \notin {"migrating", "adding"} => procs[p].version = 1 /\ procs[p].inserted = {}
      /\ backend = "sqlite" =>
           /\ procs[p].at \in Resting \cup {"locked", "migrating"}
           /\ procs[p].version = 1 /\ procs[p].inserted = {}
      /\ AtWork(p) /\ backend = "mysql" => lock = p
      /\ backend \in {"sqlite", "mysql"}
  BY PlaceFacts
<1>3. /\ procs[p].read \in Read /\ procs[p].left \subseteq Sources /\ procs[p].keying \subseteq Sources
  BY <1>2 DEF Proc
<1>4. CASE IdentifyAtOnce(p)
  <2>1. CASE Refuse(p)
    BY <1>1, <1>4, <2>1, RefusalKeepsBase DEF IdentifyAtOnce
  <2>2. CASE /\ columns' = columns \cup ElementsOf(IdentityElements)
             /\ WriteRows(Database, Targets(Database))
             /\ WriteKeys(Database, Targets(Database), digests')
             /\ identified' = TRUE
             /\ Goes(p, [procs[p] EXCEPT !.at = "migrating"])
             /\ UNCHANGED <<recorded, pointers, lock>>
    <3>1. Database \in Read /\ Targets(Database) \subseteq Sources
      BY <1>1 DEF Database, Read, Targets
    <3>2. rows' \subseteq Sources /\ digests' \subseteq rows' /\ authority' \in [Sources -> Authorities]
      BY <2>2, <3>1, IdentityTyped
    <3>3. keys' \in [Sources -> KeyKinds]
      BY <2>2, <3>1, <3>2, IdentityTyped
    <3>4. columns' \subseteq Columns
      BY <1>1, <2>2, IdentityColumns
    <3>5. [procs[p] EXCEPT !.at = "migrating"] \in Proc
      BY <1>2 DEF Proc, Places
    <3>6. /\ UNCHANGED <<backend, legacy, decided>> /\ backend = "sqlite"
          /\ UNCHANGED <<recorded, pointers>> /\ identified' = TRUE
      BY <1>4, <2>2 DEF IdentifyAtOnce
    <3>7. QED
      BY <1>1, <1>2, <2>2, <3>2, <3>3, <3>4, <3>5, <3>6, MoveKeepsBase DEF Proc
  <2>3. QED
    BY <1>4, <2>1, <2>2 DEF IdentifyAtOnce
<1>5. CASE CommitIdentity(p)
  <2>1. procs[p].at = "writing" /\ AtWork(p) /\ backend = "mysql"
    BY <1>2, <1>5 DEF CommitIdentity, AtWork
  <2>2. rows' \subseteq Sources /\ digests' \subseteq rows' /\ authority' \in [Sources -> Authorities]
    BY <1>3, <1>5, IdentityTyped DEF CommitIdentity
  <2>3. keys' \in [Sources -> KeyKinds]
    BY <1>3, <1>5, <2>2, IdentityTyped DEF CommitIdentity
  <2>4. [procs[p] EXCEPT !.at = "migrating", !.left = {}] \in Proc
    BY <1>2 DEF Proc, Places
  <2>5. QED
    BY <1>1, <1>2, <1>5, <2>1, <2>2, <2>3, <2>4, MoveKeepsBase DEF CommitIdentity, Proc
<1>6. ASSUME NEW s \in Sources, WriteRow(p, s)
      PROVE  BaseInv'
  <2>1. procs[p].at = "writing" /\ AtWork(p) /\ backend = "mysql"
    BY <1>2, <1>6 DEF WriteRow, AtWork
  <2>2. rows' \subseteq Sources /\ digests' \subseteq rows' /\ authority' \in [Sources -> Authorities]
    BY <1>3, <1>6, IdentityTyped DEF WriteRow
  <2>3. [procs[p] EXCEPT !.left = @ \ {s}, !.keying = {s}] \in Proc
    BY <1>2 DEF Proc
  <2>4. QED
    BY <1>1, <1>2, <1>6, <2>1, <2>2, <2>3, MoveKeepsBase DEF WriteRow, Proc
<1>7. ASSUME NEW s \in Sources, WriteKey(p, s)
      PROVE  BaseInv'
  <2>1. procs[p].at = "writing" /\ AtWork(p) /\ backend = "mysql"
    BY <1>2, <1>7 DEF WriteKey, AtWork
  <2>2. keys' \in [Sources -> KeyKinds]
    BY <1>1, <1>3, <1>7, IdentityTyped DEF WriteKey
  <2>3. [procs[p] EXCEPT !.keying = {}] \in Proc
    BY <1>2 DEF Proc
  <2>4. QED
    BY <1>1, <1>2, <1>7, <2>1, <2>2, <2>3, MoveKeepsBase DEF WriteKey, Proc
<1>8. QED
  BY <1>4, <1>5, <1>6, <1>7

\* Steps that write the schema and the versions.
LEMMA SchemaWritesKeepBase ==
  ASSUME BaseInv, NEW p \in Starters,
         AddIdentityElement(p) \/ MigrateAtOnce(p) \/ AddElement(p) \/ CommitVersions(p)
  PROVE  BaseInv'
<1>1. /\ columns \subseteq Columns /\ recorded \subseteq Versions
      /\ pointers \in [Documents -> Jobs \cup {NoJob}]
      /\ rows \subseteq Sources /\ digests \subseteq rows
      /\ authority \in [Sources -> Authorities] /\ keys \in [Sources -> KeyKinds]
      /\ identified \in BOOLEAN /\ decided \in [Sources -> Authorities]
  BY BaseFacts DEF IsLegacy
<1>2. /\ procs[p] \in Proc
      /\ procs[p].at \notin {"migrating", "adding"} => procs[p].version = 1 /\ procs[p].inserted = {}
      /\ procs[p].at = "adding" => procs[p].version \in Versions
      /\ backend = "sqlite" =>
           /\ procs[p].at \in Resting \cup {"locked", "migrating"}
           /\ procs[p].version = 1 /\ procs[p].inserted = {}
      /\ AtWork(p) /\ backend = "mysql" => lock = p
      /\ backend \in {"sqlite", "mysql"}
  BY PlaceFacts
<1>3. procs[p].inserted \subseteq Versions /\ procs[p].seen \subseteq Columns
  BY <1>2 DEF Proc
<1>4. CASE AddIdentityElement(p)
  <2>1. procs[p].at = "altering" /\ AtWork(p) /\ backend = "mysql"
    BY <1>2, <1>4 DEF AddIdentityElement, AtWork
  <2>2. CASE Refuse(p)
    BY <1>1, <1>4, <2>2, RefusalKeepsBase DEF AddIdentityElement
  <2>3. ASSUME NEW c \in ElementsOf(IdentityElements),
               columns' = columns \cup {c},
               Goes(p, [procs[p] EXCEPT !.seen = @ \cup {c}, !.altered = TRUE]),
               UNCHANGED <<recorded, pointers, identity, lock>>
        PROVE  BaseInv'
    <3>1. columns' \subseteq Columns /\ procs[p].seen \cup {c} \subseteq Columns
      BY <1>1, <1>3, <2>3, IdentityColumns
    <3>2. [procs[p] EXCEPT !.seen = @ \cup {c}, !.altered = TRUE] \in Proc
      BY <1>2, <3>1 DEF Proc
    <3>3. QED
      BY <1>1, <1>2, <1>4, <2>1, <2>3, <3>1, <3>2, MoveKeepsBase
      DEF AddIdentityElement, identity, Proc
  <2>4. QED
    BY <1>4, <2>2, <2>3 DEF AddIdentityElement
<1>5. CASE MigrateAtOnce(p)
  <2>1. procs[p].at = "migrating" /\ backend = "sqlite"
    BY <1>5 DEF MigrateAtOnce
  <2>2. CASE Refuse(p)
    BY <1>1, <1>5, <2>2, RefusalKeepsBase DEF MigrateAtOnce
  <2>3. CASE /\ columns' = columns \cup UNION {ElementsOf(Elements[v]) : v \in Versions \ recorded}
             /\ recorded' = Versions
             /\ pointers' = IF 5 \in recorded THEN pointers ELSE Adopted
             /\ Goes(p, [procs[p] EXCEPT !.at = "done"])
             /\ UNCHANGED <<identity, lock>>
    <3>1. columns' \subseteq Columns
      BY <1>1, <2>3, VersionColumns
    <3>2. pointers' \in [Documents -> Jobs \cup {NoJob}]
      BY <1>1, <2>3, AdoptedTyped
    <3>3. [procs[p] EXCEPT !.at = "done"] \in Proc
      BY <1>2 DEF Proc, Places
    <3>4. QED
      BY <1>1, <1>2, <1>5, <2>1, <2>3, <3>1, <3>2, <3>3, MoveKeepsBase
      DEF MigrateAtOnce, identity, Proc
  <2>4. QED
    BY <1>5, <2>2, <2>3 DEF MigrateAtOnce
<1>6. CASE AddElement(p)
  <2>1. /\ procs[p].at = "adding" /\ AtWork(p) /\ backend = "mysql"
        /\ procs[p].version \in Versions
    BY <1>2, <1>6 DEF AddElement, AtWork
  <2>2. CASE Refuse(p)
    BY <1>1, <1>6, <2>2, RefusalKeepsBase DEF AddElement
  <2>3. ASSUME NEW c \in ElementsOf(Elements[procs[p].version]),
               columns' = columns \cup Created(c),
               recorded' = recorded \cup procs[p].inserted,
               Goes(p, [procs[p] EXCEPT !.seen = @ \cup {c}, !.inserted = {}]),
               UNCHANGED <<pointers, identity, lock>>
        PROVE  BaseInv'
    <3>1. c \in Columns
      BY <2>1, VersionColumns
    <3>2. columns' \subseteq Columns /\ procs[p].seen \cup {c} \subseteq Columns
      BY <1>1, <1>3, <2>3, <3>1, CreatedColumns
    <3>3. [procs[p] EXCEPT !.seen = @ \cup {c}, !.inserted = {}] \in Proc
      BY <1>2, <3>2 DEF Proc
    <3>4. QED
      BY <1>1, <1>2, <1>3, <1>6, <2>1, <2>3, <3>2, <3>3, MoveKeepsBase
      DEF AddElement, identity, Proc
  <2>4. QED
    BY <1>6, <2>2, <2>3 DEF AddElement
<1>7. CASE CommitVersions(p)
  <2>1. [IdleProc EXCEPT !.at = "done"] \in Proc
    BY IdleProcTyped DEF Proc, Places
  <2>2. recorded' \subseteq Versions /\ pointers' \in [Documents -> Jobs \cup {NoJob}]
    BY <1>1, <1>3, <1>7, AdoptedTyped DEF CommitVersions
  <2>3. QED
    BY <1>1, <1>7, <2>1, <2>2, MoveKeepsBase DEF CommitVersions, identity, IdleProc
<1>8. QED
  BY <1>4, <1>5, <1>6, <1>7

LEMMA BaseKept ==
  ASSUME BaseInv, [Next]_vars
  PROVE  BaseInv'
<1>1. CASE UNCHANGED vars
  <2>1. UNCHANGED <<backend, legacy, columns, recorded, pointers, rows, digests, authority, keys,
                    lock, procs, identified, decided>>
    BY <1>1 DEF vars, database, identity
  <2>2. QED
    BY <2>1 DEF BaseInv, MigrationTypeOK, PlacesInv, AtWork
<1>2. ASSUME NEW s \in Sources, NEW a \in Authorities, Decide(s, a)
      PROVE  BaseInv'
  <2>1. /\ authority' \in [Sources -> Authorities] /\ decided' \in [Sources -> Authorities]
    BY <1>2, BaseFacts DEF Decide
  <2>2. UNCHANGED <<backend, legacy, columns, recorded, pointers, rows, digests, keys, lock,
                    procs, identified>>
    BY <1>2 DEF Decide
  <2>3. QED
    BY <2>1, <2>2 DEF BaseInv, MigrationTypeOK, PlacesInv, AtWork
<1>3. ASSUME NEW p \in Starters, NEW s \in Sources, WriteRow(p, s) \/ WriteKey(p, s)
      PROVE  BaseInv'
  BY <1>3, SourceWritesKeepBase
<1>4. ASSUME NEW p \in Starters, IdentifyAtOnce(p) \/ CommitIdentity(p)
      PROVE  BaseInv'
  BY <1>4, SourceWritesKeepBase
<1>5. ASSUME NEW p \in Starters,
             AddIdentityElement(p) \/ MigrateAtOnce(p) \/ AddElement(p) \/ CommitVersions(p)
      PROVE  BaseInv'
  BY <1>5, SchemaWritesKeepBase
<1>6. ASSUME NEW p \in Starters,
             Lock(p) \/ LockTimesOut(p) \/ ReadColumns(p) \/ ReadSources(p) \/ CheckVersion(p)
             \/ RecordVersion(p) \/ Stop(p) \/ FinishIdentity(p)
      PROVE  BaseInv'
  BY <1>6, MovesKeepBase
<1>7. QED
  BY <1>1, <1>2, <1>3, <1>4, <1>5, <1>6 DEF Next

\* On every database, however often and wherever its starts are killed, the state
\* keeps its types, and on MySQL the named lock admits one process at a time.
THEOREM MigrationTypeCorrect == Spec => []MigrationTypeOK
<1>1. BaseInv => MigrationTypeOK
  BY DEF BaseInv
<1>2. QED
  BY <1>1, InitBase, BaseKept, PTL DEF Spec

-----------------------------------------------------------------------------
(* A version that is recorded is done.                                     *)

\* What a process has inserted is there, and it has seen no more than there is.
Honest(proc, cols) ==
  /\ \A v \in proc.inserted :
       v < proc.version /\ ElementsOf(Elements[v]) \subseteq cols /\ (v = 5 => ~Ambiguous)
  /\ proc.at = "adding" => proc.seen \subseteq cols

\* A pointer is the attempt that was selected, or was never given.
VersionInv ==
  /\ \A v \in recorded : ElementsOf(Elements[v]) \subseteq columns
  /\ \A p \in Starters : Honest(procs[p], columns)
  /\ \A d \in Documents : pointers[d] \in {NoJob, Selected(d)}
  /\ 5 \in recorded \ legacy.recorded =>
       ~Ambiguous /\ \A d \in Documents : pointers[d] = Selected(d)

LEMMA InitVersion == Init => VersionInv
<1> SUFFICES ASSUME Init
             PROVE  VersionInv
  OBVIOUS
<1>1. IsLegacy(legacy)
  BY LegacyTyped DEF Init
<1>2. \A p \in Starters : Honest(procs[p], columns)
  BY DEF Init, Honest, IdleProc
<1>3. QED
  BY <1>1, <1>2 DEF Init, VersionInv, IsLegacy

\* The jobs do not change, nor what is selected from them.
LEMMA SameJobs ==
  ASSUME UNCHANGED legacy
  PROVE  /\ Ambiguous' <=> Ambiguous
         /\ \A d \in Documents : Selected(d)' = Selected(d)
<1>1. \A d \in Documents : JobsOf(d)' = JobsOf(d)
  BY DEF JobsOf
<1>2. \A d \in Documents : OpenJobs(d)' = OpenJobs(d) /\ Latest(d)' = Latest(d)
  BY <1>1 DEF OpenJobs, Latest
<1>3. Ambiguous' <=> Ambiguous
  BY <1>1, <1>2 DEF Ambiguous
<1>4. \A d \in Documents : Selected(d)' = Selected(d)
  BY <1>1, <1>2 DEF Selected
<1>5. QED
  BY <1>3, <1>4

LEMMA AdoptedIsSelected ==
  ASSUME VersionInv
  PROVE  \A d \in Documents : Adopted[d] = Selected(d)
  BY DEF VersionInv, Adopted

\* A process that moves on and is still honest keeps the invariant, if what it
\* records is there, and version 5 comes with the pointers.
LEMMA HonestMoveKeepsVersions ==
  ASSUME BaseInv, VersionInv, NEW p \in Starters, NEW proc, Goes(p, proc),
         UNCHANGED legacy, columns \subseteq columns',
         Honest(proc, columns'),
         \A v \in recorded' : v \in recorded \/ ElementsOf(Elements[v]) \subseteq columns',
         \/ pointers' = pointers /\ (5 \in recorded' => 5 \in recorded)
         \/ pointers' = Adopted /\ ~Ambiguous
  PROVE  VersionInv'
<1>1. procs'[p] = proc /\ \A q \in Starters \ {p} : procs'[q] = procs[q]
  BY Going
<1>2. /\ Ambiguous' <=> Ambiguous
      /\ \A d \in Documents : Selected(d)' = Selected(d)
  BY SameJobs
<1>3. \A q \in Starters : Honest(procs[q], columns)'
  <2>1. \A q \in Starters \ {p} : Honest(procs[q], columns)
    BY DEF VersionInv
  <2>2. QED
    BY <1>1, <1>2, <2>1 DEF Honest
<1>4. \A v \in recorded' : ElementsOf(Elements[v]) \subseteq columns'
  BY DEF VersionInv
<1>5. \A d \in Documents : pointers'[d] \in {NoJob, Selected(d)}
  BY AdoptedIsSelected DEF VersionInv
<1>6. 5 \in recorded' \ legacy.recorded =>
        ~Ambiguous /\ \A d \in Documents : pointers'[d] = Selected(d)
  BY AdoptedIsSelected DEF VersionInv
<1>7. /\ (\A v \in recorded : ElementsOf(Elements[v]) \subseteq columns)'
      /\ (\A d \in Documents : pointers[d] \in {NoJob, Selected(d)})'
      /\ (5 \in recorded \ legacy.recorded =>
            ~Ambiguous /\ \A d \in Documents : pointers[d] = Selected(d))'
  <2>1. (\A v \in recorded : ElementsOf(Elements[v]) \subseteq columns)'
    BY <1>4 DEF ElementsOf, Elements
  <2>2. QED
    BY <1>2, <1>5, <1>6, <2>1
<1>8. QED
  BY <1>3, <1>7 DEF VersionInv

LEMMA VersionKept ==
  ASSUME BaseInv, VersionInv, [Next]_vars
  PROVE  VersionInv'
<1>1. ASSUME UNCHANGED <<legacy, columns, recorded, pointers, procs>>
      PROVE  VersionInv'
  <2>1. Ambiguous' <=> Ambiguous
    BY <1>1, SameJobs
  <2>2. \A d \in Documents : Selected(d)' = Selected(d)
    BY <1>1, SameJobs
  <2>3. \A p \in Starters : Honest(procs[p], columns)'
    BY <1>1, <2>1 DEF VersionInv, Honest
  <2>4. QED
    BY <1>1, <2>1, <2>2, <2>3 DEF VersionInv
<1>2. ASSUME NEW p \in Starters,
             NEW proc, Goes(p, proc), proc.inserted = {}, proc.at # "adding",
             UNCHANGED <<legacy, columns, recorded, pointers>>
      PROVE  VersionInv'
  <2>1. Honest(proc, columns')
    BY <1>2 DEF Honest
  <2>2. QED
    BY <1>2, <2>1, HonestMoveKeepsVersions
<1>3. ASSUME NEW p \in Starters, Refuse(p), UNCHANGED legacy
      PROVE  VersionInv'
  BY <1>2, <1>3 DEF Refuse, database, IdleProc
<1>4. ASSUME NEW p \in Starters, Lock(p) \/ LockTimesOut(p) \/ Stop(p)
      PROVE  VersionInv'
  BY <1>2, <1>4 DEF Lock, LockTimesOut, Stop, database, IdleProc
<1>5. ASSUME NEW p \in Starters
      PROVE  /\ procs[p] \in Proc /\ procs[p].inserted \subseteq Versions
             /\ procs[p].at \notin {"migrating", "adding"} => procs[p].inserted = {}
             /\ procs[p].at = "adding" => procs[p].version \in Versions
             /\ Honest(procs[p], columns)
  BY PlaceFacts DEF VersionInv, Proc
<1>6. ASSUME NEW p \in Starters, NEW s \in Sources,
             WriteRow(p, s) \/ WriteKey(p, s)
      PROVE  VersionInv'
  <2>1. procs[p].at = "writing" /\ procs[p].inserted = {} /\ procs[p] \in Proc
    BY <1>5, <1>6 DEF WriteRow, WriteKey
  <2>2. CASE WriteRow(p, s)
    BY <1>2, <2>1, <2>2 DEF WriteRow, Proc
  <2>3. CASE WriteKey(p, s)
    BY <1>2, <2>1, <2>3 DEF WriteKey, Proc
  <2>4. QED
    BY <1>6, <2>2, <2>3
<1>7. ASSUME NEW p \in Starters,
             ReadColumns(p) \/ ReadSources(p) \/ CommitIdentity(p) \/ FinishIdentity(p)
      PROVE  VersionInv'
  <2>1. /\ procs[p].at \in {"locked", "altering", "writing"} /\ procs[p].inserted = {}
        /\ procs[p] \in Proc /\ UNCHANGED legacy
    BY <1>5, <1>7 DEF ReadColumns, ReadSources, CommitIdentity, FinishIdentity
  <2>2. CASE ReadColumns(p)
    BY <1>2, <2>1, <2>2 DEF ReadColumns, Proc, database
  <2>3. CASE ReadSources(p)
    <3>1. CASE Refuse(p)
      BY <1>3, <2>1, <3>1
    <3>2. CASE /\ Goes(p, [procs[p] EXCEPT !.at = "writing", !.read = Database,
                                           !.left = Targets(Database)])
               /\ UNCHANGED <<database, lock>>
      BY <1>2, <2>1, <3>2 DEF Proc, database
    <3>3. QED
      BY <2>3, <3>1, <3>2 DEF ReadSources
  <2>4. CASE CommitIdentity(p)
    BY <1>2, <2>1, <2>4 DEF CommitIdentity, Proc
  <2>5. CASE FinishIdentity(p)
    BY <1>2, <2>1, <2>5 DEF FinishIdentity, Proc, database
  <2>6. QED
    BY <1>7, <2>2, <2>3, <2>4, <2>5
<1>8. ASSUME NEW p \in Starters, IdentifyAtOnce(p)
      PROVE  VersionInv'
  <2>1. procs[p].at = "locked" /\ procs[p].inserted = {} /\ procs[p] \in Proc /\ UNCHANGED legacy
    BY <1>5, <1>8 DEF IdentifyAtOnce
  <2>2. CASE Refuse(p)
    BY <1>3, <2>1, <2>2
  <2>3. CASE /\ columns' = columns \cup ElementsOf(IdentityElements)
             /\ Goes(p, [procs[p] EXCEPT !.at = "migrating"])
             /\ UNCHANGED <<recorded, pointers, lock>>
    <3>1. Honest([procs[p] EXCEPT !.at = "migrating"], columns')
      BY <2>1 DEF Honest, Proc
    <3>2. QED
      BY <2>1, <2>3, <3>1, HonestMoveKeepsVersions
  <2>4. QED
    BY <1>8, <2>2, <2>3 DEF IdentifyAtOnce
<1>9. ASSUME NEW p \in Starters, AddIdentityElement(p)
      PROVE  VersionInv'
  <2>1. procs[p].at = "altering" /\ procs[p].inserted = {} /\ procs[p] \in Proc /\ UNCHANGED legacy
    BY <1>5, <1>9 DEF AddIdentityElement
  <2>2. CASE Refuse(p)
    BY <1>3, <2>1, <2>2
  <2>3. ASSUME NEW c \in ElementsOf(IdentityElements),
               columns' = columns \cup {c},
               Goes(p, [procs[p] EXCEPT !.seen = @ \cup {c}, !.altered = TRUE]),
               UNCHANGED <<recorded, pointers, identity, lock>>
        PROVE  VersionInv'
    <3>1. Honest([procs[p] EXCEPT !.seen = @ \cup {c}, !.altered = TRUE], columns')
      BY <2>1 DEF Honest, Proc
    <3>2. QED
      BY <2>1, <2>3, <3>1, HonestMoveKeepsVersions
  <2>4. QED
    BY <1>9, <2>2, <2>3 DEF AddIdentityElement
<1>10. ASSUME NEW p \in Starters, MigrateAtOnce(p)
       PROVE  VersionInv'
  <2>1. procs[p].inserted = {} /\ procs[p] \in Proc /\ UNCHANGED legacy
    BY <1>10, PlaceFacts DEF MigrateAtOnce
  <2>2. CASE Refuse(p)
    BY <1>3, <2>1, <2>2
  <2>3. CASE /\ ~(5 \notin recorded /\ Ambiguous)
             /\ columns' = columns \cup UNION {ElementsOf(Elements[v]) : v \in Versions \ recorded}
             /\ recorded' = Versions
             /\ pointers' = IF 5 \in recorded THEN pointers ELSE Adopted
             /\ Goes(p, [procs[p] EXCEPT !.at = "done"])
    <3>1. Honest([procs[p] EXCEPT !.at = "done"], columns')
      BY <2>1 DEF Honest, Proc
    <3>2. \A v \in recorded' : v \in recorded \/ ElementsOf(Elements[v]) \subseteq columns'
      <4>1. ASSUME NEW v \in Versions \ recorded
            PROVE  ElementsOf(Elements[v]) \subseteq columns'
        <5>1. ElementsOf(Elements[v]) \in {ElementsOf(Elements[w]) : w \in Versions \ recorded}
          OBVIOUS
        <5>2. QED
          BY <2>3, <5>1
      <4>2. QED
        BY <2>3, <4>1
    <3>3. QED
      BY <2>1, <2>3, <3>1, <3>2, HonestMoveKeepsVersions
  <2>4. QED
    BY <1>10, <2>2, <2>3 DEF MigrateAtOnce
<1>11. ASSUME NEW p \in Starters, CheckVersion(p)
       PROVE  VersionInv'
  <2>1. /\ procs[p] \in Proc /\ UNCHANGED <<legacy, columns, recorded, pointers>>
        /\ procs[p].version \in Versions /\ Honest(procs[p], columns)
        /\ procs[p].inserted \subseteq Versions
    BY <1>5, <1>11 DEF CheckVersion, database
  <2>2. CASE Goes(p, [procs[p] EXCEPT !.version = @ + 1])
    <3>1. procs[p].at = "migrating"
      BY <1>11 DEF CheckVersion
    <3>2. \A v \in procs[p].inserted :
             /\ v < procs[p].version + 1 /\ ElementsOf(Elements[v]) \subseteq columns
             /\ v = 5 => ~Ambiguous
      BY <2>1 DEF Honest, Versions
    <3>3. Honest([procs[p] EXCEPT !.version = @ + 1], columns')
      BY <2>1, <3>1, <3>2 DEF Honest, Proc
    <3>4. QED
      BY <2>1, <2>2, <3>3, HonestMoveKeepsVersions
  <2>3. CASE Goes(p, [procs[p] EXCEPT !.at = "adding", !.seen = columns])
    <3>1. Honest([procs[p] EXCEPT !.at = "adding", !.seen = columns], columns')
      BY <2>1 DEF Honest, Proc
    <3>2. QED
      BY <2>1, <2>3, <3>1, HonestMoveKeepsVersions
  <2>4. QED
    BY <1>11, <2>2, <2>3 DEF CheckVersion
<1>12. ASSUME NEW p \in Starters, AddElement(p)
       PROVE  VersionInv'
  <2>1. /\ procs[p].at = "adding" /\ procs[p] \in Proc /\ procs[p].version \in Versions
        /\ Honest(procs[p], columns) /\ procs[p].inserted \subseteq Versions /\ UNCHANGED legacy
    BY <1>5, <1>12 DEF AddElement
  <2>2. CASE Refuse(p)
    BY <1>3, <2>1, <2>2
  <2>3. ASSUME NEW c \in ElementsOf(Elements[procs[p].version]),
               columns' = columns \cup Created(c),
               recorded' = recorded \cup procs[p].inserted,
               Goes(p, [procs[p] EXCEPT !.seen = @ \cup {c}, !.inserted = {}]),
               UNCHANGED <<pointers, identity, lock>>
        PROVE  VersionInv'
    <3>1. c \in columns' /\ columns \subseteq columns'
      BY <2>1, <2>3, VersionColumns, CreatedColumns
    <3>2. Honest([procs[p] EXCEPT !.seen = @ \cup {c}, !.inserted = {}], columns')
      BY <2>1, <3>1 DEF Honest, Proc
    <3>3. \A v \in procs[p].inserted : ElementsOf(Elements[v]) \subseteq columns' /\ v # 5
      BY <2>1, <3>1 DEF Honest, Versions
    <3>4. QED
      BY <2>1, <2>3, <3>1, <3>2, <3>3, HonestMoveKeepsVersions
  <2>4. QED
    BY <1>12, <2>2, <2>3 DEF AddElement
<1>13. ASSUME NEW p \in Starters, RecordVersion(p)
       PROVE  VersionInv'
  <2>1. /\ procs[p].at = "adding" /\ procs[p] \in Proc /\ procs[p].version \in Versions
        /\ Honest(procs[p], columns) /\ procs[p].inserted \subseteq Versions /\ UNCHANGED legacy
        /\ ElementsOf(Elements[procs[p].version]) \subseteq procs[p].seen
    BY <1>5, <1>13 DEF RecordVersion
  <2>2. CASE Refuse(p)
    BY <1>3, <2>1, <2>2
  <2>3. CASE /\ ~(procs[p].version = 5 /\ Ambiguous)
             /\ Goes(p, [procs[p] EXCEPT !.at = "migrating", !.inserted = @ \cup {procs[p].version},
                                         !.version = @ + 1])
             /\ UNCHANGED <<database, lock>>
    <3> DEFINE proc == [procs[p] EXCEPT !.at = "migrating", !.inserted = @ \cup {procs[p].version},
                                        !.version = @ + 1]
    <3>1. /\ proc.at = "migrating" /\ proc.version = procs[p].version + 1
          /\ proc.inserted = procs[p].inserted \cup {procs[p].version}
      BY <2>1 DEF Proc
    <3>2. UNCHANGED <<columns, recorded, pointers>>
      BY <2>3 DEF database
    <3>3. ASSUME NEW v \in proc.inserted
          PROVE  /\ v < proc.version /\ ElementsOf(Elements[v]) \subseteq columns'
                 /\ v = 5 => ~Ambiguous
      BY <2>1, <2>3, <3>1, <3>2, <3>3 DEF Honest, Versions
    <3>4. Honest(proc, columns')
      BY <3>1, <3>3 DEF Honest
    <3>5. QED
      BY <2>1, <2>3, <3>2, <3>4, HonestMoveKeepsVersions
  <2>4. QED
    BY <1>13, <2>2, <2>3 DEF RecordVersion
<1>14. ASSUME NEW p \in Starters, CommitVersions(p)
       PROVE  VersionInv'
  <2>1. /\ Honest(procs[p], columns) /\ UNCHANGED <<legacy, columns>>
        /\ Goes(p, [IdleProc EXCEPT !.at = "done"])
        /\ recorded' = recorded \cup procs[p].inserted
        /\ pointers' = IF 5 \in procs[p].inserted THEN Adopted ELSE pointers
    BY <1>5, <1>14 DEF CommitVersions
  <2>2. Honest([IdleProc EXCEPT !.at = "done"], columns')
    BY DEF Honest, IdleProc
  <2>3. QED
    BY <2>1, <2>2, HonestMoveKeepsVersions DEF Honest
<1>15. ASSUME NEW s \in Sources, NEW a \in Authorities, Decide(s, a)
       PROVE  VersionInv'
  BY <1>1, <1>15 DEF Decide
<1>16. CASE UNCHANGED vars
  BY <1>1, <1>16 DEF vars, database
<1>17. QED
  BY <1>4, <1>6, <1>7, <1>8, <1>9, <1>10, <1>11, <1>12, <1>13, <1>14, <1>15, <1>16 DEF Next

\* Wherever starts are killed, a recorded version is in the schema, and version 5
\* has pointed every document to the job the store works with.
THEOREM RecordedVersionsAreDone == Spec => []RecordedMeansDone
<1>1. ASSUME BaseInv, VersionInv
      PROVE  RecordedMeansDone
  <2>1. IsLegacy(legacy)
    BY <1>1, BaseFacts
  <2>2. ASSUME 5 \in recorded \ legacy.recorded, NEW d \in Documents
        PROVE  /\ \A j \in OpenJobs(d) : pointers[d] = j
               /\ pointers[d] # NoJob =>
                    pointers[d] \in JobsOf(d) /\ legacy.documents[d] \in {"PROCESSING", "FAILED"}
               /\ legacy.documents[d] = "FAILED" /\ JobsOf(d) # {} => pointers[d] # NoJob
    BY <1>1, <2>1, <2>2, SelectedIsRight DEF VersionInv
  <2>3. QED
    BY <1>1, <2>2 DEF RecordedMeansDone, VersionInv
<1>2. Init => BaseInv /\ VersionInv
  BY InitBase, InitVersion
<1>3. BaseInv /\ VersionInv /\ [Next]_vars => (BaseInv /\ VersionInv)'
  BY BaseKept, VersionKept
<1>4. QED
  BY <1>1, <1>2, <1>3, PTL DEF Spec

-----------------------------------------------------------------------------
(* A start can be repeated.                                                *)

\* Only these columns of a table that is there already make its ALTER fail.
Unseen(proc, cols, done) ==
  /\ proc.at = "altering" => cols \subseteq proc.seen
  /\ proc.at = "adding" =>
       /\ proc.version \notin done \cup proc.inserted
       /\ \A c \in ElementsOf(Elements[proc.version]) : c \in cols \ Tables => c \in proc.seen

Early == {"idle", "late", "locked", "altering", "refused"}

\* A database that cannot be read stays so, and nobody gets past its identity; a
\* process that adds columns has seen those there are.
StartInv ==
  /\ legacy.rows \subseteq rows
  /\ ~Readable(legacy) => rows = {} /\ \A p \in Starters : procs[p].at \in Early
  /\ \A p \in Starters : Unseen(procs[p], columns, recorded)
  /\ StartsAreRepeatable

LEMMA InitStart == Init => StartInv
  BY DEF Init, StartInv, Readable, Unseen, StartsAreRepeatable, IdleProc, Early

\* What is read is readable if the database was before the first start.
LEMMA ReadableStays ==
  ASSUME StartInv
  PROVE  Readable(Database) <=> Readable(legacy)
  BY DEF StartInv, Readable, Database

LEMMA StartMove ==
  ASSUME BaseInv, StartInv, NEW p \in Starters, NEW proc, Goes(p, proc),
         UNCHANGED <<backend, legacy>>, columns \subseteq columns', legacy.rows \subseteq rows',
         ~Readable(legacy) =>
           "document_id" \notin columns' \ columns /\ rows' = rows /\ proc.at \in Early,
         backend = "sqlite" \/ AtWork(p) \/ UNCHANGED <<columns, recorded>>,
         Unseen(proc, columns', recorded'),
         proc.at = "refused" => Ambiguous \/ ~Readable(legacy)
  PROVE  StartInv'
<1>1. procs'[p] = proc /\ \A q \in Starters \ {p} : procs'[q] = procs[q]
  BY Going
<1>2. Ambiguous' <=> Ambiguous
  BY SameJobs
<1>3. Readable(legacy)' <=> Readable(legacy)
  BY DEF Readable
<1>4. \A q \in Starters : Unseen(procs[q], columns, recorded)'
  <2>1. ASSUME NEW q \in Starters \ {p}
        PROVE  Unseen(procs[q], columns', recorded')
    <3>1. CASE UNCHANGED <<columns, recorded>>
      BY <3>1 DEF StartInv, Unseen
    <3>2. CASE backend = "sqlite"
      <4>1. procs[q].at \notin {"altering", "adding"}
        BY <3>2, PlaceFacts
      <4>2. QED
        BY <4>1 DEF Unseen
    <3>3. CASE AtWork(p) /\ backend = "mysql"
      <4>1. procs[q].at \notin {"altering", "adding"}
        BY <3>3, OthersRest DEF AtWork
      <4>2. QED
        BY <4>1 DEF Unseen
    <3>4. QED
      BY <3>1, <3>2, <3>3, PlaceFacts
  <2>2. QED
    BY <1>1, <2>1 DEF Unseen
<1>5. (~Readable(legacy) => rows = {} /\ \A q \in Starters : procs[q].at \in Early)'
  BY <1>1, <1>3 DEF StartInv
<1>6. StartsAreRepeatable'
  BY <1>1, <1>2, <1>3 DEF StartInv, StartsAreRepeatable
<1>7. QED
  BY <1>4, <1>5, <1>6 DEF StartInv

\* Nothing but a place changes.
LEMMA StartPlace ==
  ASSUME BaseInv, StartInv, NEW p \in Starters, NEW proc, Goes(p, proc),
         UNCHANGED <<backend, legacy, columns, recorded>>, legacy.rows \subseteq rows',
         ~Readable(legacy) => rows' = rows /\ proc.at \in Early,
         proc.at \notin {"altering", "adding", "refused"}
  PROVE  StartInv'
<1>1. Unseen(proc, columns', recorded')
  BY DEF Unseen
<1>2. QED
  BY <1>1, StartMove

LEMMA StartRefusal ==
  ASSUME BaseInv, StartInv, NEW p \in Starters, Refuse(p), UNCHANGED <<backend, legacy>>,
         Ambiguous \/ ~Readable(legacy)
  PROVE  StartInv'
<1>1. /\ Goes(p, [IdleProc EXCEPT !.at = "refused"])
      /\ UNCHANGED <<columns, recorded, rows>>
      /\ [IdleProc EXCEPT !.at = "refused"].at = "refused"
  BY DEF Refuse, database, identity, IdleProc
<1>2. Unseen([IdleProc EXCEPT !.at = "refused"], columns', recorded')
  BY <1>1 DEF Unseen
<1>3. QED
  BY <1>1, <1>2, StartMove DEF StartInv, Early

LEMMA StartKept ==
  ASSUME BaseInv, StartInv, [Next]_vars
  PROVE  StartInv'
<1>1. ASSUME UNCHANGED <<legacy, columns, recorded, rows, procs>>
      PROVE  StartInv'
  <2>1. (Ambiguous' <=> Ambiguous) /\ (Readable(legacy)' <=> Readable(legacy))
    BY <1>1, SameJobs DEF Readable
  <2>2. QED
    BY <1>1, <2>1 DEF StartInv, StartsAreRepeatable, Unseen
<1>2. ASSUME NEW p \in Starters
      PROVE  /\ procs[p] \in Proc /\ procs[p].inserted \subseteq Versions
             /\ procs[p].at = "adding" => procs[p].version \in Versions
             /\ Unseen(procs[p], columns, recorded)
             /\ ~Readable(legacy) => procs[p].at \in Early
             /\ procs[p].at \in {"altering", "adding"} => backend = "mysql"
  BY PlaceFacts DEF StartInv, Proc
<1>3. legacy.rows \subseteq rows /\ (Readable(Database) <=> Readable(legacy))
  BY ReadableStays DEF StartInv
<1>4. ASSUME NEW p \in Starters, Lock(p) \/ LockTimesOut(p) \/ Stop(p)
      PROVE  StartInv'
  BY <1>3, <1>4, StartPlace DEF Lock, LockTimesOut, Stop, database, identity, IdleProc, Early
<1>5. ASSUME NEW p \in Starters, IdentifyAtOnce(p)
      PROVE  StartInv'
  <2>1. /\ procs[p] \in Proc /\ UNCHANGED <<backend, legacy>> /\ backend = "sqlite"
    BY <1>2, <1>5 DEF IdentifyAtOnce
  <2>2. CASE Refuse(p) /\ ~Readable(Database)
    BY <1>3, <2>1, <2>2, StartRefusal
  <2>3. CASE /\ Readable(Database)
             /\ columns' = columns \cup ElementsOf(IdentityElements)
             /\ WriteRows(Database, Targets(Database))
             /\ Goes(p, [procs[p] EXCEPT !.at = "migrating"])
    <3>1. Unseen([procs[p] EXCEPT !.at = "migrating"], columns', recorded')
      BY <2>1 DEF Unseen, Proc
    <3>2. legacy.rows \subseteq rows' /\ [procs[p] EXCEPT !.at = "migrating"].at = "migrating"
      BY <1>3, <2>1, <2>3 DEF WriteRows, Proc
    <3>3. QED
      BY <1>3, <2>1, <2>3, <3>1, <3>2, StartMove
  <2>4. QED
    BY <1>5, <2>2, <2>3 DEF IdentifyAtOnce
<1>6. ASSUME NEW p \in Starters, ReadColumns(p)
      PROVE  StartInv'
  <2>1. /\ procs[p] \in Proc /\ UNCHANGED <<backend, legacy, columns, recorded, rows>>
        /\ Goes(p, [procs[p] EXCEPT !.at = "altering", !.seen = columns])
    BY <1>2, <1>6 DEF ReadColumns, database, identity
  <2>2. Unseen([procs[p] EXCEPT !.at = "altering", !.seen = columns], columns', recorded')
    BY <2>1 DEF Unseen, Proc
  <2>3. [procs[p] EXCEPT !.at = "altering", !.seen = columns].at = "altering"
    BY <2>1 DEF Proc
  <2>4. QED
    BY <1>3, <2>1, <2>2, <2>3, StartMove DEF Early
<1>7. ASSUME NEW p \in Starters, AddIdentityElement(p)
      PROVE  StartInv'
  <2>1. /\ procs[p] \in Proc /\ UNCHANGED <<backend, legacy>> /\ AtWork(p)
        /\ procs[p].at = "altering" /\ columns \subseteq procs[p].seen
    BY <1>2, <1>7 DEF AddIdentityElement, AtWork, Unseen
  <2>2. PICK c \in ElementsOf(IdentityElements) :
          /\ NextMissing(c, IdentityElements, procs[p].seen)
          /\ IF c \in columns THEN Refuse(p)
             ELSE /\ columns' = columns \cup {c}
                  /\ Goes(p, [procs[p] EXCEPT !.seen = @ \cup {c}, !.altered = TRUE])
                  /\ UNCHANGED <<recorded, pointers, identity, lock>>
    BY <1>7 DEF AddIdentityElement
  <2>3. c \notin columns
    BY <2>1, <2>2, NextIsMissing
  <2>4. c # "document_id"
    BY DEF ElementsOf, IdentityElements
  <2>5. Unseen([procs[p] EXCEPT !.seen = @ \cup {c}, !.altered = TRUE], columns', recorded')
    BY <2>1, <2>2, <2>3 DEF Unseen, Proc
  <2>6. [procs[p] EXCEPT !.seen = @ \cup {c}, !.altered = TRUE].at = "altering"
    BY <2>1 DEF Proc
  <2>7. QED
    BY <1>3, <2>1, <2>2, <2>3, <2>4, <2>5, <2>6, StartMove DEF Early, identity
<1>8. ASSUME NEW p \in Starters, ReadSources(p)
      PROVE  StartInv'
  <2>1. procs[p] \in Proc /\ UNCHANGED <<backend, legacy>>
    BY <1>2, <1>8 DEF ReadSources
  <2>2. CASE Refuse(p) /\ ~Readable(Database)
    BY <1>3, <2>1, <2>2, StartRefusal
  <2>3. CASE /\ Readable(Database)
             /\ Goes(p, [procs[p] EXCEPT !.at = "writing", !.read = Database,
                                         !.left = Targets(Database)])
             /\ UNCHANGED <<database, lock>>
    <3>1. [procs[p] EXCEPT !.at = "writing", !.read = Database, !.left = Targets(Database)].at
            = "writing"
      BY <2>1 DEF Proc
    <3>2. QED
      BY <1>3, <2>1, <2>3, <3>1, StartPlace DEF database, identity
  <2>4. QED
    BY <1>8, <2>2, <2>3 DEF ReadSources
<1>9. ASSUME NEW p \in Starters, CommitIdentity(p) \/ FinishIdentity(p)
      PROVE  StartInv'
  <2>1. /\ procs[p] \in Proc /\ UNCHANGED <<backend, legacy, columns, recorded>>
        /\ procs[p].at = "writing" /\ Readable(legacy)
    BY <1>2, <1>9 DEF CommitIdentity, FinishIdentity, database, Early
  <2>2. legacy.rows \subseteq rows'
    BY <1>3, <1>9 DEF CommitIdentity, FinishIdentity, database, identity, WriteRows
  <2>3. CASE Goes(p, [procs[p] EXCEPT !.at = "migrating", !.left = {}])
    BY <2>1, <2>2, <2>3, StartPlace DEF Proc
  <2>4. CASE Goes(p, [procs[p] EXCEPT !.at = "migrating"])
    BY <2>1, <2>2, <2>4, StartPlace DEF Proc
  <2>5. QED
    BY <1>9, <2>3, <2>4 DEF CommitIdentity, FinishIdentity
<1>10. ASSUME NEW p \in Starters, NEW s \in Sources, WriteRow(p, s) \/ WriteKey(p, s)
       PROVE  StartInv'
  <2>1. /\ procs[p] \in Proc /\ UNCHANGED <<backend, legacy, columns, recorded>>
        /\ procs[p].at = "writing" /\ Readable(legacy)
    BY <1>2, <1>10 DEF WriteRow, WriteKey, Early
  <2>2. legacy.rows \subseteq rows'
    BY <1>3, <1>10 DEF WriteRow, WriteKey, WriteRows
  <2>3. CASE Goes(p, [procs[p] EXCEPT !.left = @ \ {s}, !.keying = {s}])
    BY <2>1, <2>2, <2>3, StartPlace DEF Proc
  <2>4. CASE Goes(p, [procs[p] EXCEPT !.keying = {}])
    BY <2>1, <2>2, <2>4, StartPlace DEF Proc
  <2>5. QED
    BY <1>10, <2>3, <2>4 DEF WriteRow, WriteKey
<1>11. ASSUME NEW p \in Starters, MigrateAtOnce(p)
       PROVE  StartInv'
  <2>1. /\ procs[p] \in Proc /\ UNCHANGED <<backend, legacy>> /\ backend = "sqlite"
        /\ procs[p].at = "migrating" /\ Readable(legacy)
    BY <1>2, <1>11 DEF MigrateAtOnce, Early
  <2>2. CASE Refuse(p) /\ Ambiguous
    BY <2>1, <2>2, StartRefusal
  <2>3. CASE /\ columns' = columns \cup UNION {ElementsOf(Elements[v]) : v \in Versions \ recorded}
             /\ Goes(p, [procs[p] EXCEPT !.at = "done"])
             /\ UNCHANGED <<identity, lock>>
    <3>1. [procs[p] EXCEPT !.at = "done"].at = "done"
      BY <2>1 DEF Proc
    <3>2. Unseen([procs[p] EXCEPT !.at = "done"], columns', recorded')
      BY <3>1 DEF Unseen
    <3>3. QED
      BY <1>3, <2>1, <2>3, <3>1, <3>2, StartMove DEF identity
  <2>4. QED
    BY <1>11, <2>2, <2>3 DEF MigrateAtOnce
<1>12. ASSUME NEW p \in Starters, CheckVersion(p)
       PROVE  StartInv'
  <2>1. /\ procs[p] \in Proc /\ UNCHANGED <<backend, legacy, columns, recorded, rows>>
        /\ procs[p].at = "migrating" /\ Readable(legacy)
    BY <1>2, <1>12 DEF CheckVersion, database, identity, Early
  <2>2. CASE Goes(p, [procs[p] EXCEPT !.version = @ + 1])
    BY <1>3, <2>1, <2>2, StartPlace DEF Proc
  <2>3. CASE /\ procs[p].version \notin recorded \cup procs[p].inserted
             /\ Goes(p, [procs[p] EXCEPT !.at = "adding", !.seen = columns])
    <3>1. Unseen([procs[p] EXCEPT !.at = "adding", !.seen = columns], columns', recorded')
      BY <2>1, <2>3 DEF Unseen, Proc
    <3>2. [procs[p] EXCEPT !.at = "adding", !.seen = columns].at = "adding"
      BY <2>1 DEF Proc
    <3>3. QED
      BY <1>3, <2>1, <2>3, <3>1, <3>2, StartMove
  <2>4. QED
    BY <1>12, <2>2, <2>3 DEF CheckVersion
<1>13. ASSUME NEW p \in Starters, AddElement(p)
       PROVE  StartInv'
  <2>1. /\ procs[p] \in Proc /\ UNCHANGED <<backend, legacy>> /\ AtWork(p)
        /\ procs[p].at = "adding" /\ procs[p].version \in Versions /\ Readable(legacy)
        /\ Unseen(procs[p], columns, recorded)
    BY <1>2, <1>13 DEF AddElement, AtWork, Early
  <2>2. PICK c \in ElementsOf(Elements[procs[p].version]) :
          /\ NextMissing(c, Elements[procs[p].version], procs[p].seen)
          /\ IF c \in columns \ Tables THEN Refuse(p)
             ELSE /\ columns' = columns \cup Created(c)
                  /\ recorded' = recorded \cup procs[p].inserted
                  /\ Goes(p, [procs[p] EXCEPT !.seen = @ \cup {c}, !.inserted = {}])
                  /\ UNCHANGED <<pointers, identity, lock>>
    BY <1>13 DEF AddElement
  <2>3. c \notin columns \ Tables
    BY <2>1, <2>2, NextIsMissing DEF Unseen
  <2>4. \A x \in ElementsOf(Elements[procs[p].version]) : x \in Created(c) => x = c
    <3>1. \A v \in Versions : "job" \in ElementsOf(Elements[v]) => "attempt" \notin ElementsOf(Elements[v])
      BY DEF ElementsOf, Elements, Versions
    <3>2. QED
      BY <2>1, <3>1 DEF Created
  <2>5. Unseen([procs[p] EXCEPT !.seen = @ \cup {c}, !.inserted = {}], columns', recorded')
    <3> DEFINE proc == [procs[p] EXCEPT !.seen = @ \cup {c}, !.inserted = {}]
    <3>1. /\ proc.at = "adding" /\ proc.version = procs[p].version
          /\ proc.seen = procs[p].seen \cup {c} /\ proc.inserted = {}
      BY <2>1 DEF Proc
    <3>2. \A x \in ElementsOf(Elements[proc.version]) : x \in columns' \ Tables => x \in proc.seen
      BY <2>1, <2>2, <2>3, <2>4, <3>1 DEF Unseen
    <3>3. proc.version \notin recorded' \cup proc.inserted
      BY <2>1, <2>2, <2>3, <3>1 DEF Unseen
    <3>4. QED
      BY <3>1, <3>2, <3>3 DEF Unseen
  <2>6. [procs[p] EXCEPT !.seen = @ \cup {c}, !.inserted = {}].at = "adding"
    BY <2>1 DEF Proc
  <2>7. QED
    BY <1>3, <2>1, <2>2, <2>3, <2>5, <2>6, StartMove DEF identity
<1>14. ASSUME NEW p \in Starters, RecordVersion(p)
       PROVE  StartInv'
  <2>1. /\ procs[p] \in Proc /\ UNCHANGED <<backend, legacy>>
        /\ procs[p].at = "adding" /\ Readable(legacy) /\ procs[p].version \notin recorded
    BY <1>2, <1>14 DEF RecordVersion, Early, Unseen
  <2>2. CASE Refuse(p) /\ Ambiguous
    BY <2>1, <2>2, StartRefusal
  <2>3. CASE /\ Goes(p, [procs[p] EXCEPT !.at = "migrating", !.inserted = @ \cup {procs[p].version},
                                         !.version = @ + 1])
             /\ UNCHANGED <<database, lock>>
    <3>1. [procs[p] EXCEPT !.at = "migrating", !.inserted = @ \cup {procs[p].version},
                           !.version = @ + 1].at = "migrating"
      BY <2>1 DEF Proc
    <3>2. QED
      BY <1>3, <2>1, <2>3, <3>1, StartPlace DEF database, identity
  <2>4. QED
    BY <1>14, <2>1, <2>2, <2>3 DEF RecordVersion
<1>15. ASSUME NEW p \in Starters, CommitVersions(p)
       PROVE  StartInv'
  <2>1. /\ procs[p].at = "migrating" /\ Readable(legacy) /\ AtWork(p)
        /\ UNCHANGED <<backend, legacy, columns, rows>>
        /\ Goes(p, [IdleProc EXCEPT !.at = "done"])
    BY <1>2, <1>15 DEF CommitVersions, AtWork, Early, identity
  <2>2. Unseen([IdleProc EXCEPT !.at = "done"], columns', recorded')
    BY DEF Unseen, IdleProc
  <2>3. QED
    BY <1>3, <2>1, <2>2, StartMove DEF IdleProc
<1>16. ASSUME NEW s \in Sources, NEW a \in Authorities, Decide(s, a)
       PROVE  StartInv'
  BY <1>1, <1>16 DEF Decide
<1>17. CASE UNCHANGED vars
  BY <1>1, <1>17 DEF vars, database, identity
<1>18. QED
  BY <1>4, <1>5, <1>6, <1>7, <1>8, <1>9, <1>10, <1>11, <1>12, <1>13, <1>14, <1>15, <1>16, <1>17
  DEF Next

\* Whatever starts were killed, gave up waiting or run at the same time, one that
\* gets the lock ends without an error, but for a database no start can bring up to
\* date; the others are late.
THEOREM StartsCanBeRepeated == Spec => []StartsAreRepeatable
<1>1. BaseInv /\ StartInv => StartsAreRepeatable
  BY DEF StartInv
<1>2. Init => BaseInv /\ StartInv
  BY InitBase, InitStart
<1>3. BaseInv /\ StartInv /\ [Next]_vars => (BaseInv /\ StartInv)'
  BY BaseKept, StartKept
<1>4. QED
  BY <1>1, <1>2, <1>3, PTL DEF Spec

-----------------------------------------------------------------------------
(* Sources survive.                                                        *)

\* Where the code keeps facts and rows together: not where MySQL commits the rows
\* it finds in facts one by one.
Keyed == backend = "sqlite" \/ legacy.rows # {}

\* The columns of the identity are added in order, so that without the last there
\* are no keys and no start has come to an end of the identity.
ColumnInv ==
  /\ "source_key" \in columns => ElementsOf(IdentityElements) \subseteq columns
  /\ "source_key" \notin columns => ~identified /\ \A s \in Sources : keys[s] = "none"

\* The facts of a source have the key of its row or none.
KeyInv ==
  Keyed =>
    /\ rows = {} \/ legacy.sources \subseteq rows
    /\ \A s \in legacy.sources : keys[s] \in {"none", RowKey(s)}

\* On SQLite, nothing is decided about a source without a row; every digest there
\* is to know is known after the first start.
DecidedInv ==
  backend = "sqlite" =>
    /\ \A s \in Sources \ rows : decided[s] = "REMOVED"
    /\ ~identified => authority = decided
    /\ identified => rows \cap legacy.documented \subseteq digests

DataInv == ColumnInv /\ KeyInv /\ DecidedInv /\ SourcesSurvive

\* A process that altered the schema is the first to identify sources, and what it
\* has not written yet has no key; one that did not alter it writes what it read.
Steady(p) ==
  /\ procs[p].at \in {"locked", "altering"} => procs[p].keying = {}
  /\ procs[p].at = "altering" =>
       /\ procs[p].seen = columns
       /\ procs[p].altered => ~identified /\ \A s \in Sources : keys[s] = "none"
  /\ procs[p].at = "writing" => "source_key" \in columns
  /\ procs[p].at = "writing" /\ ~procs[p].altered =>
       /\ procs[p].read.rows = rows /\ procs[p].read.digests = digests
       /\ procs[p].left = Targets(procs[p].read) /\ procs[p].keying = {}
  /\ procs[p].at = "writing" /\ procs[p].altered =>
       /\ ~identified /\ procs[p].left \cap procs[p].keying = {}
       /\ \A s, t \in procs[p].keying : s = t
       /\ \A s \in procs[p].left \cup procs[p].keying : keys[s] = "none"
       /\ \A s \in legacy.sources \ (procs[p].left \cup procs[p].keying) :
            Keyed => keys[s] = RowKey(s)
       /\ \A s \in rows \ (digests \cup procs[p].left) : authority[s] = "REMOVED"

IdentityInv == DataInv /\ \A p \in Starters : Steady(p)

LEMMA KeyIsNoVersion ==
  \A v \in Versions : "source_key" \notin ElementsOf(Elements[v])
  BY DEF ElementsOf, Elements, Versions

LEMMA KeyIsLast ==
  ASSUME NEW seen, NEW c, NextMissing(c, IdentityElements, seen)
  PROVE  /\ "source_key" \in seen => ~(ElementsOf(IdentityElements) \subseteq seen)
         /\ c = "source_key" => ElementsOf(IdentityElements) \subseteq seen \cup {c}
<1>1. DOMAIN IdentityElements = 1..3 /\ IdentityElements[3] = "source_key"
      /\ IdentityElements[1] = "content_sha256" /\ IdentityElements[2] = "source_owner"
  BY DEF IdentityElements
<1>2. PICK i \in 1..3 : /\ c = IdentityElements[i] /\ c \notin seen
                        /\ \A j \in 1..(i - 1) : IdentityElements[j] \in seen
  BY <1>1 DEF NextMissing
<1>3. c \in ElementsOf(IdentityElements) /\ c \notin seen
  BY NextIsMissing
<1>4. ASSUME c = "source_key"
      PROVE  ElementsOf(IdentityElements) \subseteq seen \cup {c}
  <2>1. i = 3
    <3>1. i = 1 \/ i = 2 \/ i = 3
      OBVIOUS
    <3>2. c # IdentityElements[1] /\ c # IdentityElements[2]
      BY <1>1, <1>4
    <3>3. c = IdentityElements[i]
      BY <1>2
    <3>4. QED
      BY <3>1, <3>2, <3>3
  <2>2. IdentityElements[1] \in seen /\ IdentityElements[2] \in seen
    BY <1>2, <2>1
  <2>3. QED
    BY <1>1, <1>4, <2>2 DEF ElementsOf
<1>5. QED
  BY <1>3, <1>4

LEMMA InitIdentity == Init => IdentityInv
<1> SUFFICES ASSUME Init
             PROVE  IdentityInv
  OBVIOUS
<1>1. IsLegacy(legacy)
  BY LegacyTyped DEF Init
<1>2. ColumnInv
  BY <1>1 DEF Init, ColumnInv, IsLegacy
<1>3. KeyInv
  BY <1>1 DEF Init, KeyInv, Keyed, IsLegacy
<1>4. DecidedInv
  BY <1>1 DEF Init, DecidedInv, IsLegacy
<1>5. \A p \in Starters : Steady(p)
  BY DEF Init, Steady, IdleProc
<1>6. QED
  BY <1>2, <1>3, <1>4, <1>5 DEF Init, IdentityInv, DataInv, SourcesSurvive

\* A process at work on MySQL is alone, and on SQLite nobody is between two steps.
LEMMA OthersSteady ==
  ASSUME BaseInv, IdentityInv, NEW p \in Starters, NEW proc, Goes(p, proc),
         \/ backend = "sqlite" \/ AtWork(p)
         \/ UNCHANGED <<backend, legacy, columns, rows, digests, authority, keys, identified>>
  PROVE  \A q \in Starters \ {p} : Steady(q)'
<1>1. \A q \in Starters \ {p} : procs'[q] = procs[q]
  BY Going
<1>2. ASSUME NEW q \in Starters \ {p}
      PROVE  Steady(q)'
  <2>1. procs'[q] = procs[q] /\ Steady(q)
    BY <1>1 DEF IdentityInv
  <2>2. CASE backend = "sqlite"
    <3>1. procs[q].at \notin {"altering", "writing"}
      BY <2>2, PlaceFacts
    <3>2. QED
      BY <2>1, <3>1 DEF Steady
  <2>3. CASE AtWork(p) /\ backend = "mysql"
    <3>1. procs[q].at \notin {"locked", "altering", "writing"}
      BY <2>3, OthersRest DEF AtWork
    <3>2. QED
      BY <2>1, <3>1 DEF Steady
  <2>4. CASE UNCHANGED <<backend, legacy, columns, rows, digests, authority, keys, identified>>
    BY <2>1, <2>4 DEF Steady, Targets, RowKey, Keyed
  <2>5. QED
    BY <2>2, <2>3, <2>4, PlaceFacts
<1>3. QED
  BY <1>2

\* Columns other than that of the key may be added.
LEMMA DataSame ==
  ASSUME DataInv,
         UNCHANGED <<backend, legacy, rows, digests, authority, keys, identified, decided>>,
         columns \subseteq columns', "source_key" \notin columns' \ columns
  PROVE  DataInv'
<1>1. \A s \in Sources \cup legacy.sources : RowKey(s)' = RowKey(s)
  BY DEF RowKey
<1>2. Keyed' <=> Keyed
  BY DEF Keyed
<1>3. ColumnInv'
  BY DEF DataInv, ColumnInv
<1>4. KeyInv'
  BY <1>1, <1>2 DEF DataInv, KeyInv
<1>5. DecidedInv'
  BY DEF DataInv, DecidedInv
<1>6. SourcesSurvive'
  BY <1>1 DEF DataInv, SourcesSurvive
<1>7. QED
  BY <1>3, <1>4, <1>5, <1>6 DEF DataInv

\* A process that goes where nothing of the identity is under way.
LEMMA Passing ==
  ASSUME BaseInv, IdentityInv, NEW p \in Starters, NEW proc, Goes(p, proc),
         UNCHANGED <<backend, legacy, rows, digests, authority, keys, identified, decided>>,
         columns \subseteq columns', "source_key" \notin columns' \ columns,
         backend = "sqlite" \/ AtWork(p) \/ UNCHANGED columns,
         proc.at \notin {"altering", "writing"},
         proc.at = "locked" => proc.keying = {}
  PROVE  IdentityInv'
<1>1. procs'[p] = proc
  BY Going
<1>2. Steady(p)'
  BY <1>1 DEF Steady
<1>3. QED
  BY <1>2, OthersSteady, DataSame DEF IdentityInv

LEMMA RefusalPasses ==
  ASSUME BaseInv, IdentityInv, NEW p \in Starters, Refuse(p),
         UNCHANGED <<backend, legacy, identified, decided>>
  PROVE  IdentityInv'
  BY Passing DEF Refuse, database, identity, IdleProc

LEMMA IdentifyKeepsIdentity ==
  ASSUME BaseInv, StartInv, IdentityInv, NEW p \in Starters, IdentifyAtOnce(p)
  PROVE  IdentityInv'
<1>1. /\ procs[p].at = "locked" /\ backend = "sqlite" /\ UNCHANGED <<backend, legacy, decided>>
      /\ procs[p] \in Proc
  BY PlaceFacts DEF IdentifyAtOnce
<1>2. CASE Refuse(p) /\ UNCHANGED identified
  BY <1>1, <1>2, RefusalPasses
<1>3. CASE /\ columns' = columns \cup ElementsOf(IdentityElements)
           /\ WriteRows(Database, Targets(Database))
           /\ WriteKeys(Database, Targets(Database), digests')
           /\ identified' = TRUE
           /\ Goes(p, [procs[p] EXCEPT !.at = "migrating"])
           /\ UNCHANGED <<recorded, pointers, lock>>
  <2> DEFINE S == Targets(Database)
  <2>1. /\ IsLegacy(legacy) /\ legacy.sources \subseteq Sources /\ rows \subseteq Sources
        /\ digests \subseteq rows /\ authority \in [Sources -> Authorities]
        /\ keys \in [Sources -> KeyKinds] /\ decided \in [Sources -> Authorities]
    BY BaseFacts DEF IsLegacy
  <2>2. S = IF rows = {} THEN legacy.sources ELSE rows
    BY DEF Targets, Database
  <2>3. /\ Database.rows = rows /\ Database.digests = digests /\ Database.authority = authority
    BY DEF Database
  <2>4. /\ rows' = rows \cup S
        /\ digests' = digests \cup {s \in S : s \in digests \cup legacy.documented}
        /\ authority' = [s \in Sources |->
             IF s \notin S THEN authority[s]
             ELSE IF s \in rows /\ s \in digests \cup legacy.documented
                    THEN authority[s] ELSE "REMOVED"]
    BY <1>3, <2>3 DEF WriteRows, Known
  <2>5. legacy.sources \subseteq S
    BY <1>1, <2>2 DEF IdentityInv, DataInv, KeyInv, Keyed
  <2>6. ASSUME NEW s \in legacy.sources
        PROVE  s \in rows' /\ keys'[s] = RowKey(s)'
    <3>1. keys[s] \in {"none", RowKey(s)}
      BY <1>1 DEF IdentityInv, DataInv, KeyInv, Keyed
    <3>2. keys'[s] = IF s \in digests' THEN "content" ELSE "path"
      BY <1>3, <2>1, <2>3, <2>5, <3>1 DEF WriteKeys, RowKey
    <3>3. QED
      BY <2>4, <2>5, <3>2 DEF RowKey
  <2>7. ASSUME NEW s \in rows' \ digests'
        PROVE  authority'[s] = "REMOVED"
    BY <2>1, <2>2, <2>4
  <2>8. \A s \in Sources \ rows' : decided'[s] = "REMOVED"
    BY <1>1, <2>4 DEF IdentityInv, DataInv, DecidedInv
  <2>9. rows' \cap legacy.documented \subseteq digests'
    BY <2>2, <2>4
  <2>10. ASSUME NEW s \in digests'
         PROVE  authority'[s] = decided'[s]
    <3>1. s \in Sources /\ s \in rows' /\ s \in digests \cup legacy.documented
      BY <2>1, <2>2, <2>4
    <3>2. CASE s \in rows
      <4>1. authority'[s] = authority[s]
        BY <2>4, <3>1, <3>2
      <4>2. CASE ~identified
        BY <1>1, <3>1, <4>1, <4>2 DEF IdentityInv, DataInv, DecidedInv
      <4>3. CASE identified
        <5>1. s \in digests
          BY <1>1, <3>1, <3>2, <4>3 DEF IdentityInv, DataInv, DecidedInv
        <5>2. QED
          BY <1>1, <4>1, <4>3, <5>1 DEF IdentityInv, DataInv, SourcesSurvive
      <4>4. QED
        BY <4>2, <4>3
    <3>3. CASE s \notin rows
      <4>1. s \in S
        BY <2>4, <3>1, <3>3
      <4>2. authority'[s] = "REMOVED"
        BY <2>4, <3>1, <3>3, <4>1
      <4>3. QED
        BY <1>1, <3>1, <3>3, <4>2 DEF IdentityInv, DataInv, DecidedInv
    <3>4. QED
      BY <3>2, <3>3
  <2>11. DecidedInv' /\ SourcesSurvive'
    <3>1. DecidedInv'
      BY <1>1, <1>3, <2>8, <2>9 DEF DecidedInv
    <3>2. SourcesSurvive'
      BY <1>1, <2>6, <2>7, <2>10 DEF SourcesSurvive
    <3>3. QED
      BY <3>1, <3>2
  <2>12. KeyInv'
    BY <1>1, <2>6 DEF KeyInv
  <2>13. ColumnInv'
    BY <1>3 DEF ColumnInv, ElementsOf, IdentityElements
  <2>14. [procs[p] EXCEPT !.at = "migrating"].at = "migrating" /\ procs'[p].at = "migrating"
    BY <1>1, <1>3, Going DEF Proc
  <2>15. Steady(p)'
    BY <2>14 DEF Steady
  <2>16. QED
    BY <1>1, <1>3, <2>11, <2>12, <2>13, <2>15, OthersSteady DEF IdentityInv, DataInv
<1>4. QED
  BY <1>2, <1>3 DEF IdentifyAtOnce

LEMMA AlteringKeepsIdentity ==
  ASSUME BaseInv, StartInv, IdentityInv, NEW p \in Starters,
         ReadColumns(p) \/ AddIdentityElement(p) \/ ReadSources(p)
  PROVE  IdentityInv'
<1>1. procs[p] \in Proc /\ Steady(p) /\ AtWork(p) /\ UNCHANGED <<backend, legacy, identified, decided>>
  BY PlaceFacts DEF IdentityInv, ReadColumns, AddIdentityElement, ReadSources, AtWork
<1>2. CASE ReadColumns(p)
  <2>1. /\ procs'[p] = [procs[p] EXCEPT !.at = "altering", !.seen = columns]
        /\ UNCHANGED <<columns, rows, digests, authority, keys>> /\ procs[p].at = "locked"
        /\ Goes(p, [procs[p] EXCEPT !.at = "altering", !.seen = columns])
    BY <1>2, Going DEF ReadColumns, database, identity
  <2>2. ~procs[p].altered
    BY <2>1 DEF BaseInv, PlacesInv
  <2>3. Steady(p)'
    BY <1>1, <2>1, <2>2 DEF Steady, Proc
  <2>4. QED
    BY <1>1, <2>1, <2>3, OthersSteady, DataSame DEF IdentityInv
<1>3. CASE AddIdentityElement(p)
  <2>1. PICK c \in ElementsOf(IdentityElements) :
          /\ NextMissing(c, IdentityElements, procs[p].seen)
          /\ IF c \in columns THEN Refuse(p)
             ELSE /\ columns' = columns \cup {c}
                  /\ Goes(p, [procs[p] EXCEPT !.seen = @ \cup {c}, !.altered = TRUE])
                  /\ UNCHANGED <<recorded, pointers, identity, lock>>
    BY <1>3 DEF AddIdentityElement
  <2>2. CASE Refuse(p)
    BY <1>1, <2>2, RefusalPasses
  <2>3. CASE /\ columns' = columns \cup {c}
             /\ Goes(p, [procs[p] EXCEPT !.seen = @ \cup {c}, !.altered = TRUE])
             /\ UNCHANGED <<recorded, pointers, identity, lock>>
    <3>1. /\ procs[p].at = "altering" /\ procs[p].seen = columns
          /\ procs'[p] = [procs[p] EXCEPT !.seen = @ \cup {c}, !.altered = TRUE]
          /\ UNCHANGED <<rows, digests, authority, keys>> /\ procs[p].keying = {}
      BY <1>1, <1>3, <2>3, Going DEF AddIdentityElement, Steady, identity
    <3>2. /\ "source_key" \notin columns
          /\ c = "source_key" => ElementsOf(IdentityElements) \subseteq columns'
      BY <2>1, <2>3, <3>1, KeyIsLast DEF IdentityInv, DataInv, ColumnInv
    <3>3. ~identified /\ \A s \in Sources : keys[s] = "none"
      BY <3>2 DEF IdentityInv, DataInv, ColumnInv
    <3>4. Steady(p)'
      BY <1>1, <2>3, <3>1, <3>3 DEF Steady, Proc
    <3>5. ColumnInv'
      BY <1>1, <2>3, <3>1, <3>2, <3>3 DEF ColumnInv
    <3>6. KeyInv' /\ DecidedInv' /\ SourcesSurvive'
      BY <1>1, <3>1, <3>3 DEF IdentityInv, DataInv, KeyInv, DecidedInv, SourcesSurvive, Keyed, RowKey
    <3>7. QED
      BY <1>1, <2>3, <3>4, <3>5, <3>6, OthersSteady DEF IdentityInv, DataInv
  <2>4. QED
    BY <2>1, <2>2, <2>3
<1>4. CASE ReadSources(p)
  <2>1. CASE Refuse(p)
    BY <1>1, <2>1, RefusalPasses
  <2>2. CASE /\ Goes(p, [procs[p] EXCEPT !.at = "writing", !.read = Database,
                                         !.left = Targets(Database)])
             /\ UNCHANGED <<database, lock>>
    <3>1. /\ procs[p].at = "altering" /\ procs[p].keying = {} /\ procs[p].seen = columns
          /\ ElementsOf(IdentityElements) \subseteq procs[p].seen
          /\ procs'[p] = [procs[p] EXCEPT !.at = "writing", !.read = Database,
                                          !.left = Targets(Database)]
          /\ UNCHANGED <<columns, rows, digests, authority, keys>>
      BY <1>1, <1>4, <2>2, Going DEF ReadSources, Steady, database, identity
    <3>2. "source_key" \in columns
      BY <3>1 DEF ElementsOf, IdentityElements
    <3>3. /\ Database.rows = rows /\ Database.digests = digests
          /\ Targets(Database) = IF rows = {} THEN legacy.sources ELSE rows
      BY DEF Targets, Database
    <3>4. /\ legacy.sources \subseteq Sources /\ rows \subseteq Sources
          /\ backend = "mysql"
          /\ Keyed => legacy.sources \subseteq rows
      <4>1. legacy.rows \subseteq rows /\ IsLegacy(legacy) /\ backend = "mysql"
        BY <3>1, BaseFacts, PlaceFacts DEF StartInv
      <4>2. QED
        BY <4>1, BaseFacts DEF IsLegacy, Keyed
    <3>5. \A s \in legacy.sources \ Targets(Database) : ~Keyed
      BY <3>3, <3>4
    <3>6. \A s \in rows : s \in Targets(Database)
      BY <3>3
    <3>7. /\ procs'[p].at = "writing" /\ procs'[p].left = Targets(Database)
          /\ procs'[p].read = Database /\ procs'[p].keying = {}
          /\ procs'[p].altered = procs[p].altered
      BY <1>1, <3>1 DEF Proc
    <3>8. procs[p].altered => ~identified /\ \A s \in Sources : keys[s] = "none"
      BY <1>1, <3>1 DEF Steady
    <3>9. Targets(Database)' = Targets(Database) /\ (Keyed' <=> Keyed) /\ Targets(Database) \subseteq Sources
      BY <1>1, <3>1, <3>3, <3>4 DEF Targets, Database, Keyed
    <3>10. Targets(procs[p].read)' = Targets(Database)
      BY <1>1, <3>3, <3>7 DEF Targets
    <3>11. Steady(p)'
      <4>1. CASE ~procs[p].altered
        BY <3>1, <3>2, <3>3, <3>7, <3>10, <4>1 DEF Steady
      <4>2. CASE procs[p].altered
        <5>1. ~identified' /\ \A s \in procs'[p].left \cup procs'[p].keying : keys'[s] = "none"
          BY <1>1, <3>1, <3>7, <3>8, <3>9, <4>2
        <5>2. \A s \in legacy'.sources \ (procs'[p].left \cup procs'[p].keying) : ~Keyed'
          BY <1>1, <3>5, <3>7, <3>9
        <5>3. \A s \in rows' : s \in procs'[p].left
          BY <3>1, <3>6, <3>7
        <5>4. QED
          BY <3>1, <3>2, <3>7, <4>2, <5>1, <5>2, <5>3 DEF Steady
      <4>3. QED
        BY <1>1, <4>1, <4>2 DEF Proc
    <3>12. QED
      BY <1>1, <2>2, <3>1, <3>11, OthersSteady, DataSame DEF IdentityInv
  <2>3. QED
    BY <1>4, <2>1, <2>2 DEF ReadSources
<1>5. QED
  BY <1>2, <1>3, <1>4

\* Where facts and rows are kept together, a source of facts keeps its row on MySQL.
LEMMA RowsOfFacts ==
  ASSUME BaseInv, StartInv, backend = "mysql"
  PROVE  /\ Keyed => legacy.sources \subseteq rows /\ rows # {}
         /\ legacy.sources \subseteq Sources /\ rows \subseteq Sources /\ digests \subseteq rows
         /\ keys \in [Sources -> KeyKinds] /\ authority \in [Sources -> Authorities]
<1>1. legacy.rows \subseteq rows /\ IsLegacy(legacy)
  BY BaseFacts DEF StartInv
<1>2. QED
  BY <1>1, BaseFacts DEF IsLegacy, Keyed

LEMMA CommitKeepsIdentity ==
  ASSUME BaseInv, StartInv, IdentityInv, NEW p \in Starters, CommitIdentity(p)
  PROVE  IdentityInv'
<1> DEFINE read == procs[p].read
<1> DEFINE S == procs[p].left
<1>1. /\ procs[p] \in Proc /\ Steady(p) /\ AtWork(p) /\ backend = "mysql"
      /\ procs[p].at = "writing" /\ ~procs[p].altered
      /\ UNCHANGED <<backend, legacy, columns, decided>> /\ identified' = TRUE
      /\ WriteRows(read, S) /\ WriteKeys(read, S, digests')
      /\ Goes(p, [procs[p] EXCEPT !.at = "migrating", !.left = {}])
  BY PlaceFacts DEF IdentityInv, CommitIdentity, AtWork
<1>2. /\ read.rows = rows /\ read.digests = digests /\ "source_key" \in columns
      /\ S = IF rows = {} THEN legacy.sources ELSE rows
  BY <1>1 DEF Steady, Targets
<1>3. /\ Keyed => legacy.sources \subseteq rows /\ rows # {}
      /\ legacy.sources \subseteq Sources /\ rows \subseteq Sources /\ digests \subseteq rows
      /\ keys \in [Sources -> KeyKinds] /\ authority \in [Sources -> Authorities]
  BY <1>1, RowsOfFacts
<1>4. /\ rows' = rows \cup S
      /\ digests' = digests \cup {s \in S : s \in digests \cup legacy.documented}
      /\ authority' = [s \in Sources |->
           IF s \notin S THEN authority[s]
           ELSE IF s \in rows /\ s \in digests \cup legacy.documented
                  THEN read.authority[s] ELSE "REMOVED"]
  BY <1>1, <1>2 DEF WriteRows, Known
<1>5. ASSUME Keyed, NEW s \in legacy.sources
      PROVE  s \in rows' /\ keys'[s] = RowKey(s)'
  <2>1. keys[s] \in {"none", RowKey(s)} /\ s \in S
    BY <1>2, <1>3, <1>5 DEF IdentityInv, DataInv, KeyInv
  <2>2. keys'[s] = IF s \in digests' THEN "content" ELSE "path"
    BY <1>1, <1>2, <1>3, <1>5, <2>1 DEF WriteKeys, RowKey
  <2>3. QED
    BY <1>4, <2>1, <2>2 DEF RowKey
<1>6. \A s \in rows' \ digests' : authority'[s] = "REMOVED"
  BY <1>2, <1>3, <1>4
<1>7. ColumnInv' /\ DecidedInv'
  BY <1>1, <1>2 DEF IdentityInv, DataInv, ColumnInv, DecidedInv
<1>8. KeyInv' /\ SourcesSurvive'
  <2>1. Keyed' <=> Keyed
    BY <1>1 DEF Keyed
  <2>2. KeyInv'
    BY <1>1, <1>5, <2>1 DEF KeyInv
  <2>3. SourcesSurvive'
    BY <1>1, <1>5, <1>6 DEF SourcesSurvive, Keyed
  <2>4. QED
    BY <2>2, <2>3
<1>9. procs'[p].at = "migrating"
  <2>1. procs'[p] = [procs[p] EXCEPT !.at = "migrating", !.left = {}]
    BY <1>1, Going
  <2>2. QED
    BY <1>1, <2>1 DEF Proc
<1>10. Steady(p)'
  BY <1>9 DEF Steady
<1>11. QED
  BY <1>1, <1>7, <1>8, <1>10, OthersSteady DEF IdentityInv, DataInv

LEMMA WriteRowKeepsIdentity ==
  ASSUME BaseInv, StartInv, IdentityInv, NEW p \in Starters, NEW s \in Sources, WriteRow(p, s)
  PROVE  IdentityInv'
<1> DEFINE read == procs[p].read
<1>1. /\ procs[p] \in Proc /\ Steady(p) /\ AtWork(p) /\ backend = "mysql"
      /\ procs[p].at = "writing" /\ procs[p].altered /\ s \in procs[p].left /\ procs[p].keying = {}
      /\ UNCHANGED <<backend, legacy, columns, keys, identified, decided>>
      /\ WriteRows(read, {s})
      /\ Goes(p, [procs[p] EXCEPT !.left = @ \ {s}, !.keying = {s}])
  BY PlaceFacts DEF IdentityInv, WriteRow, AtWork
<1>2. /\ ~identified /\ "source_key" \in columns /\ \A x \in procs[p].left : keys[x] = "none"
      /\ \A x \in legacy.sources \ procs[p].left : Keyed => keys[x] = RowKey(x)
      /\ \A x \in rows \ (digests \cup procs[p].left) : authority[x] = "REMOVED"
  BY <1>1 DEF Steady
<1>3. /\ Keyed => legacy.sources \subseteq rows /\ rows # {}
      /\ legacy.sources \subseteq Sources /\ rows \subseteq Sources /\ digests \subseteq rows
      /\ authority \in [Sources -> Authorities]
  BY <1>1, RowsOfFacts
<1>4. /\ rows' = rows \cup {s} /\ digests \subseteq digests' /\ digests' \subseteq digests \cup {s}
      /\ s \notin digests' => authority'[s] = "REMOVED"
      /\ \A x \in Sources \ {s} : authority'[x] = authority[x]
  <2>1. /\ rows' = rows \cup {s} /\ digests' = digests \cup {x \in {s} : Known(read, x)}
        /\ authority' = [x \in Sources |->
             IF x \notin {s} THEN authority[x]
             ELSE IF x \in read.rows /\ Known(read, x) THEN read.authority[x] ELSE "REMOVED"]
    BY <1>1 DEF WriteRows
  <2>2. s \notin digests' => ~Known(read, s)
    BY <2>1
  <2>3. s \notin digests' => authority'[s] = "REMOVED"
    BY <2>1, <2>2
  <2>4. QED
    BY <2>1, <2>3
<1>5. \A x \in legacy.sources \ {s} : RowKey(x)' = RowKey(x)
  BY <1>4 DEF RowKey
<1>6. /\ procs'[p].at = "writing" /\ procs'[p].altered
      /\ procs'[p].left = procs[p].left \ {s} /\ procs'[p].keying = {s}
  <2>1. procs'[p] = [procs[p] EXCEPT !.left = @ \ {s}, !.keying = {s}]
    BY <1>1, Going
  <2>2. QED
    BY <1>1, <2>1 DEF Proc
<1>7. Keyed' <=> Keyed
  BY <1>1 DEF Keyed
<1>8. Steady(p)'
  <2>1. \A x \in procs'[p].left \cup procs'[p].keying : keys'[x] = "none"
    BY <1>1, <1>2, <1>6
  <2>2. \A x \in legacy'.sources \ (procs'[p].left \cup procs'[p].keying) :
          Keyed' => keys'[x] = RowKey(x)'
    BY <1>1, <1>2, <1>5, <1>6, <1>7
  <2>3. \A x \in rows' \ (digests' \cup procs'[p].left) : authority'[x] = "REMOVED"
    BY <1>2, <1>3, <1>4, <1>6
  <2>4. QED
    BY <1>1, <1>2, <1>6, <2>1, <2>2, <2>3 DEF Steady
<1>9. KeyInv'
  <2>1. Keyed => \A x \in legacy.sources : keys'[x] \in {"none", RowKey(x)'}
    BY <1>1, <1>2, <1>5 DEF IdentityInv, DataInv, KeyInv
  <2>2. QED
    BY <1>1, <1>3, <1>4, <1>7, <2>1 DEF KeyInv
<1>10. ColumnInv' /\ DecidedInv' /\ SourcesSurvive'
  BY <1>1, <1>2 DEF IdentityInv, DataInv, ColumnInv, DecidedInv, SourcesSurvive
<1>11. QED
  BY <1>1, <1>8, <1>9, <1>10, OthersSteady DEF IdentityInv, DataInv

LEMMA WriteKeyKeepsIdentity ==
  ASSUME BaseInv, StartInv, IdentityInv, NEW p \in Starters, NEW s \in Sources, WriteKey(p, s)
  PROVE  IdentityInv'
<1> DEFINE read == procs[p].read
<1>1. /\ procs[p] \in Proc /\ Steady(p) /\ AtWork(p) /\ backend = "mysql"
      /\ procs[p].at = "writing" /\ s \in procs[p].keying
      /\ UNCHANGED <<backend, legacy, columns, rows, digests, authority, identified, decided>>
      /\ WriteKeys(read, {s}, digests)
      /\ Goes(p, [procs[p] EXCEPT !.keying = {}])
  BY PlaceFacts DEF IdentityInv, WriteKey, AtWork
<1>2. procs[p].altered
  BY <1>1 DEF Steady, Proc
<1>3. /\ ~identified /\ "source_key" \in columns /\ procs[p].left \cap procs[p].keying = {}
      /\ procs[p].left \subseteq Sources /\ procs[p].keying = {s}
      /\ \A x \in procs[p].left \cup procs[p].keying : keys[x] = "none"
      /\ \A x \in legacy.sources \ (procs[p].left \cup procs[p].keying) : Keyed => keys[x] = RowKey(x)
      /\ \A x \in rows \ (digests \cup procs[p].left) : authority[x] = "REMOVED"
  BY <1>1, <1>2 DEF Steady, Proc
<1>4. /\ Keyed => legacy.sources \subseteq rows
      /\ legacy.sources \subseteq Sources /\ keys \in [Sources -> KeyKinds]
  BY <1>1, RowsOfFacts
<1>5. /\ s \in legacy.sources => keys'[s] = RowKey(s)
      /\ \A x \in Sources \ {s} : keys'[x] = keys[x]
  BY <1>1, <1>3 DEF WriteKeys, RowKey
<1>6. /\ procs'[p].at = "writing" /\ procs'[p].altered
      /\ procs'[p].left = procs[p].left /\ procs'[p].keying = {}
  BY <1>1, <1>2, Going DEF Proc
<1>7. /\ Keyed' <=> Keyed
      /\ \A x \in legacy.sources : RowKey(x)' = RowKey(x)
  BY <1>1 DEF Keyed, RowKey
<1>8. Steady(p)'
  <2>1. \A x \in procs'[p].left \cup procs'[p].keying : keys'[x] = "none"
    BY <1>1, <1>3, <1>4, <1>5, <1>6
  <2>2. \A x \in legacy'.sources \ (procs'[p].left \cup procs'[p].keying) :
          Keyed' => keys'[x] = RowKey(x)'
    BY <1>1, <1>3, <1>4, <1>5, <1>6, <1>7
  <2>3. \A x \in rows' \ (digests' \cup procs'[p].left) : authority'[x] = "REMOVED"
    BY <1>1, <1>3, <1>6
  <2>4. QED
    BY <1>1, <1>3, <1>6, <2>1, <2>2, <2>3 DEF Steady
<1>9. KeyInv'
  <2>1. Keyed => \A x \in legacy.sources : keys'[x] \in {"none", RowKey(x)}
    BY <1>4, <1>5 DEF IdentityInv, DataInv, KeyInv
  <2>2. QED
    BY <1>1, <1>4, <1>7, <2>1 DEF KeyInv
<1>10. ColumnInv' /\ DecidedInv' /\ SourcesSurvive'
  BY <1>1, <1>3 DEF IdentityInv, DataInv, ColumnInv, DecidedInv, SourcesSurvive
<1>11. QED
  BY <1>1, <1>8, <1>9, <1>10, OthersSteady DEF IdentityInv, DataInv

LEMMA FinishKeepsIdentity ==
  ASSUME BaseInv, StartInv, IdentityInv, NEW p \in Starters, FinishIdentity(p)
  PROVE  IdentityInv'
<1>1. /\ procs[p] \in Proc /\ Steady(p) /\ AtWork(p) /\ backend = "mysql"
      /\ procs[p].at = "writing" /\ procs[p].altered
      /\ procs[p].left = {} /\ procs[p].keying = {}
      /\ UNCHANGED <<backend, legacy, columns, rows, digests, authority, keys, decided>>
      /\ identified' = TRUE
      /\ Goes(p, [procs[p] EXCEPT !.at = "migrating"])
  BY PlaceFacts DEF IdentityInv, FinishIdentity, AtWork, database, identity
<1>2. /\ "source_key" \in columns
      /\ \A x \in legacy.sources : Keyed => keys[x] = RowKey(x)
      /\ \A x \in rows \ digests : authority[x] = "REMOVED"
  BY <1>1 DEF Steady
<1>3. Keyed => legacy.sources \subseteq rows
  BY <1>1, RowsOfFacts
<1>4. /\ Keyed' <=> Keyed
      /\ \A x \in legacy.sources : RowKey(x)' = RowKey(x)
  BY <1>1 DEF Keyed, RowKey
<1>5. SourcesSurvive'
  BY <1>1, <1>2, <1>3, <1>4 DEF SourcesSurvive, Keyed
<1>6. ColumnInv' /\ KeyInv' /\ DecidedInv'
  BY <1>1, <1>2, <1>4 DEF IdentityInv, DataInv, ColumnInv, KeyInv, DecidedInv
<1>7. procs'[p].at = "migrating"
  BY <1>1, Going DEF Proc
<1>8. Steady(p)'
  BY <1>7 DEF Steady
<1>9. QED
  BY <1>1, <1>5, <1>6, <1>8, OthersSteady DEF IdentityInv, DataInv

LEMMA VersionsKeepIdentity ==
  ASSUME BaseInv, IdentityInv, NEW p \in Starters,
         MigrateAtOnce(p) \/ CheckVersion(p) \/ AddElement(p) \/ RecordVersion(p)
         \/ CommitVersions(p)
  PROVE  IdentityInv'
<1>1. /\ procs[p] \in Proc /\ AtWork(p) /\ UNCHANGED <<backend, legacy, identified, decided>>
      /\ procs[p].at \in {"migrating", "adding"}
      /\ procs[p].at = "adding" => procs[p].version \in Versions
  BY PlaceFacts
  DEF MigrateAtOnce, CheckVersion, AddElement, RecordVersion, CommitVersions, AtWork
<1>2. CASE Refuse(p)
  BY <1>1, <1>2, RefusalPasses
<1>3. CASE MigrateAtOnce(p) /\ ~Refuse(p)
  <2>1. /\ columns' = columns \cup UNION {ElementsOf(Elements[v]) : v \in Versions \ recorded}
        /\ Goes(p, [procs[p] EXCEPT !.at = "done"]) /\ UNCHANGED <<rows, digests, authority, keys>>
    BY <1>3 DEF MigrateAtOnce, identity
  <2>2. "source_key" \notin UNION {ElementsOf(Elements[v]) : v \in Versions \ recorded}
    BY KeyIsNoVersion
  <2>3. [procs[p] EXCEPT !.at = "done"].at = "done"
    BY <1>1 DEF Proc
  <2>4. QED
    BY <1>1, <2>1, <2>2, <2>3, Passing
<1>4. CASE CheckVersion(p)
  <2>1. UNCHANGED <<columns, rows, digests, authority, keys>>
    BY <1>4 DEF CheckVersion, database, identity
  <2>2. CASE Goes(p, [procs[p] EXCEPT !.version = @ + 1])
    BY <1>1, <2>1, <2>2, Passing DEF Proc
  <2>3. CASE Goes(p, [procs[p] EXCEPT !.at = "adding", !.seen = columns])
    BY <1>1, <2>1, <2>3, Passing DEF Proc
  <2>4. QED
    BY <1>4, <2>2, <2>3 DEF CheckVersion
<1>5. CASE AddElement(p) /\ ~Refuse(p)
  <2>1. PICK c \in ElementsOf(Elements[procs[p].version]) :
          /\ columns' = columns \cup Created(c)
          /\ Goes(p, [procs[p] EXCEPT !.seen = @ \cup {c}, !.inserted = {}])
          /\ UNCHANGED <<rows, digests, authority, keys>>
    BY <1>5 DEF AddElement, identity
  <2>2. procs[p].version \in Versions
    BY <1>1, <1>5 DEF AddElement
  <2>3. "source_key" \notin Created(c)
    BY <2>1, <2>2, KeyIsNoVersion DEF Created
  <2>4. QED
    BY <1>1, <2>1, <2>3, Passing DEF Proc
<1>6. CASE RecordVersion(p) /\ ~Refuse(p)
  <2>1. /\ UNCHANGED <<columns, rows, digests, authority, keys>>
        /\ Goes(p, [procs[p] EXCEPT !.at = "migrating", !.inserted = @ \cup {procs[p].version},
                                    !.version = @ + 1])
    BY <1>6 DEF RecordVersion, database, identity
  <2>2. QED
    BY <1>1, <2>1, Passing DEF Proc
<1>7. CASE CommitVersions(p)
  BY <1>1, <1>7, Passing DEF CommitVersions, identity, IdleProc
<1>8. QED
  BY <1>2, <1>3, <1>4, <1>5, <1>6, <1>7

LEMMA DecideKeepsIdentity ==
  ASSUME BaseInv, IdentityInv, NEW s \in Sources, NEW a \in Authorities, Decide(s, a)
  PROVE  IdentityInv'
<1>1. /\ identified /\ s \in digests
      /\ authority' = [authority EXCEPT ![s] = a] /\ decided' = [decided EXCEPT ![s] = a]
      /\ UNCHANGED <<backend, legacy, columns, rows, digests, keys, procs, identified>>
      /\ authority \in [Sources -> Authorities] /\ decided \in [Sources -> Authorities]
      /\ digests \subseteq rows /\ rows \subseteq Sources /\ legacy.sources \subseteq Sources
  BY BaseFacts DEF Decide, IsLegacy
<1>2. ASSUME NEW p \in Starters
      PROVE  Steady(p)'
  <2>1. Steady(p)
    BY DEF IdentityInv
  <2>2. procs[p].at \in {"altering", "writing"} => ~procs[p].altered
    BY <1>1, <2>1, PlaceFacts DEF Steady, Proc
  <2>3. QED
    BY <1>1, <2>1, <2>2 DEF Steady, Targets
<1>3. /\ Keyed' <=> Keyed
      /\ \A x \in Sources : RowKey(x)' = RowKey(x)
  BY <1>1 DEF Keyed, RowKey
<1>4. ColumnInv' /\ KeyInv'
  BY <1>1, <1>3 DEF IdentityInv, DataInv, ColumnInv, KeyInv
<1>5. DecidedInv'
  BY <1>1 DEF IdentityInv, DataInv, DecidedInv
<1>6. SourcesSurvive'
  BY <1>1, <1>3 DEF IdentityInv, DataInv, SourcesSurvive
<1>7. QED
  BY <1>2, <1>4, <1>5, <1>6 DEF IdentityInv, DataInv

LEMMA IdentityKept ==
  ASSUME BaseInv, StartInv, IdentityInv, [Next]_vars
  PROVE  IdentityInv'
<1>1. ASSUME NEW p \in Starters, Lock(p) \/ LockTimesOut(p) \/ Stop(p)
      PROVE  IdentityInv'
  BY <1>1, Passing DEF Lock, LockTimesOut, Stop, database, identity, IdleProc
<1>2. ASSUME NEW p \in Starters,
             ReadColumns(p) \/ AddIdentityElement(p) \/ ReadSources(p)
      PROVE  IdentityInv'
  BY <1>2, AlteringKeepsIdentity
<1>3. ASSUME NEW p \in Starters,
             MigrateAtOnce(p) \/ CheckVersion(p) \/ AddElement(p) \/ RecordVersion(p)
             \/ CommitVersions(p)
      PROVE  IdentityInv'
  BY <1>3, VersionsKeepIdentity
<1>4. CASE UNCHANGED vars
  <2>1. UNCHANGED <<backend, legacy, columns, rows, digests, authority, keys, procs, identified,
                    decided>>
    BY <1>4 DEF vars, database, identity
  <2>2. DataInv'
    BY <2>1, DataSame DEF IdentityInv
  <2>3. \A p \in Starters : Steady(p)'
    BY <2>1 DEF IdentityInv, Steady, Targets, RowKey, Keyed
  <2>4. QED
    BY <2>2, <2>3 DEF IdentityInv
<1>5. QED
  BY <1>1, <1>2, <1>3, <1>4, IdentifyKeepsIdentity, CommitKeepsIdentity, WriteRowKeepsIdentity,
     WriteKeyKeepsIdentity, FinishKeepsIdentity, DecideKeepsIdentity
  DEF Next

\* What the identity migration leaves, through kills and other starts: rows and keys
\* that agree, no authority without a digest, and on SQLite every decision.
THEOREM IdentityIsKept == Spec => []SourcesSurvive
<1>1. BaseInv /\ StartInv /\ IdentityInv => SourcesSurvive
  BY DEF IdentityInv, DataInv
<1>2. Init => BaseInv /\ StartInv /\ IdentityInv
  BY InitBase, InitStart, InitIdentity
<1>3. BaseInv /\ StartInv /\ IdentityInv /\ [Next]_vars => (BaseInv /\ StartInv /\ IdentityInv)'
  BY BaseKept, StartKept, IdentityKept
<1>4. QED
  BY <1>1, <1>2, <1>3, PTL DEF Spec

=============================================================================
