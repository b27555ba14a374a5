------------------------- MODULE BatchIngestionProofs -------------------------
(* Proofs about BatchIngestion, for every directory, every content its files *)
(* may have one after the other and every sequence of extractor versions:    *)
(* what is stored under a digest was read from those bytes, what the state   *)
(* file calls parsed is stored wherever runs are killed, the CURRENT sources *)
(* are the best reports of the directory, and a run that has committed has   *)
(* accounted for every file.                                                 *)
EXTENDS BatchIngestion, TLAPS

-----------------------------------------------------------------------------
(* The inductive invariant.                                                *)

\* Before the parsing nothing is planned, read or waiting to be written.
EarlyIsEmpty ==
  /\ run.at = "idle" => run = IdleRun
  /\ run.at \in {"idle", "listed", "selected"} =>
       run.pending = {} /\ run.todo = {} /\ run.read = NoContent
  /\ \A p \in run.selected : run.listed[p] # 0 /\ run.known[p] # 0

\* A file only moves on to later contents, so what was read lies between what was
\* signed and what is on disk.
ReadInOrder ==
  \A p \in Reports :
    /\ run.listed[p] <= disk[p].content
    /\ run.read[p] # 0 => run.listed[p] <= run.read[p] /\ run.read[p] <= disk[p].content

\* What waits to be written was read from the bytes that were signed.
PendingIsRead ==
  \A p \in run.pending :
    /\ p \notin run.todo
    /\ run.listed[p] # 0 /\ run.read[p] = run.listed[p]
    /\ About[p][run.listed[p]].yield # "short"
    /\ run.memory[p].content = run.listed[p] /\ run.memory[p].extractor = extractor

\* The installed program is the latest that has stored anything.
VersionsPast == \A p \in Reports, c \in Contents : stored[p][c].version <= extractor

\* Past upsert_financial_facts the facts of what was parsed are stored.
UpsertedIsStored ==
  run.at \in {"upserted", "refreshed", "committed"} =>
    \A p \in run.pending :
      About[p][run.listed[p]].yield = "facts" => stored[p][run.listed[p]].version = extractor

\* An entry that may be skipped has its facts.
Licensed(p, entry) ==
  entry.status = "parsed" =>
    /\ entry.content \in Contents
    /\ \/ About[p][entry.content].yield = "none"
       \/ stored[p][entry.content].version >= entry.extractor

LicensesHold ==
  \A p \in Reports : Licensed(p, entries[p]) /\ Licensed(p, run.memory[p])

BatchInv ==
  /\ BatchTypeOK
  /\ EarlyIsEmpty
  /\ ReadInOrder
  /\ PendingIsRead
  /\ VersionsPast
  /\ UpsertedIsStored
  /\ LicensesHold
  /\ FactsMatchBytes

-----------------------------------------------------------------------------
(* Types.                                                                  *)

LEMMA Bounds ==
  /\ MaxContent \in Nat \ {0} /\ MaxVersion \in Nat \ {0}
  /\ Contents = 1..MaxContent /\ ExtractorVersions = 1..MaxVersion
  /\ \A p \in Reports, c \in Contents :
       /\ About[p][c] \in Metadata
       /\ About[p][c].yield \in Yields /\ About[p][c].period \in Periods
BY BatchAssumption DEF Contents, ExtractorVersions, Metadata

LEMMA SomeContent ==
  ASSUME NEW c \in 0..MaxContent, c # 0
  PROVE  c \in Contents
BY Bounds

LEMMA IdleRunType == IdleRun \in Run /\ NoEntry \in Entry /\ NoFacts \in Facts
BY Bounds DEF IdleRun, NoContent, Run, Points, Writing, NoEntry, Entry, Statuses, NoFacts, Facts

LEMMA OnDiskType ==
  ASSUME BatchTypeOK, NEW p \in Reports
  PROVE  OnDisk(p) \in 0..MaxContent /\ OnDisk(p) <= disk[p].content
BY Bounds DEF BatchTypeOK, OnDisk

\* Selection decides on a status, and never that a report is parsed.
LEMMA DecisionType ==
  ASSUME NEW R, NEW meta, NEW p
  PROVE  Decision(R, meta, p) \in {"needs_review", "skipped_summary", "superseded", "selected"}
BY DEF Decision

-----------------------------------------------------------------------------
(* The steps that change neither run nor state file.                       *)

LEMMA EnvironmentKeeps ==
  ASSUME BatchInv,
         \/ \E p \in Replaced : Replace(p)
         \/ \E p \in Moved : RemoveOrPutBack(p)
         \/ Upgrade
         \/ \E k \in WebPeriods : WebPromotes(k)
  PROVE  BatchInv'
<1>1. /\ BatchTypeOK /\ EarlyIsEmpty /\ ReadInOrder /\ PendingIsRead /\ VersionsPast
      /\ UpsertedIsStored /\ LicensesHold /\ FactsMatchBytes
  BY DEF BatchInv
<1>2. /\ run' = run /\ entries' = entries /\ stored' = stored
  BY DEF Replace, RemoveOrPutBack, Upgrade, WebPromotes
<1>3. /\ disk' \in [Reports -> [content : Contents, present : BOOLEAN]]
      /\ \A p \in Reports : disk[p].content <= disk'[p].content
  <2>1. disk \in [Reports -> [content : Contents, present : BOOLEAN]]
    BY <1>1 DEF BatchTypeOK
  <2>2. ASSUME NEW p \in Replaced, Replace(p)
        PROVE  /\ disk' \in [Reports -> [content : Contents, present : BOOLEAN]]
               /\ \A q \in Reports : disk[q].content <= disk'[q].content
    BY <2>1, <2>2, Bounds, BatchAssumption DEF Replace
  <2>3. ASSUME NEW p \in Moved, RemoveOrPutBack(p)
        PROVE  /\ disk' \in [Reports -> [content : Contents, present : BOOLEAN]]
               /\ \A q \in Reports : disk[q].content <= disk'[q].content
    <3>1. PICK there \in BOOLEAN : disk' = [disk EXCEPT ![p].present = there]
      BY <2>3 DEF RemoveOrPutBack
    <3>2. p \in Reports
      BY BatchAssumption
    <3>3. disk' \in [Reports -> [content : Contents, present : BOOLEAN]]
      BY <2>1, <3>1, <3>2
    <3>4. \A q \in Reports : disk'[q].content = disk[q].content /\ disk[q].content \in Nat
      BY <2>1, <3>1, <3>2, Bounds
    <3>5. QED
      BY <3>3, <3>4
  <2>4. ASSUME disk' = disk
        PROVE  /\ disk' \in [Reports -> [content : Contents, present : BOOLEAN]]
               /\ \A q \in Reports : disk[q].content <= disk'[q].content
    BY <2>1, <2>4, Bounds
  <2>5. QED
    BY <2>2, <2>3, <2>4 DEF Upgrade, WebPromotes
<1>4. extractor' \in ExtractorVersions /\ extractor <= extractor'
  BY <1>1, Bounds DEF BatchTypeOK, Replace, RemoveOrPutBack, Upgrade, WebPromotes
<1>5. extractor' = extractor \/ run.pending = {}
  BY <1>1 DEF EarlyIsEmpty, Replace, RemoveOrPutBack, Upgrade, WebPromotes
<1>6. /\ authority' \in [Reports -> [Contents -> AuthorityStatuses]]
      /\ rows' \subseteq Periods /\ web' \subseteq Periods
  BY <1>1, BatchAssumption DEF BatchTypeOK, AuthorityStatuses, Replace, RemoveOrPutBack, Upgrade,
     WebPromotes
<1>7. BatchTypeOK'
  BY <1>1, <1>2, <1>3, <1>4, <1>6 DEF BatchTypeOK
<1>8. ReadInOrder'
  <2>1. \A p \in Reports : /\ run.listed[p] \in Nat /\ run.read[p] \in Nat
                           /\ disk[p].content \in Nat /\ disk'[p].content \in Nat
    BY <1>1, <1>3, Bounds DEF BatchTypeOK, Run
  <2>2. QED
    BY <1>1, <1>2, <1>3, <2>1 DEF ReadInOrder
<1>9. VersionsPast'
  <2>1. \A p \in Reports, c \in Contents : stored[p][c].version \in Nat
    BY <1>1 DEF BatchTypeOK, Facts
  <2>2. extractor \in Nat /\ extractor' \in Nat
    BY <1>1, <1>4, Bounds DEF BatchTypeOK
  <2>3. QED
    BY <1>1, <1>2, <1>4, <2>1, <2>2 DEF VersionsPast
<1>10. PendingIsRead' /\ UpsertedIsStored'
  BY <1>1, <1>2, <1>5 DEF PendingIsRead, UpsertedIsStored
<1>11. EarlyIsEmpty' /\ LicensesHold' /\ FactsMatchBytes'
  BY <1>1, <1>2 DEF EarlyIsEmpty, LicensesHold, Licensed, FactsMatchBytes
<1>12. QED
  BY <1>7, <1>8, <1>9, <1>10, <1>11 DEF BatchInv

-----------------------------------------------------------------------------
(* The steps of a run.                                                     *)

\* What a step of the command that stores nothing must keep.
RunStep ==
  UNCHANGED <<disk, extractor, authority, stored, rows, web>>

LEMMA RunStepTypes ==
  ASSUME BatchTypeOK, RunStep, run' \in Run, entries' \in [Reports -> Entry],
         run'.pending \subseteq run'.selected, run'.todo \subseteq run'.selected
  PROVE  BatchTypeOK'
BY DEF BatchTypeOK, RunStep

LEMMA RunStepKeeps ==
  ASSUME BatchInv, RunStep
  PROVE  VersionsPast' /\ FactsMatchBytes'
BY DEF BatchInv, RunStep, VersionsPast, FactsMatchBytes

LEMMA RunEndsKeeps ==
  ASSUME BatchInv, RunStep, run' = IdleRun, entries' \in [Reports -> Entry],
         \A p \in Reports : Licensed(p, entries'[p])
  PROVE  BatchInv'
<1>1. /\ IdleRun.at = "idle" /\ IdleRun.pending = {} /\ IdleRun.todo = {}
      /\ IdleRun.selected = {} /\ IdleRun.read = NoContent /\ IdleRun.listed = NoContent
      /\ \A p \in Reports : NoContent[p] = 0 /\ IdleRun.memory[p] = NoEntry
  BY DEF IdleRun, NoContent
<1>2. BatchTypeOK'
  BY <1>1, IdleRunType, RunStepTypes DEF BatchInv
<1>3. EarlyIsEmpty' /\ PendingIsRead' /\ UpsertedIsStored'
  BY <1>1 DEF EarlyIsEmpty, PendingIsRead, UpsertedIsStored
<1>4. ReadInOrder'
  <2>1. \A p \in Reports : 0 <= disk'[p].content
    BY <1>2, Bounds DEF BatchTypeOK
  <2>2. QED
    BY <1>1, <2>1 DEF ReadInOrder
<1>5. LicensesHold'
  <2>1. \A p \in Reports : Licensed(p, NoEntry)
    BY DEF Licensed, NoEntry
  <2>2. stored' = stored /\ \A p \in Reports : run'.memory[p] = NoEntry
    BY <1>1 DEF RunStep
  <2>3. QED
    BY <2>1, <2>2 DEF LicensesHold, Licensed
<1>6. QED
  BY <1>2, <1>3, <1>4, <1>5, RunStepKeeps DEF BatchInv

LEMMA StartRunKeeps ==
  ASSUME BatchInv, StartRun
  PROVE  BatchInv'
<1> DEFINE listed == [p \in Reports |-> OnDisk(p)]
<1>1. BatchTypeOK /\ LicensesHold /\ RunStep /\ entries' = entries
  BY DEF BatchInv, StartRun, RunStep
<1>2. listed \in [Reports -> 0..MaxContent] /\ \A p \in Reports : listed[p] <= disk[p].content
  BY <1>1, OnDiskType
<1>3. run' = [IdleRun EXCEPT !.at = "listed", !.listed = listed, !.memory = entries]
  BY DEF StartRun
<1> HIDE DEF listed
<1>4. /\ run'.at = "listed" /\ run'.listed = listed /\ run'.memory = entries
      /\ run'.pending = {} /\ run'.todo = {} /\ run'.selected = {} /\ run'.read = NoContent
  BY <1>3 DEF IdleRun
<1>5. BatchTypeOK'
  <2>1. run' \in Run
    BY <1>1, <1>2, <1>3, IdleRunType DEF BatchTypeOK, Run, Points
  <2>2. QED
    BY <1>1, <1>4, <2>1, RunStepTypes DEF BatchTypeOK
<1>6. EarlyIsEmpty' /\ PendingIsRead' /\ UpsertedIsStored'
  BY <1>4 DEF EarlyIsEmpty, PendingIsRead, UpsertedIsStored
<1>7. ReadInOrder'
  BY <1>1, <1>2, <1>4 DEF ReadInOrder, RunStep, NoContent
<1>8. LicensesHold'
  BY <1>1, <1>4 DEF LicensesHold, Licensed, RunStep
<1>9. QED
  BY <1>1, <1>5, <1>6, <1>7, <1>8, RunStepKeeps DEF BatchInv

LEMMA InspectAndSelectKeeps ==
  ASSUME BatchInv, InspectAndSelect
  PROVE  BatchInv'
<1> DEFINE listed == {p \in Reports : run.listed[p] # 0}
           known == [p \in Reports |-> IF p \in listed THEN KnownContent(p) ELSE 0]
           inspected == {p \in listed : known[p] # 0 /\ About[p][known[p]].kind # "unreadable"}
           meta == [p \in inspected |-> About[p][known[p]]]
           status == [p \in listed |-> IF p \in inspected THEN Decision(inspected, meta, p)
                                                        ELSE "unreadable"]
           selected == {p \in inspected : status[p] = "selected"}
           memory == [p \in Reports |->
             IF p \notin listed \/ (p \in selected /\ Parsed(run.memory[p], p)) THEN run.memory[p]
             ELSE [status |-> status[p], content |-> run.listed[p], extractor |-> 0]]
<1>1. BatchTypeOK /\ LicensesHold /\ EarlyIsEmpty /\ ReadInOrder /\ RunStep
  BY DEF BatchInv, InspectAndSelect, RunStep
<1>2. run.at = "listed"
  BY DEF InspectAndSelect
<1>3. /\ run' = [run EXCEPT !.at = "selected", !.known = known, !.memory = memory,
                            !.selected = selected]
      /\ entries' = memory
  BY DEF InspectAndSelect
<1>4. known \in [Reports -> 0..MaxContent]
  BY <1>1, OnDiskType DEF KnownContent, BatchTypeOK, Run
<1>5. \A p \in listed : status[p] \in Statuses \ {"parsed"}
  BY DecisionType DEF Statuses
<1>6. /\ memory \in [Reports -> Entry]
      /\ \A p \in Reports : memory[p] = run.memory[p] \/ memory[p].status # "parsed"
  <2>1. run.memory \in [Reports -> Entry] /\ run.listed \in [Reports -> 0..MaxContent]
    BY <1>1 DEF BatchTypeOK, Run
  <2> HIDE DEF status, selected
  <2>2. \A p \in listed :
          LET entry == [status |-> status[p], content |-> run.listed[p], extractor |-> 0]
          IN  entry \in Entry /\ entry.status # "parsed"
    BY <1>5, <2>1, Bounds DEF Entry
  <2>3. QED
    BY <2>1, <2>2
<1>7. selected \subseteq Reports /\ \A p \in selected : run.listed[p] # 0 /\ known[p] # 0
  OBVIOUS
<1> HIDE DEF listed, known, inspected, meta, status, selected, memory
<1>8. /\ run'.at = "selected" /\ run'.listed = run.listed /\ run'.memory = memory
      /\ run'.selected = selected /\ run'.known = known /\ run'.read = run.read
      /\ run'.pending = run.pending /\ run'.todo = run.todo
  BY <1>1, <1>3 DEF BatchTypeOK, Run
<1>9. run.pending = {} /\ run.todo = {} /\ run.read = NoContent
  BY <1>1, <1>2 DEF EarlyIsEmpty
<1>10. BatchTypeOK'
  <2>1. run' \in Run
    BY <1>1, <1>3, <1>4, <1>6, <1>7 DEF BatchTypeOK, Run, Points
  <2>2. QED
    BY <1>1, <1>3, <1>6, <1>8, <1>9, <2>1, RunStepTypes
<1>11. EarlyIsEmpty' /\ PendingIsRead' /\ UpsertedIsStored'
  BY <1>7, <1>8, <1>9 DEF EarlyIsEmpty, PendingIsRead, UpsertedIsStored
<1>12. ReadInOrder'
  BY <1>1, <1>8 DEF ReadInOrder, RunStep
<1>13. LicensesHold'
  BY <1>1, <1>3, <1>6, <1>8 DEF LicensesHold, Licensed, RunStep
<1>14. QED
  BY <1>1, <1>10, <1>11, <1>12, <1>13, RunStepKeeps DEF BatchInv

LEMMA PlanParsingKeeps ==
  ASSUME BatchInv, PlanParsing
  PROVE  BatchInv'
<1>1. BatchTypeOK /\ LicensesHold /\ EarlyIsEmpty /\ ReadInOrder /\ RunStep /\ entries' = entries
  BY DEF BatchInv, PlanParsing, RunStep
<1>2. PICK todo \in SUBSET run.selected : run' = [run EXCEPT !.at = "parsing", !.todo = todo]
  BY DEF PlanParsing
<1>3. run \in Run /\ run.at = "selected"
  BY <1>1 DEF BatchTypeOK, PlanParsing
<1>4. /\ run' \in Run
      /\ run'.at = "parsing" /\ run'.todo = todo
      /\ run'.listed = run.listed /\ run'.memory = run.memory /\ run'.selected = run.selected
      /\ run'.known = run.known /\ run'.read = run.read /\ run'.pending = run.pending
  BY <1>2, <1>3 DEF Run, Points
<1>5. run.pending = {}
  BY <1>1, <1>3 DEF EarlyIsEmpty
<1>6. BatchTypeOK'
  BY <1>1, <1>4, <1>5, RunStepTypes DEF BatchTypeOK
<1>7. EarlyIsEmpty' /\ PendingIsRead' /\ UpsertedIsStored'
  BY <1>1, <1>4, <1>5 DEF EarlyIsEmpty, PendingIsRead, UpsertedIsStored
<1>8. ReadInOrder' /\ LicensesHold'
  BY <1>1, <1>4 DEF ReadInOrder, LicensesHold, Licensed, RunStep
<1>9. QED
  BY <1>1, <1>6, <1>7, <1>8, RunStepKeeps DEF BatchInv

LEMMA ParseKeeps ==
  ASSUME BatchInv, NEW p \in Reports, Parse(p)
  PROVE  BatchInv'
<1>1. /\ BatchTypeOK /\ LicensesHold /\ EarlyIsEmpty /\ ReadInOrder /\ PendingIsRead
      /\ RunStep /\ entries' = entries
  BY DEF BatchInv, Parse, RunStep
<1>2. run \in Run /\ run.at = "parsing" /\ p \in run.todo /\ OnDisk(p) # 0
  BY <1>1 DEF BatchTypeOK, Parse
<1>3. OnDisk(p) \in 0..MaxContent /\ OnDisk(p) = disk[p].content
  BY <1>1, <1>2, OnDiskType DEF OnDisk
<1>4. run' = [run EXCEPT !.read[p] = OnDisk(p)]
  BY DEF Parse
<1>5. /\ run'.at = run.at /\ run'.todo = run.todo /\ run'.pending = run.pending
      /\ run'.listed = run.listed /\ run'.memory = run.memory /\ run'.selected = run.selected
      /\ run'.read = [run.read EXCEPT ![p] = OnDisk(p)]
      /\ run'.known = run.known
  BY <1>2, <1>4 DEF Run
<1>6. run' \in Run
  BY <1>2, <1>3, <1>4 DEF Run
<1>7. BatchTypeOK'
  BY <1>1, <1>5, <1>6, RunStepTypes DEF BatchTypeOK
<1>8. EarlyIsEmpty' /\ UpsertedIsStored'
  BY <1>1, <1>2, <1>5 DEF EarlyIsEmpty, UpsertedIsStored
<1>9. PendingIsRead'
  <2>1. \A q \in run.pending : q # p /\ q \in Reports
    BY <1>1, <1>2 DEF PendingIsRead, BatchTypeOK, Run
  <2>2. run.read \in [Reports -> 0..MaxContent]
    BY <1>2 DEF Run
  <2>3. QED
    BY <1>1, <1>5, <2>1, <2>2 DEF PendingIsRead, RunStep
<1>10. ReadInOrder'
  <2>1. run.read \in [Reports -> 0..MaxContent] /\ disk[p].content \in Nat
    BY <1>1, <1>2, Bounds DEF Run, BatchTypeOK
  <2>2. disk' = disk
    BY <1>1 DEF RunStep
  <2>3. QED
    BY <1>1, <1>3, <1>5, <2>1, <2>2 DEF ReadInOrder
<1>11. LicensesHold'
  BY <1>1, <1>5 DEF LicensesHold, Licensed, RunStep
<1>12. QED
  BY <1>1, <1>7, <1>8, <1>9, <1>10, <1>11, RunStepKeeps DEF BatchInv

\* A report that is given up for this run.
LEMMA ParkedKeeps ==
  ASSUME BatchInv, NEW p \in Reports, NEW status \in {"error", "needs_review"},
         run.at = "parsing", p \in run.todo, run' = Parked(p, status), RunStep, entries' = entries
  PROVE  BatchInv'
<1>1. BatchTypeOK /\ LicensesHold /\ EarlyIsEmpty /\ ReadInOrder /\ PendingIsRead
  BY DEF BatchInv
<1> DEFINE entry == [status |-> status, content |-> run.listed[p], extractor |-> 0]
<1>2. run \in Run
  BY <1>1 DEF BatchTypeOK
<1>3. entry \in Entry /\ entry.status # "parsed"
  BY <1>2, Bounds DEF Entry, Statuses, Run
<1>4. run' = [run EXCEPT !.todo = @ \ {p}, !.read[p] = 0, !.memory[p] = entry]
  BY DEF Parked
<1> HIDE DEF entry
<1>5. /\ run'.at = run.at /\ run'.todo = run.todo \ {p} /\ run'.pending = run.pending
      /\ run'.listed = run.listed /\ run'.selected = run.selected /\ run'.known = run.known
      /\ run'.read = [run.read EXCEPT ![p] = 0]
      /\ run'.memory = [run.memory EXCEPT ![p] = entry]
  BY <1>2, <1>4 DEF Run
<1>6. run' \in Run
  <2>1. /\ [run.read EXCEPT ![p] = 0] \in [Reports -> 0..MaxContent]
        /\ [run.memory EXCEPT ![p] = entry] \in [Reports -> Entry]
        /\ run.todo \ {p} \in SUBSET Reports
    BY <1>2, <1>3, Bounds DEF Run
  <2>2. run' = [run EXCEPT !.todo = run.todo \ {p}, !.read = [run.read EXCEPT ![p] = 0],
                           !.memory = [run.memory EXCEPT ![p] = entry]]
    BY <1>2, <1>4 DEF Run
  <2>3. QED
    BY <1>2, <2>1, <2>2 DEF Run
<1>7. BatchTypeOK'
  BY <1>1, <1>5, <1>6, RunStepTypes DEF BatchTypeOK
<1>8. EarlyIsEmpty' /\ UpsertedIsStored'
  BY <1>1, <1>5 DEF EarlyIsEmpty, UpsertedIsStored
<1>9. run.read \in [Reports -> 0..MaxContent] /\ run.memory \in [Reports -> Entry]
  BY <1>2 DEF Run
<1>10. PendingIsRead'
  <2>1. \A q \in run.pending : q # p /\ q \in Reports
    BY <1>1 DEF PendingIsRead, BatchTypeOK, Run
  <2>2. QED
    BY <1>1, <1>5, <1>9, <2>1 DEF PendingIsRead, RunStep
<1>11. ReadInOrder'
  BY <1>1, <1>5, <1>9 DEF ReadInOrder, RunStep
<1>12. LicensesHold'
  BY <1>1, <1>3, <1>5, <1>9 DEF LicensesHold, Licensed, RunStep
<1>13. QED
  BY <1>7, <1>8, <1>10, <1>11, <1>12, RunStepKeeps DEF BatchInv

LEMMA ConsumeKeeps ==
  ASSUME BatchInv, NEW p \in Reports, Consume(p)
  PROVE  BatchInv'
<1>1. /\ BatchTypeOK /\ LicensesHold /\ EarlyIsEmpty /\ ReadInOrder /\ PendingIsRead
      /\ RunStep /\ entries' = entries
  BY DEF BatchInv, Consume, RunStep
<1>2. run \in Run /\ run.at = "parsing" /\ p \in run.todo /\ run.read[p] # 0
  BY <1>1 DEF BatchTypeOK, Consume
<1>3. CASE run' = Parked(p, "error") \/ run' = Parked(p, "needs_review")
  BY <1>1, <1>2, <1>3, ParkedKeeps
<1> DEFINE entry == [status |-> "parsed_pending_commit", content |-> run.listed[p],
                     extractor |-> extractor]
<1>4. ASSUME Unchanged(p), About[p][run.read[p]].yield # "short",
             run' = [run EXCEPT !.todo = @ \ {p}, !.pending = @ \cup {p}, !.memory[p] = entry]
      PROVE  BatchInv'
  <2>1. /\ entry \in Entry /\ entry.status # "parsed"
        /\ entry.content = run.listed[p] /\ entry.extractor = extractor
    BY <1>1, <1>2, Bounds DEF Entry, Statuses, Run, BatchTypeOK
  <2> HIDE DEF entry
  <2>2. /\ run'.at = run.at /\ run'.todo = run.todo \ {p} /\ run'.pending = run.pending \cup {p}
        /\ run'.listed = run.listed /\ run'.selected = run.selected /\ run'.known = run.known
        /\ run'.read = run.read
        /\ run'.memory = [run.memory EXCEPT ![p] = entry]
    BY <1>2, <1>4 DEF Run
  <2>3. run' \in Run
    BY <1>2, <1>4, <2>1 DEF Run
  <2>4. BatchTypeOK'
    BY <1>1, <1>2, <2>2, <2>3, RunStepTypes DEF BatchTypeOK
  <2>5. EarlyIsEmpty' /\ UpsertedIsStored'
    BY <1>1, <1>2, <2>2 DEF EarlyIsEmpty, UpsertedIsStored
  <2>6. run.listed[p] # 0 /\ run.read[p] = run.listed[p]
    <3>1. run.listed[p] # 0
      BY <1>1, <1>2 DEF EarlyIsEmpty, BatchTypeOK
    <3>2. run.listed[p] = disk[p].content
      BY <1>4, <3>1 DEF Unchanged, OnDisk
    <3>3. run.listed[p] <= run.read[p] /\ run.read[p] <= disk[p].content
      BY <1>1, <1>2 DEF ReadInOrder
    <3>4. run.listed[p] \in Nat /\ run.read[p] \in Nat
      BY <1>2, Bounds DEF Run
    <3>5. QED
      BY <3>1, <3>2, <3>3, <3>4
  <2>7. run.memory \in [Reports -> Entry]
    BY <1>2 DEF Run
  <2>8. PendingIsRead'
    <3>1. \A q \in run.pending : q # p /\ q \in Reports
      BY <1>1, <1>2 DEF PendingIsRead, BatchTypeOK, Run
    <3>2. extractor' = extractor
      BY <1>1 DEF RunStep
    <3>3. QED
      BY <1>1, <1>4, <2>1, <2>2, <2>6, <2>7, <3>1, <3>2 DEF PendingIsRead
  <2>9. ReadInOrder'
    BY <1>1, <2>2 DEF ReadInOrder, RunStep
  <2>10. LicensesHold'
    BY <1>1, <2>1, <2>2, <2>7 DEF LicensesHold, Licensed, RunStep
  <2>11. QED
    BY <1>1, <2>4, <2>5, <2>8, <2>9, <2>10, RunStepKeeps DEF BatchInv
<1>5. QED
  BY <1>3, <1>4 DEF Consume

\* The run moves on to a later point and keeps what it holds.
LEMMA Advanced ==
  ASSUME BatchTypeOK, EarlyIsEmpty, NEW point \in Points \ {"idle", "listed", "selected"},
         run.at # "idle", run' = [run EXCEPT !.at = point]
  PROVE  /\ run' \in Run /\ run'.at = point
         /\ run'.todo = run.todo /\ run'.pending = run.pending /\ run'.read = run.read
         /\ run'.listed = run.listed /\ run'.memory = run.memory /\ run'.selected = run.selected
         /\ EarlyIsEmpty'
<1>1. run \in Run
  BY DEF BatchTypeOK
<1>2. /\ run' \in Run /\ run'.at = point
      /\ run'.todo = run.todo /\ run'.pending = run.pending /\ run'.read = run.read
      /\ run'.listed = run.listed /\ run'.memory = run.memory /\ run'.selected = run.selected
      /\ run'.known = run.known
  BY <1>1 DEF Run
<1>3. QED
  BY <1>2 DEF EarlyIsEmpty

LEMMA SaveAndVerifyKeeps ==
  ASSUME BatchInv, SaveAndVerify
  PROVE  BatchInv'
<1>1. /\ BatchTypeOK /\ LicensesHold /\ EarlyIsEmpty /\ ReadInOrder /\ PendingIsRead
      /\ RunStep /\ entries' = run.memory /\ run.at = "parsing"
  BY DEF BatchInv, SaveAndVerify, RunStep
<1>2. run.memory \in [Reports -> Entry]
  BY <1>1 DEF BatchTypeOK, Run
<1>3. CASE run' = IdleRun
  <2>1. \A p \in Reports : Licensed(p, entries'[p])
    BY <1>1 DEF LicensesHold
  <2>2. QED
    BY <1>1, <1>2, <1>3, <2>1, RunEndsKeeps
<1>4. CASE run' = [run EXCEPT !.at = "verified"]
  <2>1. "verified" \in Points \ {"idle", "listed", "selected"}
    BY DEF Points
  <2>2. /\ run' \in Run /\ run'.at = "verified"
        /\ run'.todo = run.todo /\ run'.pending = run.pending /\ run'.read = run.read
        /\ run'.listed = run.listed /\ run'.memory = run.memory /\ run'.selected = run.selected
        /\ EarlyIsEmpty'
    BY <1>1, <1>4, <2>1, Advanced
  <2>3. BatchTypeOK'
    BY <1>1, <1>2, <2>2, RunStepTypes DEF BatchTypeOK
  <2>4. PendingIsRead' /\ UpsertedIsStored' /\ ReadInOrder' /\ LicensesHold'
    BY <1>1, <2>2 DEF PendingIsRead, UpsertedIsStored, ReadInOrder, LicensesHold, Licensed, RunStep
  <2>5. QED
    BY <1>1, <2>2, <2>3, <2>4, RunStepKeeps DEF BatchInv
<1>5. QED
  BY <1>3, <1>4 DEF SaveAndVerify

LEMMA ReconcileKeeps ==
  ASSUME BatchInv, Reconcile
  PROVE  BatchInv'
<1>1. /\ BatchTypeOK /\ LicensesHold /\ EarlyIsEmpty /\ ReadInOrder /\ PendingIsRead
      /\ VersionsPast /\ FactsMatchBytes
      /\ disk' = disk /\ extractor' = extractor /\ entries' = entries /\ stored' = stored
      /\ rows' = rows /\ web' = web /\ run.at = "verified"
      /\ run' = [run EXCEPT !.at = "reconciled"]
  BY DEF BatchInv, Reconcile, Advance
<1>2. "reconciled" \in Points \ {"idle", "listed", "selected"}
  BY DEF Points, Writing
<1>3. /\ run' \in Run /\ run'.at = "reconciled"
      /\ run'.todo = run.todo /\ run'.pending = run.pending /\ run'.read = run.read
      /\ run'.listed = run.listed /\ run'.memory = run.memory /\ run'.selected = run.selected
      /\ EarlyIsEmpty'
  BY <1>1, <1>2, Advanced
<1>4. authority' \in [Reports -> [Contents -> AuthorityStatuses]]
  BY <1>1 DEF Reconcile, BatchTypeOK, AuthorityStatuses
<1>5. BatchTypeOK'
  BY <1>1, <1>3, <1>4 DEF BatchTypeOK
<1>6. PendingIsRead' /\ UpsertedIsStored' /\ ReadInOrder'
  BY <1>1, <1>3 DEF PendingIsRead, UpsertedIsStored, ReadInOrder
<1>7. LicensesHold' /\ VersionsPast' /\ FactsMatchBytes'
  BY <1>1, <1>3 DEF LicensesHold, Licensed, VersionsPast, FactsMatchBytes
<1>8. QED
  BY <1>3, <1>5, <1>6, <1>7 DEF BatchInv

\* Facts are written of exactly the bytes that were signed, and what was stored
\* keeps its version or gets the present one.
LEMMA UpsertFactsKeeps ==
  ASSUME BatchInv, UpsertFacts
  PROVE  BatchInv'
<1>1. /\ BatchTypeOK /\ LicensesHold /\ EarlyIsEmpty /\ ReadInOrder /\ PendingIsRead
      /\ VersionsPast /\ FactsMatchBytes
      /\ disk' = disk /\ extractor' = extractor /\ entries' = entries /\ authority' = authority
      /\ rows' = rows /\ web' = web /\ run.at = "reconciled"
      /\ run' = [run EXCEPT !.at = "upserted"]
  BY DEF BatchInv, UpsertFacts, Advance
<1>2. "upserted" \in Points \ {"idle", "listed", "selected"}
  BY DEF Points, Writing
<1>3. /\ run' \in Run /\ run'.at = "upserted"
      /\ run'.todo = run.todo /\ run'.pending = run.pending /\ run'.read = run.read
      /\ run'.listed = run.listed /\ run'.memory = run.memory /\ run'.selected = run.selected
      /\ EarlyIsEmpty'
  BY <1>1, <1>2, Advanced
<1>4. /\ stored \in [Reports -> [Contents -> Facts]] /\ extractor \in 0..MaxVersion
      /\ run.pending \subseteq Reports
      /\ \A p \in Reports : run.listed[p] \in 0..MaxContent /\ run.read[p] \in 0..MaxContent
  BY <1>1, Bounds DEF BatchTypeOK, Run
<1>5. \A p \in Reports, c \in Contents :
        stored'[p][c] =
          IF p \in run.pending /\ c = run.listed[p] /\ About[p][run.read[p]].yield = "facts"
            THEN [version |-> extractor, read |-> run.read[p]] ELSE stored[p][c]
  BY DEF UpsertFacts
<1>6. stored' \in [Reports -> [Contents -> Facts]]
  <2>1. \A p \in Reports : [version |-> extractor, read |-> run.read[p]] \in Facts
    BY <1>4 DEF Facts
  <2>2. \A p \in Reports, c \in Contents : stored'[p][c] \in Facts
    BY <1>4, <1>5, <2>1
  <2>3. QED
    BY <2>2 DEF UpsertFacts
<1>7. BatchTypeOK'
  BY <1>1, <1>3, <1>6 DEF BatchTypeOK
<1>8. \A p \in Reports, c \in Contents :
        /\ stored'[p][c].version <= extractor
        /\ stored[p][c].version <= stored'[p][c].version
        /\ stored'[p][c].version > 0 => stored'[p][c].read = c
  <2> SUFFICES ASSUME NEW p \in Reports, NEW c \in Contents
               PROVE  /\ stored'[p][c].version <= extractor
                      /\ stored[p][c].version <= stored'[p][c].version
                      /\ stored'[p][c].version > 0 => stored'[p][c].read = c
    OBVIOUS
  <2>1. /\ stored[p][c].version \in Nat /\ extractor \in Nat
        /\ stored[p][c].version <= extractor
        /\ stored[p][c].version > 0 => stored[p][c].read = c
    BY <1>1, <1>4, Bounds DEF VersionsPast, FactsMatchBytes, Facts
  <2>2. CASE stored'[p][c] = stored[p][c]
    BY <2>1, <2>2
  <2>3. CASE /\ p \in run.pending /\ c = run.listed[p]
             /\ stored'[p][c] = [version |-> extractor, read |-> run.read[p]]
    BY <1>1, <2>1, <2>3 DEF PendingIsRead
  <2>4. QED
    BY <1>5, <2>2, <2>3
<1>9. VersionsPast' /\ FactsMatchBytes'
  BY <1>1, <1>8 DEF VersionsPast, FactsMatchBytes
<1>10. LicensesHold'
  <2>1. ASSUME NEW p \in Reports, NEW entry \in Entry, Licensed(p, entry),
               entry.status = "parsed", About[p][entry.content].yield # "none"
        PROVE  stored'[p][entry.content].version >= entry.extractor
    <3>1. /\ entry.content \in Contents /\ entry.extractor \in Nat
          /\ stored[p][entry.content].version >= entry.extractor
      BY <2>1 DEF Licensed, Entry
    <3>2. /\ stored[p][entry.content].version \in Nat
          /\ stored'[p][entry.content].version \in Nat
      BY <1>4, <1>6, <3>1 DEF Facts
    <3>3. QED
      BY <1>8, <3>1, <3>2
  <2>2. \A p \in Reports : entries[p] \in Entry /\ run.memory[p] \in Entry
    BY <1>1 DEF BatchTypeOK, Run
  <2>3. ASSUME NEW p \in Reports
        PROVE  Licensed(p, entries[p])' /\ Licensed(p, run.memory[p])'
    <3>1. Licensed(p, entries[p]) /\ Licensed(p, run.memory[p])
      BY <1>1 DEF LicensesHold
    <3>2. QED
      BY <1>1, <1>3, <2>1, <2>2, <3>1 DEF Licensed
  <2>4. QED
    BY <2>3 DEF LicensesHold
<1>11. UpsertedIsStored'
  <2>1. ASSUME NEW p \in run.pending, About[p][run.listed[p]].yield = "facts"
        PROVE  stored'[p][run.listed[p]].version = extractor
    <3>1. p \in Reports /\ run.read[p] = run.listed[p] /\ run.listed[p] # 0
      BY <1>1, <1>4 DEF PendingIsRead
    <3>2. run.listed[p] \in Contents
      BY <1>4, <3>1, SomeContent
    <3>3. DEFINE c == run.listed[p]
    <3>4. stored'[p][c] = IF p \in run.pending /\ c = run.listed[p] /\ About[p][run.read[p]].yield = "facts"
                            THEN [version |-> extractor, read |-> run.read[p]] ELSE stored[p][c]
      BY <1>5, <3>1, <3>2
    <3>5. About[p][run.read[p]].yield = "facts"
      BY <2>1, <3>1
    <3>6. stored'[p][c] = [version |-> extractor, read |-> run.read[p]]
      BY <2>1, <3>4, <3>5
    <3>7. QED
      BY <3>6
  <2>2. QED
    BY <1>1, <1>3, <2>1 DEF UpsertedIsStored
<1>12. PendingIsRead' /\ ReadInOrder'
  BY <1>1, <1>3 DEF PendingIsRead, ReadInOrder
<1>13. QED
  BY <1>3, <1>7, <1>9, <1>10, <1>11, <1>12 DEF BatchInv

LEMMA RefreshRowsKeeps ==
  ASSUME BatchInv, RefreshRows
  PROVE  BatchInv'
<1>1. /\ BatchTypeOK /\ LicensesHold /\ EarlyIsEmpty /\ ReadInOrder /\ PendingIsRead
      /\ VersionsPast /\ FactsMatchBytes /\ UpsertedIsStored
      /\ disk' = disk /\ extractor' = extractor /\ entries' = entries /\ stored' = stored
      /\ authority' = authority /\ web' = web /\ run.at = "upserted"
      /\ run' = [run EXCEPT !.at = "refreshed"]
  BY DEF BatchInv, RefreshRows, Advance
<1>2. "refreshed" \in Points \ {"idle", "listed", "selected"}
  BY DEF Points, Writing
<1>3. /\ run' \in Run /\ run'.at = "refreshed"
      /\ run'.todo = run.todo /\ run'.pending = run.pending /\ run'.read = run.read
      /\ run'.listed = run.listed /\ run'.memory = run.memory /\ run'.selected = run.selected
      /\ EarlyIsEmpty'
  BY <1>1, <1>2, Advanced
<1>4. rows' \subseteq Periods
  <2>1. ASSUME NEW p \in run.pending PROVE KnownPeriod(p) \in Periods
    <3>1. p \in Reports /\ p \in run.selected /\ run.known[p] \in 0..MaxContent
      BY <1>1 DEF BatchTypeOK, Run
    <3>2. run.known[p] # 0
      BY <1>1, <3>1 DEF EarlyIsEmpty
    <3>3. run.known[p] \in Contents
      BY <3>1, <3>2, Bounds
    <3>4. QED
      BY <3>1, <3>3, Bounds DEF KnownPeriod, PeriodOf
  <2>2. rows \subseteq Periods /\ rows' = rows \cup {KnownPeriod(p) : p \in run.pending}
    BY <1>1 DEF RefreshRows, BatchTypeOK
  <2>3. QED
    BY <2>1, <2>2
<1>5. BatchTypeOK'
  BY <1>1, <1>3, <1>4 DEF BatchTypeOK
<1>6. PendingIsRead' /\ UpsertedIsStored' /\ ReadInOrder'
  BY <1>1, <1>3 DEF PendingIsRead, UpsertedIsStored, ReadInOrder
<1>7. LicensesHold' /\ VersionsPast' /\ FactsMatchBytes'
  BY <1>1, <1>3 DEF LicensesHold, Licensed, VersionsPast, FactsMatchBytes
<1>8. QED
  BY <1>3, <1>5, <1>6, <1>7 DEF BatchInv

\* The reports are marked last: what they then license is stored.
LEMMA MarkParsedKeeps ==
  ASSUME BatchInv, MarkParsed
  PROVE  BatchInv'
<1> DEFINE memory == [p \in Reports |-> IF p \in run.pending
                        THEN [run.memory[p] EXCEPT !.status = "parsed"] ELSE run.memory[p]]
<1>1. /\ BatchTypeOK /\ LicensesHold /\ EarlyIsEmpty /\ ReadInOrder /\ PendingIsRead
      /\ UpsertedIsStored /\ RunStep /\ run.at = "refreshed"
      /\ run' = [run EXCEPT !.at = "committed", !.memory = memory] /\ entries' = memory
  BY DEF BatchInv, MarkParsed, RunStep
<1>2. run \in Run /\ run.memory \in [Reports -> Entry]
  BY <1>1 DEF BatchTypeOK, Run
<1>3. /\ memory \in [Reports -> Entry]
      /\ \A p \in Reports : /\ memory[p].content = run.memory[p].content
                            /\ memory[p].extractor = run.memory[p].extractor
      /\ \A p \in Reports \ run.pending : memory[p] = run.memory[p]
  BY <1>2 DEF Entry, Statuses
<1> HIDE DEF memory
<1>4. /\ run' \in Run /\ run'.at = "committed"
      /\ run'.todo = run.todo /\ run'.pending = run.pending /\ run'.read = run.read
      /\ run'.listed = run.listed /\ run'.memory = memory /\ run'.selected = run.selected
      /\ run'.known = run.known
  BY <1>1, <1>2, <1>3 DEF Run, Points, Writing
<1>5. BatchTypeOK'
  BY <1>1, <1>3, <1>4, RunStepTypes DEF BatchTypeOK
<1>6. EarlyIsEmpty' /\ UpsertedIsStored' /\ ReadInOrder'
  BY <1>1, <1>4 DEF EarlyIsEmpty, UpsertedIsStored, ReadInOrder, RunStep
<1>7. run.pending \subseteq Reports
  BY <1>2 DEF Run
<1>8. PendingIsRead'
  BY <1>1, <1>3, <1>4, <1>7 DEF PendingIsRead, RunStep
<1>9. \A p \in Reports : Licensed(p, memory[p])
  <2>1. ASSUME NEW p \in run.pending PROVE Licensed(p, memory[p])
    <3>0. /\ p \in Reports /\ run.listed[p] # 0
          /\ memory[p].content = run.listed[p] /\ memory[p].extractor = extractor
          /\ About[p][run.listed[p]].yield # "short"
      BY <1>1, <1>3, <1>7 DEF PendingIsRead
    <3>1. run.listed[p] \in Contents
      BY <1>2, <3>0, SomeContent DEF Run
    <3>2. About[p][run.listed[p]].yield \in {"facts", "none"}
      BY <3>0, <3>1, Bounds DEF Yields
    <3>3. About[p][run.listed[p]].yield = "facts" =>
            stored[p][run.listed[p]].version = extractor
      BY <1>1 DEF UpsertedIsStored
    <3>4. extractor \in Nat
      BY <1>1, Bounds DEF BatchTypeOK
    <3>5. QED
      BY <3>0, <3>1, <3>2, <3>3, <3>4 DEF Licensed
  <2>2. ASSUME NEW p \in Reports \ run.pending PROVE Licensed(p, memory[p])
    BY <1>1, <1>3 DEF LicensesHold
  <2>3. QED
    BY <2>1, <2>2
<1>10. LicensesHold'
  BY <1>1, <1>4, <1>9 DEF LicensesHold, Licensed, RunStep
<1>11. QED
  BY <1>1, <1>5, <1>6, <1>8, <1>10, RunStepKeeps DEF BatchInv

-----------------------------------------------------------------------------
(* The invariant is inductive.                                             *)

LEMMA BatchInvInit == Init => BatchInv
<1> SUFFICES ASSUME Init PROVE BatchInv
  OBVIOUS
<1>1. /\ IdleRun.at = "idle" /\ IdleRun.pending = {} /\ IdleRun.todo = {}
      /\ IdleRun.selected = {} /\ IdleRun.read = NoContent /\ IdleRun.listed = NoContent
      /\ \A p \in Reports : NoContent[p] = 0 /\ IdleRun.memory[p] = NoEntry
  BY DEF IdleRun, NoContent
<1>2. /\ [p \in Reports |-> [content |-> 1, present |-> TRUE]]
           \in [Reports -> [content : Contents, present : BOOLEAN]]
      /\ 1 \in ExtractorVersions
  BY Bounds
<1>3. BatchTypeOK
  BY <1>1, <1>2, IdleRunType DEF Init, BatchTypeOK, AuthorityStatuses
<1>4. EarlyIsEmpty /\ PendingIsRead /\ UpsertedIsStored
  BY <1>1 DEF Init, EarlyIsEmpty, PendingIsRead, UpsertedIsStored
<1>5. ReadInOrder
  BY <1>1 DEF Init, ReadInOrder
<1>6. VersionsPast /\ FactsMatchBytes
  BY DEF Init, VersionsPast, FactsMatchBytes, NoFacts
<1>7. LicensesHold
  BY <1>1 DEF Init, LicensesHold, Licensed, NoEntry
<1>8. QED
  BY <1>3, <1>4, <1>5, <1>6, <1>7 DEF BatchInv

LEMMA BatchInvNext == BatchInv /\ [Next]_vars => BatchInv'
<1> SUFFICES ASSUME BatchInv, [Next]_vars PROVE BatchInv'
  OBVIOUS
<1>1. ASSUME NEW p \in Reports, ParseFails(p) PROVE BatchInv'
  <2>1. /\ run.at = "parsing" /\ p \in run.todo /\ run' = Parked(p, "error")
        /\ RunStep /\ entries' = entries
    BY <1>1 DEF ParseFails, RunStep
  <2>2. QED
    BY <2>1, ParkedKeeps
<1>2. ASSUME RunEnds PROVE BatchInv'
  <2>1. /\ RunStep /\ run' = IdleRun /\ entries' = entries
    BY <1>2 DEF RunEnds, RunStep
  <2>2. entries' \in [Reports -> Entry] /\ \A p \in Reports : Licensed(p, entries'[p])
    BY <2>1 DEF BatchInv, BatchTypeOK, LicensesHold
  <2>3. QED
    BY <2>1, <2>2, RunEndsKeeps
<1>3. CASE UNCHANGED vars
  BY <1>3 DEF vars, BatchInv, BatchTypeOK, EarlyIsEmpty, ReadInOrder, PendingIsRead,
     VersionsPast, UpsertedIsStored, LicensesHold, Licensed, FactsMatchBytes
<1>4. QED
  BY <1>1, <1>2, <1>3, StartRunKeeps, InspectAndSelectKeeps, PlanParsingKeeps, ParseKeeps,
     ConsumeKeeps, SaveAndVerifyKeeps, ReconcileKeeps, UpsertFactsKeeps, RefreshRowsKeeps,
     MarkParsedKeeps, EnvironmentKeeps
     DEF Next

LEMMA BatchInvCorrect == Spec => []BatchInv
BY BatchInvInit, BatchInvNext, PTL DEF Spec

-----------------------------------------------------------------------------
(* The properties, for every directory.                                    *)

\* The state file, the tables and the run keep their types (pipeline.py,
\* ingest_reports; ingestion_state.py).
THEOREM BatchTypeCorrect == Spec => []BatchTypeOK
<1>1. BatchInv => BatchTypeOK
  BY DEF BatchInv
<1>2. QED
  BY <1>1, BatchInvCorrect, PTL

\* Facts are stored under the digest of the very bytes they were read from, whatever
\* is replaced, removed or put back while a run reads (pipeline.py,
\* _consume_parsed_record and _verify_authoritative_inputs).
THEOREM StoredFactsAreOfTheirBytes == Spec => []FactsMatchBytes
<1>1. BatchInv => FactsMatchBytes
  BY DEF BatchInv
<1>2. QED
  BY <1>1, BatchInvCorrect, PTL

\* A report that later runs may skip has its facts in the database, whenever a run
\* was killed (pipeline.py, ingest_reports, "Mark files parsed only after all
\* authoritative writes complete").
THEOREM SkippedReportsAreStored == Spec => []ParsedMeansStored
<1>1. BatchInv => ParsedMeansStored
  BY DEF BatchInv, LicensesHold, Licensed, ParsedMeansStored
<1>2. QED
  BY <1>1, BatchInvCorrect, PTL

-----------------------------------------------------------------------------
(* Selection: being outranked by nobody is being the best by stages.       *)

\* The stages of Best(k): revised reports if there are any, the latest of those,
\* the lowest copy of those.
ByStages(full, meta) ==
  LET revised == {q \in full : meta[q].revised = 1}
      first == IF revised # {} THEN revised ELSE full
      latest == {q \in first : \A r \in first : meta[q].date >= meta[r].date}
  IN  {q \in latest : \A r \in latest : meta[q].copy <= meta[r].copy}

\* They find the reports that no other one outranks.
LEMMA WinnersByStages ==
  ASSUME NEW full, NEW meta, \A q \in full : meta[q] \in Metadata
  PROVE  Winners(full, meta) = ByStages(full, meta)
<1> DEFINE revised == {q \in full : meta[q].revised = 1}
           first == IF revised # {} THEN revised ELSE full
           latest == {q \in first : \A r \in first : meta[q].date >= meta[r].date}
           original == {q \in latest : \A r \in latest : meta[q].copy <= meta[r].copy}
<1>1. \A q \in full : meta[q].revised \in 0..1 /\ meta[q].date \in Nat /\ meta[q].copy \in Nat
  BY DEF Metadata
<1>2. ASSUME NEW q \in Winners(full, meta) PROVE q \in original
  <2>1. q \in full /\ \A r \in full : ~Outranks(meta[r], meta[q])
    BY DEF Winners
  <2>2. q \in first /\ \A r \in first : r \in full /\ meta[r].revised = meta[q].revised
    BY <1>1, <2>1 DEF Outranks
  <2>3. \A r \in first : meta[q].date >= meta[r].date
    BY <1>1, <2>1, <2>2 DEF Outranks
  <2>4. q \in latest /\ \A r \in latest : r \in first /\ meta[r].date = meta[q].date
    BY <1>1, <2>2, <2>3
  <2>5. \A r \in latest : meta[q].copy <= meta[r].copy
    BY <1>1, <2>1, <2>2, <2>4 DEF Outranks
  <2>6. QED
    BY <2>4, <2>5
<1>3. ASSUME NEW q \in original PROVE q \in Winners(full, meta)
  <2>1. /\ q \in full /\ q \in first /\ \A r \in first : meta[q].date >= meta[r].date
        /\ q \in latest /\ \A r \in latest : meta[q].copy <= meta[r].copy
    OBVIOUS
  <2>2. ASSUME NEW r \in full, Outranks(meta[r], meta[q]) PROVE FALSE
    <3>1. CASE meta[r].revised > meta[q].revised
      <4>1. meta[r].revised = 1 /\ meta[q].revised = 0
        BY <1>1, <2>1, <3>1
      <4>2. QED
        BY <2>1, <4>1
    <3>2. CASE meta[r].revised = meta[q].revised /\ meta[r].date > meta[q].date
      <4>1. r \in first
        BY <2>1, <3>2
      <4>2. QED
        BY <1>1, <2>1, <3>2, <4>1
    <3>3. CASE /\ meta[r].revised = meta[q].revised /\ meta[r].date = meta[q].date
               /\ meta[r].copy < meta[q].copy
      <4>1. r \in first
        BY <2>1, <3>3
      <4>2. r \in latest
        BY <2>1, <3>3, <4>1
      <4>3. QED
        BY <1>1, <2>1, <3>3, <4>2
    <3>4. QED
      BY <2>2, <3>1, <3>2, <3>3 DEF Outranks
  <2>3. QED
    BY <2>1, <2>2 DEF Winners
<1>4. Winners(full, meta) = original
  BY <1>2, <1>3
<1>5. original = ByStages(full, meta)
  BY DEF ByStages
<1>6. QED
  BY <1>4, <1>5

\* Best(k), of what is known of each path.
BestOf(known, k) ==
  LET of(p) == About[p][known[p]]
      full == {p \in Reports : known[p] # 0 /\ of(p).kind = "full" /\ of(p).period = k}
      revised == {p \in full : of(p).revised = 1}
      first == IF revised # {} THEN revised ELSE full
      latest == {p \in first : \A q \in first : of(p).date >= of(q).date}
      original == {p \in latest : \A q \in latest : of(p).copy <= of(q).copy}
  IN  {p \in original : original = {p}}

\* What InspectAndSelect selects of the reports a run knows.
Inspected(known) == {p \in Reports : known[p] # 0 /\ About[p][known[p]].kind # "unreadable"}
MetaOf(known) == [p \in Inspected(known) |-> About[p][known[p]]]
Selected(known) ==
  {p \in Inspected(known) : Decision(Inspected(known), MetaOf(known), p) = "selected"}

\* In any directory the stages of the selection leave, period by period, exactly the
\* best reports: by completeness and integrity first, then by revision, date and
\* copy, none where two are equally good (ingestion.py,
\* select_authoritative_reports).
THEOREM SelectedAreBest ==
  ASSUME NEW known \in [Reports -> 0..MaxContent], NEW k
  PROVE  BestOf(known, k) = {p \in Selected(known) : PeriodOf(p, known[p]) = k}
<1> DEFINE inspected == Inspected(known)
           meta == MetaOf(known)
           of(p) == About[p][known[p]]
           full == {p \in Reports : known[p] # 0 /\ of(p).kind = "full" /\ of(p).period = k}
           revised == {p \in full : of(p).revised = 1}
           first == IF revised # {} THEN revised ELSE full
           latest == {p \in first : \A q \in first : of(p).date >= of(q).date}
           original == {p \in latest : \A q \in latest : of(p).copy <= of(q).copy}
           mrevised == {q \in full : meta[q].revised = 1}
           mfirst == IF mrevised # {} THEN mrevised ELSE full
           mlatest == {q \in mfirst : \A r \in mfirst : meta[q].date >= meta[r].date}
           moriginal == {q \in mlatest : \A r \in mlatest : meta[q].copy <= meta[r].copy}
<1>0. /\ inspected = {p \in Reports : known[p] # 0 /\ About[p][known[p]].kind # "unreadable"}
      /\ meta = [p \in inspected |-> About[p][known[p]]]
  BY DEF Inspected, MetaOf
<1> HIDE DEF inspected, meta
<1>1. \A p \in inspected : /\ p \in Reports /\ known[p] \in Contents /\ meta[p] = of(p)
                           /\ meta[p] \in Metadata /\ meta[p].kind \in Kinds \ {"unreadable"}
                           /\ meta[p].period = PeriodOf(p, known[p])
  <2> SUFFICES ASSUME NEW p \in inspected
               PROVE  /\ p \in Reports /\ known[p] \in Contents /\ meta[p] = of(p)
                      /\ meta[p] \in Metadata /\ meta[p].kind \in Kinds \ {"unreadable"}
                      /\ meta[p].period = PeriodOf(p, known[p])
    OBVIOUS
  <2>1. p \in Reports /\ known[p] # 0 /\ About[p][known[p]].kind # "unreadable"
    BY <1>0
  <2>2. known[p] \in Contents
    BY <2>1, SomeContent
  <2>3. meta[p] = About[p][known[p]] /\ About[p][known[p]] \in Metadata
    BY <1>0, <2>1, <2>2, Bounds
  <2>4. meta[p].kind \in Kinds
    BY <2>3 DEF Metadata
  <2>5. QED
    BY <2>1, <2>2, <2>3, <2>4 DEF PeriodOf
<1>2. full \subseteq inspected /\ \A p \in full : meta[p] = of(p) /\ meta[p] \in Metadata
  BY <1>0, <1>1
<1>3. Winners(full, meta) = moriginal
  <2>1. \A q \in full : meta[q] \in Metadata
    BY <1>2
  <2>2. moriginal = ByStages(full, meta)
    BY DEF ByStages
  <2> HIDE DEF full, moriginal
  <2>3. QED
    BY <2>1, <2>2, WinnersByStages
<1>4. moriginal = original
  <2>1. mrevised = revised
    BY <1>2
  <2>2. mfirst = first /\ first \subseteq full
    BY <2>1
  <2>3. mlatest = latest /\ latest \subseteq full
    BY <1>2, <2>2
  <2> HIDE DEF mrevised, mfirst, mlatest, revised, first, latest, full
  <2>4. QED
    BY <1>2, <2>3
<1>5. BestOf(known, k) = {p \in original : original = {p}}
  BY DEF BestOf
<1>6. ASSUME NEW p \in inspected, PeriodOf(p, known[p]) = k
      PROVE  Rivals(inspected, meta, p) = full
  BY <1>0, <1>1, <1>2, <1>6 DEF Rivals, PeriodOf
<1>7. original \subseteq full
  OBVIOUS
<1> HIDE DEF original, moriginal, mrevised, mfirst, mlatest, revised, first, latest
<1>8. ASSUME NEW p \in BestOf(known, k)
      PROVE  p \in inspected /\ Decision(inspected, meta, p) = "selected" /\ PeriodOf(p, known[p]) = k
  <2>1. p \in full /\ original = {p} /\ p \in original
    BY <1>5, <1>7, <1>8
  <2>2. p \in inspected /\ PeriodOf(p, known[p]) = k /\ meta[p].kind = "full"
    BY <1>1, <1>2, <2>1 DEF PeriodOf
  <2>3. Winners(Rivals(inspected, meta, p), meta) = {p}
    BY <1>3, <1>4, <1>6, <2>1, <2>2
  <2>4. QED
    BY <2>2, <2>3 DEF Decision
<1>9. ASSUME NEW p \in inspected, Decision(inspected, meta, p) = "selected", PeriodOf(p, known[p]) = k
      PROVE  p \in BestOf(known, k)
  <2>1. Winners(Rivals(inspected, meta, p), meta) = {p}
    BY <1>9 DEF Decision
  <2>2. original = {p}
    BY <1>3, <1>4, <1>6, <1>9, <2>1
  <2>3. QED
    BY <1>5, <2>2
<1>10. BestOf(known, k) \subseteq inspected
  BY <1>8
<1>11. Selected(known) = {p \in inspected : Decision(inspected, meta, p) = "selected"}
  BY DEF Selected, inspected, meta
<1>12. QED
  BY <1>8, <1>9, <1>10, <1>11

-----------------------------------------------------------------------------
(* From the selection on: what a run holds in memory.                      *)

\* What is selected is what the directory says is best, by metadata that is not
\* older than the signature.
SelectionIsBest ==
  run.at \notin {"idle", "listed"} =>
    /\ \A k \in Periods : Best(k) = {p \in run.selected : KnownPeriod(p) = k}
    /\ \A p \in run.selected : run.listed[p] <= run.known[p] /\ run.known[p] <= disk[p].content

\* When a run writes, it knows the very bytes that were signed of all it selected.
VerifiedIsKnown ==
  run.at \in {"verified"} \cup Writing =>
    run.todo = {} /\ \A p \in run.selected : run.known[p] = run.listed[p]

\* Each file that was listed has an entry under its signature, and one that is not
\* final waits to be parsed or to be written.
MemoryAccounts ==
  run.at \notin {"idle", "listed"} =>
    \A p \in Reports : run.listed[p] # 0 =>
      /\ run.memory[p].content = run.listed[p]
      /\ run.memory[p].status # "absent"
      /\ run.memory[p].status = "selected" =>
           p \in run.selected /\ (run.at = "selected" \/ p \in run.todo)
      /\ run.memory[p].status = "parsed_pending_commit" => p \in run.pending
      /\ run.memory[p].status = "parsed" => run.memory[p].extractor = extractor

\* The state file of a run that has committed is its memory, and nothing waits.
CommittedIsSaved ==
  run.at = "committed" =>
    /\ entries = run.memory
    /\ \A p \in Reports : run.listed[p] # 0 => run.memory[p].status # "parsed_pending_commit"

RunInv ==
  /\ SelectionIsBest
  /\ VerifiedIsKnown
  /\ MemoryAccounts
  /\ CommittedIsSaved
  /\ AuthorityMatchesDirectory

\* A run that is over, or has only listed the files, holds nothing.
LEMMA NothingHeld ==
  ASSUME run.at \in {"idle", "listed"}
  PROVE  RunInv
BY DEF RunInv, SelectionIsBest, VerifiedIsKnown, MemoryAccounts, CommittedIsSaved,
   AuthorityMatchesDirectory, Writing

\* A file only moves on to later contents.
LEMMA FilesMoveOn ==
  ASSUME BatchInv, [Next]_vars, NEW p \in Reports
  PROVE  disk[p].content \in Nat /\ disk'[p].content \in Nat /\ disk[p].content <= disk'[p].content
<1>1. disk \in [Reports -> [content : Contents, present : BOOLEAN]] /\ Contents \subseteq Nat
  BY Bounds DEF BatchInv, BatchTypeOK
<1>2. ASSUME NEW q \in Replaced, Replace(q)
      PROVE  disk'[p].content \in Nat /\ disk[p].content <= disk'[p].content
  <2>1. disk' = [disk EXCEPT ![q] = [content |-> disk[q].content + 1, present |-> TRUE]]
    BY <1>2 DEF Replace
  <2>2. \/ disk'[p] = disk[p]
        \/ disk'[p].content = disk[p].content + 1
    BY <1>1, <2>1
  <2>3. disk[p].content \in Nat
    BY <1>1
  <2>4. QED
    BY <2>2, <2>3
<1>3. ASSUME NEW q \in Moved, RemoveOrPutBack(q)
      PROVE  disk'[p].content = disk[p].content
  <2>1. PICK there \in BOOLEAN : disk' = [disk EXCEPT ![q].present = there]
    BY <1>3 DEF RemoveOrPutBack
  <2>2. QED
    BY <1>1, <2>1
<1>4. \/ disk' = disk
      \/ \E q \in Replaced : Replace(q)
      \/ \E q \in Moved : RemoveOrPutBack(q)
  <2>1. ASSUME NEW q \in Reports, Parse(q) \/ ParseFails(q) \/ Consume(q) PROVE disk' = disk
    BY <2>1 DEF Parse, ParseFails, Consume
  <2>2. ASSUME \/ StartRun \/ InspectAndSelect \/ PlanParsing \/ SaveAndVerify \/ Reconcile
               \/ UpsertFacts \/ RefreshRows \/ MarkParsed \/ RunEnds \/ Upgrade
               \/ UNCHANGED vars
        PROVE  disk' = disk
    BY <2>2 DEF StartRun, InspectAndSelect, PlanParsing, SaveAndVerify, Reconcile, UpsertFacts,
       RefreshRows, MarkParsed, RunEnds, Upgrade, vars
  <2>3. ASSUME NEW k \in WebPeriods, WebPromotes(k) PROVE disk' = disk
    BY <2>3 DEF WebPromotes
  <2>4. QED
    BY <2>1, <2>2, <2>3 DEF Next
<1>5. disk[p].content \in Nat
  BY <1>1
<1>6. QED
  BY <1>2, <1>3, <1>4, <1>5

\* Once it has selected, a run keeps its selection and what it is based on.
Later ==
  /\ run'.at \notin {"idle", "listed"}
  /\ run'.listed = run.listed /\ run'.known = run.known /\ run'.selected = run.selected

LEMMA SelectionKept ==
  ASSUME BatchInv, [Next]_vars, run.at \notin {"idle", "listed"}
  PROVE  run' = IdleRun \/ Later
<1>1. run \in Run
  BY DEF BatchInv, BatchTypeOK
<1>2. ASSUME NEW point \in Points \ {"idle", "listed"}, run' = [run EXCEPT !.at = point]
      PROVE  Later
  BY <1>1, <1>2 DEF Later, Run
<1>3. {"parsing", "verified", "reconciled", "upserted", "refreshed", "committed"}
        \subseteq Points \ {"idle", "listed"}
  BY DEF Points, Writing
<1>4. ASSUME PlanParsing PROVE Later
  BY <1>1, <1>4 DEF PlanParsing, Later, Run
<1>5. ASSUME NEW p \in Reports, Parse(p) PROVE Later
  BY <1>1, <1>5 DEF Parse, Later, Run
<1>6. ASSUME NEW p \in Reports, ParseFails(p) \/ Consume(p) PROVE Later
  BY <1>1, <1>6 DEF ParseFails, Consume, Parked, Later, Run
<1>7. ASSUME SaveAndVerify PROVE run' = IdleRun \/ Later
  BY <1>2, <1>3, <1>7 DEF SaveAndVerify
<1>8. ASSUME Reconcile \/ UpsertFacts \/ RefreshRows PROVE Later
  BY <1>2, <1>3, <1>8 DEF Reconcile, UpsertFacts, RefreshRows, Advance
<1>9. ASSUME MarkParsed PROVE Later
  BY <1>1, <1>9 DEF MarkParsed, Later, Run
<1>10. ASSUME run' = run PROVE Later
  BY <1>10 DEF Later
<1>11. QED
  BY <1>4, <1>5, <1>6, <1>7, <1>8, <1>9, <1>10
     DEF Next, vars, StartRun, InspectAndSelect, RunEnds, Replace, RemoveOrPutBack, Upgrade,
     WebPromotes

\* What a run selects and knows determines what is best; files may only get newer.
LEMMA LaterKeepsSelection ==
  ASSUME BatchInv, [Next]_vars, SelectionIsBest, run.at \notin {"idle", "listed"}, Later
  PROVE  SelectionIsBest'
<1>1. ASSUME NEW k \in Periods
      PROVE  Best(k)' = {p \in run'.selected : KnownPeriod(p)' = k}
  <2>1. Best(k) = BestOf(run.known, k) /\ Best(k)' = BestOf(run'.known, k)
    BY DEF Best, BestOf
  <2>2. \A p \in run.selected : KnownPeriod(p)' = KnownPeriod(p)
    BY DEF Later, KnownPeriod, PeriodOf
  <2>3. Best(k) = {p \in run.selected : KnownPeriod(p) = k}
    BY DEF SelectionIsBest
  <2>4. QED
    BY <2>1, <2>2, <2>3 DEF Later
<1>2. ASSUME NEW p \in run.selected
      PROVE  run.listed[p] <= run.known[p] /\ run.known[p] <= disk'[p].content
  <2>1. p \in Reports /\ run.known[p] \in Nat
    BY Bounds DEF BatchInv, BatchTypeOK, Run
  <2>2. QED
    BY <2>1, FilesMoveOn DEF SelectionIsBest
<1>3. QED
  BY <1>1, <1>2 DEF Later, SelectionIsBest

LEMMA InspectAndSelectHolds ==
  ASSUME BatchInv, BatchInv', InspectAndSelect
  PROVE  RunInv'
<1> DEFINE listed == {p \in Reports : run.listed[p] # 0}
           known == [p \in Reports |-> IF p \in listed THEN KnownContent(p) ELSE 0]
           inspected == {p \in listed : known[p] # 0 /\ About[p][known[p]].kind # "unreadable"}
           meta == [p \in inspected |-> About[p][known[p]]]
           status == [p \in listed |-> IF p \in inspected THEN Decision(inspected, meta, p)
                                                        ELSE "unreadable"]
           selected == {p \in inspected : status[p] = "selected"}
           memory == [p \in Reports |->
             IF p \notin listed \/ (p \in selected /\ Parsed(run.memory[p], p)) THEN run.memory[p]
             ELSE [status |-> status[p], content |-> run.listed[p], extractor |-> 0]]
<1>1. run \in Run /\ ReadInOrder /\ BatchTypeOK /\ disk' = disk /\ extractor' = extractor
  BY DEF BatchInv, BatchTypeOK, InspectAndSelect
<1>2. run' = [run EXCEPT !.at = "selected", !.known = known, !.memory = memory,
                         !.selected = selected]
  BY DEF InspectAndSelect
<1>3. known \in [Reports -> 0..MaxContent]
  BY <1>1, OnDiskType DEF KnownContent, Run
<1>4. inspected = Inspected(known)
  BY DEF Inspected
<1>5. selected = Selected(known)
  <2>1. meta = MetaOf(known)
    BY <1>4 DEF MetaOf
  <2>2. selected = {p \in inspected : Decision(inspected, meta, p) = "selected"}
    OBVIOUS
  <2> HIDE DEF inspected, meta, selected, known
  <2>3. QED
    BY <1>4, <2>1, <2>2 DEF Selected
<1>6. \A p \in listed : status[p] \in Statuses \ {"absent", "parsed", "parsed_pending_commit"}
  BY DecisionType DEF Statuses
<1>7. ASSUME NEW p \in selected
      PROVE  run.listed[p] <= known[p] /\ known[p] <= disk[p].content
  <2>1. p \in Reports /\ known[p] # 0 /\ (known[p] = run.listed[p] \/ known[p] = OnDisk(p))
    BY DEF KnownContent
  <2>2. /\ OnDisk(p) \in Nat /\ disk[p].content \in Nat /\ run.listed[p] \in Nat
        /\ (OnDisk(p) # 0 => OnDisk(p) = disk[p].content)
    BY <1>1, <2>1, Bounds, OnDiskType DEF OnDisk, Run, BatchTypeOK
  <2>3. run.listed[p] <= disk[p].content
    BY <1>1, <2>1 DEF ReadInOrder
  <2> HIDE DEF known, selected
  <2>4. QED
    BY <2>1, <2>2, <2>3
<1>8. \A p \in listed : \/ memory[p] = run.memory[p] /\ Parsed(run.memory[p], p)
                        \/ memory[p] = [status |-> status[p], content |-> run.listed[p],
                                        extractor |-> 0]
  OBVIOUS
<1>9. \A p \in listed : status[p] = "selected" => p \in selected
  OBVIOUS
<1> HIDE DEF known, inspected, meta, status, selected, memory
<1>10. /\ run'.at = "selected" /\ run'.listed = run.listed /\ run'.memory = memory
       /\ run'.selected = selected /\ run'.known = known
  BY <1>1, <1>2 DEF Run
<1>11. SelectionIsBest'
  <2>1. ASSUME NEW k \in Periods
        PROVE  Best(k)' = {p \in run'.selected : KnownPeriod(p)' = k}
    <3>1. Best(k)' = BestOf(known, k)
      BY <1>10 DEF Best, BestOf
    <3>2. BestOf(known, k) = {p \in selected : PeriodOf(p, known[p]) = k}
      BY <1>3, <1>5, SelectedAreBest
    <3>3. QED
      BY <1>10, <3>1, <3>2 DEF KnownPeriod
  <2>2. QED
    BY <1>1, <1>7, <1>10, <2>1 DEF SelectionIsBest
<1>12. MemoryAccounts'
  <2>1. ASSUME NEW p \in Reports, run.listed[p] # 0
        PROVE  /\ memory[p].content = run.listed[p]
               /\ memory[p].status \notin {"absent", "parsed_pending_commit"}
               /\ memory[p].status = "selected" => p \in selected
               /\ memory[p].status = "parsed" => memory[p].extractor = extractor
    <3>1. p \in listed
      BY <2>1
    <3>2. CASE memory[p] = run.memory[p] /\ Parsed(run.memory[p], p)
      BY <3>2 DEF Parsed
    <3>3. CASE memory[p] = [status |-> status[p], content |-> run.listed[p], extractor |-> 0]
      BY <1>6, <1>9, <3>1, <3>3
    <3>4. QED
      BY <1>8, <3>1, <3>2, <3>3
  <2>2. QED
    BY <1>1, <1>10, <2>1 DEF MemoryAccounts
<1>13. VerifiedIsKnown' /\ CommittedIsSaved' /\ AuthorityMatchesDirectory'
  BY <1>10 DEF VerifiedIsKnown, CommittedIsSaved, AuthorityMatchesDirectory, Writing
<1>14. QED
  BY <1>11, <1>12, <1>13 DEF RunInv

-----------------------------------------------------------------------------
(* The later steps keep it.                                                *)

\* Before it writes, a run promises nothing of the database.
LEMMA NotYetWriting ==
  ASSUME run'.at \in {"selected", "parsing"}
  PROVE  VerifiedIsKnown' /\ CommittedIsSaved' /\ AuthorityMatchesDirectory'
BY DEF VerifiedIsKnown, CommittedIsSaved, AuthorityMatchesDirectory, Writing

LEMMA MemoryKept ==
  ASSUME MemoryAccounts, Later, run.at \notin {"idle", "listed", "selected"},
         run'.memory = run.memory, run'.pending = run.pending, run'.todo = run.todo,
         extractor' = extractor
  PROVE  MemoryAccounts'
BY DEF MemoryAccounts, Later

LEMMA VerifiedKept ==
  ASSUME VerifiedIsKnown, Later, run.at \in {"verified"} \cup Writing, run'.todo = run.todo
  PROVE  VerifiedIsKnown'
BY DEF VerifiedIsKnown, Later

LEMMA SameBest ==
  ASSUME run'.known = run.known, NEW k
  PROVE  Best(k)' = Best(k)
<1>1. Best(k) = BestOf(run.known, k) /\ Best(k)' = BestOf(run'.known, k)
  BY DEF Best, BestOf
<1>2. QED
  BY <1>1

LEMMA AuthorityKept ==
  ASSUME AuthorityMatchesDirectory, Later, run.at \in Writing \/ run'.at = run.at,
         web' = web, authority' = authority
  PROVE  AuthorityMatchesDirectory'
<1>1. \A k : Best(k)' = Best(k)
  BY SameBest DEF Later
<1>2. QED
  BY <1>1 DEF AuthorityMatchesDirectory, Later, PeriodOf

LEMMA PlanParsingHolds ==
  ASSUME BatchInv, RunInv, SelectionIsBest', PlanParsing
  PROVE  RunInv'
<1>1. run \in Run /\ run.at = "selected" /\ extractor' = extractor
  BY DEF PlanParsing, BatchInv, BatchTypeOK
<1>2. PICK todo \in SUBSET run.selected :
        /\ run' = [run EXCEPT !.at = "parsing", !.todo = todo]
        /\ \A p \in run.selected : run.memory[p].status # "parsed" => p \in todo
  BY DEF PlanParsing, Parsed
<1>3. /\ run'.at = "parsing" /\ run'.todo = todo
      /\ run'.listed = run.listed /\ run'.memory = run.memory /\ run'.selected = run.selected
      /\ run'.pending = run.pending
  BY <1>1, <1>2 DEF Run
<1>4. MemoryAccounts'
  BY <1>1, <1>2, <1>3 DEF RunInv, MemoryAccounts
<1>5. QED
  BY <1>3, <1>4, NotYetWriting DEF RunInv

LEMMA ParseHolds ==
  ASSUME BatchInv, RunInv, SelectionIsBest', Later, NEW p \in Reports, Parse(p)
  PROVE  RunInv'
<1>1. run \in Run /\ run.at = "parsing" /\ extractor' = extractor
      /\ run' = [run EXCEPT !.read[p] = OnDisk(p)]
  BY DEF Parse, BatchInv, BatchTypeOK
<1>2. /\ run'.at = run.at /\ run'.memory = run.memory /\ run'.pending = run.pending
      /\ run'.todo = run.todo
  BY <1>1 DEF Run
<1>3. QED
  BY <1>1, <1>2, MemoryKept, NotYetWriting DEF RunInv

\* Parsing settles a report: it is given up with a final status, or waits to be
\* written.
LEMMA SettledHolds ==
  ASSUME BatchInv, RunInv, SelectionIsBest', Later, NEW p \in Reports,
         ParseFails(p) \/ Consume(p)
  PROVE  RunInv'
<1>1. /\ run \in Run /\ run.at = "parsing" /\ p \in run.todo /\ extractor' = extractor
      /\ p \notin run.pending /\ run.memory \in [Reports -> Entry]
  BY DEF ParseFails, Consume, BatchInv, BatchTypeOK, PendingIsRead, Run
<1>2. PICK entry : /\ run'.at = "parsing" /\ run'.todo = run.todo \ {p}
                   /\ run'.memory = [run.memory EXCEPT ![p] = entry]
                   /\ entry.content = run.listed[p]
                   /\ \/ entry.status \in {"error", "needs_review"} /\ run'.pending = run.pending
                      \/ /\ entry.status = "parsed_pending_commit"
                         /\ run'.pending = run.pending \cup {p}
  <2>1. ASSUME NEW status \in {"error", "needs_review"}, run' = Parked(p, status)
        PROVE  LET entry == [status |-> status, content |-> run.listed[p], extractor |-> 0]
               IN  /\ run'.at = "parsing" /\ run'.todo = run.todo \ {p}
                   /\ run'.memory = [run.memory EXCEPT ![p] = entry]
                   /\ entry.content = run.listed[p]
                   /\ entry.status \in {"error", "needs_review"} /\ run'.pending = run.pending
    BY <1>1, <2>1 DEF Parked, Run
  <2>2. ASSUME run' = [run EXCEPT !.todo = @ \ {p}, !.pending = @ \cup {p},
                         !.memory[p] = [status |-> "parsed_pending_commit",
                                        content |-> run.listed[p], extractor |-> extractor]]
        PROVE  LET entry == [status |-> "parsed_pending_commit",
                             content |-> run.listed[p], extractor |-> extractor]
               IN  /\ run'.at = "parsing" /\ run'.todo = run.todo \ {p}
                   /\ run'.memory = [run.memory EXCEPT ![p] = entry]
                   /\ entry.content = run.listed[p]
                   /\ entry.status = "parsed_pending_commit"
                   /\ run'.pending = run.pending \cup {p}
    BY <1>1, <2>2 DEF Run
  <2>3. CASE \E status \in {"error", "needs_review"} : run' = Parked(p, status)
    BY <2>1, <2>3
  <2>4. CASE run' = [run EXCEPT !.todo = @ \ {p}, !.pending = @ \cup {p},
                         !.memory[p] = [status |-> "parsed_pending_commit",
                                        content |-> run.listed[p], extractor |-> extractor]]
    BY <2>2, <2>4
  <2>5. QED
    BY <2>3, <2>4 DEF ParseFails, Consume
<1>3. MemoryAccounts'
  <2>1. ASSUME NEW q \in Reports, run.listed[q] # 0
        PROVE  /\ run'.memory[q].content = run.listed[q]
               /\ run'.memory[q].status # "absent"
               /\ run'.memory[q].status = "selected" => q \in run.selected /\ q \in run'.todo
               /\ run'.memory[q].status = "parsed_pending_commit" => q \in run'.pending
               /\ run'.memory[q].status = "parsed" => run'.memory[q].extractor = extractor
    <3>1. CASE q = p
      BY <1>1, <1>2, <3>1
    <3>2. CASE q # p
      <4>1. run'.memory[q] = run.memory[q]
        BY <1>1, <1>2, <3>2
      <4>2. /\ run.memory[q].content = run.listed[q]
            /\ run.memory[q].status # "absent"
            /\ run.memory[q].status = "selected" => q \in run.selected /\ q \in run.todo
            /\ run.memory[q].status = "parsed_pending_commit" => q \in run.pending
            /\ run.memory[q].status = "parsed" => run.memory[q].extractor = extractor
        BY <1>1, <2>1 DEF RunInv, MemoryAccounts
      <4>3. QED
        BY <1>2, <3>2, <4>1, <4>2
    <3>3. QED
      BY <3>1, <3>2
  <2>2. QED
    BY <1>1, <2>1 DEF MemoryAccounts, Later
<1>4. QED
  BY <1>2, <1>3, NotYetWriting DEF RunInv

\* The check of the files turns what is known into what was signed.
LEMMA SaveAndVerifyHolds ==
  ASSUME BatchInv, RunInv, SelectionIsBest', Later, SaveAndVerify, run' # IdleRun
  PROVE  RunInv'
<1>1. /\ run \in Run /\ run.at = "parsing" /\ run.todo = {} /\ extractor' = extractor
      /\ run' = [run EXCEPT !.at = "verified"] /\ \A p \in run.selected : Unchanged(p)
  BY DEF SaveAndVerify, BatchInv, BatchTypeOK
<1>2. /\ run'.at = "verified" /\ run'.memory = run.memory /\ run'.pending = run.pending
      /\ run'.todo = run.todo
  BY <1>1 DEF Run
<1>3. ASSUME NEW p \in run.selected PROVE run.known[p] = run.listed[p]
  <2>1. p \in Reports /\ run.listed[p] # 0 /\ OnDisk(p) = run.listed[p]
    BY <1>1 DEF Run, BatchInv, EarlyIsEmpty, Unchanged
  <2>2. disk[p].content = run.listed[p]
    BY <2>1 DEF OnDisk
  <2>3. run.listed[p] <= run.known[p] /\ run.known[p] <= disk[p].content
    BY <1>1 DEF RunInv, SelectionIsBest
  <2>4. run.listed[p] \in Nat /\ run.known[p] \in Nat
    BY <1>1, <2>1, Bounds DEF Run
  <2>5. QED
    BY <2>2, <2>3, <2>4
<1>4. VerifiedIsKnown'
  BY <1>1, <1>2, <1>3 DEF VerifiedIsKnown, Later
<1>5. MemoryAccounts'
  BY <1>1, <1>2, MemoryKept DEF RunInv
<1>6. CommittedIsSaved' /\ AuthorityMatchesDirectory'
  BY <1>2 DEF CommittedIsSaved, AuthorityMatchesDirectory, Writing
<1>7. QED
  BY <1>4, <1>5, <1>6 DEF RunInv

\* Reconciling makes the selection, with the bytes that were signed, the whole of
\* the CURRENT batch sources.
LEMMA ReconcileHolds ==
  ASSUME BatchInv, RunInv, SelectionIsBest', Later, Reconcile
  PROVE  RunInv'
<1>1. /\ run \in Run /\ run.at = "verified" /\ extractor' = extractor /\ BatchTypeOK
      /\ run' = [run EXCEPT !.at = "reconciled"] /\ web' = web
  BY DEF Reconcile, Advance, BatchInv, BatchTypeOK
<1>2. /\ run'.at = "reconciled" /\ run'.memory = run.memory /\ run'.pending = run.pending
      /\ run'.todo = run.todo
  BY <1>1 DEF Run
<1>3. MemoryAccounts' /\ VerifiedIsKnown' /\ CommittedIsSaved'
  BY <1>1, <1>2, MemoryKept, VerifiedKept DEF RunInv, CommittedIsSaved
<1>4. \A p \in Reports, c \in Contents :
        authority'[p][c] = "CURRENT" <=> p \in run.selected /\ c = run.listed[p]
  BY DEF Reconcile
<1>5. \A p \in run.selected :
        p \in Reports /\ run.listed[p] \in Contents /\ run.known[p] = run.listed[p]
  <2>1. \A p \in run.selected : p \in Reports /\ run.listed[p] \in 0..MaxContent
                                /\ run.listed[p] # 0
    BY <1>1 DEF Run, BatchInv, EarlyIsEmpty
  <2>2. QED
    BY <1>1, <2>1, SomeContent DEF RunInv, VerifiedIsKnown
<1>6. ASSUME NEW k \in Periods
      PROVE  {s \in Reports \X Contents : /\ PeriodOf(s[1], s[2]) = k
                                          /\ authority'[s[1]][s[2]] = "CURRENT"}
               = {<<p, run.listed[p]>> : p \in Best(k)}
  <2>1. Best(k) = {p \in run.selected : PeriodOf(p, run.listed[p]) = k}
    BY <1>1, <1>5 DEF RunInv, SelectionIsBest, KnownPeriod
  <2>2. ASSUME NEW s \in Reports \X Contents, PeriodOf(s[1], s[2]) = k,
               authority'[s[1]][s[2]] = "CURRENT"
        PROVE  s \in {<<p, run.listed[p]>> : p \in Best(k)}
    <3>1. s[1] \in run.selected /\ s[2] = run.listed[s[1]] /\ s = <<s[1], s[2]>>
      BY <1>4, <2>2
    <3>2. s[1] \in Best(k)
      BY <2>1, <2>2, <3>1
    <3>3. QED
      BY <3>1, <3>2
  <2>3. ASSUME NEW p \in Best(k)
        PROVE  /\ <<p, run.listed[p]>> \in Reports \X Contents
               /\ PeriodOf(p, run.listed[p]) = k /\ authority'[p][run.listed[p]] = "CURRENT"
    BY <1>4, <1>5, <2>1
  <2>4. QED
    BY <2>2, <2>3
<1>7. AuthorityMatchesDirectory'
  <2>1. ASSUME NEW k \in Periods PROVE Best(k)' = Best(k)
    BY SameBest DEF Later
  <2>2. ASSUME NEW k \in Periods
        PROVE  {s \in Reports \X Contents : /\ PeriodOf(s[1], s[2]) = k
                                            /\ authority'[s[1]][s[2]] = "CURRENT"}
                 = {<<p, run'.listed[p]>> : p \in Best(k)'}
    BY <1>6, <2>1 DEF Later
  <2>3. QED
    BY <2>2 DEF AuthorityMatchesDirectory, PeriodOf
<1>8. QED
  BY <1>3, <1>7 DEF RunInv

LEMMA WritingHolds ==
  ASSUME BatchInv, RunInv, SelectionIsBest', Later, UpsertFacts \/ RefreshRows
  PROVE  RunInv'
<1>1. /\ run \in Run /\ run.at \in {"reconciled", "upserted"} /\ extractor' = extractor
      /\ run' = [run EXCEPT !.at = "upserted"] \/ run' = [run EXCEPT !.at = "refreshed"]
      /\ web' = web /\ authority' = authority
  BY DEF UpsertFacts, RefreshRows, Advance, BatchInv, BatchTypeOK
<1>2. /\ run'.at # "committed" /\ run'.memory = run.memory /\ run'.pending = run.pending
      /\ run'.todo = run.todo
  BY <1>1 DEF Run
<1>3. QED
  BY <1>1, <1>2, MemoryKept, VerifiedKept, AuthorityKept DEF RunInv, CommittedIsSaved, Writing

\* Marking leaves nothing waiting.
LEMMA MarkParsedHolds ==
  ASSUME BatchInv, RunInv, SelectionIsBest', Later, MarkParsed
  PROVE  RunInv'
<1> DEFINE memory == [p \in Reports |-> IF p \in run.pending
                        THEN [run.memory[p] EXCEPT !.status = "parsed"] ELSE run.memory[p]]
<1>1. /\ run \in Run /\ run.at = "refreshed" /\ extractor' = extractor
      /\ run' = [run EXCEPT !.at = "committed", !.memory = memory] /\ entries' = memory
      /\ web' = web /\ authority' = authority /\ PendingIsRead /\ MemoryAccounts
  BY DEF MarkParsed, BatchInv, BatchTypeOK, RunInv
<1>2. \A p \in Reports :
        IF p \in run.pending
        THEN /\ memory[p].status = "parsed" /\ memory[p].content = run.memory[p].content
             /\ memory[p].extractor = run.memory[p].extractor
        ELSE memory[p] = run.memory[p]
  BY <1>1 DEF Run, Entry
<1> HIDE DEF memory
<1>3. /\ run'.at = "committed" /\ run'.memory = memory /\ run'.pending = run.pending
      /\ run'.todo = run.todo /\ run'.listed = run.listed
  BY <1>1 DEF Run
<1>4. ASSUME NEW p \in Reports, run.listed[p] # 0
      PROVE  /\ memory[p].content = run.listed[p]
             /\ memory[p].status \notin {"absent", "parsed_pending_commit"}
             /\ memory[p].status = "selected" => p \in run.selected /\ p \in run.todo
             /\ memory[p].status = "parsed" => memory[p].extractor = extractor
  <2>1. CASE p \in run.pending
    BY <1>1, <1>2, <2>1 DEF PendingIsRead
  <2>2. CASE p \notin run.pending
    BY <1>1, <1>2, <1>4, <2>2 DEF MemoryAccounts
  <2>3. QED
    BY <2>1, <2>2
<1>5. MemoryAccounts'
  BY <1>1, <1>3, <1>4 DEF MemoryAccounts, Later
<1>6. CommittedIsSaved'
  BY <1>1, <1>3, <1>4 DEF CommittedIsSaved
<1>7. VerifiedIsKnown' /\ AuthorityMatchesDirectory'
  BY <1>1, <1>3, VerifiedKept, AuthorityKept DEF RunInv, Writing
<1>8. QED
  BY <1>5, <1>6, <1>7 DEF RunInv

\* A Web promotion takes a period out of the batch's hands and touches no other.
LEMMA EnvironmentHolds ==
  ASSUME BatchInv, RunInv, SelectionIsBest', run.at \notin {"idle", "listed"},
         \/ \E p \in Replaced : Replace(p)
         \/ \E p \in Moved : RemoveOrPutBack(p)
         \/ Upgrade
         \/ \E k \in WebPeriods : WebPromotes(k)
  PROVE  RunInv'
<1>1. /\ run' = run /\ entries' = entries /\ extractor' = extractor
  BY DEF Replace, RemoveOrPutBack, Upgrade, WebPromotes
<1>2. VerifiedIsKnown' /\ MemoryAccounts' /\ CommittedIsSaved'
  BY <1>1 DEF RunInv, VerifiedIsKnown, MemoryAccounts, CommittedIsSaved
<1>3. \/ web' = web /\ authority' = authority
      \/ \E k \in WebPeriods : WebPromotes(k)
  BY DEF Replace, RemoveOrPutBack, Upgrade
<1>4. CASE web' = web /\ authority' = authority
  <2>1. Later /\ run'.at = run.at
    BY <1>1 DEF Later
  <2>2. AuthorityMatchesDirectory /\ SelectionIsBest'
    BY DEF RunInv
  <2>3. AuthorityMatchesDirectory'
    BY <1>4, <2>1, <2>2, AuthorityKept
  <2>4. QED
    BY <1>2, <2>2, <2>3 DEF RunInv
<1>5. ASSUME NEW w \in WebPeriods, WebPromotes(w)
      PROVE  AuthorityMatchesDirectory'
  <2>1. web' = web \cup {w}
    BY <1>5 DEF WebPromotes
  <2>2. ASSUME NEW p \in Reports, NEW c \in Contents, PeriodOf(p, c) # w
        PROVE  authority'[p][c] = authority[p][c]
    BY <1>5, <2>2 DEF WebPromotes
  <2>3. ASSUME NEW k \in Periods \ web', run.at \in Writing
        PROVE  {s \in Reports \X Contents : /\ PeriodOf(s[1], s[2]) = k
                                            /\ authority'[s[1]][s[2]] = "CURRENT"}
                 = {<<p, run'.listed[p]>> : p \in Best(k)'}
    <3>1. k \in Periods \ web /\ k # w
      BY <2>1
    <3>2. Best(k)' = Best(k)
      BY <1>1, SameBest
    <3>3. {s \in Reports \X Contents : /\ PeriodOf(s[1], s[2]) = k
                                       /\ authority[s[1]][s[2]] = "CURRENT"}
            = {<<p, run.listed[p]>> : p \in Best(k)}
      BY <2>3, <3>1 DEF RunInv, AuthorityMatchesDirectory
    <3>4. \A s \in Reports \X Contents :
            PeriodOf(s[1], s[2]) = k => authority'[s[1]][s[2]] = authority[s[1]][s[2]]
      BY <2>2, <3>1
    <3>5. QED
      BY <1>1, <3>2, <3>3, <3>4
  <2>4. QED
    BY <1>1, <2>3 DEF AuthorityMatchesDirectory, PeriodOf
<1>6. QED
  BY <1>2, <1>3, <1>4, <1>5 DEF RunInv

LEMMA RunInvNext == BatchInv /\ BatchInv' /\ RunInv /\ [Next]_vars => RunInv'
<1> SUFFICES ASSUME BatchInv, BatchInv', RunInv, [Next]_vars PROVE RunInv'
  OBVIOUS
<1>1. ASSUME run'.at \in {"idle", "listed"} PROVE RunInv'
  BY <1>1 DEF RunInv, SelectionIsBest, VerifiedIsKnown, MemoryAccounts, CommittedIsSaved,
     AuthorityMatchesDirectory, Writing
<1>2. IdleRun.at = "idle"
  BY DEF IdleRun
<1>3. CASE run.at \in {"idle", "listed"} /\ run'.at \notin {"idle", "listed"}
  <2>1. run' # run
    BY <1>3
  <2>2. ~StartRun
    <3>1. SUFFICES ASSUME StartRun PROVE run'.at = "listed"
      BY <1>3
    <3>2. QED
      BY <3>1 DEF StartRun, IdleRun
  <2>3. InspectAndSelect
    BY <1>2, <1>3, <2>1, <2>2
       DEF Next, vars, PlanParsing, Parse, ParseFails, Consume, SaveAndVerify, Reconcile,
       UpsertFacts, RefreshRows, MarkParsed, RunEnds, Replace, RemoveOrPutBack, Upgrade, WebPromotes
  <2>4. QED
    BY <2>3, InspectAndSelectHolds
<1>4. CASE run.at \notin {"idle", "listed"} /\ run'.at \notin {"idle", "listed"}
  <2>1. Later /\ SelectionIsBest' /\ run' # IdleRun
    BY <1>2, <1>4, SelectionKept, LaterKeepsSelection DEF RunInv
  <2>2. CASE UNCHANGED vars
    <3>1. run' = run /\ entries' = entries /\ extractor' = extractor /\ web' = web
          /\ authority' = authority
      BY <2>2 DEF vars
    <3>2. VerifiedIsKnown' /\ MemoryAccounts' /\ CommittedIsSaved'
      BY <3>1 DEF RunInv, VerifiedIsKnown, MemoryAccounts, CommittedIsSaved
    <3>3. QED
      BY <2>1, <3>1, <3>2, AuthorityKept DEF RunInv
  <2>3. ~StartRun /\ ~InspectAndSelect /\ ~RunEnds
    BY <1>4, <2>1 DEF StartRun, InspectAndSelect, RunEnds
  <2>4. QED
    BY <1>4, <2>1, <2>2, <2>3, PlanParsingHolds, ParseHolds, SettledHolds, SaveAndVerifyHolds,
       ReconcileHolds, WritingHolds, MarkParsedHolds, EnvironmentHolds
       DEF Next
<1>5. QED
  BY <1>1, <1>3, <1>4

LEMMA RunInvCorrect == Spec => [](BatchInv /\ RunInv)
<1>1. Init => RunInv
  BY NothingHeld DEF Init, IdleRun
<1>2. QED
  BY <1>1, BatchInvCorrect, RunInvNext, PTL DEF Spec

-----------------------------------------------------------------------------
\* From the moment a run has reconciled, each period that is not Web's has the
\* best report of the directory as its only CURRENT batch source, or none, for
\* every directory and whatever is replaced while the run works (pipeline.py,
\* reconcile_batch_authoritative_sources; ingestion.py,
\* select_authoritative_reports).
THEOREM AuthorityIsTheBestOfTheDirectory == Spec => []AuthorityMatchesDirectory
<1>1. RunInv => AuthorityMatchesDirectory
  BY DEF RunInv
<1>2. QED
  BY <1>1, RunInvCorrect, PTL

\* A run that has committed accounts for every file it listed, and what the state
\* file then lets later runs skip was stored by this very extractor (pipeline.py,
\* ingest_reports, _consume_parsed_record).
THEOREM CommittedRunsAccount == Spec => []EveryReportAccounted
<1>1. ASSUME BatchInv, RunInv, run.at = "committed", NEW p \in Reports, run.listed[p] # 0
      PROVE  /\ entries[p].content = run.listed[p]
             /\ entries[p].status \notin {"absent", "selected", "parsed_pending_commit"}
             /\ (entries[p].status = "parsed" /\ About[p][run.listed[p]].yield = "facts")
                  => stored[p][run.listed[p]].version = extractor
  <2>1. /\ entries = run.memory /\ run.todo = {}
        /\ run.memory[p].status # "parsed_pending_commit"
    BY <1>1 DEF RunInv, CommittedIsSaved, VerifiedIsKnown, Writing
  <2>2. /\ entries[p].content = run.listed[p]
        /\ entries[p].status \notin {"absent", "selected", "parsed_pending_commit"}
        /\ entries[p].status = "parsed" => entries[p].extractor = extractor
    BY <1>1, <2>1 DEF RunInv, MemoryAccounts
  <2>3. ASSUME entries[p].status = "parsed", About[p][run.listed[p]].yield = "facts"
        PROVE  stored[p][run.listed[p]].version = extractor
    <3>1. /\ run.listed[p] \in Contents
          /\ stored[p][run.listed[p]].version >= extractor
      BY <1>1, <2>2, <2>3 DEF BatchInv, LicensesHold, Licensed
    <3>2. stored[p][run.listed[p]].version <= extractor
      BY <1>1, <3>1 DEF BatchInv, VersionsPast
    <3>3. stored[p][run.listed[p]].version \in Nat /\ extractor \in Nat
      BY <1>1, <3>1, Bounds DEF BatchInv, BatchTypeOK, Facts
    <3>4. QED
      BY <3>1, <3>2, <3>3
  <2>4. QED
    BY <2>2, <2>3
<1>2. BatchInv /\ RunInv => EveryReportAccounted
  BY <1>1 DEF EveryReportAccounted
<1>3. QED
  BY <1>2, RunInvCorrect, PTL
=============================================================================
