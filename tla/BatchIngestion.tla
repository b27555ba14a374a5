---------------------------- MODULE BatchIngestion ----------------------------
(***************************************************************************)
(* The batch command's ingestion of a report directory (ingest_reports of  *)
(* pipeline.py) with the state file that lets it skip unchanged reports    *)
(* (ingestion_state.py).                                                   *)
(*                                                                         *)
(* A run signs the files, inspects their metadata, selects one report per  *)
(* period, parses what it cannot skip, checks that no selected file has    *)
(* changed, and then writes to the database in transactions of their own,  *)
(* and to the state file before, between and after them.  Meanwhile files  *)
(* are replaced, removed and put back, workers promote Web documents, and  *)
(* the command may be killed or raise between any two steps.  A later      *)
(* version of the program extracts with a later extractor version.         *)
(*                                                                         *)
(* A file is known by its digest.  A path never returns to bytes that were *)
(* replaced: the two readings a signature takes could not tell.            *)
(***************************************************************************)
EXTENDS ReportSelection

CONSTANTS
  Reports,      \* paths of report files
  MaxContent,   \* bound: contents a path has one after the other
  About,        \* per path and content, what an inspection and a parse find
  MaxVersion,   \* bound: extractor versions
  Replaced,     \* bound: the paths whose file may be replaced
  Moved,        \* bound: the paths whose file may be removed and put back
  WebPeriods    \* bound: the periods a Web document may be promoted for

Contents == 1..MaxContent
ExtractorVersions == 1..MaxVersion

ASSUME BatchAssumption ==
  /\ MaxContent \in Nat \ {0} /\ MaxVersion \in Nat \ {0}
  /\ Replaced \subseteq Reports /\ Moved \subseteq Reports /\ WebPeriods \subseteq Periods
  /\ About \in [Reports -> [Contents -> Metadata]]

VARIABLES
  disk,       \* the report files
  extractor,  \* extractor_version of the installed program
  entries,    \* the state file, as it would be loaded
  authority,  \* financial_source.authority_status of each path and content
  stored,     \* financial_fact: extractor version, and the bytes that were read
  rows,       \* periods that have their wide rows
  web,        \* periods whose CURRENT source is a Web document
  run         \* the command: where it is and what it holds in memory

vars == <<disk, extractor, entries, authority, stored, rows, web, run>>

-----------------------------------------------------------------------------
Statuses == {"absent", "unreadable", "needs_review", "skipped_summary", "superseded",
             "selected", "error", "parsed_pending_commit", "parsed"}
AuthorityStatuses == {"ABSENT", "CURRENT", "SUPERSEDED", "REMOVED"}
Writing == {"reconciled", "upserted", "refreshed", "committed"}
Points == {"idle", "listed", "selected", "parsing", "verified"} \cup Writing

\* Content 0 is no file, extractor 0 an entry without the field.
Entry == [status : Statuses, content : 0..MaxContent, extractor : 0..MaxVersion]
Facts == [version : 0..MaxVersion, read : 0..MaxContent]

NoEntry == [status |-> "absent", content |-> 0, extractor |-> 0]
NoFacts == [version |-> 0, read |-> 0]

\* Per path: the content signed (listed), the content whose metadata is used
\* (known) and the content parsed (read).
Run ==
  [at : Points, listed : [Reports -> 0..MaxContent], known : [Reports -> 0..MaxContent],
   read : [Reports -> 0..MaxContent], memory : [Reports -> Entry],
   selected : SUBSET Reports, todo : SUBSET Reports, pending : SUBSET Reports]

NoContent == [p \in Reports |-> 0]
IdleRun == [at |-> "idle", listed |-> NoContent, known |-> NoContent, read |-> NoContent,
            memory |-> [p \in Reports |-> NoEntry], selected |-> {}, todo |-> {}, pending |-> {}]

BatchTypeOK ==
  /\ disk \in [Reports -> [content : Contents, present : BOOLEAN]]
  /\ extractor \in ExtractorVersions
  /\ entries \in [Reports -> Entry]
  /\ authority \in [Reports -> [Contents -> AuthorityStatuses]]
  /\ stored \in [Reports -> [Contents -> Facts]]
  /\ rows \subseteq Periods /\ web \subseteq Periods
  /\ run \in Run
  /\ run.pending \subseteq run.selected /\ run.todo \subseteq run.selected

Init ==
  /\ disk = [p \in Reports |-> [content |-> 1, present |-> TRUE]]
  /\ extractor = 1
  /\ entries = [p \in Reports |-> NoEntry]
  /\ authority = [p \in Reports |-> [c \in Contents |-> "ABSENT"]]
  /\ stored = [p \in Reports |-> [c \in Contents |-> NoFacts]]
  /\ rows = {} /\ web = {}
  /\ run = IdleRun

-----------------------------------------------------------------------------
OnDisk(p) == IF disk[p].present THEN disk[p].content ELSE 0
PeriodOf(p, c) == About[p][c].period
KnownPeriod(p) == PeriodOf(p, run.known[p])
SelectedPeriods == {KnownPeriod(p) : p \in run.selected}

\* Bug: what is on disk is believed to be what was signed.
Trusting(p) == TRUE

\* sha256_file against the signature cached at the start of the run.
Unchanged(p) == OnDisk(p) = run.listed[p]

\* Bug: an entry of any extractor version will do.
ParsedByAny(entry, p) == entry.status = "parsed" /\ entry.content = run.listed[p]

\* An entry that says the bytes signed were ingested by this program.
Parsed(entry, p) ==
  /\ entry.status = "parsed"
  /\ entry.content = run.listed[p]
  /\ entry.extractor = extractor

\* _has_complete_period_record: the rows exist and SOME current source of the
\* period has facts of this version; nothing is asked of a text without sections.
HasCompletePeriodRecord(k, sections) ==
  sections =>
    /\ k \in rows
    /\ \/ k \in web
       \/ \E p \in Reports : \E c \in Contents :
            /\ PeriodOf(p, c) = k
            /\ authority[p][c] = "CURRENT"
            /\ stored[p][c].version = extractor

Advance(point) == run' = [run EXCEPT !.at = point]

-----------------------------------------------------------------------------
\* The files are listed and signed, the state file is loaded.
StartRun ==
  /\ run.at = "idle"
  /\ run' = [IdleRun EXCEPT !.at = "listed",
                            !.listed = [p \in Reports |-> OnDisk(p)],
                            !.memory = entries]
  /\ UNCHANGED <<disk, extractor, entries, authority, stored, rows, web>>

\* Inspection reads the file as it is now, unless the entry has the metadata of
\* the bytes signed.  The decisions go into the state file at once; only an
\* entry that is parsed and still selected survives.
KnownContent(p) ==
  IF run.memory[p].content = run.listed[p] /\ run.memory[p].status # "unreadable"
    THEN run.listed[p] ELSE OnDisk(p)

InspectAndSelect ==
  /\ run.at = "listed"
  /\ LET listed == {p \in Reports : run.listed[p] # 0}
         known == [p \in Reports |-> IF p \in listed THEN KnownContent(p) ELSE 0]
         inspected == {p \in listed : known[p] # 0 /\ About[p][known[p]].kind # "unreadable"}
         meta == [p \in inspected |-> About[p][known[p]]]
         status == [p \in listed |-> IF p \in inspected THEN Decision(inspected, meta, p)
                                                        ELSE "unreadable"]
         selected == {p \in inspected : status[p] = "selected"}
         memory == [p \in Reports |->
           IF p \notin listed \/ (p \in selected /\ Parsed(run.memory[p], p)) THEN run.memory[p]
           ELSE [status |-> status[p], content |-> run.listed[p], extractor |-> 0]]
     IN  /\ run' = [run EXCEPT !.at = "selected", !.known = known, !.memory = memory,
                               !.selected = selected]
         /\ entries' = memory
  /\ UNCHANGED <<disk, extractor, authority, stored, rows, web>>

\* Bug: whatever was listed is parsed, selected or not.
PlanParsingListed ==
  /\ run.at = "selected"
  /\ run' = [run EXCEPT !.at = "parsing", !.todo =
       {p \in Reports : run.listed[p] # 0 /\ ~Parsed(run.memory[p], p)}]
  /\ UNCHANGED <<disk, extractor, entries, authority, stored, rows, web>>

\* Which selected reports must be parsed.
PlanParsing ==
  /\ run.at = "selected"
  /\ run' = [run EXCEPT !.at = "parsing", !.todo =
       {p \in run.selected :
          ~( /\ Parsed(run.memory[p], p)
             /\ HasCompletePeriodRecord(KnownPeriod(p), About[p][run.known[p]].sections) )}]
  /\ UNCHANGED <<disk, extractor, entries, authority, stored, rows, web>>

\* A thread reads the document; its bytes are those of this moment.
Parse(p) ==
  /\ run.at = "parsing"
  /\ p \in run.todo /\ run.read[p] = 0
  /\ OnDisk(p) # 0
  /\ run' = [run EXCEPT !.read[p] = OnDisk(p)]
  /\ UNCHANGED <<disk, extractor, entries, authority, stored, rows, web>>

Parked(p, status) ==
  [run EXCEPT !.todo = @ \ {p}, !.read[p] = 0,
              !.memory[p] = [status |-> status, content |-> run.listed[p], extractor |-> 0]]

\* Extraction raises, also because the file is gone or has become unreadable.
ParseFails(p) ==
  /\ run.at = "parsing"
  /\ p \in run.todo /\ run.read[p] = 0
  /\ run' = Parked(p, "error")
  /\ UNCHANGED <<disk, extractor, entries, authority, stored, rows, web>>

\* _consume_parsed_record
Consume(p) ==
  /\ run.at = "parsing"
  /\ p \in run.todo /\ run.read[p] # 0
  /\ \/ /\ ~Unchanged(p)
        /\ run' = Parked(p, "error")
     \/ /\ Unchanged(p)
        /\ About[p][run.read[p]].yield = "short"
        /\ run' = Parked(p, "needs_review")
     \/ /\ Unchanged(p)
        /\ About[p][run.read[p]].yield # "short"
        /\ run' = [run EXCEPT !.todo = @ \ {p}, !.pending = @ \cup {p},
                     !.memory[p] = [status |-> "parsed_pending_commit",
                                    content |-> run.listed[p], extractor |-> extractor]]
  /\ UNCHANGED <<disk, extractor, entries, authority, stored, rows, web>>

\* Bug: the reports are marked before their facts are stored.
SaveAndVerifyMarking ==
  /\ run.at = "parsing" /\ run.todo = {}
  /\ entries' = [p \in Reports |-> IF p \in run.pending
                   THEN [run.memory[p] EXCEPT !.status = "parsed"] ELSE run.memory[p]]
  /\ run' = IF \A p \in run.selected : Unchanged(p) THEN [run EXCEPT !.at = "verified"]
                                                     ELSE IdleRun
  /\ UNCHANGED <<disk, extractor, authority, stored, rows, web>>

\* The state file is saved when the parsed reports are consumed; then
\* _verify_authoritative_inputs raises if a selected file has changed.
SaveAndVerify ==
  /\ run.at = "parsing" /\ run.todo = {}
  /\ entries' = run.memory
  /\ run' = IF \A p \in run.selected : Unchanged(p) THEN [run EXCEPT !.at = "verified"]
                                                     ELSE IdleRun
  /\ UNCHANGED <<disk, extractor, authority, stored, rows, web>>

\* Bug: only the periods that were requested are looked at.
ReconcileRequested ==
  /\ run.at = "verified"
  /\ SelectedPeriods \cap web = {}
  /\ authority' = [p \in Reports |-> [c \in Contents |->
       IF p \in run.selected /\ c = run.listed[p] THEN "CURRENT"
       ELSE IF authority[p][c] = "CURRENT" /\ PeriodOf(p, c) \in SelectedPeriods THEN "SUPERSEDED"
       ELSE authority[p][c]]]
  /\ Advance("reconciled")
  /\ UNCHANGED <<disk, extractor, entries, stored, rows, web>>

\* reconcile_batch_authoritative_sources, for the whole directory: a period
\* that is Web's raises, and nothing is reconciled.
Reconcile ==
  /\ run.at = "verified"
  /\ SelectedPeriods \cap web = {}
  /\ authority' = [p \in Reports |-> [c \in Contents |->
       IF p \in run.selected /\ c = run.listed[p] THEN "CURRENT"
       ELSE IF authority[p][c] # "CURRENT" THEN authority[p][c]
       ELSE IF PeriodOf(p, c) \in SelectedPeriods THEN "SUPERSEDED" ELSE "REMOVED"]]
  /\ Advance("reconciled")
  /\ UNCHANGED <<disk, extractor, entries, stored, rows, web>>

\* upsert_financial_facts: facts stored before are now of this version.
UpsertFacts ==
  /\ run.at = "reconciled"
  /\ stored' = [p \in Reports |-> [c \in Contents |->
       IF p \in run.pending /\ c = run.listed[p] /\ About[p][run.read[p]].yield = "facts"
         THEN [version |-> extractor, read |-> run.read[p]] ELSE stored[p][c]]]
  /\ Advance("upserted")
  /\ UNCHANGED <<disk, extractor, entries, authority, rows, web>>

\* refresh_fact_projection of every row the parsed reports gave.
RefreshRows ==
  /\ run.at = "upserted"
  /\ rows' = rows \cup {KnownPeriod(p) : p \in run.pending}
  /\ Advance("refreshed")
  /\ UNCHANGED <<disk, extractor, entries, authority, stored, web>>

\* "Mark files parsed only after all authoritative writes complete."
MarkParsed ==
  /\ run.at = "refreshed"
  /\ LET memory == [p \in Reports |-> IF p \in run.pending
                      THEN [run.memory[p] EXCEPT !.status = "parsed"] ELSE run.memory[p]]
     IN  /\ run' = [run EXCEPT !.at = "committed", !.memory = memory]
         /\ entries' = memory
  /\ UNCHANGED <<disk, extractor, authority, stored, rows, web>>

\* The command is over, killed, or has raised; memory is lost.
RunEnds ==
  /\ run.at # "idle"
  /\ run' = IdleRun
  /\ UNCHANGED <<disk, extractor, entries, authority, stored, rows, web>>

-----------------------------------------------------------------------------
(* The environment.                                                        *)

\* Once the inputs are verified nothing reads a file: a change then is no
\* different from one after the run.
FilesAreRead == run.at \notin {"verified"} \cup Writing

Replace(p) ==
  /\ FilesAreRead
  /\ disk[p].content < MaxContent
  /\ disk' = [disk EXCEPT ![p] = [content |-> @.content + 1, present |-> TRUE]]
  /\ UNCHANGED <<extractor, entries, authority, stored, rows, web, run>>

RemoveOrPutBack(p) ==
  /\ FilesAreRead
  /\ \E there \in BOOLEAN : disk' = [disk EXCEPT ![p].present = there]
  /\ UNCHANGED <<extractor, entries, authority, stored, rows, web, run>>

Upgrade ==
  /\ run.at = "idle" /\ extractor < MaxVersion
  /\ extractor' = extractor + 1
  /\ UNCHANGED <<disk, entries, authority, stored, rows, web, run>>

\* A worker promotes a document of the period.
WebPromotes(k) ==
  /\ k \notin web
  /\ web' = web \cup {k}
  /\ rows' = rows \cup {k}
  /\ authority' = [p \in Reports |-> [c \in Contents |->
       IF authority[p][c] = "CURRENT" /\ PeriodOf(p, c) = k THEN "SUPERSEDED"
       ELSE authority[p][c]]]
  /\ UNCHANGED <<disk, extractor, entries, stored, run>>

Next ==
  \/ StartRun \/ InspectAndSelect \/ PlanParsing
  \/ \E p \in Reports : Parse(p) \/ ParseFails(p) \/ Consume(p)
  \/ SaveAndVerify \/ Reconcile \/ UpsertFacts \/ RefreshRows \/ MarkParsed
  \/ RunEnds
  \/ \E p \in Replaced : Replace(p)
  \/ \E p \in Moved : RemoveOrPutBack(p)
  \/ Upgrade
  \/ \E k \in WebPeriods : WebPromotes(k)

Spec == Init /\ [][Next]_vars

-----------------------------------------------------------------------------
(* Properties.                                                             *)

\* An entry of the state file that says "parsed" is the licence to skip the
\* report for ever, so the facts of exactly those bytes are in the database, of
\* that extractor version or a later one, whatever was killed in between
\* (pipeline.py "Mark files parsed only after all authoritative writes").
ParsedMeansStored ==
  \A p \in Reports :
    entries[p].status = "parsed" =>
      LET c == entries[p].content
      IN  About[p][c].yield = "none" \/ stored[p][c].version >= entries[p].extractor

\* The facts stored under a source's digest were read from the bytes with that
\* digest, though signing, inspecting and parsing are three readings of a file
\* that may be replaced between them.
FactsMatchBytes ==
  \A p \in Reports, c \in Contents :
    stored[p][c].version > 0 => stored[p][c].read = c

\* The report a reader of the directory would choose for a period, by stages: a
\* revision if there is one, the latest of those, the original rather than a
\* copy; nothing if that leaves several.
Best(k) ==
  LET of(p) == About[p][run.known[p]]
      full == {p \in Reports : run.known[p] # 0 /\ of(p).kind = "full" /\ of(p).period = k}
      revised == {p \in full : of(p).revised = 1}
      first == IF revised # {} THEN revised ELSE full
      latest == {p \in first : \A q \in first : of(p).date >= of(q).date}
      original == {p \in latest : \A q \in latest : of(p).copy <= of(q).copy}
  IN  {p \in original : original = {p}}

\* Once a run has reconciled, the CURRENT batch source of each period that is
\* not Web's is that report with the bytes that were signed, and there is none
\* where the directory has no such report: removed files, ties, a report whose
\* period changed and cached metadata included.
AuthorityMatchesDirectory ==
  run.at \in Writing =>
    \A k \in Periods \ web :
      {s \in Reports \X Contents : /\ PeriodOf(s[1], s[2]) = k
                                   /\ authority[s[1]][s[2]] = "CURRENT"}
        = {<<p, run.listed[p]>> : p \in Best(k)}

\* When a run has committed, the state file accounts for every file that was
\* listed, under its present signature and with a final status; what it calls
\* parsed was stored by this program's extractor, also if it was skipped because
\* ANOTHER report's facts made the period complete.
EveryReportAccounted ==
  run.at = "committed" =>
    \A p \in Reports : run.listed[p] # 0 =>
      /\ entries[p].content = run.listed[p]
      /\ entries[p].status \notin {"absent", "selected", "parsed_pending_commit"}
      /\ (entries[p].status = "parsed" /\ About[p][run.listed[p]].yield = "facts")
           => stored[p][run.listed[p]].version = extractor
=============================================================================
