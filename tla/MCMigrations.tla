----------------------------- MODULE MCMigrations -----------------------------
(* Databases of every version with up to two jobs of a document, which may *)
(* be a document there is not, and databases with two sources: known by    *)
(* path only, found in facts only, or known by their digests already.      *)
EXTENDS Migrations, TLC

CONSTANTS d, s1, s2, p1, p2

UpTo(n) == UNION {ElementsOf(Elements[v]) : v \in 1..n}

Attempt(status, n) == [document |-> d, status |-> status, attempt |-> n]
Attempts == {Attempt(status, n) : status \in {"OPEN", "ENDED"}, n \in 1..2}

WithJobs(n, status, jobs) ==
  [columns |-> UpTo(n) \cup ElementsOf(IdentityElements), recorded |-> 1..n,
   documents |-> (d :> status), jobs |-> jobs,
   sources |-> {}, rows |-> {}, digests |-> {}, current |-> {}, documented |-> {}]

WithSources(n, identity_, rows_, digests_) ==
  [WithJobs(n, "ABSENT", << >>) EXCEPT
     !.columns = UpTo(n) \cup identity_, !.sources = Sources, !.rows = rows_,
     !.digests = digests_, !.current = rows_, !.documented = IF n = 0 THEN {} ELSE {s1}]

MCLegacies ==
  {[WithJobs(0, "ABSENT", << >>) EXCEPT !.columns = @ \cup {"review_version", "document_id"}]} \cup
  {WithJobs(n, status, jobs) : n \in {3, 4}, status \in {"ABSENT", "STORED", "PROCESSING", "FAILED"},
     jobs \in UNION {[J -> Attempts] : J \in SUBSET Jobs}} \cup
  {WithSources(n, ElementsOf(SubSeq(IdentityElements, 1, i)), Sources, {}) :
     n \in {0, 1, 2, 5}, i \in 0..3} \cup
  {WithSources(n, {"content_sha256", "source_owner"}, {}, {}) : n \in {0, 1, 2, 5}} \cup
  {WithSources(5, ElementsOf(IdentityElements), Sources, Sources)}
=============================================================================
