----------------------------- MODULE CaseStore ------------------------------
(***************************************************************************)
(* The forensic case store: src/core/case_store.py and the analyst's       *)
(* operations of src/core/investigation.py on it.  Cases live in the       *)
(* hosted database or, when none is configured, in a local SQLite file;    *)
(* the two differ in what saving a case again does.  Browser tabs and the  *)
(* worker act on the same cases.  A tab's operation that reads the store   *)
(* and writes back what it computed is two steps, and so is a save on the  *)
(* hosted database: the case, then its indicators.                         *)
(***************************************************************************)
EXTENDS Naturals, FiniteSets, Sequences, SequencesExt

CONSTANTS Tab, Worker, Case, Note,
          Demo,                 \* cases that look like demonstrations
          Class, Severity,      \* derived classification and severity of a case
          KpiLimit, QueueLimit, QueueScan, \* 500, 15 and 3 * 15 in the code
          MaxCopies             \* bound on the saves of a case whose indicators are counted

Actor == Tab \cup {Worker}
Statuses == {"Open", "In Progress", "Resolved", "Closed"}
Lifecycle == {"NEW", "INVESTIGATING", "CONTAINED", "CLOSED"}

VARIABLES remote,   \* the hosted database is configured
          cases,    \* case number -> its row
          order,    \* the cases, newest first
          inds,     \* case -> copies of its indicators
          at,       \* actor -> its operation between two steps
          acked,    \* case -> notes an analyst was told were recorded
          raced     \* two tabs have worked on the store at the same time
vars == <<remote, cases, order, inds, at, acked, raced>>

None == [none |-> TRUE]
Row == [status : Statuses, notes : SUBSET Note]
Op == [op : {"analyse", "close"}, case : Case, seen : Row]
        \cup [op : {"write"}, case : Case, seen : Row, status : Statuses \cup {"same"}, note : Note]
        \cup [op : {"indicators"}, case : Case]
        \cup [op : {"closeall", "clear", "demo"}, listed : SUBSET Case, todo : SUBSET Case]

TypeOK ==
    /\ remote \in BOOLEAN /\ raced \in BOOLEAN
    /\ cases \in [Case -> Row \cup {None}]
    /\ order \in Seq(Case) /\ IsInjective(order) /\ ToSet(order) = {c \in Case : cases[c] # None}
    /\ inds \in [Case -> 0..MaxCopies] /\ acked \in [Case -> SUBSET Note]
    /\ at \in [Actor -> Op \cup {None}]

Init ==
    /\ remote \in BOOLEAN /\ cases = [c \in Case |-> None] /\ order = <<>>
    /\ inds = [c \in Case |-> 0] /\ at = [a \in Actor |-> None]
    /\ acked = [c \in Case |-> {}] /\ raced = FALSE

Exists(c) == cases[c] # None
Place(c) == CHOOSE i \in DOMAIN order : order[i] = c
Newest(n) == {order[i] : i \in 1..n \cap DOMAIN order}
Without(c) == IF Exists(c) THEN RemoveAt(order, Place(c)) ELSE order
NewRow == [status |-> "Open", notes |-> {}]
GetCaseRecord(c) == IF Exists(c) THEN cases[c] ELSE NewRow

LifecycleToDb == [s \in Lifecycle |->
    CASE s = "NEW" -> "Open" [] s = "INVESTIGATING" -> "In Progress"
      [] s = "CONTAINED" -> "Resolved" [] s = "CLOSED" -> "Closed"]

Becomes(a, op) == at' = [at EXCEPT ![a] = op]
Begins(t, op) ==
    /\ at[t] = None /\ Becomes(t, op)
    /\ raced' = (raced \/ \E u \in Tab \ {t} : at[u] # None)

----------------------------------------------------------------------------
\* Variant: a re-save that replaces the whole row.
SavedAnew(c, given) == given

\* Variant: a re-save that adds a second row.
RedatedTwice(c) == <<c>> \o order

(* save_case.  The hosted database takes the row as given and keeps its date of *)
(* creation; SQLite keeps what the analyst wrote, dates the row anew and        *)
(* replaces the indicators in the same transaction.                            *)
Saved(c, given) ==
    IF remote \/ ~Exists(c) THEN given
    ELSE [cases[c] EXCEPT !.notes = IF @ = {} THEN given.notes ELSE @]
Redated(c) == IF remote /\ Exists(c) THEN order ELSE <<c>> \o Without(c)

Upsert(a, c, given) ==
    /\ cases' = [cases EXCEPT ![c] = Saved(c, given)]
    /\ order' = Redated(c)
    /\ IF remote
       THEN inds' = inds /\ Becomes(a, [op |-> "indicators", case |-> c])
       ELSE inds' = [inds EXCEPT ![c] = 1] /\ Becomes(a, None)
    /\ UNCHANGED <<remote, acked, raced>>

(* The worker saves a message it analysed, for the first time or again. *)
WorkerSave(c) == at[Worker] = None /\ Upsert(Worker, c, NewRow)

(* The insert is not an upsert; its failure, and that of the foreign key when the *)
(* case is gone, is swallowed.                                                   *)
InsertIndicators(a) ==
    /\ at[a] # None /\ at[a].op = "indicators"
    /\ \/ /\ Exists(at[a].case) /\ inds[at[a].case] < MaxCopies
          /\ inds' = [inds EXCEPT ![at[a].case] = @ + 1]
       \/ inds' = inds
    /\ Becomes(a, None)
    /\ UNCHANGED <<remote, cases, order, acked, raced>>

(* The analyse page reads the analyst's fields before the report it saves. *)
Analyse(t, c) ==
    /\ Begins(t, [op |-> "analyse", case |-> c, seen |-> GetCaseRecord(c)])
    /\ UNCHANGED <<remote, cases, order, inds, acked>>

AnalyseSave(t) ==
    /\ at[t] # None /\ at[t].op = "analyse"
    /\ Upsert(t, at[t].case, at[t].seen)

----------------------------------------------------------------------------
(* add_analyst_note and transition_investigation_status: the notes are read, the *)
(* entry appended, the whole field written back.                                *)
Fresh(n) == \A c \in Case : n \notin acked[c] /\ \A t \in Tab :
               at[t] # None /\ at[t].op = "write" => at[t].note # n

AddAnalystNote(t, c, n) ==
    /\ Exists(c) /\ Fresh(n)
    /\ Begins(t, [op |-> "write", case |-> c, seen |-> cases[c], status |-> "same", note |-> n])
    /\ UNCHANGED <<remote, cases, order, inds, acked>>

TransitionInvestigationStatus(t, c, s, n) ==
    /\ Exists(c) /\ Fresh(n)
    /\ Begins(t, [op |-> "write", case |-> c, seen |-> cases[c],
                  status |-> LifecycleToDb[s], note |-> n])
    /\ UNCHANGED <<remote, cases, order, inds, acked>>

UpdateCaseMetadata(c, status, notes) ==
    cases' = IF Exists(c)
             THEN [cases EXCEPT ![c] = [status |-> IF status = "same" THEN @.status ELSE status,
                                        notes |-> notes]]
             ELSE cases

WriteBack(t) ==
    /\ at[t] # None /\ at[t].op = "write"
    /\ UpdateCaseMetadata(at[t].case, at[t].status, at[t].seen.notes \cup {at[t].note})
    /\ acked' = IF Exists(at[t].case) THEN [acked EXCEPT ![at[t].case] = @ \cup {at[t].note}] ELSE acked
    /\ Becomes(t, None)
    /\ UNCHANGED <<remote, order, inds, raced>>

CloseCase(t, c) ==
    /\ Exists(c) /\ cases[c].status # "Closed"
    /\ Begins(t, [op |-> "close", case |-> c, seen |-> cases[c]])
    /\ UNCHANGED <<remote, cases, order, inds, acked>>

CloseWrite(t) ==
    /\ at[t] # None /\ at[t].op = "close"
    /\ UpdateCaseMetadata(at[t].case, "Closed", GetCaseRecord(at[t].case).notes)
    /\ Becomes(t, None)
    /\ UNCHANGED <<remote, order, inds, acked, raced>>

----------------------------------------------------------------------------
(* The bulk operations take the newest KpiLimit cases and go through that list. *)
Ended(c) == cases[c].status \in {"Closed", "Resolved"}

CloseAllOpenCases(t) ==
    /\ order # <<>>
    /\ Begins(t, [op |-> "closeall", listed |-> Newest(KpiLimit),
                  todo |-> {c \in Newest(KpiLimit) : ~Ended(c)}])
    /\ UNCHANGED <<remote, cases, order, inds, acked>>

ClearThreatActivity(t) ==
    /\ order # <<>>
    /\ Begins(t, [op |-> "clear", listed |-> Newest(KpiLimit),
                  todo |-> {c \in Newest(KpiLimit) : ~Ended(c) /\ Class[c] # "CLEAN"}])
    /\ UNCHANGED <<remote, cases, order, inds, acked>>

CleanupDemoCases(t) ==
    /\ order # <<>>
    /\ Begins(t, [op |-> "demo", listed |-> Newest(KpiLimit),
                  todo |-> Newest(KpiLimit) \cap Demo])
    /\ UNCHANGED <<remote, cases, order, inds, acked>>

Bulk(t, ops) == at[t] # None /\ at[t].op \in ops

BulkClose(t) ==
    /\ Bulk(t, {"closeall", "clear"})
    /\ \E c \in at[t].todo :
         /\ UpdateCaseMetadata(c, "Closed", GetCaseRecord(c).notes)
         /\ Becomes(t, [at[t] EXCEPT !.todo = @ \ {c}])
    /\ UNCHANGED <<remote, order, inds, acked, raced>>

\* Variant: the case goes and its indicators stay.
DeleteCaseOnly(t) ==
    /\ Bulk(t, {"demo"})
    /\ \E c \in at[t].todo :
         /\ IF remote
            THEN UNCHANGED <<cases, order, acked>>
            ELSE /\ cases' = [cases EXCEPT ![c] = None]
                 /\ order' = Without(c)
                 /\ acked' = [acked EXCEPT ![c] = {}]
         /\ Becomes(t, [at[t] EXCEPT !.todo = @ \ {c}])
    /\ UNCHANGED <<remote, inds, raced>>

(* The hosted database's indicators carry the row's uuid, and the case number given *)
(* instead is refused: nothing is deleted, and the result is not looked at.         *)
DeleteSingleCase(t) ==
    /\ Bulk(t, {"demo"})
    /\ \E c \in at[t].todo :
         /\ IF remote
            THEN UNCHANGED <<cases, order, inds, acked>>
            ELSE /\ cases' = [cases EXCEPT ![c] = None]
                 /\ order' = Without(c)
                 /\ inds' = [inds EXCEPT ![c] = 0]
                 /\ acked' = [acked EXCEPT ![c] = {}]
         /\ Becomes(t, [at[t] EXCEPT !.todo = @ \ {c}])
    /\ UNCHANGED <<remote, raced>>

BulkEnds(t) ==
    /\ Bulk(t, {"closeall", "clear", "demo"}) /\ at[t].todo = {}
    /\ Becomes(t, None)
    /\ UNCHANGED <<remote, cases, order, inds, acked, raced>>

Operation(t) ==
    \/ AnalyseSave(t) \/ WriteBack(t) \/ CloseWrite(t) \/ BulkClose(t) \/ DeleteSingleCase(t)
    \/ CloseAllOpenCases(t) \/ ClearThreatActivity(t) \/ CleanupDemoCases(t) \/ BulkEnds(t)
    \/ \E c \in Case : Analyse(t, c) \/ CloseCase(t, c)
    \/ \E c \in Case, n \in Note : AddAnalystNote(t, c, n)
    \/ \E c \in Case, n \in Note, s \in Lifecycle : TransitionInvestigationStatus(t, c, s, n)

Next ==
    \/ \E t \in Tab : Operation(t)
    \/ \E a \in Actor : InsertIndicators(a)
    \/ \E c \in Case : WorkerSave(c)

Spec == Init /\ [][Next]_vars

----------------------------------------------------------------------------
(* The dashboard's reads. *)
Listed == Newest(KpiLimit)
Threats == {c \in Listed : Class[c] = "THREAT"}
Kpi ==
    [analysed |-> Cardinality(Listed), threats |-> Cardinality(Threats),
     grave |-> Cardinality({c \in Threats : Severity[c] \in {"HIGH", "CRITICAL"}}),
     open |-> Cardinality({c \in Listed : ~Ended(c)})]

Distribution ==
    LET Threat(s) == Cardinality({c \in Threats : Severity[c] = s})
    IN  [Critical |-> Threat("CRITICAL"), High |-> Threat("HIGH"),
         Suspicious |-> Threat("MEDIUM") + Threat("LOW")
                          + Cardinality({c \in Listed : Class[c] = "SUSPICIOUS"}),
         Clean |-> Cardinality({c \in Listed : Class[c] = "CLEAN"})]

DbToLifecycle(status) == CHOOSE s \in Lifecycle : LifecycleToDb[s] = status
SearchInvestigations(s) == {c \in Listed : DbToLifecycle(cases[c].status) = s}

ThreatActivity == {c \in Listed : ~Ended(c) /\ Class[c] # "CLEAN"}

(* The newest QueueScan cases, those that are not closed, by severity. *)
Rank(c) ==
    CASE Severity[c] = "CRITICAL" -> 0 [] Severity[c] = "HIGH" -> 1
      [] Severity[c] = "MEDIUM" -> 2 [] OTHER -> 3

\* Variant: the severities in the wrong order.
WeightReversed(c) == 3 - Rank(c)

Weight(c) == Rank(c) + (IF Ended(c) THEN 4 ELSE 0)
Queued == {c \in Newest(QueueScan) : cases[c].status # "Closed"}
Before(d, c) == Weight(d) < Weight(c) \/ (Weight(d) = Weight(c) /\ Place(d) < Place(c))
InvestigationQueue ==
    {c \in Queued : Cardinality({d \in Queued : Before(d, c)}) < QueueLimit}

----------------------------------------------------------------------------
(* With the local store a note an analyst was told of stays on its case, whatever *)
(* is saved, analysed again, closed or moved, unless two tabs worked at once       *)
(* (_save_case_sqlite, add_analyst_note).                                         *)
NotesKept == ~remote /\ ~raced =>
    \A c \in Case : Exists(c) => acked[c] \subseteq cases[c].notes

(* No indicator outlives its case, and a local case never has them twice: a case  *)
(* that went between a save's two steps, or was saved again, leaves none behind.  *)
IndicatorsFollow == \A c \in Case :
    /\ inds[c] > 0 => Exists(c)
    /\ ~remote => inds[c] <= 1

(* When close_all_open_cases ends on the local store, every case it listed, the      *)
(* newest KpiLimit, has ended, although the worker saved some of them again while  *)
(* it ran; older cases it never looks at.                                          *)
CloseAllCovers ==
    [][\A t \in Tab : BulkEnds(t) /\ at[t].op = "closeall" /\ ~raced /\ ~remote =>
         \A c \in at[t].listed : Exists(c) => Ended(c)]_vars

(* The dashboard's figures agree with one another: the distribution accounts for   *)
(* every case, grave threats are its upper two bands, recent activity is open, the *)
(* search by lifecycle finds the open cases as NEW or INVESTIGATING, and           *)
(* an open critical case is in the queue unless QueueLimit others fill it or       *)
(* QueueScan newer cases hide it (get_soc_kpi_metrics, get_soc_investigation_queue). *)
DashboardAgrees ==
    LET kpi == Kpi  bands == Distribution  queue == InvestigationQueue
    IN  /\ bands.Critical + bands.High + bands.Suspicious + bands.Clean = kpi.analysed
        /\ bands.Critical + bands.High = kpi.grave
        /\ Cardinality(ThreatActivity) <= kpi.open
        /\ Cardinality(SearchInvestigations("NEW"))
             + Cardinality(SearchInvestigations("INVESTIGATING")) = kpi.open
        /\ \A c \in Case \ queue : Exists(c) /\ ~Ended(c) /\ Severity[c] = "CRITICAL" =>
             \/ Place(c) > QueueScan
             \/ Cardinality({d \in queue : Severity[d] = "CRITICAL"}) = QueueLimit
=============================================================================
