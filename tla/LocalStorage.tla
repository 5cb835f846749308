---------------------------- MODULE LocalStorage ----------------------------
(***************************************************************************)
(* The local forensic store of src/core/local_storage.py: one SQLite file  *)
(* with a row per case, evidence item and report, one JSON sheet per case  *)
(* and one file per item.  A browser session's call and a retention        *)
(* cleanup run in two threads of the same process and share the database   *)
(* and the directories; a call that writes twice (row and file, or two     *)
(* transactions) is two steps here.  Timestamps are abstracted to "older   *)
(* than the retention policy or not": the API takes created_at and         *)
(* updated_at from its caller, so any record may age at any time.          *)
(***************************************************************************)
EXTENDS Naturals, FiniteSets

CONSTANTS User, Case, Evidence, Report, DemoCase, DemoUser,
          MaxCrashes           \* bound on the restarts of a behaviour

Item == Evidence \cup Report

VARIABLES row,      \* case -> its row in SQLite
          sheet,    \* case -> its JSON file
          item,     \* item -> its row in SQLite
          file,     \* the items whose file is on disk
          call,     \* the session's call between its two writes
          job,      \* the cleanup thread
          begun,    \* items a cleanup has begun to delete
          audited,  \* items whose deletion has an audit record
          crashes
vars == <<row, sheet, item, file, call, job, begun, audited, crashes>>

None == [none |-> TRUE]
Unborn == [unborn |-> TRUE]
CaseRow == [user : User, active : BOOLEAN, keep : BOOLEAN, old : BOOLEAN]
Sheet == [user : User, keep : BOOLEAN]
ItemRow == [case : Case, user : User, keep : BOOLEAN, exported : BOOLEAN, old : BOOLEAN]
Call == [op : {"sheet"}, case : Case, new : Sheet]
          \cup [op : {"row"}, item : Item, new : ItemRow]
          \cup [op : {"flags"}, case : Case, user : User, keep : BOOLEAN]
Job == [pc : {"next", "file", "case", "audit"}, user : User, items : SUBSET Item,
        cases : SUBSET Case, at : Item \cup Case, there : SUBSET Item, free : SUBSET Item]

TypeOK ==
    /\ row \in [Case -> CaseRow \cup {None}] /\ sheet \in [Case -> Sheet \cup {None}]
    /\ item \in [Item -> ItemRow \cup {None, Unborn}]
    /\ file \subseteq Item /\ begun \subseteq Item /\ audited \subseteq Item
    /\ call \in Call \cup {None} /\ job \in Job \cup {None} /\ crashes \in 0..MaxCrashes

Stored(i) == item[i] \in ItemRow
ItemsOf(c) == {i \in Item : Stored(i) /\ item[i].case = c}
Owns(u, c) == row[c] # None /\ row[c].user = u

Init ==
    /\ row = [c \in Case |-> None] /\ sheet = [c \in Case |-> None]
    /\ item = [i \in Item |-> Unborn] /\ file = {}
    /\ call = None /\ job = None /\ begun = {} /\ audited = {} /\ crashes = 0

(* ON DELETE CASCADE: the rows of a case that is deleted or replaced go with it, *)
(* their files stay.                                                            *)
Cascade(cs) == [i \in Item |-> IF \E c \in cs : i \in ItemsOf(c) THEN None ELSE item[i]]

----------------------------------------------------------------------------
(* The session's calls.                                                     *)

(* INSERT OR REPLACE: a case that is saved again, by whoever names it, loses *)
(* its evidence and report rows.                                            *)
CreateCase(u, c, active, keep, old) ==
    /\ call = None
    /\ row' = [row EXCEPT ![c] = [user |-> u, active |-> active, keep |-> keep, old |-> old]]
    /\ item' = Cascade({c})
    /\ call' = [op |-> "sheet", case |-> c, new |-> [user |-> u, keep |-> keep]]
    /\ UNCHANGED <<sheet, file, job, begun, audited, crashes>>

WriteSheet ==
    /\ call # None /\ call.op = "sheet"
    /\ sheet' = [sheet EXCEPT ![call.case] = call.new]
    /\ call' = None
    /\ UNCHANGED <<row, item, file, job, begun, audited, crashes>>

(* A status change or another edit: the row is fresh again, the sheet is stale. *)
UpdateCase(u, c, active) ==
    /\ call = None /\ Owns(u, c)
    /\ row' = [row EXCEPT ![c].active = active, ![c].old = FALSE]
    /\ UNCHANGED <<sheet, item, file, call, job, begun, audited, crashes>>

SetEvidencePreservation(u, c, keep) ==
    /\ call = None /\ Owns(u, c)
    /\ row' = [row EXCEPT ![c].keep = keep, ![c].old = FALSE]
    /\ call' = [op |-> "flags", case |-> c, user |-> u, keep |-> keep]
    /\ UNCHANGED <<sheet, item, file, job, begun, audited, crashes>>

FlagItems ==
    /\ call # None /\ call.op = "flags"
    /\ item' = [i \in Item |->
                  IF i \in ItemsOf(call.case) /\ item[i].user = call.user
                  THEN [item[i] EXCEPT !.keep = call.keep] ELSE item[i]]
    /\ call' = None
    /\ UNCHANGED <<row, sheet, file, job, begun, audited, crashes>>

(* close_all_open_cases of a case store without cases turns to this database: the *)
(* active cases are closed, and not dated anew.                                 *)
CloseActiveCases(us) ==
    /\ row' = [c \in Case |-> IF row[c] # None /\ row[c].user \in us
                              THEN [row[c] EXCEPT !.active = FALSE] ELSE row[c]]
    /\ UNCHANGED <<sheet, item, file, call, job, begun, audited, crashes>>

(* store_evidence and store_report: the owner is checked, the file is written, *)
(* and the row follows in a transaction of its own.                          *)
StoreFile(u, c, i, keep, exported, old) ==
    /\ call = None /\ Owns(u, c) /\ item[i] = Unborn
    /\ i \in Evidence => ~exported
    /\ file' = file \cup {i}
    /\ call' = [op |-> "row", item |-> i,
                new |-> [case |-> c, user |-> u, keep |-> keep, exported |-> exported, old |-> old]]
    /\ item' = [item EXCEPT ![i] = None]
    /\ UNCHANGED <<row, sheet, job, begun, audited, crashes>>

(* The foreign key refuses the row of a case that is gone by now. *)
StoreRow ==
    /\ call # None /\ call.op = "row"
    /\ item' = IF row[call.new.case] = None THEN item ELSE [item EXCEPT ![call.item] = call.new]
    /\ call' = None
    /\ UNCHANGED <<row, sheet, file, job, begun, audited, crashes>>

MarkReportExported(u, i) ==
    /\ call = None /\ i \in Report /\ Stored(i) /\ item[i].user = u
    /\ item' = [item EXCEPT ![i].exported = TRUE]
    /\ UNCHANGED <<row, sheet, file, call, job, begun, audited, crashes>>

(* Every report listed is marked, whether or not its file went into the archive. *)
ExportCasePackage(u, c) ==
    /\ call = None /\ Owns(u, c)
    /\ item' = [i \in Item |-> IF i \in Report \cap ItemsOf(c) /\ item[i].user = u
                               THEN [item[i] EXCEPT !.exported = TRUE] ELSE item[i]]
    /\ UNCHANGED <<row, sheet, file, call, job, begun, audited, crashes>>

(* The sheets of demo cases go unless they ask to be preserved; their rows, and *)
(* those of the demo users, go in any case.                                   *)
CleanupDemoCases ==
    /\ call = None
    /\ sheet' = [c \in Case |-> IF sheet[c] # None /\ c \in DemoCase /\ sheet[c].user \in DemoUser
                                   /\ ~sheet[c].keep
                                THEN None ELSE sheet[c]]
    /\ LET gone == {c \in Case : row[c] # None /\ (c \in DemoCase \/ row[c].user \in DemoUser)}
       IN  /\ row' = [c \in Case |-> IF c \in gone THEN None ELSE row[c]]
           /\ item' = Cascade(gone)
    /\ UNCHANGED <<file, call, job, begun, audited, crashes>>

----------------------------------------------------------------------------
(* The cleanup thread.                                                      *)

IsEligibleCase(c) ==
    /\ row[c] # None /\ ~row[c].active /\ ~row[c].keep /\ row[c].old
    /\ \A i \in ItemsOf(c) : ~item[i].keep /\ ~item[i].exported

IsEligibleItem(i) ==
    /\ Stored(i) /\ ~item[i].keep /\ ~item[i].exported /\ item[i].old
    /\ row[item[i].case] # None => ~row[item[i].case].active /\ ~row[item[i].case].keep

(* What the module's header promises to spare. *)
Protected(i) ==
    \/ item[i].keep \/ item[i].exported
    \/ row[item[i].case] # None /\ (row[item[i].case].keep \/ row[item[i].case].active)

(* dry_run_cleanup: what of the user's is eligible now.  It is not looked at again. *)
RunCleanupNow(u) ==
    /\ job = None
    /\ LET mine == {i \in Item : Stored(i) /\ item[i].user = u}
           items == {i \in mine : IsEligibleItem(i)}
           cases == {c \in Case : Owns(u, c) /\ IsEligibleCase(c)}
       IN  /\ items \cup cases # {}
           /\ job' = [pc |-> "next", user |-> u, items |-> items, cases |-> cases,
                      at |-> CHOOSE any \in items \cup cases : TRUE,
                      there |-> {i \in Item : Stored(i)}, free |-> {i \in mine : ~Protected(i)}]
    /\ UNCHANGED <<row, sheet, item, file, call, begun, audited, crashes>>

AtNext == job # None /\ job.pc = "next"

(* Reports first, then evidence. *)
Turn(i) == i \in job.items /\ (i \in Evidence => job.items \cap Report = {})

DeleteFile(i) ==
    /\ AtNext /\ Turn(i) /\ Stored(i) /\ item[i].user = job.user
    /\ file' = file \ {i}
    /\ begun' = begun \cup {i}
    /\ job' = [job EXCEPT !.pc = "file", !.at = i, !.items = @ \ {i}]
    /\ UNCHANGED <<row, sheet, item, call, audited, crashes>>

(* The record is gone or another's, or the file cannot be removed: a FAILED audit. *)
DeleteFails(i) ==
    /\ AtNext /\ Turn(i)
    /\ (Stored(i) /\ item[i].user = job.user) => i \in file
    /\ job' = [job EXCEPT !.items = @ \ {i}]
    /\ UNCHANGED <<row, sheet, item, file, call, begun, audited, crashes>>

DeleteRow ==
    /\ job # None /\ job.pc = "file"
    /\ item' = [item EXCEPT ![job.at] = None]
    /\ job' = [job EXCEPT !.pc = "audit"]
    /\ UNCHANGED <<row, sheet, file, call, begun, audited, crashes>>

\* Variant: nothing but failures is recorded.
LogFailuresOnly ==
    /\ job # None /\ job.pc = "audit"
    /\ job' = [job EXCEPT !.pc = "next"]
    /\ UNCHANGED <<row, sheet, item, file, call, begun, audited, crashes>>

LogAudit ==
    /\ job # None /\ job.pc = "audit"
    /\ audited' = audited \cup ({job.at} \cap Item)
    /\ job' = [job EXCEPT !.pc = "next"]
    /\ UNCHANGED <<row, sheet, item, file, call, begun, crashes>>

CaseTurn(c) == AtNext /\ job.items = {} /\ c \in job.cases

\* Variant: a case goes although rows still depend on it.
DeleteSheetAnyway(c) ==
    /\ CaseTurn(c) /\ Owns(job.user, c)
    /\ sheet' = [sheet EXCEPT ![c] = None]
    /\ job' = [job EXCEPT !.pc = "case", !.at = c, !.cases = @ \ {c}]
    /\ UNCHANGED <<row, item, file, call, begun, audited, crashes>>

(* Once no row depends on the case its sheet is removed, and then its row. *)
DeleteSheet(c) ==
    /\ CaseTurn(c) /\ Owns(job.user, c) /\ ItemsOf(c) = {}
    /\ sheet' = [sheet EXCEPT ![c] = None]
    /\ job' = [job EXCEPT !.pc = "case", !.at = c, !.cases = @ \ {c}]
    /\ UNCHANGED <<row, item, file, call, begun, audited, crashes>>

DeleteCaseFails(c) ==
    /\ CaseTurn(c)
    /\ (Owns(job.user, c) /\ ItemsOf(c) = {}) => sheet[c] # None
    /\ job' = [job EXCEPT !.cases = @ \ {c}]
    /\ UNCHANGED <<row, sheet, item, file, call, begun, audited, crashes>>

DeleteCaseRow ==
    /\ job # None /\ job.pc = "case"
    /\ row' = [row EXCEPT ![job.at] = None]
    /\ item' = Cascade({job.at})
    /\ job' = [job EXCEPT !.pc = "audit"]
    /\ UNCHANGED <<sheet, file, call, begun, audited, crashes>>

CleanupEnds ==
    /\ AtNext /\ job.items = {} /\ job.cases = {}
    /\ job' = None
    /\ UNCHANGED <<row, sheet, item, file, call, begun, audited, crashes>>

----------------------------------------------------------------------------
Grow(c) ==
    /\ row[c] # None /\ ~row[c].old
    /\ row' = [row EXCEPT ![c].old = TRUE]
    /\ UNCHANGED <<sheet, item, file, call, job, begun, audited, crashes>>

GrowItem(i) ==
    /\ Stored(i) /\ ~item[i].old
    /\ item' = [item EXCEPT ![i].old = TRUE]
    /\ UNCHANGED <<row, sheet, file, call, job, begun, audited, crashes>>

Crash ==
    /\ crashes < MaxCrashes /\ (call # None \/ job # None)
    /\ call' = None /\ job' = None /\ crashes' = crashes + 1
    /\ UNCHANGED <<row, sheet, item, file, begun, audited>>

Session ==
    \/ \E u \in User, c \in Case, b1, b2, b3 \in BOOLEAN : CreateCase(u, c, b1, b2, b3)
    \/ WriteSheet \/ FlagItems \/ StoreRow \/ CleanupDemoCases
    \/ \E u \in User, c \in Case, b \in BOOLEAN :
         UpdateCase(u, c, b) \/ SetEvidencePreservation(u, c, b)
    \/ \E u \in User, c \in Case, i \in Item, b1, b2, b3 \in BOOLEAN : StoreFile(u, c, i, b1, b2, b3)
    \/ \E us \in {User} \cup {{u} : u \in User} : CloseActiveCases(us)
    \/ \E u \in User, i \in Item : MarkReportExported(u, i)
    \/ \E u \in User, c \in Case : ExportCasePackage(u, c)

Cleanup ==
    \/ \E i \in Item : DeleteFile(i) \/ DeleteFails(i)
    \/ \E c \in Case : DeleteSheet(c) \/ DeleteCaseFails(c)
    \/ DeleteRow \/ LogAudit \/ DeleteCaseRow \/ CleanupEnds

Next ==
    \/ Session \/ Cleanup \/ Crash
    \/ \E u \in User : RunCleanupNow(u)
    \/ \E c \in Case : Grow(c)
    \/ \E i \in Item : GrowItem(i)

Spec == Init /\ [][Next]_vars

----------------------------------------------------------------------------
(* A row of the database always leads to its file, unless a cleanup has begun *)
(* to delete the item: the file is written before the row (store_evidence,   *)
(* store_report) and nothing but _safe_delete_* removes one.                  *)
RowHasFile == \A i \in Item : Stored(i) /\ i \notin file => i \in begun

(* Of what was stored at its dry run, a cleanup takes no row but those of its own *)
(* user's items that nothing protected then, and each after its file.  Neither a *)
(* case's deletion, with its cascade, nor a change made since carries off more; *)
(* only what was stored after the dry run can go that way.                      *)
SparesTheRest ==
    [][(job # None /\ job' # None) =>
         \A i \in job.there :
           (Stored(i) /\ ~Stored(i)' /\ Cleanup) =>
             i \in job.free /\ item[i].user = job.user /\ i \notin file]_vars

(* A deletion is in the audit log unless a crash fell between it and its record: *)
(* each crash costs the record of one deletion at most (run_cleanup_now).       *)
AuditGap ==
    Cardinality({i \in begun : ~Stored(i)} \ audited)
      <= crashes + (IF job # None /\ job.pc \in {"file", "audit"} THEN 1 ELSE 0)
=============================================================================
