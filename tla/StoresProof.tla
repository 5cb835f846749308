---------------------------- MODULE StoresProof ----------------------------
(* Theorems of MCStores: of the case store and of the local forensic store, for *)
(* any sets of tabs, users, cases, notes and items and any bounds.              *)
EXTENDS MCStores, SequenceTheorems, FiniteSetTheorems, TLAPS

USE StoresAssumption

-----------------------------------------------------------------------------
(* The local store. *)

LEMMA SameCardinality == \A S : Local!Cardinality(S) = Cardinality(S)
  BY DEF Local!Cardinality, Cardinality

LEMMA LocalTags ==
    /\ Local!None \notin Local!CaseRow /\ Local!None \notin Local!Sheet
    /\ Local!None \notin Local!ItemRow /\ Local!Unborn \notin Local!ItemRow
    /\ Local!None \notin Local!Call /\ Local!None \notin Local!Job
    /\ Local!None # Local!Unborn
  BY DEF Local!None, Local!Unborn, Local!CaseRow, Local!Sheet, Local!ItemRow, Local!Call, Local!Job

\* What a step of the local store leaves typed, action by action.
LEMMA LocalTypeStep ==
    ASSUME Local!TypeOK, [Local!Next]_localVars
    PROVE  Local!TypeOK'
  <1> USE DEF Local!TypeOK, Local!Item
  <1>1. ASSUME NEW u \in User, NEW c \in Kept, NEW b1 \in BOOLEAN, NEW b2 \in BOOLEAN,
               NEW b3 \in BOOLEAN, Local!CreateCase(u, c, b1, b2, b3)
        PROVE  Local!TypeOK'
    <2>1. [user |-> u, active |-> b1, keep |-> b2, old |-> b3] \in Local!CaseRow
      BY <1>1 DEF Local!CaseRow
    <2>2. row' \in [Kept -> Local!CaseRow \cup {Local!None}]
      BY <1>1, <2>1 DEF Local!CreateCase
    <2>3. item' \in [Evidence \cup Report -> Local!ItemRow \cup {Local!None, Local!Unborn}]
      BY <1>1 DEF Local!CreateCase, Local!Cascade
    <2>4. call' \in Local!Call
      BY <1>1 DEF Local!CreateCase, Local!Call, Local!Sheet
    <2> QED
      BY <1>1, <2>2, <2>3, <2>4 DEF Local!CreateCase
  <1>2. CASE Local!WriteSheet
    <2>1. call.new \in Local!Sheet
      BY <1>2, LocalTags DEF Local!WriteSheet, Local!Call
    <2> QED
      BY <1>2, <2>1 DEF Local!WriteSheet
  <1>3. ASSUME NEW u \in User, NEW c \in Kept, NEW b \in BOOLEAN, Local!UpdateCase(u, c, b)
        PROVE  Local!TypeOK'
    <2>1. row[c] \in Local!CaseRow
      BY <1>3 DEF Local!UpdateCase, Local!Owns
    <2>2. [row[c] EXCEPT !.active = b, !.old = FALSE] \in Local!CaseRow
      BY <2>1 DEF Local!CaseRow
    <2>3. row' = [row EXCEPT ![c] = [row[c] EXCEPT !.active = b, !.old = FALSE]]
      BY <1>3, <2>1 DEF Local!UpdateCase, Local!CaseRow
    <2> QED
      BY <1>3, <2>2, <2>3 DEF Local!UpdateCase
  <1>4. ASSUME NEW u \in User, NEW c \in Kept, NEW b \in BOOLEAN,
               Local!SetEvidencePreservation(u, c, b)
        PROVE  Local!TypeOK'
    <2>1. row[c] \in Local!CaseRow
      BY <1>4 DEF Local!SetEvidencePreservation, Local!Owns
    <2>2. [row[c] EXCEPT !.keep = b, !.old = FALSE] \in Local!CaseRow
      BY <2>1 DEF Local!CaseRow
    <2>3. row' = [row EXCEPT ![c] = [row[c] EXCEPT !.keep = b, !.old = FALSE]]
      BY <1>4, <2>1 DEF Local!SetEvidencePreservation, Local!CaseRow
    <2>4. call' \in Local!Call
      BY <1>4 DEF Local!SetEvidencePreservation, Local!Call
    <2> QED
      BY <1>4, <2>2, <2>3, <2>4 DEF Local!SetEvidencePreservation
  <1>5. CASE Local!FlagItems
    <2>1. call.keep \in BOOLEAN
      BY <1>5, LocalTags DEF Local!FlagItems, Local!Call
    <2>2. ASSUME NEW i \in Evidence \cup Report, i \in Local!ItemsOf(call.case)
          PROVE  [item[i] EXCEPT !.keep = call.keep] \in Local!ItemRow
      BY <2>1, <2>2 DEF Local!ItemsOf, Local!Stored, Local!ItemRow
    <2>3. item' \in [Evidence \cup Report -> Local!ItemRow \cup {Local!None, Local!Unborn}]
      BY <1>5, <2>2 DEF Local!FlagItems
    <2> QED
      BY <1>5, <2>3 DEF Local!FlagItems
  <1>6. CASE Local!StoreRow
    <2>1. call.new \in Local!ItemRow
      BY <1>6, LocalTags DEF Local!StoreRow, Local!Call
    <2>2. item' \in [Evidence \cup Report -> Local!ItemRow \cup {Local!None, Local!Unborn}]
      BY <1>6, <2>1 DEF Local!StoreRow
    <2> QED
      BY <1>6, <2>2 DEF Local!StoreRow
  <1>7. CASE Local!CleanupDemoCases
    <2>1. /\ sheet' \in [Kept -> Local!Sheet \cup {Local!None}]
          /\ row' \in [Kept -> Local!CaseRow \cup {Local!None}]
      BY <1>7 DEF Local!CleanupDemoCases
    <2>2. item' \in [Evidence \cup Report -> Local!ItemRow \cup {Local!None, Local!Unborn}]
      BY <1>7 DEF Local!CleanupDemoCases, Local!Cascade
    <2> QED
      BY <1>7, <2>1, <2>2 DEF Local!CleanupDemoCases
  <1>8. ASSUME NEW u \in User, NEW c \in Kept, NEW i \in Evidence \cup Report, NEW b1 \in BOOLEAN,
               NEW b2 \in BOOLEAN, NEW b3 \in BOOLEAN, Local!StoreFile(u, c, i, b1, b2, b3)
        PROVE  Local!TypeOK'
    <2>1. call' \in Local!Call
      <3>1. [case |-> c, user |-> u, keep |-> b1, exported |-> b2, old |-> b3] \in Local!ItemRow
        BY DEF Local!ItemRow
      <3> QED
        BY <1>8, <3>1 DEF Local!StoreFile, Local!Call
    <2>2. item' \in [Evidence \cup Report -> Local!ItemRow \cup {Local!None, Local!Unborn}]
      BY <1>8 DEF Local!StoreFile
    <2> QED
      BY <1>8, <2>1, <2>2 DEF Local!StoreFile
  <1>9. ASSUME NEW us, Local!CloseActiveCases(us) PROVE Local!TypeOK'
    <2>1. ASSUME NEW c \in Kept, row[c] # Local!None
          PROVE  [row[c] EXCEPT !.active = FALSE] \in Local!CaseRow
      BY <2>1 DEF Local!CaseRow
    <2>2. row' \in [Kept -> Local!CaseRow \cup {Local!None}]
      BY <1>9, <2>1 DEF Local!CloseActiveCases
    <2> QED
      BY <1>9, <2>2 DEF Local!CloseActiveCases
  <1>10. ASSUME NEW u \in User, NEW i \in Evidence \cup Report, Local!MarkReportExported(u, i)
         PROVE  Local!TypeOK'
    <2>1. [item[i] EXCEPT !.exported = TRUE] \in Local!ItemRow
      BY <1>10 DEF Local!MarkReportExported, Local!Stored, Local!ItemRow
    <2>2. item' = [item EXCEPT ![i] = [item[i] EXCEPT !.exported = TRUE]]
      BY <1>10 DEF Local!MarkReportExported, Local!Stored, Local!ItemRow
    <2> QED
      BY <1>10, <2>1, <2>2 DEF Local!MarkReportExported
  <1>11. ASSUME NEW u \in User, NEW c \in Kept, Local!ExportCasePackage(u, c) PROVE Local!TypeOK'
    <2>1. ASSUME NEW i \in Evidence \cup Report, i \in Local!ItemsOf(c)
          PROVE  [item[i] EXCEPT !.exported = TRUE] \in Local!ItemRow
      BY <2>1 DEF Local!ItemsOf, Local!Stored, Local!ItemRow
    <2>2. item' \in [Evidence \cup Report -> Local!ItemRow \cup {Local!None, Local!Unborn}]
      BY <1>11, <2>1 DEF Local!ExportCasePackage
    <2> QED
      BY <1>11, <2>2 DEF Local!ExportCasePackage
  <1>12. ASSUME NEW u \in User, Local!RunCleanupNow(u) PROVE Local!TypeOK'
    <2> DEFINE mine == {i \in Evidence \cup Report : Local!Stored(i) /\ item[i].user = u}
               items == {i \in mine : Local!IsEligibleItem(i)}
               due == {c \in Kept : Local!Owns(u, c) /\ Local!IsEligibleCase(c)}
               there == {i \in Evidence \cup Report : Local!Stored(i)}
               free == {i \in mine : ~Local!Protected(i)}
               any == CHOOSE x \in items \cup due : TRUE
    <2>1. items \cup due # {}
      BY <1>12 DEF Local!RunCleanupNow
    <2>2. any \in items \cup due
      BY <2>1
    <2>3. /\ items \subseteq Evidence \cup Report /\ due \subseteq Kept
          /\ there \subseteq Evidence \cup Report /\ free \subseteq Evidence \cup Report
      OBVIOUS
    <2>4. any \in (Evidence \cup Report) \cup Kept
      BY <2>2, <2>3
    <2>5. job' = [pc |-> "next", user |-> u, items |-> items, cases |-> due, at |-> any,
                  there |-> there, free |-> free]
      BY <1>12 DEF Local!RunCleanupNow
    <2> HIDE DEF mine, items, due, there, free, any
    <2>6. job' \in Local!Job
      BY <2>3, <2>4, <2>5 DEF Local!Job
    <2> QED
      BY <1>12, <2>6 DEF Local!RunCleanupNow
  <1>13. ASSUME NEW i \in Evidence \cup Report, Local!DeleteFile(i) PROVE Local!TypeOK'
    <2>1. job \in Local!Job
      BY <1>13 DEF Local!DeleteFile, Local!AtNext
    <2>2. job' \in Local!Job
      BY <1>13, <2>1 DEF Local!DeleteFile, Local!Job
    <2> QED
      BY <1>13, <2>2 DEF Local!DeleteFile
  <1>14. ASSUME NEW i \in Evidence \cup Report, Local!DeleteFails(i) PROVE Local!TypeOK'
    <2>1. job \in Local!Job
      BY <1>14 DEF Local!DeleteFails, Local!AtNext
    <2>2. job' \in Local!Job
      BY <1>14, <2>1 DEF Local!DeleteFails, Local!Job
    <2> QED
      BY <1>14, <2>2 DEF Local!DeleteFails
  <1>15. ASSUME NEW c \in Kept, Local!DeleteSheet(c) PROVE Local!TypeOK'
    <2>1. job \in Local!Job
      BY <1>15 DEF Local!DeleteSheet, Local!CaseTurn, Local!AtNext
    <2>2. job' \in Local!Job
      BY <1>15, <2>1 DEF Local!DeleteSheet, Local!Job
    <2> QED
      BY <1>15, <2>2 DEF Local!DeleteSheet
  <1>16. ASSUME NEW c \in Kept, Local!DeleteCaseFails(c) PROVE Local!TypeOK'
    <2>1. job \in Local!Job
      BY <1>16 DEF Local!DeleteCaseFails, Local!CaseTurn, Local!AtNext
    <2>2. job' \in Local!Job
      BY <1>16, <2>1 DEF Local!DeleteCaseFails, Local!Job
    <2> QED
      BY <1>16, <2>2 DEF Local!DeleteCaseFails
  <1>17. CASE Local!DeleteRow
    <2>1. job' \in Local!Job
      BY <1>17 DEF Local!DeleteRow, Local!Job
    <2> QED
      BY <1>17, <2>1 DEF Local!DeleteRow
  <1>18. CASE Local!LogAudit
    <2>1. job' \in Local!Job
      BY <1>18 DEF Local!LogAudit, Local!Job
    <2> QED
      BY <1>18, <2>1 DEF Local!LogAudit
  <1>19. CASE Local!DeleteCaseRow
    <2>1. job' \in Local!Job
      BY <1>19 DEF Local!DeleteCaseRow, Local!Job
    <2>2. item' \in [Evidence \cup Report -> Local!ItemRow \cup {Local!None, Local!Unborn}]
      BY <1>19 DEF Local!DeleteCaseRow, Local!Cascade
    <2> QED
      BY <1>19, <2>1, <2>2 DEF Local!DeleteCaseRow
  <1>20. CASE Local!CleanupEnds
    BY <1>20 DEF Local!CleanupEnds
  <1>21. ASSUME NEW c \in Kept, Local!Grow(c) PROVE Local!TypeOK'
    <2>1. row[c] \in Local!CaseRow
      BY <1>21 DEF Local!Grow
    <2>2. [row[c] EXCEPT !.old = TRUE] \in Local!CaseRow
      BY <2>1 DEF Local!CaseRow
    <2>3. row' = [row EXCEPT ![c] = [row[c] EXCEPT !.old = TRUE]]
      BY <1>21 DEF Local!Grow
    <2> QED
      BY <1>21, <2>2, <2>3 DEF Local!Grow
  <1>22. ASSUME NEW i \in Evidence \cup Report, Local!GrowItem(i) PROVE Local!TypeOK'
    <2>1. [item[i] EXCEPT !.old = TRUE] \in Local!ItemRow
      BY <1>22 DEF Local!GrowItem, Local!Stored, Local!ItemRow
    <2>2. item' = [item EXCEPT ![i] = [item[i] EXCEPT !.old = TRUE]]
      BY <1>22 DEF Local!GrowItem
    <2> QED
      BY <1>22, <2>1, <2>2 DEF Local!GrowItem
  <1>23. CASE Local!Crash
    <2>1. crashes' \in 0..MaxCrashes
      BY <1>23 DEF Local!Crash
    <2> QED
      BY <1>23, <2>1 DEF Local!Crash
  <1>24. CASE UNCHANGED localVars
    BY <1>24 DEF localVars
  <1>25. CASE Local!Session
    BY <1>25, <1>1, <1>2, <1>3, <1>4, <1>5, <1>6, <1>7, <1>8, <1>9, <1>10, <1>11
    DEF Local!Session
  <1>26. CASE Local!Cleanup
    BY <1>26, <1>13, <1>14, <1>15, <1>16, <1>17, <1>18, <1>19, <1>20 DEF Local!Cleanup
  <1> HIDE DEF Local!TypeOK, Local!Item
  <1> QED
    BY <1>12, <1>21, <1>22, <1>23, <1>24, <1>25, <1>26 DEF Local!Next, Local!Item

-----------------------------------------------------------------------------
(* The invariant of the local store: the first parts make the files, the last ones *)
(* what a cleanup may take.                                                       *)

\* The file of a row, or of the row a call is about to store, is on disk unless a
\* cleanup has begun to delete the item; and the item of that call has no row yet.
FiledInv ==
    /\ \A i \in Local!Item : Local!Stored(i) => i \in file \cup begun
    /\ call # Local!None /\ call.op = "row" =>
         /\ call.item \in Local!Item /\ call.item \in file \cup begun
         /\ item[call.item] = Local!None

\* The deletion a cleanup has under way.
UnderWay == IF job # Local!None /\ job.pc \in {"file", "audit"} THEN {job.at} ELSE {}

\* Deletions begun that are neither recorded nor under way were cut off by a crash each.
AuditInv ==
    /\ IsFiniteSet(begun)
    /\ Cardinality(begun \ (audited \cup UnderWay)) <= crashes

\* A cleanup's list is of what was free at the dry run; what was there then can no
\* longer be stored anew, and the item whose file went is still its user's.
TakenInv == job # Local!None =>
    /\ job.items \subseteq job.free /\ job.free \subseteq job.there /\ job.there \subseteq Local!Item
    /\ \A i \in job.there :
         item[i] # Local!Unborn /\ ~(call # Local!None /\ call.op = "row" /\ call.item = i)
    /\ job.pc = "file" =>
         /\ job.at \in job.free /\ job.at \notin file
         /\ Local!Stored(job.at) => item[job.at].user = job.user
    /\ job.pc = "case" => \A i \in job.there : Local!Stored(i) => item[i].case # job.at

\* What the session's calls and the passing of time do to rows, files and the cleanup.
Row(i) == item[i] \in Local!ItemRow
Storing(i) == call # Local!None /\ call.op = "row" /\ call.item = i
SessionEffect ==
    /\ UNCHANGED <<job, begun, audited, crashes>>
    /\ file \subseteq file'
    /\ \A i \in Local!Item :
         /\ i \in file' => i \in file \/ item[i] = Local!Unborn
         /\ item[i] # Local!Unborn => item'[i] # Local!Unborn
         /\ item'[i] \in Local!ItemRow =>
              \/ Row(i) /\ item'[i].case = item[i].case /\ item'[i].user = item[i].user
              \/ Storing(i)
    /\ call' # Local!None /\ call'.op = "row" =>
         /\ call'.item \in Local!Item /\ item'[call'.item] = Local!None
         /\ \/ item[call'.item] = Local!Unborn /\ call'.item \in file'
            \/ call' = call

LEMMA SessionChange ==
    ASSUME Local!TypeOK, FiledInv,
           \/ Local!Session \/ UNCHANGED localVars
           \/ \E c \in Kept : Local!Grow(c)
           \/ \E i \in Local!Item : Local!GrowItem(i)
    PROVE  SessionEffect
  <1> USE LocalTags DEF Local!TypeOK, Local!Item, SessionEffect, Row, Storing, Local!Stored, Local!ItemsOf
  <1>1. ASSUME NEW u \in User, NEW c \in Kept, NEW b1 \in BOOLEAN, NEW b2 \in BOOLEAN,
               NEW b3 \in BOOLEAN, Local!CreateCase(u, c, b1, b2, b3)
        PROVE  SessionEffect
    BY <1>1 DEF Local!CreateCase, Local!Cascade
  <1>2. CASE Local!WriteSheet
    BY <1>2 DEF Local!WriteSheet
  <1>3. ASSUME NEW u \in User, NEW c \in Kept, NEW b \in BOOLEAN, Local!UpdateCase(u, c, b)
        PROVE  SessionEffect
    BY <1>3 DEF Local!UpdateCase
  <1>4. ASSUME NEW u \in User, NEW c \in Kept, NEW b \in BOOLEAN,
               Local!SetEvidencePreservation(u, c, b)
        PROVE  SessionEffect
    BY <1>4 DEF Local!SetEvidencePreservation
  <1>5. CASE Local!FlagItems
    <2>1. ASSUME NEW i \in Evidence \cup Report, Row(i)
          PROVE  /\ [item[i] EXCEPT !.keep = call.keep].case = item[i].case
                 /\ [item[i] EXCEPT !.keep = call.keep].user = item[i].user
                 /\ [item[i] EXCEPT !.keep = call.keep] # Local!Unborn
      BY <2>1 DEF Local!ItemRow, Local!Unborn
    <2> QED
      BY <1>5, <2>1 DEF Local!FlagItems
  <1>6. CASE Local!StoreRow
    <2>1. call.new \in Local!ItemRow /\ call.item \in Evidence \cup Report
      BY <1>6 DEF Local!StoreRow, Local!Call
    <2>2. \A i \in Evidence \cup Report :
             item'[i] = item[i] \/ (Storing(i) /\ item'[i] = call.new)
      BY <1>6, <2>1 DEF Local!StoreRow
    <2> QED
      BY <1>6, <2>1, <2>2 DEF Local!StoreRow
  <1>7. CASE Local!CleanupDemoCases
    BY <1>7 DEF Local!CleanupDemoCases, Local!Cascade
  <1>8. ASSUME NEW u \in User, NEW c \in Kept, NEW i \in Evidence \cup Report, NEW b1 \in BOOLEAN,
               NEW b2 \in BOOLEAN, NEW b3 \in BOOLEAN, Local!StoreFile(u, c, i, b1, b2, b3)
        PROVE  SessionEffect
    BY <1>8 DEF Local!StoreFile
  <1>9. ASSUME NEW us, Local!CloseActiveCases(us) PROVE SessionEffect
    BY <1>9 DEF Local!CloseActiveCases, FiledInv
  <1>10. ASSUME NEW u \in User, NEW i \in Evidence \cup Report, Local!MarkReportExported(u, i)
         PROVE  SessionEffect
    <2>1. /\ [item[i] EXCEPT !.exported = TRUE].case = item[i].case
          /\ [item[i] EXCEPT !.exported = TRUE].user = item[i].user
          /\ [item[i] EXCEPT !.exported = TRUE] # Local!Unborn
      BY <1>10 DEF Local!MarkReportExported, Local!ItemRow, Local!Unborn
    <2>2. item' = [item EXCEPT ![i] = [item[i] EXCEPT !.exported = TRUE]]
      BY <1>10 DEF Local!MarkReportExported
    <2> QED
      BY <1>10, <2>1, <2>2 DEF Local!MarkReportExported
  <1>11. ASSUME NEW u \in User, NEW c \in Kept, Local!ExportCasePackage(u, c) PROVE SessionEffect
    <2>1. ASSUME NEW i \in Evidence \cup Report, Row(i)
          PROVE  /\ [item[i] EXCEPT !.exported = TRUE].case = item[i].case
                 /\ [item[i] EXCEPT !.exported = TRUE].user = item[i].user
                 /\ [item[i] EXCEPT !.exported = TRUE] # Local!Unborn
      BY <2>1 DEF Local!ItemRow, Local!Unborn
    <2> QED
      BY <1>11, <2>1 DEF Local!ExportCasePackage
  <1>12. ASSUME NEW c \in Kept, Local!Grow(c) PROVE SessionEffect
    BY <1>12 DEF Local!Grow, FiledInv
  <1>13. ASSUME NEW i \in Evidence \cup Report, Local!GrowItem(i) PROVE SessionEffect
    <2>1. /\ [item[i] EXCEPT !.old = TRUE].case = item[i].case
          /\ [item[i] EXCEPT !.old = TRUE].user = item[i].user
          /\ [item[i] EXCEPT !.old = TRUE] # Local!Unborn
      BY <1>13 DEF Local!GrowItem, Local!ItemRow, Local!Unborn
    <2>2. item' = [item EXCEPT ![i] = [item[i] EXCEPT !.old = TRUE]]
      BY <1>13 DEF Local!GrowItem
    <2> QED
      BY <1>13, <2>1, <2>2 DEF Local!GrowItem, FiledInv
  <1>14. CASE UNCHANGED localVars
    BY <1>14 DEF localVars, FiledInv
  <1> HIDE DEF SessionEffect, Local!TypeOK
  <1> QED
    BY <1>1, <1>2, <1>3, <1>4, <1>5, <1>6, <1>7, <1>8, <1>9, <1>10, <1>11, <1>12, <1>13, <1>14
    DEF Local!Session

\* What the cleanup's steps do: rows only go, and so do files, each of an item whose
\* deletion has begun.
CleanupEffect ==
    /\ UNCHANGED <<call, crashes>>
    /\ file' \subseteq file /\ file \cup begun \subseteq file' \cup begun'
    /\ \A i \in Local!Item :
         /\ item'[i] = item[i] \/ (item'[i] = Local!None /\ item[i] # Local!Unborn)

LEMMA CleanupChange ==
    ASSUME Local!TypeOK, TakenInv, Local!Cleanup
    PROVE  CleanupEffect
  <1> USE LocalTags DEF Local!TypeOK, CleanupEffect
  <1>1. ASSUME NEW i \in Local!Item, Local!DeleteFile(i) PROVE CleanupEffect
    BY <1>1 DEF Local!DeleteFile
  <1>2. ASSUME NEW i \in Local!Item, Local!DeleteFails(i) PROVE CleanupEffect
    BY <1>2 DEF Local!DeleteFails
  <1>3. ASSUME NEW c \in Kept, Local!DeleteSheet(c) PROVE CleanupEffect
    BY <1>3 DEF Local!DeleteSheet
  <1>4. ASSUME NEW c \in Kept, Local!DeleteCaseFails(c) PROVE CleanupEffect
    BY <1>4 DEF Local!DeleteCaseFails
  <1>5. CASE Local!DeleteRow
    BY <1>5 DEF Local!DeleteRow, TakenInv
  <1>6. CASE Local!LogAudit
    BY <1>6 DEF Local!LogAudit
  <1>7. CASE Local!DeleteCaseRow
    BY <1>7 DEF Local!DeleteCaseRow, Local!Cascade, Local!ItemsOf, Local!Stored
  <1>8. CASE Local!CleanupEnds
    BY <1>8 DEF Local!CleanupEnds
  <1> HIDE DEF CleanupEffect, Local!TypeOK
  <1> QED
    BY <1>1, <1>2, <1>3, <1>4, <1>5, <1>6, <1>7, <1>8 DEF Local!Cleanup

LEMMA FiledStep ==
    ASSUME Local!TypeOK, FiledInv, TakenInv, [Local!Next]_localVars
    PROVE  FiledInv'
  <1> USE LocalTags DEF FiledInv, Local!Stored
  <1>1. ASSUME SessionEffect PROVE FiledInv'
    BY <1>1 DEF SessionEffect, Row, Storing
  <1>2. ASSUME CleanupEffect PROVE FiledInv'
    BY <1>2 DEF CleanupEffect
  <1>3. ASSUME NEW u \in User, Local!RunCleanupNow(u) PROVE FiledInv'
    BY <1>3 DEF Local!RunCleanupNow
  <1>4. CASE Local!Crash
    BY <1>4 DEF Local!Crash
  <1> HIDE DEF FiledInv
  <1> QED
    BY <1>1, <1>2, <1>3, <1>4, SessionChange, CleanupChange DEF Local!Next

LEMMA AuditStep ==
    ASSUME Local!TypeOK, AuditInv, FiledInv, TakenInv, [Local!Next]_localVars
    PROVE  AuditInv'
  <1> DEFINE Missing == begun \ (audited \cup UnderWay)
  <1>1. /\ IsFiniteSet(begun) /\ IsFiniteSet(Missing) /\ Cardinality(Missing) \in Nat
        /\ Cardinality(Missing) <= crashes /\ crashes \in Nat
    <2>1. IsFiniteSet(Missing)
      BY FS_Subset DEF AuditInv
    <2> QED
      BY <2>1, FS_CardinalityType DEF AuditInv, Local!TypeOK
  <1>2. ASSUME Missing' \subseteq Missing, IsFiniteSet(begun'), crashes' = crashes PROVE AuditInv'
    <2>1. Cardinality(Missing') <= Cardinality(Missing) /\ Cardinality(Missing') \in Nat
      BY <1>1, <1>2, FS_Subset, FS_CardinalityType
    <2> QED
      BY <1>1, <1>2, <2>1 DEF AuditInv
  <1>3. ASSUME UNCHANGED <<job, begun, audited, crashes>> PROVE AuditInv'
    BY <1>3 DEF AuditInv, UnderWay
  <1> USE LocalTags DEF UnderWay
  <1>4. ASSUME NEW i \in Local!Item, Local!DeleteFile(i) PROVE AuditInv'
    <2>1. job' # Local!None /\ job'.pc = "file" /\ job'.at = i
      BY <1>4 DEF Local!DeleteFile, Local!AtNext, Local!TypeOK, Local!Job, Local!None
    <2>2. IsFiniteSet(begun') /\ crashes' = crashes
      BY <1>1, <1>4, FS_AddElement DEF Local!DeleteFile
    <2>3. Missing' \subseteq Missing
      BY <1>4, <2>1 DEF Local!DeleteFile, Local!AtNext
    <2> QED
      BY <1>2, <2>2, <2>3
  <1>5. ASSUME UNCHANGED <<begun, audited, crashes>>, job # Local!None, job.pc = "next",
               job' # Local!None => job'.pc \notin {"file", "audit"}
        PROVE  AuditInv'
    <2>1. Missing' = Missing
      BY <1>5
    <2> QED
      BY <1>1, <1>2, <1>5, <2>1
  <1>6. ASSUME NEW i \in Local!Item, Local!DeleteFails(i) PROVE AuditInv'
    BY <1>5, <1>6 DEF Local!DeleteFails, Local!AtNext, Local!TypeOK, Local!Job
  <1>7. ASSUME NEW c \in Kept, Local!DeleteSheet(c) PROVE AuditInv'
    BY <1>5, <1>7 DEF Local!DeleteSheet, Local!CaseTurn, Local!AtNext, Local!TypeOK, Local!Job
  <1>8. ASSUME NEW c \in Kept, Local!DeleteCaseFails(c) PROVE AuditInv'
    BY <1>5, <1>8 DEF Local!DeleteCaseFails, Local!CaseTurn, Local!AtNext, Local!TypeOK, Local!Job
  <1>9. CASE Local!DeleteRow \/ Local!DeleteCaseRow
    <2>1. /\ UNCHANGED <<begun, audited, crashes>>
          /\ job # Local!None /\ job.pc \in {"file", "case"}
          /\ job' # Local!None /\ job'.pc = "audit" /\ job'.at = job.at
      BY <1>9 DEF Local!DeleteRow, Local!DeleteCaseRow, Local!TypeOK, Local!Job, Local!None
    <2>2. Missing' \subseteq Missing
      BY <2>1
    <2> QED
      BY <1>1, <1>2, <2>1, <2>2
  <1>10. CASE Local!LogAudit
    <2>1. /\ UNCHANGED <<begun, crashes>> /\ audited' = audited \cup ({job.at} \cap Local!Item)
          /\ job # Local!None /\ job.pc = "audit" /\ begun \subseteq Local!Item
          /\ job' # Local!None => job'.pc = "next"
      BY <1>10 DEF Local!LogAudit, Local!TypeOK, Local!Job
    <2>2. Missing' \subseteq Missing
      BY <2>1
    <2> QED
      BY <1>1, <1>2, <2>1, <2>2
  <1>11. CASE Local!CleanupEnds
    BY <1>5, <1>11 DEF Local!CleanupEnds, Local!AtNext
  <1>12. ASSUME NEW u \in User, Local!RunCleanupNow(u) PROVE AuditInv'
    <2>1. UNCHANGED <<begun, audited, crashes>> /\ job = Local!None /\ job'.pc = "next"
      BY <1>12 DEF Local!RunCleanupNow
    <2>2. Missing' = Missing
      BY <2>1
    <2> QED
      BY <1>1, <1>2, <2>1, <2>2
  <1>13. CASE Local!Crash
    <2>1. UNCHANGED <<begun, audited>> /\ job' = Local!None /\ crashes' = crashes + 1
      BY <1>13 DEF Local!Crash
    <2>2. Missing' \subseteq Missing \cup {job.at}
      BY <2>1
    <2>3. /\ IsFiniteSet(Missing \cup {job.at})
          /\ Cardinality(Missing \cup {job.at}) <= Cardinality(Missing) + 1
          /\ Cardinality(Missing \cup {job.at}) \in Nat
      <3>1. /\ IsFiniteSet(Missing \cup {job.at})
            /\ Cardinality(Missing \cup {job.at})
                 = IF job.at \in Missing THEN Cardinality(Missing) ELSE Cardinality(Missing) + 1
        BY <1>1, FS_AddElement
      <3> HIDE DEF Missing
      <3> QED
        BY <1>1, <3>1
    <2>4. Cardinality(Missing') <= Cardinality(Missing \cup {job.at}) /\ Cardinality(Missing') \in Nat
      BY <2>2, <2>3, FS_Subset, FS_CardinalityType
    <2>5. Cardinality(Missing') <= crashes'
      BY <1>1, <2>1, <2>3, <2>4
    <2> QED
      BY <1>1, <2>1, <2>5 DEF AuditInv
  <1> QED
    BY <1>3, <1>4, <1>6, <1>7, <1>8, <1>9, <1>10, <1>11, <1>12, <1>13, SessionChange
    DEF Local!Next, Local!Cleanup, SessionEffect

LEMMA TakenStep ==
    ASSUME Local!TypeOK, FiledInv, TakenInv, [Local!Next]_localVars
    PROVE  TakenInv'
  <1> USE LocalTags DEF TakenInv, Local!Stored
  <1>1. ASSUME SessionEffect PROVE TakenInv'
    <2>1. job' = job
      BY <1>1 DEF SessionEffect
    <2> SUFFICES ASSUME job # Local!None PROVE TakenInv'
      BY <2>1
    <2>2. ASSUME NEW i \in job.there
          PROVE  /\ item'[i] # Local!Unborn
                 /\ ~(call' # Local!None /\ call'.op = "row" /\ call'.item = i)
                 /\ item'[i] \in Local!ItemRow =>
                      Row(i) /\ item'[i].case = item[i].case /\ item'[i].user = item[i].user
                 /\ i \in file' => i \in file
      <3>1. i \in Local!Item /\ item[i] # Local!Unborn /\ ~Storing(i)
        BY DEF Storing
      <3> QED
        BY <1>1, <3>1 DEF SessionEffect, Storing
    <2>3. job.pc = "file" => job.at \in job.there
      OBVIOUS
    <2> QED
      BY <2>1, <2>2, <2>3 DEF Row
  <1>2. ASSUME CleanupEffect, job # Local!None, job' # Local!None,
               UNCHANGED <<job.free, job.there, job.user>>,
               job'.items \subseteq job.items,
               job'.pc = "file" =>
                 /\ job'.at \in job.items /\ job'.at \notin file'
                 /\ Local!Stored(job'.at) => item[job'.at].user = job.user,
               job'.pc = "case" => \A i \in Local!Item : Local!Stored(i) => item[i].case # job'.at
        PROVE  TakenInv'
    BY <1>2 DEF CleanupEffect
  <1>3. CASE Local!Cleanup
    <2>1. CleanupEffect
      BY <1>3, CleanupChange
    <2>2. ASSUME NEW i \in Local!Item, Local!DeleteFile(i) PROVE TakenInv'
      BY <1>2, <2>1, <2>2
      DEF Local!DeleteFile, Local!AtNext, Local!Turn, Local!TypeOK, Local!Job, Local!None
    <2>3. ASSUME NEW i \in Local!Item, Local!DeleteFails(i) PROVE TakenInv'
      BY <1>2, <2>1, <2>3
      DEF Local!DeleteFails, Local!AtNext, Local!TypeOK, Local!Job, Local!None
    <2>4. ASSUME NEW c \in Kept, Local!DeleteSheet(c) PROVE TakenInv'
      BY <1>2, <2>1, <2>4
      DEF Local!DeleteSheet, Local!CaseTurn, Local!AtNext, Local!TypeOK, Local!Job, Local!None,
          Local!ItemsOf
    <2>5. ASSUME NEW c \in Kept, Local!DeleteCaseFails(c) PROVE TakenInv'
      BY <1>2, <2>1, <2>5
      DEF Local!DeleteCaseFails, Local!CaseTurn, Local!AtNext, Local!TypeOK, Local!Job, Local!None
    <2>6. CASE Local!DeleteRow
      BY <1>2, <2>1, <2>6 DEF Local!DeleteRow, Local!TypeOK, Local!Job, Local!None
    <2>7. CASE Local!LogAudit
      BY <1>2, <2>1, <2>7 DEF Local!LogAudit, Local!TypeOK, Local!Job, Local!None
    <2>8. CASE Local!DeleteCaseRow
      BY <1>2, <2>1, <2>8 DEF Local!DeleteCaseRow, Local!TypeOK, Local!Job, Local!None
    <2>9. CASE Local!CleanupEnds
      BY <2>9 DEF Local!CleanupEnds
    <2> QED
      BY <1>3, <2>2, <2>3, <2>4, <2>5, <2>6, <2>7, <2>8, <2>9 DEF Local!Cleanup
  <1>4. ASSUME NEW u \in User, Local!RunCleanupNow(u) PROVE TakenInv'
    <2> DEFINE mine == {i \in Local!Item : Local!Stored(i) /\ item[i].user = u}
               items == {i \in mine : Local!IsEligibleItem(i)}
               due == {c \in Kept : Local!Owns(u, c) /\ Local!IsEligibleCase(c)}
               there == {i \in Local!Item : Local!Stored(i)}
               free == {i \in mine : ~Local!Protected(i)}
               any == CHOOSE x \in items \cup due : TRUE
    <2>1. /\ job' = [pc |-> "next", user |-> u, items |-> items, cases |-> due, at |-> any,
                     there |-> there, free |-> free]
          /\ UNCHANGED <<item, call>>
      BY <1>4 DEF Local!RunCleanupNow
    <2>2. items \subseteq free /\ free \subseteq there /\ there \subseteq Local!Item
      BY DEF Local!IsEligibleItem, Local!Protected
    <2>3. \A i \in there : item[i] # Local!Unborn /\ item[i] # Local!None
      OBVIOUS
    <2> HIDE DEF mine, items, due, there, free, any
    <2>4. /\ job'.pc = "next" /\ job'.items = items /\ job'.free = free /\ job'.there = there
      BY <2>1
    <2> QED
      BY <2>1, <2>2, <2>3, <2>4 DEF FiledInv
  <1>5. CASE Local!Crash
    BY <1>5 DEF Local!Crash
  <1> HIDE DEF TakenInv
  <1> QED
    BY <1>1, <1>3, <1>4, <1>5, SessionChange DEF Local!Next

LocalInv == Local!TypeOK /\ FiledInv /\ AuditInv /\ TakenInv

LEMMA LocalStep ==
    ASSUME LocalInv, [Local!Next]_localVars
    PROVE  LocalInv'
  BY LocalTypeStep, FiledStep, AuditStep, TakenStep DEF LocalInv

\* A step of MCStores is one of the local store, or leaves it as it is.
LEMMA LocalSteps ==
    ASSUME [Next]_vars
    PROVE  [Local!Next]_localVars
  BY DEF Next, vars

LEMMA LocalInitially ==
    ASSUME Init
    PROVE  LocalInv
  <1> USE LocalTags DEF Init, Local!Init
  <1>1. Local!TypeOK
    BY DEF Local!TypeOK
  <1>2. FiledInv /\ TakenInv
    BY DEF FiledInv, TakenInv, Local!Stored
  <1>3. AuditInv
    <2>1. begun \ (audited \cup UnderWay) = {} /\ IsFiniteSet({}) /\ Cardinality({}) = 0
      BY FS_EmptySet
    <2> QED
      BY <2>1 DEF AuditInv
  <1> QED
    BY <1>1, <1>2, <1>3 DEF LocalInv

LEMMA LocalInvariant == Spec => []LocalInv
  <1>1. Init => LocalInv
    BY LocalInitially
  <1>2. LocalInv /\ [Next]_vars => LocalInv'
    BY LocalSteps, LocalStep
  <1> QED
    BY <1>1, <1>2, PTL DEF Spec

\* Every row of evidence or of a report has its file on disk unless a cleanup has begun
\* to delete the item, and each restart costs the audit record of one deletion at most:
\* store_evidence, store_report, _safe_delete_evidence and run_cleanup_now, whatever
\* the session and the cleanup thread do to the same case in between.
THEOREM FilesAreAccounted == Spec => []FilesAccounted
  <1>1. LocalInv => Local!RowHasFile
    BY DEF LocalInv, FiledInv, Local!RowHasFile
  <1>2. LocalInv => Local!AuditGap
    <2> SUFFICES ASSUME LocalInv PROVE Local!AuditGap
      OBVIOUS
    <2> DEFINE Gone == {i \in begun : ~Local!Stored(i)} \ audited
               Lost == begun \ (audited \cup UnderWay)
               slack == IF job # Local!None /\ job.pc \in {"file", "audit"} THEN 1 ELSE 0
    <2>1. IsFiniteSet(begun) /\ Cardinality(Lost) <= crashes /\ crashes \in Nat
      BY DEF LocalInv, AuditInv, Local!TypeOK
    <2>2. IsFiniteSet(Lost) /\ Cardinality(Lost) \in Nat
      BY <2>1, FS_Subset, FS_CardinalityType
    <2>3. CASE slack = 0
      <3>1. Gone \subseteq Lost
        BY <2>3 DEF UnderWay
      <3>2. Cardinality(Gone) <= Cardinality(Lost) /\ Cardinality(Gone) \in Nat
        BY <2>2, <3>1, FS_Subset, FS_CardinalityType
      <3>3. Cardinality(Gone) <= crashes + slack
        BY <2>1, <2>2, <2>3, <3>2
      <3> QED
        BY <3>3, SameCardinality DEF Local!AuditGap
    <2>4. CASE slack = 1
      <3>1. Gone \subseteq Lost \cup {job.at}
        BY DEF UnderWay
      <3>2. /\ IsFiniteSet(Lost \cup {job.at})
            /\ Cardinality(Lost \cup {job.at})
                 = IF job.at \in Lost THEN Cardinality(Lost) ELSE Cardinality(Lost) + 1
        BY <2>2, FS_AddElement
      <3>3. /\ Cardinality(Gone) <= Cardinality(Lost \cup {job.at}) /\ Cardinality(Gone) \in Nat
        BY <3>1, <3>2, FS_Subset, FS_CardinalityType
      <3>4. Cardinality(Gone) <= crashes + slack
        <4> HIDE DEF Lost, Gone, slack
        <4> QED
          BY <2>1, <2>2, <2>4, <3>2, <3>3
      <3> QED
        BY <3>4, SameCardinality DEF Local!AuditGap
    <2> QED
      BY <2>3, <2>4
  <1> QED
    BY <1>1, <1>2, LocalInvariant, PTL DEF FilesAccounted

\* What a cleanup takes: of the rows that were there at its dry run, only those of its own
\* user's items that nothing protected then, each after its file (run_cleanup_now): no
\* later change, and no cascade of a case's deletion, carries off more.
LEMMA TakesOnlyItsOwn ==
    ASSUME LocalInv, job # Local!None, NEW i \in job.there, Local!Stored(i), ~Local!Stored(i)',
           Local!Cleanup
    PROVE  i \in job.free /\ item[i].user = job.user /\ i \notin file
  <1>1. i \in Local!Item /\ Local!TypeOK /\ TakenInv
    BY DEF LocalInv, TakenInv
  <1>2. CASE Local!DeleteRow
    <2>1. i = job.at
      BY <1>1, <1>2 DEF Local!DeleteRow, Local!Stored, Local!TypeOK
    <2> QED
      BY <1>1, <1>2, <2>1 DEF Local!DeleteRow, TakenInv
  <1>3. CASE Local!DeleteCaseRow
    <2>1. item[i].case = job.at
      BY <1>1, <1>3
      DEF Local!DeleteCaseRow, Local!Cascade, Local!ItemsOf, Local!Stored, Local!TypeOK
    <2> QED
      BY <1>1, <1>3, <2>1 DEF Local!DeleteCaseRow, TakenInv
  <1>4. CASE UNCHANGED item
    BY <1>4 DEF Local!Stored
  <1> QED
    BY <1>2, <1>3, <1>4
    DEF Local!Cleanup, Local!DeleteFile, Local!DeleteFails, Local!DeleteSheet,
        Local!DeleteCaseFails, Local!LogAudit, Local!CleanupEnds

THEOREM CleanupSparesTheRest == Spec => SparesTheRest
  <1>1. LocalInv =>
          (job # Local!None /\ job' # Local!None =>
             \A i \in job.there :
               (Local!Stored(i) /\ ~Local!Stored(i)' /\ Local!Cleanup) =>
                 i \in job.free /\ item[i].user = job.user /\ i \notin file)
    BY TakesOnlyItsOwn
  <1> QED
    BY <1>1, LocalInvariant, PTL DEF SparesTheRest, Local!SparesTheRest

-----------------------------------------------------------------------------
(* The case store: the order of the cases. *)

\* A sequence without its k-th element.
LEMMA RemoveAtProperties ==
    ASSUME NEW S, NEW s \in Seq(S), NEW k \in 1..Len(s)
    PROVE  LET rest == SubSeq(s, 1, k - 1) \o SubSeq(s, k + 1, Len(s))
           IN  /\ rest \in Seq(S) /\ Len(rest) = Len(s) - 1
               /\ \A i \in 1..(Len(s) - 1) : rest[i] = IF i < k THEN s[i] ELSE s[i + 1]
  <1> DEFINE a == SubSeq(s, 1, k - 1)  b == SubSeq(s, k + 1, Len(s))
  <1>1. Len(s) \in Nat /\ k \in Nat /\ 1 <= k /\ k <= Len(s)
    OBVIOUS
  <1>2. a \in Seq(S) /\ Len(a) = k - 1 /\ \A i \in 1..(k - 1) : a[i] = s[i]
    BY <1>1
  <1>3. b \in Seq(S) /\ Len(b) = Len(s) - k /\ \A i \in 1..(Len(s) - k) : b[i] = s[k + i]
    BY <1>1
  <1> HIDE DEF a, b
  <1>4. a \o b \in Seq(S) /\ Len(a \o b) = Len(s) - 1
    <2>1. a \o b \in Seq(S) /\ Len(a \o b) = Len(a) + Len(b)
      BY <1>2, <1>3, ConcatProperties
    <2>2. (k - 1) + (Len(s) - k) = Len(s) - 1
      BY <1>1
    <2> QED
      BY <1>2, <1>3, <2>1, <2>2
  <1>5. ASSUME NEW i \in 1..(Len(s) - 1)
        PROVE  (a \o b)[i] = IF i < k THEN s[i] ELSE s[i + 1]
    <2>1. CASE i < k
      BY <1>1, <1>2, <1>3, <2>1
    <2>2. CASE ~(i < k)
      <3>1. (a \o b)[i] = b[i - (k - 1)]
        BY <1>1, <1>2, <1>3, <2>2
      <3>2. i - (k - 1) \in 1..(Len(s) - k) /\ k + (i - (k - 1)) = i + 1
        BY <1>1, <2>2
      <3> QED
        BY <1>3, <2>2, <3>1, <3>2
    <2> QED
      BY <2>1, <2>2
  <1> QED
    BY <1>4, <1>5 DEF a, b

\* The order of the cases without one of them.
LEMMA WithoutProperties ==
    ASSUME Store!TypeOK, NEW c \in Case
    PROVE  /\ Store!Without(c) \in Seq(Case)
           /\ Store!IsInjective(Store!Without(c))
           /\ Store!ToSet(Store!Without(c)) = {d \in Case : Store!Exists(d)} \ {c}
  <1>1. order \in Seq(Case) /\ Len(order) \in Nat /\ DOMAIN order = 1..Len(order)
    <2>1. order \in Seq(Case)
      BY DEF Store!TypeOK
    <2> QED
      BY <2>1
  <1>2. \A i, j \in 1..Len(order) : order[i] = order[j] => i = j
    BY <1>1 DEF Store!TypeOK, Store!IsInjective
  <1>3. \A d \in Case : Store!Exists(d) <=> \E i \in 1..Len(order) : order[i] = d
    <2>1. Store!ToSet(order) = {order[i] : i \in 1..Len(order)}
      BY <1>1 DEF Store!ToSet
    <2>2. Store!ToSet(order) = {d \in Case : Store!Exists(d)}
      BY DEF Store!TypeOK, Store!Exists
    <2> QED
      BY <2>1, <2>2
  <1>4. CASE ~Store!Exists(c)
    BY <1>1, <1>4 DEF Store!TypeOK, Store!Without, Store!Exists, Store!None
  <1>5. CASE Store!Exists(c)
    <2> DEFINE k == Store!Place(c)  rest == Store!Without(c)
    <2>1. k \in 1..Len(order) /\ order[k] = c
      BY <1>1, <1>3, <1>5 DEF Store!Place
    <2> HIDE DEF k
    <2>2. rest = SubSeq(order, 1, k - 1) \o SubSeq(order, k + 1, Len(order))
      BY <1>5 DEF Store!Without, Store!RemoveAt, k
    <2>3. /\ rest \in Seq(Case) /\ Len(rest) = Len(order) - 1
          /\ \A i \in 1..(Len(order) - 1) : rest[i] = IF i < k THEN order[i] ELSE order[i + 1]
      BY ZenonT(40), <1>1, <2>1, <2>2, RemoveAtProperties
    <2> HIDE DEF rest
    <2>4. DOMAIN rest = 1..(Len(order) - 1)
      BY <2>3
    <2>5. \A i, j \in 1..(Len(order) - 1) : rest[i] = rest[j] => i = j
      <3> SUFFICES ASSUME NEW i \in 1..(Len(order) - 1), NEW j \in 1..(Len(order) - 1),
                          rest[i] = rest[j]
                   PROVE  i = j
        OBVIOUS
      <3> DEFINE p == IF i < k THEN i ELSE i + 1  q == IF j < k THEN j ELSE j + 1
      <3>0. Len(order) \in Nat
        BY <1>1
      <3>1. p \in 1..Len(order) /\ q \in 1..Len(order) /\ rest[i] = order[p] /\ rest[j] = order[q]
        <4>1. p \in 1..Len(order) /\ q \in 1..Len(order)
          BY <2>1, <3>0
        <4>2. rest[i] = order[p]
          BY <2>3
        <4>3. rest[j] = order[q]
          BY <2>3
        <4> QED
          BY <4>1, <4>2, <4>3
      <3>2. p = q
        BY <1>2, <3>1
      <3> QED
        BY <1>1, <2>1, <3>2
    <2>6. ASSUME NEW d \in Case
          PROVE  (\E i \in 1..(Len(order) - 1) : rest[i] = d) <=> (Store!Exists(d) /\ d # c)
      <3>1. ASSUME NEW i \in 1..(Len(order) - 1), rest[i] = d PROVE Store!Exists(d) /\ d # c
        <4> DEFINE p == IF i < k THEN i ELSE i + 1
        <4>1. p \in 1..Len(order) /\ rest[i] = order[p] /\ p # k
          BY <1>1, <2>1, <2>3
        <4> HIDE DEF p
        <4> QED
          BY <1>2, <1>3, <2>1, <3>1, <4>1
      <3>2. ASSUME Store!Exists(d), d # c PROVE \E i \in 1..(Len(order) - 1) : rest[i] = d
        <4>1. PICK p \in 1..Len(order) : order[p] = d
          BY <1>3, <3>2
        <4>2. p # k
          BY <2>1, <3>2, <4>1
        <4> DEFINE i == IF p < k THEN p ELSE p - 1
        <4>3. i \in 1..(Len(order) - 1) /\ (IF i < k THEN i ELSE i + 1) = p
          BY <1>1, <2>1, <4>2
        <4>4. rest[i] = d
          BY <2>3, <4>1, <4>3
        <4> QED
          BY <4>3, <4>4
      <3> QED
        BY <3>1, <3>2
    <2>7. Store!ToSet(rest) = {rest[i] : i \in 1..(Len(order) - 1)}
      BY <2>4 DEF Store!ToSet
    <2>8. \A i \in 1..(Len(order) - 1) : rest[i] \in Case
      BY <2>3, <2>4
    <2> QED
      BY SMTT(30), <2>3, <2>4, <2>5, <2>6, <2>7, <2>8 DEF Store!IsInjective, rest
  <1> QED
    BY <1>4, <1>5

\* The order after a save: the case first, or where it was.
LEMMA RedatedProperties ==
    ASSUME Store!TypeOK, NEW c \in Case
    PROVE  /\ Store!Redated(c) \in Seq(Case)
           /\ Store!IsInjective(Store!Redated(c))
           /\ Store!ToSet(Store!Redated(c)) = {d \in Case : Store!Exists(d)} \cup {c}
  <1>1. CASE remote /\ Store!Exists(c)
    BY <1>1 DEF Store!Redated, Store!TypeOK, Store!Exists
  <1>2. CASE ~(remote /\ Store!Exists(c))
    <2> DEFINE rest == Store!Without(c)  new == <<c>> \o rest
    <2>1. Store!Redated(c) = new
      BY <1>2 DEF Store!Redated
    <2>2. /\ rest \in Seq(Case) /\ Store!IsInjective(rest)
          /\ Store!ToSet(rest) = {d \in Case : Store!Exists(d)} \ {c}
      BY WithoutProperties
    <2>3. Len(rest) \in Nat /\ DOMAIN rest = 1..Len(rest)
      BY <2>2
    <2> HIDE DEF rest
    <2>4. <<c>> \in Seq(Case) /\ Len(<<c>>) = 1 /\ <<c>>[1] = c
      OBVIOUS
    <2>5. /\ new \in Seq(Case) /\ Len(new) = 1 + Len(rest)
          /\ \A i \in 1..(1 + Len(rest)) : new[i] = IF i <= 1 THEN <<c>>[i] ELSE rest[i - 1]
      BY <2>2, <2>4, ConcatProperties
    <2>6. DOMAIN new = 1..(1 + Len(rest))
      BY <2>5
    <2>7. new[1] = c /\ \A i \in 1..Len(rest) : new[i + 1] = rest[i]
      BY <2>3, <2>4, <2>5
    <2> HIDE DEF new
    <2>8. \A i \in 1..(1 + Len(rest)) : i = 1 \/ (i - 1 \in 1..Len(rest) /\ new[i] = rest[i - 1])
      BY <2>3, <2>5
    <2>9. \A i, j \in 1..Len(rest) : rest[i] = rest[j] => i = j
      BY <2>2, <2>3 DEF Store!IsInjective
    <2>10. \A i \in 1..Len(rest) : rest[i] # c /\ rest[i] \in {d \in Case : Store!Exists(d)}
      BY <2>2, <2>3 DEF Store!ToSet
    <2>11. Store!IsInjective(new)
      <3>1. ASSUME NEW i \in 1..(1 + Len(rest)), NEW j \in 1..(1 + Len(rest)), new[i] = new[j]
            PROVE  i = j
        <4>1. CASE i = 1
          BY <2>7, <2>8, <2>10, <3>1, <4>1
        <4>2. CASE j = 1
          BY <2>7, <2>8, <2>10, <3>1, <4>2
        <4>3. CASE i # 1 /\ j # 1
          BY <2>3, <2>8, <2>9, <3>1, <4>3
        <4> QED
          BY <4>1, <4>2, <4>3
      <3> QED
        BY <2>6, <3>1 DEF Store!IsInjective
    <2>12. Store!ToSet(new) = {new[i] : i \in 1..(1 + Len(rest))}
      BY <2>6 DEF Store!ToSet
    <2>13. Store!ToSet(rest) = {rest[i] : i \in 1..Len(rest)}
      BY <2>3 DEF Store!ToSet
    <2>14. {new[i] : i \in 1..(1 + Len(rest))} = {c} \cup {rest[i] : i \in 1..Len(rest)}
      <3>1. ASSUME NEW i \in 1..(1 + Len(rest))
            PROVE  new[i] \in {c} \cup {rest[j] : j \in 1..Len(rest)}
        BY <2>7, <2>8
      <3>2. 1 \in 1..(1 + Len(rest)) /\ \A i \in 1..Len(rest) : i + 1 \in 1..(1 + Len(rest))
        BY <2>3
      <3> QED
        BY SMTT(30), <2>7, <3>1, <3>2
    <2> QED
      BY <2>1, <2>2, <2>5, <2>11, <2>12, <2>13, <2>14 DEF new
  <1> QED
    BY <1>1, <1>2

LEMMA NewestExist ==
    ASSUME Store!TypeOK, NEW n \in Nat
    PROVE  Store!Newest(n) \subseteq {c \in Case : Store!Exists(c)}
  <1>1. Store!ToSet(order) = {c \in Case : Store!Exists(c)}
    BY DEF Store!TypeOK, Store!Exists
  <1> QED
    BY <1>1 DEF Store!Newest, Store!ToSet

LEMMA StoreTags ==
    /\ Store!None \notin Store!Row /\ Store!None \notin Store!Op
    /\ Store!NewRow \in Store!Row
  BY DEF Store!None, Store!Row, Store!Op, Store!NewRow, Store!Statuses

\* The cases of the order are those that exist.
LEMMA OrderTyped ==
    ASSUME Store!TypeOK,
           \/ UNCHANGED <<cases, order>>
           \/ \E c \in Case : \E r \in Store!Row :
                cases' = [cases EXCEPT ![c] = r] /\ order' = Store!Redated(c)
           \/ \E c \in Case : cases' = [cases EXCEPT ![c] = Store!None] /\ order' = Store!Without(c)
           \/ \E c \in Case : \E r \in Store!Row :
                Store!Exists(c) /\ cases' = [cases EXCEPT ![c] = r] /\ order' = order
    PROVE  /\ cases' \in [Case -> Store!Row \cup {Store!None}]
           /\ order' \in Seq(Case) /\ Store!IsInjective(order')
           /\ Store!ToSet(order') = {c \in Case : cases'[c] # Store!None}
  <1>0. /\ cases \in [Case -> Store!Row \cup {Store!None}]
        /\ order \in Seq(Case) /\ Store!IsInjective(order)
        /\ Store!ToSet(order) = {c \in Case : cases[c] # Store!None}
    BY DEF Store!TypeOK
  <1>1. CASE UNCHANGED <<cases, order>>
    BY <1>0, <1>1
  <1>2. ASSUME NEW c \in Case, NEW r \in Store!Row,
               cases' = [cases EXCEPT ![c] = r], order' = Store!Redated(c)
        PROVE  /\ cases' \in [Case -> Store!Row \cup {Store!None}]
               /\ order' \in Seq(Case) /\ Store!IsInjective(order')
               /\ Store!ToSet(order') = {d \in Case : cases'[d] # Store!None}
    <2>1. {d \in Case : cases'[d] # Store!None} = {d \in Case : Store!Exists(d)} \cup {c}
      BY <1>0, <1>2, StoreTags DEF Store!Exists
    <2> QED
      BY <1>0, <1>2, <2>1, RedatedProperties
  <1>3. ASSUME NEW c \in Case, cases' = [cases EXCEPT ![c] = Store!None],
               order' = Store!Without(c)
        PROVE  /\ cases' \in [Case -> Store!Row \cup {Store!None}]
               /\ order' \in Seq(Case) /\ Store!IsInjective(order')
               /\ Store!ToSet(order') = {d \in Case : cases'[d] # Store!None}
    <2>1. {d \in Case : cases'[d] # Store!None} = {d \in Case : Store!Exists(d)} \ {c}
      BY <1>0, <1>3 DEF Store!Exists
    <2> QED
      BY <1>0, <1>3, <2>1, WithoutProperties
  <1>4. ASSUME NEW c \in Case, NEW r \in Store!Row, Store!Exists(c),
               cases' = [cases EXCEPT ![c] = r], order' = order
        PROVE  /\ cases' \in [Case -> Store!Row \cup {Store!None}]
               /\ order' \in Seq(Case) /\ Store!IsInjective(order')
               /\ Store!ToSet(order') = {d \in Case : cases'[d] # Store!None}
    <2>1. {d \in Case : cases'[d] # Store!None} = {d \in Case : cases[d] # Store!None}
      BY <1>0, <1>4, StoreTags DEF Store!Exists
    <2> QED
      BY <1>0, <1>4, <2>1
  <1> QED
    BY <1>1, <1>2, <1>3, <1>4

\* What an actor's entry becomes.
LEMMA BecomesTyped ==
    ASSUME Store!TypeOK, NEW a \in Store!Actor, NEW op \in Store!Op \cup {Store!None},
           Store!Becomes(a, op)
    PROVE  /\ at' \in [Store!Actor -> Store!Op \cup {Store!None}]
           /\ at'[a] = op /\ \A b \in Store!Actor : b # a => at'[b] = at[b]
  BY DEF Store!TypeOK, Store!Becomes

\* The two ways a case's row is written.
LEMMA SavedTyped ==
    ASSUME Store!TypeOK, NEW c \in Case, NEW given \in Store!Row
    PROVE  Store!Saved(c, given) \in Store!Row
  <1>1. CASE remote \/ ~Store!Exists(c)
    BY <1>1 DEF Store!Saved
  <1>2. CASE ~(remote \/ ~Store!Exists(c))
    <2>1. cases[c] \in Store!Row
      BY <1>2 DEF Store!Exists, Store!TypeOK
    <2>2. Store!Saved(c, given) =
            [cases[c] EXCEPT !.notes = IF cases[c].notes = {} THEN given.notes ELSE cases[c].notes]
      BY <1>2, <2>1 DEF Store!Saved, Store!Row
    <2> QED
      BY <2>1, <2>2 DEF Store!Row
  <1> QED
    BY <1>1, <1>2

LEMMA MetadataTyped ==
    ASSUME Store!TypeOK, NEW c \in Case, NEW status \in Store!Statuses \cup {"same"},
           NEW notes \in SUBSET Note, Store!UpdateCaseMetadata(c, status, notes)
    PROVE  \/ ~Store!Exists(c) /\ cases' = cases
           \/ /\ Store!Exists(c)
              /\ \E s \in Store!Statuses :
                   /\ s = IF status = "same" THEN cases[c].status ELSE status
                   /\ [status |-> s, notes |-> notes] \in Store!Row
                   /\ cases' = [cases EXCEPT ![c] = [status |-> s, notes |-> notes]]
  <1>1. CASE ~Store!Exists(c)
    BY <1>1 DEF Store!UpdateCaseMetadata
  <1>2. CASE Store!Exists(c)
    <2> DEFINE s == IF status = "same" THEN cases[c].status ELSE status
    <2>1. cases[c] \in Store!Row
      BY <1>2 DEF Store!Exists, Store!TypeOK
    <2>2. s \in Store!Statuses
      BY <2>1, Zenon DEF Store!Row
    <2>3. cases' = [cases EXCEPT ![c] = [status |-> s, notes |-> notes]]
      BY <1>2 DEF Store!UpdateCaseMetadata
    <2> HIDE DEF s
    <2>4. [status |-> s, notes |-> notes] \in Store!Row
      BY <2>2 DEF Store!Row
    <2> QED
      BY <1>2, <2>2, <2>3, <2>4 DEF s
  <1> QED
    BY <1>1, <1>2

LEMMA MetadataOrder ==
    ASSUME Store!TypeOK, NEW c \in Case, NEW status \in Store!Statuses \cup {"same"},
           NEW notes \in SUBSET Note, Store!UpdateCaseMetadata(c, status, notes), order' = order
    PROVE  /\ cases' \in [Case -> Store!Row \cup {Store!None}]
           /\ order' \in Seq(Case) /\ Store!IsInjective(order')
           /\ Store!ToSet(order') = {d \in Case : cases'[d] # Store!None}
  <1>1. CASE cases' = cases
    BY <1>1, OrderTyped
  <1>2. ASSUME NEW r \in Store!Row, Store!Exists(c), cases' = [cases EXCEPT ![c] = r]
        PROVE  /\ cases' \in [Case -> Store!Row \cup {Store!None}]
               /\ order' \in Seq(Case) /\ Store!IsInjective(order')
               /\ Store!ToSet(order') = {d \in Case : cases'[d] # Store!None}
    BY <1>2, OrderTyped
  <1>3. \/ ~Store!Exists(c) /\ cases' = cases
        \/ /\ Store!Exists(c)
           /\ \E s \in Store!Statuses :
                /\ s = IF status = "same" THEN cases[c].status ELSE status
                /\ [status |-> s, notes |-> notes] \in Store!Row
                /\ cases' = [cases EXCEPT ![c] = [status |-> s, notes |-> notes]]
    BY MetadataTyped
  <1> QED
    BY <1>1, <1>2, <1>3

LEMMA GetRecordTyped ==
    ASSUME Store!TypeOK, NEW c \in Case
    PROVE  Store!GetCaseRecord(c) \in Store!Row
  BY StoreTags DEF Store!TypeOK, Store!GetCaseRecord, Store!Exists

\* An operation between its steps.
LEMMA OpTyped ==
    ASSUME Store!TypeOK, NEW a \in Store!Actor, at[a] # Store!None
    PROVE  /\ at[a] \in Store!Op
           /\ at[a].op \in {"analyse", "close"} => at[a].case \in Case /\ at[a].seen \in Store!Row
           /\ at[a].op = "write" =>
                /\ at[a].case \in Case /\ at[a].seen \in Store!Row
                /\ at[a].status \in Store!Statuses \cup {"same"} /\ at[a].note \in Note
           /\ at[a].op = "indicators" => at[a].case \in Case
           /\ at[a].op \in {"closeall", "clear", "demo"} =>
                at[a].listed \subseteq Case /\ at[a].todo \subseteq Case
  <1>1. at[a] \in Store!Op
    BY DEF Store!TypeOK
  <1> QED
    BY <1>1 DEF Store!Op

LEMMA UpsertTyped ==
    ASSUME Store!TypeOK, NEW a \in Store!Actor, NEW c \in Case, NEW given \in Store!Row,
           Store!Upsert(a, c, given)
    PROVE  Store!TypeOK'
  <1>1. /\ cases' \in [Case -> Store!Row \cup {Store!None}]
        /\ order' \in Seq(Case) /\ Store!IsInjective(order')
        /\ Store!ToSet(order') = {d \in Case : cases'[d] # Store!None}
    BY SavedTyped, OrderTyped DEF Store!Upsert
  <1>2. inds' \in [Case -> 0..MaxCopies]
    <2>1. 1 \in 0..MaxCopies /\ inds \in [Case -> 0..MaxCopies]
      BY DEF Store!TypeOK
    <2>2. inds' = inds \/ inds' = [inds EXCEPT ![c] = 1]
      BY DEF Store!Upsert
    <2> QED
      BY <2>1, <2>2
  <1>3. at' \in [Store!Actor -> Store!Op \cup {Store!None}]
    <2>1. [op |-> "indicators", case |-> c] \in Store!Op
      BY DEF Store!Op
    <2> QED
      BY <2>1, BecomesTyped DEF Store!Upsert
  <1> QED
    BY <1>1, <1>2, <1>3 DEF Store!Upsert, Store!TypeOK

\* An operation that begins leaves the store as it is.
LEMMA BeginsTyped ==
    ASSUME Store!TypeOK, NEW t \in Tab, NEW op \in Store!Op, Store!Begins(t, op),
           UNCHANGED <<remote, cases, order, inds, acked>>
    PROVE  Store!TypeOK'
  <1>1. at' \in [Store!Actor -> Store!Op \cup {Store!None}]
    BY BecomesTyped DEF Store!Begins, Store!Actor
  <1>2. raced' \in BOOLEAN
    BY DEF Store!Begins, Store!TypeOK
  <1> QED
    BY <1>1, <1>2 DEF Store!TypeOK

LEMMA StoreTypeStep ==
    ASSUME Store!TypeOK, [Store!Next]_storeVars
    PROVE  Store!TypeOK'
  <1>0. /\ Tab \subseteq Store!Actor /\ Worker \in Store!Actor
        /\ \A n \in Nat : Store!Newest(n) \subseteq Case
    BY NewestExist DEF Store!Actor
  <1>1. ASSUME NEW c \in Case, Store!WorkerSave(c) PROVE Store!TypeOK'
    BY <1>0, <1>1, StoreTags, UpsertTyped DEF Store!WorkerSave
  <1>2. ASSUME NEW a \in Store!Actor, Store!InsertIndicators(a) PROVE Store!TypeOK'
    <2>1. at[a].case \in Case
      BY <1>2, OpTyped DEF Store!InsertIndicators
    <2>2. inds' \in [Case -> 0..MaxCopies]
      BY SMTT(30), <1>2, <2>1 DEF Store!InsertIndicators, Store!TypeOK
    <2>3. at' \in [Store!Actor -> Store!Op \cup {Store!None}]
      BY <1>2, BecomesTyped DEF Store!InsertIndicators
    <2> QED
      BY <1>2, <2>2, <2>3 DEF Store!InsertIndicators, Store!TypeOK
  <1>3. ASSUME NEW t \in Tab, Store!AnalyseSave(t) PROVE Store!TypeOK'
    BY <1>0, <1>3, OpTyped, UpsertTyped DEF Store!AnalyseSave
  <1>4. ASSUME NEW t \in Tab, Store!WriteBack(t) PROVE Store!TypeOK'
    <2>1. /\ t \in Store!Actor /\ at[t].case \in Case /\ at[t].seen \in Store!Row
          /\ at[t].status \in Store!Statuses \cup {"same"} /\ at[t].note \in Note
      BY <1>0, <1>4, OpTyped DEF Store!WriteBack
    <2>2. at[t].seen.notes \cup {at[t].note} \in SUBSET Note
      BY <2>1 DEF Store!Row
    <2>3. /\ cases' \in [Case -> Store!Row \cup {Store!None}]
          /\ order' \in Seq(Case) /\ Store!IsInjective(order')
          /\ Store!ToSet(order') = {d \in Case : cases'[d] # Store!None}
      BY <1>4, <2>1, <2>2, MetadataOrder DEF Store!WriteBack
    <2>4. at' \in [Store!Actor -> Store!Op \cup {Store!None}]
      BY <1>4, <2>1, BecomesTyped DEF Store!WriteBack
    <2>5. acked' \in [Case -> SUBSET Note]
      BY <1>4, <2>1 DEF Store!WriteBack, Store!TypeOK
    <2> QED
      BY <1>4, <2>3, <2>4, <2>5 DEF Store!WriteBack, Store!TypeOK
  <1>5. ASSUME NEW t \in Tab, Store!CloseWrite(t) PROVE Store!TypeOK'
    <2>1. t \in Store!Actor /\ at[t].case \in Case
      BY <1>0, <1>5, OpTyped DEF Store!CloseWrite
    <2>2. Store!GetCaseRecord(at[t].case).notes \in SUBSET Note
      BY <2>1, GetRecordTyped DEF Store!Row
    <2>3. /\ cases' \in [Case -> Store!Row \cup {Store!None}]
          /\ order' \in Seq(Case) /\ Store!IsInjective(order')
          /\ Store!ToSet(order') = {d \in Case : cases'[d] # Store!None}
      BY <1>5, <2>1, <2>2, MetadataOrder DEF Store!CloseWrite, Store!Statuses
    <2>4. at' \in [Store!Actor -> Store!Op \cup {Store!None}]
      BY <1>5, <2>1, BecomesTyped DEF Store!CloseWrite
    <2> QED
      BY <1>5, <2>3, <2>4 DEF Store!CloseWrite, Store!TypeOK
  <1>6. ASSUME NEW t \in Tab, Store!BulkClose(t) PROVE Store!TypeOK'
    <2>1. PICK c \in at[t].todo :
            /\ Store!UpdateCaseMetadata(c, "Closed", Store!GetCaseRecord(c).notes)
            /\ Store!Becomes(t, [at[t] EXCEPT !.todo = @ \ {c}])
      BY <1>6 DEF Store!BulkClose
    <2>2. /\ t \in Store!Actor /\ at[t] # Store!None /\ at[t].op \in {"closeall", "clear"}
          /\ at[t] \in Store!Op /\ at[t].todo \subseteq Case /\ c \in Case
      BY <1>0, <1>6, <2>1, OpTyped DEF Store!BulkClose, Store!Bulk
    <2>3. Store!GetCaseRecord(c).notes \in SUBSET Note
      BY <2>2, GetRecordTyped DEF Store!Row
    <2>4. /\ cases' \in [Case -> Store!Row \cup {Store!None}]
          /\ order' \in Seq(Case) /\ Store!IsInjective(order')
          /\ Store!ToSet(order') = {d \in Case : cases'[d] # Store!None}
      BY <1>6, <2>1, <2>2, <2>3, MetadataOrder DEF Store!BulkClose, Store!Statuses
    <2>5. [at[t] EXCEPT !.todo = @ \ {c}] \in Store!Op
      BY <2>2 DEF Store!Op
    <2>6. at' \in [Store!Actor -> Store!Op \cup {Store!None}]
      BY <2>1, <2>2, <2>5, BecomesTyped
    <2> QED
      BY <1>6, <2>4, <2>6 DEF Store!BulkClose, Store!TypeOK
  <1>7. ASSUME NEW t \in Tab, Store!DeleteSingleCase(t) PROVE Store!TypeOK'
    <2>1. PICK c \in at[t].todo :
            /\ IF remote
               THEN UNCHANGED <<cases, order, inds, acked>>
               ELSE /\ cases' = [cases EXCEPT ![c] = Store!None]
                    /\ order' = Store!Without(c)
                    /\ inds' = [inds EXCEPT ![c] = 0]
                    /\ acked' = [acked EXCEPT ![c] = {}]
            /\ Store!Becomes(t, [at[t] EXCEPT !.todo = @ \ {c}])
      BY <1>7 DEF Store!DeleteSingleCase
    <2>2. /\ t \in Store!Actor /\ at[t] # Store!None /\ at[t].op = "demo"
          /\ at[t] \in Store!Op /\ at[t].todo \subseteq Case /\ c \in Case
      BY <1>0, <1>7, <2>1, OpTyped DEF Store!DeleteSingleCase, Store!Bulk
    <2>3. /\ cases' \in [Case -> Store!Row \cup {Store!None}]
          /\ order' \in Seq(Case) /\ Store!IsInjective(order')
          /\ Store!ToSet(order') = {d \in Case : cases'[d] # Store!None}
      BY <2>1, <2>2, OrderTyped
    <2>4. inds' \in [Case -> 0..MaxCopies] /\ acked' \in [Case -> SUBSET Note]
      <3>1. /\ 0 \in 0..MaxCopies /\ inds \in [Case -> 0..MaxCopies]
            /\ acked \in [Case -> SUBSET Note]
        BY DEF Store!TypeOK
      <3>2. /\ inds' = inds \/ inds' = [inds EXCEPT ![c] = 0]
            /\ acked' = acked \/ acked' = [acked EXCEPT ![c] = {}]
        BY <2>1
      <3> QED
        BY <2>2, <3>1, <3>2
    <2>5. [at[t] EXCEPT !.todo = @ \ {c}] \in Store!Op
      BY <2>2 DEF Store!Op
    <2>6. at' \in [Store!Actor -> Store!Op \cup {Store!None}]
      BY <2>1, <2>2, <2>5, BecomesTyped
    <2> QED
      BY <1>7, <2>3, <2>4, <2>6 DEF Store!DeleteSingleCase, Store!TypeOK
  <1>8. ASSUME NEW t \in Tab,
               Store!CloseAllOpenCases(t) \/ Store!ClearThreatActivity(t) \/ Store!CleanupDemoCases(t)
        PROVE  Store!TypeOK'
    <2> DEFINE listed == Store!Newest(KpiLimit)
    <2>1. /\ UNCHANGED <<remote, cases, order, inds, acked>>
          /\ \E todo \in SUBSET listed : \E o \in {"closeall", "clear", "demo"} :
               Store!Begins(t, [op |-> o, listed |-> listed, todo |-> todo])
      BY <1>8 DEF Store!CloseAllOpenCases, Store!ClearThreatActivity, Store!CleanupDemoCases
    <2>2. \A todo \in SUBSET listed : \A o \in {"closeall", "clear", "demo"} :
            [op |-> o, listed |-> listed, todo |-> todo] \in Store!Op
      BY <1>0 DEF Store!Op
    <2> QED
      BY <2>1, <2>2, BeginsTyped
  <1>9. ASSUME NEW t \in Tab, Store!BulkEnds(t) PROVE Store!TypeOK'
    BY <1>0, <1>9, BecomesTyped DEF Store!BulkEnds, Store!TypeOK
  <1>10. ASSUME NEW t \in Tab, NEW c \in Case, Store!Analyse(t, c) PROVE Store!TypeOK'
    <2>1. [op |-> "analyse", case |-> c, seen |-> Store!GetCaseRecord(c)] \in Store!Op
      BY GetRecordTyped DEF Store!Op
    <2> QED
      BY <1>10, <2>1, BeginsTyped DEF Store!Analyse
  <1>11. ASSUME NEW t \in Tab, NEW c \in Case, Store!CloseCase(t, c) PROVE Store!TypeOK'
    <2>1. cases[c] \in Store!Row
      BY <1>11 DEF Store!CloseCase, Store!Exists, Store!TypeOK
    <2>2. [op |-> "close", case |-> c, seen |-> cases[c]] \in Store!Op
      BY <2>1 DEF Store!Op
    <2> QED
      BY <1>11, <2>2, BeginsTyped DEF Store!CloseCase
  <1>12. ASSUME NEW t \in Tab, NEW c \in Case, NEW n \in Note,
                Store!AddAnalystNote(t, c, n)
                  \/ \E s \in Store!Lifecycle : Store!TransitionInvestigationStatus(t, c, s, n)
         PROVE  Store!TypeOK'
    <2>1. cases[c] \in Store!Row
      BY <1>12 DEF Store!AddAnalystNote, Store!TransitionInvestigationStatus, Store!Exists, Store!TypeOK
    <2>2. \A s \in Store!Statuses \cup {"same"} :
            [op |-> "write", case |-> c, seen |-> cases[c], status |-> s, note |-> n] \in Store!Op
      BY <2>1 DEF Store!Op
    <2>3. \A s \in Store!Lifecycle : Store!LifecycleToDb[s] \in Store!Statuses
      BY DEF Store!Lifecycle, Store!LifecycleToDb, Store!Statuses
    <2> QED
      BY <1>12, <2>2, <2>3, BeginsTyped DEF Store!AddAnalystNote, Store!TransitionInvestigationStatus
  <1>13. CASE UNCHANGED storeVars
    BY <1>13 DEF storeVars, Store!TypeOK
  <1>14. ASSUME NEW t \in Tab, Store!Operation(t) PROVE Store!TypeOK'
    BY <1>14, <1>3, <1>4, <1>5, <1>6, <1>7, <1>8, <1>9, <1>10, <1>11, <1>12 DEF Store!Operation
  <1> QED
    BY <1>1, <1>2, <1>13, <1>14 DEF Store!Next

-----------------------------------------------------------------------------
(* The invariant of the case store: what exists, what one tab alone keeps, and what a bulk *)
(* close has been through.                                                                *)

Busy(t) == at[t] # Store!None

\* A case that does not exist has no indicators and no note was acknowledged on it.
GoneInv == \A c \in Case : ~Store!Exists(c) => inds[c] = 0 /\ acked[c] = {}

\* The local store writes a case's indicators in the same transaction.
SingleInv == ~remote =>
    /\ \A c \in Case : inds[c] <= 1
    /\ \A a \in Store!Actor : Busy(a) => at[a].op # "indicators"

\* Until two tabs have raced, one tab at a time is at work.
AloneInv == ~remote /\ ~raced => \A t, u \in Tab : Busy(t) /\ Busy(u) => t = u

\* What was acknowledged is in the case, and in the copy a tab is about to write back.
NotesInv == ~remote /\ ~raced =>
    /\ \A c \in Case : Store!Exists(c) => acked[c] \subseteq cases[c].notes
    /\ \A t \in Tab : Busy(t) /\ at[t].op = "write" => acked[at[t].case] \subseteq at[t].seen.notes

\* What a bulk close has listed exists, and what it has been through has ended.
ListedInv == ~remote /\ ~raced =>
    \A t \in Tab : Busy(t) /\ at[t].op = "closeall" =>
      \A c \in at[t].listed : Store!Exists(c) /\ (c \notin at[t].todo => Store!Ended(c))

StoreInv == Store!TypeOK /\ GoneInv /\ SingleInv /\ AloneInv /\ NotesInv /\ ListedInv

LEMMA MetadataEffect ==
    ASSUME Store!TypeOK, NEW c \in Case, NEW status \in Store!Statuses \cup {"same"},
           NEW notes \in SUBSET Note, Store!UpdateCaseMetadata(c, status, notes)
    PROVE  /\ \A d \in Case : cases'[d] # Store!None <=> Store!Exists(d)
           /\ \A d \in Case \ {c} : cases'[d] = cases[d]
           /\ Store!Exists(c) =>
                /\ cases'[c].notes = notes
                /\ cases'[c].status = IF status = "same" THEN cases[c].status ELSE status
  <1>1. \/ ~Store!Exists(c) /\ cases' = cases
        \/ /\ Store!Exists(c)
           /\ \E s \in Store!Statuses :
                /\ s = IF status = "same" THEN cases[c].status ELSE status
                /\ [status |-> s, notes |-> notes] \in Store!Row
                /\ cases' = [cases EXCEPT ![c] = [status |-> s, notes |-> notes]]
    BY MetadataTyped
  <1>2. cases \in [Case -> Store!Row \cup {Store!None}]
    BY DEF Store!TypeOK
  <1>3. CASE ~Store!Exists(c)
    BY <1>1, <1>3
    DEF Store!Exists
  <1>4. ASSUME NEW s \in Store!Statuses, s = IF status = "same" THEN cases[c].status ELSE status,
               [status |-> s, notes |-> notes] \in Store!Row,
               cases' = [cases EXCEPT ![c] = [status |-> s, notes |-> notes]], Store!Exists(c)
        PROVE  /\ \A d \in Case : cases'[d] # Store!None <=> Store!Exists(d)
               /\ \A d \in Case \ {c} : cases'[d] = cases[d]
               /\ cases'[c].notes = notes
               /\ cases'[c].status = IF status = "same" THEN cases[c].status ELSE status
    <2>1. /\ cases'[c] = [status |-> s, notes |-> notes] /\ cases'[c] # Store!None
          /\ \A d \in Case \ {c} : cases'[d] = cases[d]
      BY <1>2, <1>4, StoreTags
    <2> QED
      BY <1>4, <2>1 DEF Store!Exists
  <1> QED
    BY <1>1, <1>3, <1>4

LEMMA UpsertEffect ==
    ASSUME Store!TypeOK, NEW a \in Store!Actor, NEW c \in Case, NEW given \in Store!Row,
           Store!Upsert(a, c, given)
    PROVE  /\ UNCHANGED <<remote, acked, raced>>
           /\ \A d \in Case : cases'[d] # Store!None <=> Store!Exists(d) \/ d = c
           /\ \A d \in Case \ {c} : cases'[d] = cases[d] /\ inds'[d] = inds[d]
           /\ \A b \in Store!Actor \ {a} : at'[b] = at[b]
           /\ ~remote => at'[a] = Store!None /\ inds'[c] = 1
           /\ ~remote /\ Store!Exists(c) =>
                /\ cases'[c].status = cases[c].status
                /\ cases'[c].notes = IF cases[c].notes = {} THEN given.notes ELSE cases[c].notes
  <1>1. cases \in [Case -> Store!Row \cup {Store!None}] /\ inds \in [Case -> 0..MaxCopies]
    BY DEF Store!TypeOK
  <1>2. Store!Saved(c, given) \in Store!Row
    BY SavedTyped
  <1>3. cases' = [cases EXCEPT ![c] = Store!Saved(c, given)]
    BY DEF Store!Upsert
  <1>4. \A d \in Case : cases'[d] # Store!None <=> Store!Exists(d) \/ d = c
    BY <1>1, <1>2, <1>3, StoreTags DEF Store!Exists
  <1>5. \A d \in Case \ {c} : cases'[d] = cases[d] /\ inds'[d] = inds[d]
    BY <1>1, <1>3 DEF Store!Upsert
  <1>6. /\ \A b \in Store!Actor \ {a} : at'[b] = at[b]
        /\ ~remote => at'[a] = Store!None
    <2>1. [op |-> "indicators", case |-> c] \in Store!Op
      BY DEF Store!Op
    <2> QED
      BY <2>1, BecomesTyped DEF Store!Upsert
  <1>7. ~remote => inds'[c] = 1
    BY <1>1 DEF Store!Upsert
  <1>8. ~remote /\ Store!Exists(c) =>
          /\ cases'[c].status = cases[c].status
          /\ cases'[c].notes = IF cases[c].notes = {} THEN given.notes ELSE cases[c].notes
    <2> SUFFICES ASSUME ~remote, Store!Exists(c)
                 PROVE  /\ cases'[c].status = cases[c].status
                        /\ cases'[c].notes = IF cases[c].notes = {} THEN given.notes
                                             ELSE cases[c].notes
      OBVIOUS
    <2>1. cases[c] \in Store!Row
      BY <1>1 DEF Store!Exists
    <2>2. Store!Saved(c, given) =
            [cases[c] EXCEPT !.notes = IF cases[c].notes = {} THEN given.notes ELSE cases[c].notes]
      BY <2>1 DEF Store!Saved, Store!Row
    <2>3. cases'[c] = Store!Saved(c, given)
      BY <1>1, <1>3
    <2> QED
      BY <2>1, <2>2, <2>3 DEF Store!Row
  <1> QED
    BY <1>4, <1>5, <1>6, <1>7, <1>8 DEF Store!Upsert

LEMMA UpsertStep ==
    ASSUME StoreInv, NEW a \in Store!Actor, NEW c \in Case, NEW given \in Store!Row,
           Store!Upsert(a, c, given)
    PROVE  StoreInv'
  <1>1. Store!TypeOK /\ Store!TypeOK'
    BY UpsertTyped DEF StoreInv
  <1>2. /\ UNCHANGED <<remote, acked, raced>>
        /\ \A d \in Case : cases'[d] # Store!None <=> Store!Exists(d) \/ d = c
        /\ \A d \in Case \ {c} : cases'[d] = cases[d] /\ inds'[d] = inds[d]
        /\ \A b \in Store!Actor \ {a} : at'[b] = at[b]
        /\ ~remote => at'[a] = Store!None /\ inds'[c] = 1
        /\ ~remote /\ Store!Exists(c) =>
             /\ cases'[c].status = cases[c].status
             /\ cases'[c].notes = IF cases[c].notes = {} THEN given.notes ELSE cases[c].notes
    BY <1>1, UpsertEffect
  <1>3. Tab \subseteq Store!Actor
    BY DEF Store!Actor
  <1> USE DEF Busy
  <1>4. GoneInv'
    BY <1>2 DEF StoreInv, GoneInv, Store!Exists
  <1>5. SingleInv'
    <2> SUFFICES ASSUME ~remote PROVE SingleInv'
      BY <1>2 DEF SingleInv
    <2>1. \A d \in Case : inds'[d] <= 1
      BY <1>2 DEF StoreInv, SingleInv
    <2> QED
      BY <1>2, <2>1 DEF StoreInv, SingleInv
  <1>6. AloneInv'
    BY <1>2, <1>3 DEF StoreInv, AloneInv
  <1>7. NotesInv'
    <2> SUFFICES ASSUME ~remote, ~raced PROVE NotesInv'
      BY <1>2 DEF NotesInv
    <2>1. ASSUME NEW d \in Case, cases'[d] # Store!None PROVE acked[d] \subseteq cases'[d].notes
      BY <1>2, <2>1 DEF StoreInv, GoneInv, NotesInv, Store!Exists
    <2>2. ASSUME NEW t \in Tab, at'[t] # Store!None PROVE at'[t] = at[t]
      BY <1>2, <1>3, <2>2
    <2> QED
      BY <1>2, <1>3, <2>1, <2>2 DEF StoreInv, NotesInv, Store!Exists
  <1>8. ListedInv'
    <2> SUFFICES ASSUME ~remote, ~raced PROVE ListedInv'
      BY <1>2 DEF ListedInv
    <2>1. ASSUME NEW d \in Case, Store!Exists(d)
          PROVE  cases'[d] # Store!None /\ cases'[d].status = cases[d].status
      BY <1>2, <2>1
    <2>2. ASSUME NEW t \in Tab, at'[t] # Store!None PROVE at'[t] = at[t]
      BY <1>2, <1>3, <2>2
    <2>3. \A t \in Tab : Busy(t) /\ at[t].op = "closeall" => at[t].listed \subseteq Case
      BY <1>1, <1>3, OpTyped
    <2> QED
      BY <1>2, <1>3, <2>1, <2>2, <2>3 DEF StoreInv, ListedInv, Store!Exists, Store!Ended
  <1> QED
    BY <1>1, <1>4, <1>5, <1>6, <1>7, <1>8 DEF StoreInv

\* A step that writes a case's status and notes, of a tab alone at work.
LEMMA BeginStep ==
    ASSUME StoreInv, NEW t \in Tab, NEW op \in Store!Op, Store!Begins(t, op),
           UNCHANGED <<remote, cases, order, inds, acked>>,
           op.op # "indicators",
           op.op = "write" => op.case \in Case /\ Store!Exists(op.case) /\ op.seen = cases[op.case],
           op.op = "closeall" =>
             \A c \in op.listed : c \in Case /\ Store!Exists(c) /\ (c \notin op.todo => Store!Ended(c))
    PROVE  StoreInv'
  <1>1. Store!TypeOK /\ Store!TypeOK'
    BY BeginsTyped DEF StoreInv
  <1>2. /\ Tab \subseteq Store!Actor
        /\ at'[t] = op /\ \A b \in Store!Actor : b # t => at'[b] = at[b]
        /\ raced' = (raced \/ \E u \in Tab \ {t} : at[u] # Store!None)
    BY <1>1, BecomesTyped DEF Store!Begins, Store!Actor
  <1>3. /\ raced \in BOOLEAN
        /\ ~raced' => ~raced /\ \A u \in Tab \ {t} : at[u] = Store!None
    BY <1>1, <1>2 DEF Store!TypeOK
  <1> USE DEF Busy, Store!Exists
  <1>4. GoneInv'
    BY DEF StoreInv, GoneInv
  <1>5. SingleInv'
    BY <1>2 DEF StoreInv, SingleInv
  <1>6. AloneInv'
    BY <1>2, <1>3 DEF StoreInv, AloneInv
  <1>7. NotesInv'
    <2> SUFFICES ASSUME ~remote, ~raced' PROVE NotesInv'
      BY DEF NotesInv
    <2>1. ASSUME NEW u \in Tab, at'[u] # Store!None PROVE u = t /\ at'[u] = op
      BY <1>2, <1>3, <2>1
    <2> QED
      BY <1>3, <2>1 DEF StoreInv, NotesInv
  <1>8. ListedInv'
    <2> SUFFICES ASSUME ~remote, ~raced' PROVE ListedInv'
      BY DEF ListedInv
    <2>1. ASSUME NEW u \in Tab, at'[u] # Store!None PROVE u = t /\ at'[u] = op
      BY <1>2, <1>3, <2>1
    <2> QED
      BY <1>3, <2>1 DEF ListedInv, Store!Ended
  <1> QED
    BY <1>1, <1>4, <1>5, <1>6, <1>7, <1>8 DEF StoreInv

\* A step in which a tab, alone, keeps the cases and the notes and goes on with less to do.
LEMMA OwnStep ==
    ASSUME StoreInv, Store!TypeOK', NEW t \in Tab, Busy(t), UNCHANGED <<remote, inds, raced>>,
           \A u \in Store!Actor : u # t => at'[u] = at[u],
           \A d \in Case : cases'[d] # Store!None <=> Store!Exists(d),
           \A d \in Case : ~Store!Exists(d) => acked'[d] = acked[d],
           ~remote /\ ~raced => \A d \in Case : Store!Exists(d) => acked'[d] \subseteq cases'[d].notes,
           at'[t] # Store!None =>
             /\ at'[t].op \in {"closeall", "clear", "demo"}
             /\ at'[t].op = "closeall" => at[t].op = "closeall" /\ at'[t].listed = at[t].listed,
           ~remote /\ ~raced /\ at'[t] # Store!None /\ at'[t].op = "closeall" =>
             \A d \in at'[t].listed : d \notin at'[t].todo => cases'[d].status \in {"Closed", "Resolved"}
    PROVE  StoreInv'
  <1>1. t \in Store!Actor /\ Tab \subseteq Store!Actor
    BY DEF Store!Actor
  <1> USE DEF Busy, Store!Exists
  <1>2. GoneInv'
    BY DEF StoreInv, GoneInv
  <1>3. SingleInv'
    BY <1>1 DEF StoreInv, SingleInv
  <1>4. AloneInv'
    BY <1>1 DEF StoreInv, AloneInv
  <1>5. ASSUME ~remote, ~raced, NEW u \in Tab, at'[u] # Store!None PROVE u = t
    BY <1>1, <1>5 DEF StoreInv, AloneInv
  <1>6. NotesInv'
    BY <1>5 DEF NotesInv
  <1>7. ListedInv'
    <2> SUFFICES ASSUME ~remote, ~raced, at'[t] # Store!None, at'[t].op = "closeall",
                        NEW c \in at'[t].listed
                 PROVE  cases'[c] # Store!None
                          /\ (c \notin at'[t].todo => cases'[c].status \in {"Closed", "Resolved"})
      BY <1>5 DEF ListedInv, Store!Ended
    <2>1. at[t].op = "closeall" /\ c \in at[t].listed /\ at[t].listed \subseteq Case
      BY <1>1, OpTyped DEF StoreInv
    <2>2. Store!Exists(c)
      BY <2>1 DEF StoreInv, ListedInv
    <2> QED
      BY <2>1, <2>2
  <1> QED
    BY <1>2, <1>3, <1>4, <1>6, <1>7 DEF StoreInv

LEMMA StoreStep ==
    ASSUME StoreInv, [Store!Next]_storeVars
    PROVE  StoreInv'
  <1>0. /\ Store!TypeOK /\ Store!TypeOK' /\ Tab \subseteq Store!Actor /\ Worker \in Store!Actor
        /\ Store!Newest(KpiLimit) \subseteq {c \in Case : Store!Exists(c)}
    BY StoreTypeStep, NewestExist DEF Store!Actor, StoreInv
  <1>1. ASSUME NEW c \in Case, Store!WorkerSave(c) PROVE StoreInv'
    BY <1>0, <1>1, StoreTags, UpsertStep DEF Store!WorkerSave
  <1>2. ASSUME NEW a \in Store!Actor, Store!InsertIndicators(a) PROVE StoreInv'
    <2>1. /\ at[a].case \in Case /\ Busy(a) /\ at[a].op = "indicators" /\ remote
          /\ UNCHANGED <<remote, cases, acked>>
      BY <1>0, <1>2, OpTyped DEF Store!InsertIndicators, StoreInv, SingleInv, Busy
    <2>2. \A c \in Case : inds'[c] = inds[c] \/ Store!Exists(c)
      BY <1>0, <1>2, <2>1 DEF Store!InsertIndicators, Store!TypeOK
    <2> QED
      BY <1>0, <2>1, <2>2
      DEF StoreInv, GoneInv, SingleInv, AloneInv, NotesInv, ListedInv, Store!Exists
  <1>3. ASSUME NEW t \in Tab, Store!AnalyseSave(t) PROVE StoreInv'
    BY <1>0, <1>3, OpTyped, UpsertStep DEF Store!AnalyseSave
  <1>4. ASSUME NEW t \in Tab, Store!WriteBack(t) PROVE StoreInv'
    <2> DEFINE c == at[t].case  notes == at[t].seen.notes \cup {at[t].note}
    <2>1. /\ t \in Store!Actor /\ Busy(t) /\ c \in Case /\ at[t].seen \in Store!Row
          /\ at[t].status \in Store!Statuses \cup {"same"} /\ at[t].note \in Note
          /\ at[t].op = "write"
      BY <1>0, <1>4, OpTyped DEF Store!WriteBack, Busy
    <2>2. notes \in SUBSET Note
      BY <2>1 DEF Store!Row
    <2>3. /\ Store!UpdateCaseMetadata(c, at[t].status, notes)
          /\ acked' = IF Store!Exists(c) THEN [acked EXCEPT ![c] = @ \cup {at[t].note}] ELSE acked
          /\ Store!Becomes(t, Store!None) /\ UNCHANGED <<remote, inds, raced>>
      BY <1>4 DEF Store!WriteBack
    <2>4. acked \in [Case -> SUBSET Note]
      BY <1>0 DEF Store!TypeOK
    <2>5. at'[t] = Store!None /\ \A u \in Store!Actor : u # t => at'[u] = at[u]
      BY <1>0, <2>1, <2>3, BecomesTyped
    <2>6. /\ \A d \in Case : cases'[d] # Store!None <=> Store!Exists(d)
          /\ \A d \in Case \ {c} : cases'[d] = cases[d]
          /\ Store!Exists(c) => cases'[c].notes = notes
      BY <1>0, <2>1, <2>2, <2>3, MetadataEffect
    <2>7. ASSUME ~remote, ~raced, NEW d \in Case, Store!Exists(d) PROVE acked'[d] \subseteq cases'[d].notes
      <3>1. CASE d = c
        BY <2>1, <2>3, <2>4, <2>6, <2>7, <3>1 DEF StoreInv, NotesInv
      <3>2. CASE d # c
        BY <2>1, <2>3, <2>4, <2>6, <2>7, <3>2 DEF StoreInv, NotesInv
      <3> QED
        BY <3>1, <3>2
    <2>8. \A d \in Case : ~Store!Exists(d) => acked'[d] = acked[d]
      BY <2>1, <2>3, <2>4
    <2> HIDE DEF c, notes
    <2> QED
      BY <1>0, <2>1, <2>3, <2>5, <2>6, <2>7, <2>8, OwnStep
  <1>5. ASSUME NEW t \in Tab, Store!CloseWrite(t) PROVE StoreInv'
    <2> DEFINE c == at[t].case  notes == Store!GetCaseRecord(c).notes
    <2>1. t \in Store!Actor /\ Busy(t) /\ c \in Case
      BY <1>0, <1>5, OpTyped DEF Store!CloseWrite, Busy
    <2>2. notes \in SUBSET Note
      BY <1>0, <2>1, GetRecordTyped DEF Store!Row
    <2>3. /\ Store!UpdateCaseMetadata(c, "Closed", notes)
          /\ Store!Becomes(t, Store!None) /\ UNCHANGED <<remote, inds, acked, raced>>
      BY <1>5 DEF Store!CloseWrite
    <2>4. at'[t] = Store!None /\ \A u \in Store!Actor : u # t => at'[u] = at[u]
      BY <1>0, <2>1, <2>3, BecomesTyped
    <2>5. /\ \A d \in Case : cases'[d] # Store!None <=> Store!Exists(d)
          /\ \A d \in Case \ {c} : cases'[d] = cases[d]
          /\ Store!Exists(c) => cases'[c].notes = notes
      BY ZenonT(40), <1>0, <2>1, <2>2, <2>3, MetadataEffect DEF Store!Statuses
    <2>6. ASSUME ~remote, ~raced, NEW d \in Case, Store!Exists(d) PROVE acked'[d] \subseteq cases'[d].notes
      BY <2>3, <2>5, <2>6 DEF StoreInv, NotesInv, Store!GetCaseRecord
    <2> HIDE DEF c, notes
    <2> QED
      BY <1>0, <2>1, <2>3, <2>4, <2>5, <2>6, OwnStep
  <1>6. ASSUME NEW t \in Tab, Store!BulkClose(t) PROVE StoreInv'
    <2>1. PICK c \in at[t].todo :
            /\ Store!UpdateCaseMetadata(c, "Closed", Store!GetCaseRecord(c).notes)
            /\ Store!Becomes(t, [at[t] EXCEPT !.todo = @ \ {c}])
      BY <1>6 DEF Store!BulkClose
    <2> DEFINE notes == Store!GetCaseRecord(c).notes  op == [at[t] EXCEPT !.todo = @ \ {c}]
    <2>2. /\ t \in Store!Actor /\ Busy(t) /\ at[t].op \in {"closeall", "clear"}
          /\ at[t] \in Store!Op /\ at[t].todo \subseteq Case /\ at[t].listed \subseteq Case /\ c \in Case
          /\ UNCHANGED <<remote, inds, acked, raced>>
      BY <1>0, <1>6, <2>1, OpTyped DEF Store!BulkClose, Store!Bulk, Busy
    <2>3. notes \in SUBSET Note
      BY <1>0, <2>2, GetRecordTyped DEF Store!Row
    <2>4. op \in Store!Op /\ op.op = at[t].op /\ op.listed = at[t].listed /\ op.todo = at[t].todo \ {c}
      BY <2>2 DEF Store!Op
    <2> HIDE DEF op
    <2>5. at'[t] = op /\ \A u \in Store!Actor : u # t => at'[u] = at[u]
      BY <1>0, <2>1, <2>2, <2>4, BecomesTyped DEF op
    <2>6. /\ \A d \in Case : cases'[d] # Store!None <=> Store!Exists(d)
          /\ \A d \in Case \ {c} : cases'[d] = cases[d]
          /\ Store!Exists(c) => cases'[c].notes = notes /\ cases'[c].status = "Closed"
      BY <1>0, <2>1, <2>2, <2>3, MetadataEffect DEF Store!Statuses
    <2>7. ASSUME ~remote, ~raced, NEW d \in Case, Store!Exists(d) PROVE acked'[d] \subseteq cases'[d].notes
      BY <2>2, <2>6, <2>7 DEF StoreInv, NotesInv, Store!GetCaseRecord
    <2>8. ASSUME ~remote, ~raced, op.op = "closeall", NEW d \in op.listed, d \notin op.todo
          PROVE  cases'[d].status \in {"Closed", "Resolved"}
      <3>1. d \in Case /\ Store!Exists(d) /\ (d \notin at[t].todo => Store!Ended(d))
        BY <2>2, <2>4, <2>8 DEF StoreInv, ListedInv
      <3> QED
        BY <2>4, <2>6, <2>8, <3>1 DEF Store!Ended
    <2> HIDE DEF notes
    <2> QED
      BY <1>0, <2>2, <2>4, <2>5, <2>6, <2>7, <2>8, OwnStep
  <1>7. ASSUME NEW t \in Tab, Store!DeleteSingleCase(t) PROVE StoreInv'
    <2>1. PICK c \in at[t].todo :
            /\ IF remote
               THEN UNCHANGED <<cases, order, inds, acked>>
               ELSE /\ cases' = [cases EXCEPT ![c] = Store!None]
                    /\ order' = Store!Without(c)
                    /\ inds' = [inds EXCEPT ![c] = 0]
                    /\ acked' = [acked EXCEPT ![c] = {}]
            /\ Store!Becomes(t, [at[t] EXCEPT !.todo = @ \ {c}])
      BY <1>7 DEF Store!DeleteSingleCase
    <2> DEFINE op == [at[t] EXCEPT !.todo = @ \ {c}]
    <2>2. /\ t \in Store!Actor /\ Busy(t) /\ at[t].op = "demo"
          /\ at[t] \in Store!Op /\ at[t].todo \subseteq Case /\ c \in Case
          /\ UNCHANGED <<remote, raced>>
      BY <1>0, <1>7, <2>1, OpTyped DEF Store!DeleteSingleCase, Store!Bulk, Busy
    <2>3. op \in Store!Op /\ op.op = "demo" /\ op # Store!None
      BY <2>2, StoreTags DEF Store!Op
    <2> HIDE DEF op
    <2>4. at'[t] = op /\ \A u \in Store!Actor : u # t => at'[u] = at[u]
      BY <1>0, <2>1, <2>2, <2>3, BecomesTyped DEF op
    <2>5. /\ \A d \in Case : d # c => cases'[d] = cases[d] /\ inds'[d] = inds[d] /\ acked'[d] = acked[d]
          /\ remote => UNCHANGED <<cases, inds, acked>>
          /\ ~remote => cases'[c] = Store!None /\ inds'[c] = 0 /\ acked'[c] = {}
      BY <1>0, <2>1, <2>2 DEF Store!TypeOK
    <2> USE DEF Busy, Store!Exists
    <2>6. GoneInv'
      BY <2>5 DEF StoreInv, GoneInv
    <2>7. SingleInv'
      <3> SUFFICES ASSUME ~remote PROVE SingleInv'
        BY <2>2 DEF SingleInv
      <3>1. \A d \in Case : inds'[d] <= 1
        BY <2>5 DEF StoreInv, SingleInv
      <3> QED
        BY <2>3, <2>4, <3>1 DEF StoreInv, SingleInv
    <2>8. AloneInv'
      BY <1>0, <2>2, <2>4 DEF StoreInv, AloneInv
    <2>9. ASSUME ~remote, ~raced, NEW u \in Tab, at'[u] # Store!None PROVE u = t
      BY <1>0, <2>2, <2>4, <2>9 DEF StoreInv, AloneInv
    <2>10. NotesInv'
      <3> SUFFICES ASSUME ~remote, ~raced PROVE NotesInv'
        BY <2>2 DEF NotesInv
      <3>1. \A d \in Case : cases'[d] # Store!None => acked'[d] \subseteq cases'[d].notes
        BY <2>5 DEF StoreInv, NotesInv
      <3> QED
        BY <2>3, <2>4, <2>9, <3>1 DEF NotesInv
    <2>11. ListedInv'
      BY <2>2, <2>3, <2>4, <2>9 DEF ListedInv
    <2> QED
      BY <1>0, <2>6, <2>7, <2>8, <2>10, <2>11 DEF StoreInv
  <1>8. ASSUME NEW t \in Tab,
               Store!CloseAllOpenCases(t) \/ Store!ClearThreatActivity(t) \/ Store!CleanupDemoCases(t)
        PROVE  StoreInv'
    <2> DEFINE listed == Store!Newest(KpiLimit)
    <2>1. UNCHANGED <<remote, cases, order, inds, acked>>
      BY <1>8 DEF Store!CloseAllOpenCases, Store!ClearThreatActivity, Store!CleanupDemoCases
    <2>2. ASSUME NEW todo \in SUBSET listed, NEW o \in {"closeall", "clear", "demo"},
                 Store!Begins(t, [op |-> o, listed |-> listed, todo |-> todo]),
                 o = "closeall" => \A c \in listed : c \notin todo => Store!Ended(c)
          PROVE  StoreInv'
      <3>1. [op |-> o, listed |-> listed, todo |-> todo] \in Store!Op
        BY <1>0 DEF Store!Op
      <3> DEFINE op == [op |-> o, listed |-> listed, todo |-> todo]
      <3>2. op.op = o /\ op.listed = listed /\ op.todo = todo
        OBVIOUS
      <3> HIDE DEF op
      <3>3. Store!Begins(t, op) /\ op \in Store!Op
        BY <2>2, <3>1 DEF op
      <3> QED
        BY <1>0, <2>1, <2>2, <3>2, <3>3, BeginStep
    <2>3. CASE Store!CloseAllOpenCases(t)
      BY <2>2, <2>3 DEF Store!CloseAllOpenCases
    <2>4. CASE Store!ClearThreatActivity(t)
      BY <2>2, <2>4 DEF Store!ClearThreatActivity
    <2>5. CASE Store!CleanupDemoCases(t)
      BY <2>2, <2>5 DEF Store!CleanupDemoCases
    <2> QED
      BY <1>8, <2>3, <2>4, <2>5
  <1>9. ASSUME NEW t \in Tab, Store!BulkEnds(t) PROVE StoreInv'
    <2>1. at'[t] = Store!None /\ (\A u \in Store!Actor : u # t => at'[u] = at[u]) /\ Busy(t)
          /\ UNCHANGED <<remote, cases, order, inds, acked, raced>>
      BY <1>0, <1>9, BecomesTyped DEF Store!BulkEnds, Store!Bulk, Busy
    <2>2. \A d \in Case : cases'[d] # Store!None <=> Store!Exists(d)
      BY <2>1 DEF Store!Exists
    <2>3. ~remote /\ ~raced => \A d \in Case : Store!Exists(d) => acked'[d] \subseteq cases'[d].notes
      BY <2>1 DEF StoreInv, NotesInv
    <2> QED
      BY <1>0, <2>1, <2>2, <2>3, OwnStep
  <1>10. ASSUME NEW t \in Tab, NEW c \in Case, Store!Analyse(t, c) PROVE StoreInv'
    <2> DEFINE op == [op |-> "analyse", case |-> c, seen |-> Store!GetCaseRecord(c)]
    <2>1. op \in Store!Op /\ op.op = "analyse"
      BY <1>0, GetRecordTyped DEF Store!Op
    <2>2. Store!Begins(t, op) /\ UNCHANGED <<remote, cases, order, inds, acked>>
      BY <1>10 DEF Store!Analyse
    <2> HIDE DEF op
    <2> QED
      BY <2>1, <2>2, BeginStep
  <1>11. ASSUME NEW t \in Tab, NEW c \in Case, Store!CloseCase(t, c) PROVE StoreInv'
    <2> DEFINE op == [op |-> "close", case |-> c, seen |-> cases[c]]
    <2>1. cases[c] \in Store!Row
      BY <1>0, <1>11 DEF Store!CloseCase, Store!Exists, Store!TypeOK
    <2>2. op \in Store!Op /\ op.op = "close"
      BY <2>1 DEF Store!Op
    <2>3. Store!Begins(t, op) /\ UNCHANGED <<remote, cases, order, inds, acked>>
      BY <1>11 DEF Store!CloseCase
    <2> HIDE DEF op
    <2> QED
      BY <2>2, <2>3, BeginStep
  <1>12. ASSUME NEW t \in Tab, NEW c \in Case, NEW n \in Note, NEW s \in Store!Statuses \cup {"same"},
                Store!Exists(c),
                Store!Begins(t, [op |-> "write", case |-> c, seen |-> cases[c], status |-> s, note |-> n]),
                UNCHANGED <<remote, cases, order, inds, acked>>
         PROVE  StoreInv'
    <2> DEFINE op == [op |-> "write", case |-> c, seen |-> cases[c], status |-> s, note |-> n]
    <2>1. cases[c] \in Store!Row
      BY <1>0, <1>12 DEF Store!Exists, Store!TypeOK
    <2>2. op \in Store!Op /\ op.op = "write" /\ op.case = c /\ op.seen = cases[c]
      BY <2>1 DEF Store!Op
    <2> HIDE DEF op
    <2>3. Store!Begins(t, op)
      BY <1>12 DEF op
    <2> QED
      BY <1>12, <2>2, <2>3, BeginStep
  <1>13. ASSUME NEW t \in Tab, NEW c \in Case, NEW n \in Note, Store!AddAnalystNote(t, c, n)
         PROVE  StoreInv'
    BY <1>12, <1>13 DEF Store!AddAnalystNote
  <1>14. ASSUME NEW t \in Tab, NEW c \in Case, NEW n \in Note, NEW s \in Store!Lifecycle,
                Store!TransitionInvestigationStatus(t, c, s, n)
         PROVE  StoreInv'
    <2>1. Store!LifecycleToDb[s] \in Store!Statuses
      BY DEF Store!Lifecycle, Store!LifecycleToDb, Store!Statuses
    <2> QED
      BY <1>12, <1>14, <2>1 DEF Store!TransitionInvestigationStatus
  <1>15. CASE UNCHANGED storeVars
    BY <1>0, <1>15
    DEF storeVars, StoreInv, GoneInv, SingleInv, AloneInv, NotesInv, ListedInv, Busy, Store!Exists,
        Store!Ended
  <1>16. ASSUME NEW t \in Tab, Store!Operation(t) PROVE StoreInv'
    BY <1>16, <1>3, <1>4, <1>5, <1>6, <1>7, <1>8, <1>9, <1>10, <1>11, <1>13, <1>14 DEF Store!Operation
  <1> QED
    BY <1>1, <1>2, <1>15, <1>16 DEF Store!Next

LEMMA StoreInvariant == Spec => []StoreInv
  <1>1. Init => StoreInv
    <2> SUFFICES ASSUME Init PROVE StoreInv
      OBVIOUS
    <2> USE DEF Init, Store!Init
    <2>1. Store!TypeOK
      <3>1. <<>> \in Seq(Case) /\ DOMAIN <<>> = {}
        OBVIOUS
      <3>2. Store!IsInjective(<<>>) /\ Store!ToSet(<<>>) = {}
        BY <3>1 DEF Store!IsInjective, Store!ToSet
      <3>3. /\ cases \in [Case -> Store!Row \cup {Store!None}]
            /\ {c \in Case : cases[c] # Store!None} = {}
            /\ acked \in [Case -> SUBSET Note] /\ at \in [Store!Actor -> Store!Op \cup {Store!None}]
        OBVIOUS
      <3>4. inds \in [Case -> 0..MaxCopies]
        OBVIOUS
      <3> QED
        BY <3>1, <3>2, <3>3, <3>4 DEF Store!TypeOK
    <2>2. GoneInv /\ SingleInv /\ AloneInv /\ NotesInv /\ ListedInv
      BY DEF GoneInv, SingleInv, AloneInv, NotesInv, ListedInv, Store!Exists, Busy, Store!Actor
    <2> QED
      BY <2>1, <2>2 DEF StoreInv
  <1>2. StoreInv /\ [Next]_vars => StoreInv'
    BY StoreStep DEF Next, vars
  <1> QED
    BY <1>1, <1>2, PTL DEF Spec

\* With the local store a note an analyst was told of stays on its case whatever is saved,
\* analysed again, closed or moved, as long as no two tabs have worked at once
\* (_save_case_sqlite, add_analyst_note, transition_investigation_status).
THEOREM StoredNotesKept == Spec => []NotesKept
  <1>1. StoreInv => NotesKept
    BY DEF StoreInv, NotesInv, NotesKept, Store!NotesKept
  <1> QED
    BY <1>1, StoreInvariant, PTL

\* Indicators exist for existing cases only, and once at most on the local store, wherever a
\* deletion or another save falls between a save's two steps (save_case, _delete_single_case).
THEOREM IndicatorsFollowCases == Spec => []IndicatorsFollow
  <1>1. StoreInv => IndicatorsFollow
    <2> SUFFICES ASSUME StoreInv, NEW c \in Case
                 PROVE  (inds[c] > 0 => Store!Exists(c)) /\ (~remote => inds[c] <= 1)
      BY DEF IndicatorsFollow, Store!IndicatorsFollow
    <2>1. inds[c] \in 0..MaxCopies
      BY DEF StoreInv, Store!TypeOK
    <2> QED
      BY <2>1 DEF StoreInv, GoneInv, SingleInv
  <1> QED
    BY <1>1, StoreInvariant, PTL

\* When close_all_open_cases ends on the local store, every case it listed has ended, although
\* the worker saved cases of that list, and others, while it ran.
THEOREM CloseAllCoversListed == Spec => CloseAllCovers
  <1>1. StoreInv =>
          \A t \in Tab : Store!BulkEnds(t) /\ at[t].op = "closeall" /\ ~raced /\ ~remote =>
            \A c \in at[t].listed : Store!Exists(c) => Store!Ended(c)
    BY DEF StoreInv, ListedInv, Store!BulkEnds, Store!Bulk, Busy
  <1> QED
    BY <1>1, StoreInvariant, PTL DEF CloseAllCovers, Store!CloseAllCovers

-----------------------------------------------------------------------------
(* The dashboard's figures. *)

\* A set of numbers up to n that is not empty has a largest member.
LEMMA LargestExists ==
    ASSUME NEW n \in Nat, NEW S, S \subseteq 0..n, S # {}
    PROVE  \E k \in S : \A m \in S : m <= k
  <1> DEFINE Covers == {X \in FiniteSubsetsOf(Nat) : S \subseteq X /\ \E k \in Nat : X = 0..k}
  <1>1. 0..n \in Covers
    <2>1. IsFiniteSet(0..n)
      BY FS_Interval
    <2> QED
      BY <2>1 DEF FiniteSubsetsOf
  <1>2. PICK X \in Covers : \A Y \in Covers : ~(<<Y, X>> \in StrictSubsetOrdering(Nat))
    <2>1. Covers \subseteq FiniteSubsetsOf(Nat) /\ Covers # {}
      BY <1>1
    <2>2. IsWellFoundedOn(StrictSubsetOrdering(Nat), FiniteSubsetsOf(Nat))
      BY FS_StrictSubsetOrderingWellFounded
    <2> HIDE DEF Covers
    <2> QED
      BY <2>1, <2>2, WFMin
  <1>3. PICK k \in Nat : X = 0..k /\ S \subseteq X
    OBVIOUS
  <1>4. k \in S
    <2> SUFFICES ASSUME k \notin S PROVE FALSE
      OBVIOUS
    <2>1. k # 0
      <3> SUFFICES ASSUME k = 0 PROVE FALSE
        OBVIOUS
      <3>1. PICK y \in S : TRUE
        OBVIOUS
      <3>2. y = 0
        BY <1>3, <3>1
      <3> QED
        BY <3>1, <3>2
    <2>2. S \subseteq 0..(k - 1)
      BY <1>3
    <2>3. IsFiniteSet(0..(k - 1))
      BY FS_Interval
    <2>4. 0..(k - 1) \in Covers
      BY <2>1, <2>2, <2>3 DEF FiniteSubsetsOf
    <2>5. <<0..(k - 1), X>> \in StrictSubsetOrdering(Nat)
      <3>1. k \in X /\ k \notin 0..(k - 1)
        BY <1>3
      <3>2. 0..(k - 1) \subseteq X /\ X \subseteq Nat
        BY <1>3
      <3> QED
        BY <3>1, <3>2 DEF StrictSubsetOrdering
    <2> QED
      BY <1>2, <2>4, <2>5
  <1> QED
    BY <1>3, <1>4

\* A set of numbers up to n that is not empty has a smallest member.
LEMMA SmallestExists ==
    ASSUME NEW n \in Nat, NEW S, S \subseteq 0..n, S # {}
    PROVE  \E k \in S : \A m \in S : k <= m
  <1> DEFINE T == {m \in 0..n : n - m \in S}
  <1>1. T \subseteq 0..n
    OBVIOUS
  <1>2. T # {}
    <2>1. PICK m \in S : TRUE
      OBVIOUS
    <2>2. n - m \in 0..n /\ n - (n - m) = m
      BY <2>1
    <2> QED
      BY <2>1, <2>2
  <1>3. PICK t \in T : \A m \in T : m <= t
    BY <1>1, <1>2, LargestExists
  <1>4. ASSUME NEW m \in S PROVE n - t <= m
    <2>1. m \in 0..n /\ t \in 0..n
      BY <1>4, <1>3
    <2>2. n - m \in T
      BY <1>4, <2>1
    <2>3. n - m <= t
      BY <1>3, <2>2
    <2> QED
      BY <2>1, <2>3
  <1> QED
    BY <1>3, <1>4


\* Of a finite set in order, the members with fewer than n before them are n.
LEMMA FirstOnes ==
    ASSUME NEW S, IsFiniteSet(S), NEW m \in Nat, NEW place \in [S -> 0..m],
           \A x, y \in S : place[x] = place[y] => x = y,
           NEW n \in Nat, n <= Cardinality(S)
    PROVE  Cardinality({x \in S : Cardinality({y \in S : place[y] < place[x]}) < n}) = n
  <1> DEFINE Before(x) == {y \in S : place[y] < place[x]}
             F == {x \in S : Cardinality(Before(x)) < n}
  <1>1. \A x \in S : IsFiniteSet(Before(x)) /\ Cardinality(Before(x)) \in Nat
    BY FS_Subset, FS_CardinalityType
  <1>2. IsFiniteSet(F) /\ Cardinality(F) \in Nat
    BY FS_Subset, FS_CardinalityType
  <1>6. /\ F \subseteq S /\ \A x \in S : x \in F <=> Cardinality(Before(x)) < n
        /\ \A x, y \in S : y \in Before(x) <=> place[y] < place[x]
        /\ \A x \in S : Before(x) \subseteq S
    OBVIOUS
  <1>7. F = {x \in S : Cardinality({y \in S : place[y] < place[x]}) < n}
    OBVIOUS
  <1> HIDE DEF F, Before
  <1>3. Cardinality(F) <= n
    <2>1. CASE F = {}
      <3>1. Cardinality(F) = 0
        BY <2>1, FS_EmptySet
      <3> QED
        BY <3>1
    <2>2. CASE F # {}
      <3> DEFINE P == {place[x] : x \in F}
      <3>1. P \subseteq 0..m /\ P # {}
        BY <1>6, <2>2
      <3>2. PICK k \in P : \A p \in P : p <= k
        BY <3>1, LargestExists
      <3>3. PICK x \in F : place[x] = k
        BY <3>2
      <3>4. x \in S /\ Cardinality(Before(x)) < n
        BY <1>6, <3>3
      <3>5. ASSUME NEW y \in F, y # x PROVE y \in Before(x)
        <4>1. y \in S /\ place[y] \in 0..m /\ place[x] \in 0..m /\ place[y] <= place[x]
          BY <1>6, <3>2, <3>3, <3>5
        <4>2. place[y] # place[x]
          BY <3>4, <3>5, <4>1
        <4>3. place[y] < place[x]
          BY <4>1, <4>2
        <4> QED
          BY <1>6, <3>4, <4>1, <4>3
      <3>6. F \subseteq Before(x) \cup {x}
        BY <3>5
      <3>7. /\ IsFiniteSet(Before(x) \cup {x})
            /\ Cardinality(Before(x) \cup {x}) =
                 IF x \in Before(x) THEN Cardinality(Before(x)) ELSE Cardinality(Before(x)) + 1
        BY <1>1, <3>4, FS_AddElement
      <3>8. Cardinality(F) <= Cardinality(Before(x) \cup {x})
        BY <3>6, <3>7, FS_Subset
      <3>9. Cardinality(Before(x)) \in Nat
        BY <1>1, <3>4
      <3> QED
        BY <1>2, <3>4, <3>7, <3>8, <3>9
    <2> QED
      BY <2>1, <2>2
  <1>4. n <= Cardinality(F)
    <2>1. CASE F = S
      BY <2>1
    <2>2. CASE F # S
      <3> DEFINE P == {place[x] : x \in S \ F}
      <3>1. P \subseteq 0..m /\ P # {}
        BY <1>6, <2>2
      <3>2. PICK k \in P : \A p \in P : k <= p
        BY <3>1, SmallestExists
      <3>3. PICK x \in S \ F : place[x] = k
        BY <3>2
      <3>4. ASSUME NEW y \in Before(x) PROVE y \in F
        <4>1. y \in S /\ place[y] \in 0..m /\ place[x] \in 0..m /\ place[y] < place[x]
          BY <1>6, <3>3, <3>4
        <4>2. y \in S \ F => place[x] <= place[y]
          BY <3>2, <3>3
        <4> QED
          BY <4>1, <4>2
      <3>5. Cardinality(Before(x)) <= Cardinality(F)
        BY <1>2, <3>4, FS_Subset
      <3>6. ~(Cardinality(Before(x)) < n) /\ Cardinality(Before(x)) \in Nat
        BY <1>1, <1>6, <3>3
      <3> QED
        BY <1>2, <3>5, <3>6
    <2> QED
      BY <2>1, <2>2
  <1>5. Cardinality(F) = n
    BY <1>2, <1>3, <1>4
  <1> QED
    BY <1>5, <1>7

\* A finite set that falls into two parts has as many members as the two.
LEMMA TwoParts ==
    ASSUME NEW S, IsFiniteSet(S), NEW A, NEW B, S = A \cup B, A \cap B = {}
    PROVE  /\ IsFiniteSet(A) /\ IsFiniteSet(B)
           /\ Cardinality(S) = Cardinality(A) + Cardinality(B)
           /\ Cardinality(A) \in Nat /\ Cardinality(B) \in Nat
  <1>1. IsFiniteSet(A) /\ IsFiniteSet(B)
    BY FS_Subset
  <1>2. Cardinality(A) \in Nat /\ Cardinality(B) \in Nat
    BY <1>1, FS_CardinalityType
  <1>3. Cardinality(S) = Cardinality(A) + Cardinality(B) - Cardinality(A \cap B)
    BY <1>1, FS_Union
  <1>4. Cardinality(A \cap B) = 0
    BY FS_EmptySet
  <1> QED
    BY <1>1, <1>2, <1>3, <1>4

LEMMA ClassTyped ==
    /\ \A c \in Case : Class[c] \in {"THREAT", "SUSPICIOUS", "CLEAN"}
    /\ \A c \in Case : Severity[c] \in {"CRITICAL", "HIGH", "MEDIUM", "LOW"}
  BY DEF Class, Severity

LEMMA NewestFinite ==
    ASSUME Store!TypeOK, NEW n \in Nat
    PROVE  IsFiniteSet(Store!Newest(n))
  <1> DEFINE D == 1..n \cap DOMAIN order  f == [i \in D |-> order[i]]
  <1>1. IsFiniteSet(1..n)
    BY FS_Interval
  <1>2. IsFiniteSet(D)
    BY <1>1, FS_Subset
  <1>3. f \in Surjection(D, Store!Newest(n))
    BY DEF Store!Newest, Surjection
  <1> QED
    BY <1>2, <1>3, FS_Surjection

LEMMA StoreCardinality == \A S : Store!Cardinality(S) = Cardinality(S)
  BY DEF Store!Cardinality, Cardinality

\* The figures that count the listed cases by class, severity or status.
LEMMA FiguresAgree ==
    ASSUME Store!TypeOK
    PROVE  LET bands == Store!Distribution  kpi == Store!Kpi
           IN  /\ bands.Critical + bands.High + bands.Suspicious + bands.Clean = kpi.analysed
               /\ bands.Critical + bands.High = kpi.grave
               /\ Store!Cardinality(Store!ThreatActivity) <= kpi.open
               /\ Store!Cardinality(Store!SearchInvestigations("NEW"))
                    + Store!Cardinality(Store!SearchInvestigations("INVESTIGATING")) = kpi.open
  <1> DEFINE L == Store!Listed
             T == Store!Threats
             Band(s) == {c \in T : Severity[c] = s}
             Kind(k) == {c \in L : Class[c] = k}
             Grave == {c \in T : Severity[c] \in {"HIGH", "CRITICAL"}}
             Open == {c \in L : ~Store!Ended(c)}
  <1>1. L \subseteq {c \in Case : Store!Exists(c)} /\ IsFiniteSet(L)
    BY NewestExist, NewestFinite DEF Store!Listed
  <1>2. \A c \in L : /\ Class[c] \in {"THREAT", "SUSPICIOUS", "CLEAN"}
                     /\ Severity[c] \in {"CRITICAL", "HIGH", "MEDIUM", "LOW"}
    BY <1>1, ClassTyped
  <1>3. T = Kind("THREAT")
    BY DEF Store!Threats
  <1>4. /\ IsFiniteSet(Kind("SUSPICIOUS") \cup Kind("CLEAN")) /\ IsFiniteSet(T)
        /\ Cardinality(L) = Cardinality(T) + Cardinality(Kind("SUSPICIOUS") \cup Kind("CLEAN"))
        /\ Cardinality(L) \in Nat
    <2>1. L = T \cup (Kind("SUSPICIOUS") \cup Kind("CLEAN"))
      BY <1>2, <1>3
    <2>2. T \cap (Kind("SUSPICIOUS") \cup Kind("CLEAN")) = {}
      BY <1>3
    <2> HIDE DEF L, T, Kind
    <2> QED
      BY <1>1, <2>1, <2>2, TwoParts, FS_CardinalityType
  <1>5. /\ Cardinality(Kind("SUSPICIOUS") \cup Kind("CLEAN"))
             = Cardinality(Kind("SUSPICIOUS")) + Cardinality(Kind("CLEAN"))
        /\ Cardinality(Kind("SUSPICIOUS")) \in Nat /\ Cardinality(Kind("CLEAN")) \in Nat
    <2>1. Kind("SUSPICIOUS") \cap Kind("CLEAN") = {}
      OBVIOUS
    <2> HIDE DEF Kind
    <2> QED
      BY ZenonT(40), <1>4, <2>1, TwoParts
  <1>6. /\ IsFiniteSet(Grave) /\ IsFiniteSet(Band("MEDIUM") \cup Band("LOW"))
        /\ Cardinality(T) = Cardinality(Grave) + Cardinality(Band("MEDIUM") \cup Band("LOW"))
    <2>1. T = Grave \cup (Band("MEDIUM") \cup Band("LOW"))
      BY <1>2, <1>3
    <2>2. Grave \cap (Band("MEDIUM") \cup Band("LOW")) = {}
      OBVIOUS
    <2>3. IsFiniteSet(T)
      BY <1>4
    <2> HIDE DEF T, Grave, Band
    <2> QED
      BY ZenonT(40), <2>1, <2>2, <2>3, TwoParts
  <1>7. /\ Cardinality(Grave) = Cardinality(Band("CRITICAL")) + Cardinality(Band("HIGH"))
        /\ Cardinality(Band("CRITICAL")) \in Nat /\ Cardinality(Band("HIGH")) \in Nat
    <2>1. Grave = Band("CRITICAL") \cup Band("HIGH") /\ Band("CRITICAL") \cap Band("HIGH") = {}
      OBVIOUS
    <2> HIDE DEF Grave, Band
    <2> QED
      BY <1>6, <2>1, TwoParts
  <1>8. /\ Cardinality(Band("MEDIUM") \cup Band("LOW"))
             = Cardinality(Band("MEDIUM")) + Cardinality(Band("LOW"))
        /\ Cardinality(Band("MEDIUM")) \in Nat /\ Cardinality(Band("LOW")) \in Nat
    <2>1. Band("MEDIUM") \cap Band("LOW") = {}
      OBVIOUS
    <2> HIDE DEF Band
    <2> QED
      BY ZenonT(40), <1>6, <2>1, TwoParts
  <1>9. IsFiniteSet(Open) /\ Cardinality(Open) \in Nat
    BY <1>1, FS_Subset, FS_CardinalityType
  <1>10. Cardinality(Store!ThreatActivity) <= Cardinality(Open)
    <2>1. Store!ThreatActivity \subseteq Open
      BY DEF Store!ThreatActivity
    <2> HIDE DEF Open
    <2> QED
      BY <1>9, <2>1, FS_Subset
  <1>11. Cardinality(Store!SearchInvestigations("NEW"))
           + Cardinality(Store!SearchInvestigations("INVESTIGATING")) = Cardinality(Open)
    <2>1. ASSUME NEW c \in L
          PROVE  /\ (Store!DbToLifecycle(cases[c].status) = "NEW") <=> (cases[c].status = "Open")
                 /\ (Store!DbToLifecycle(cases[c].status) = "INVESTIGATING")
                      <=> (cases[c].status = "In Progress")
                 /\ cases[c].status \in Store!Statuses
      <3>1. cases[c] \in Store!Row
        BY <1>1 DEF Store!TypeOK, Store!Exists
      <3>2. cases[c].status \in Store!Statuses
        BY <3>1 DEF Store!Row
      <3> DEFINE s == Store!DbToLifecycle(cases[c].status)
      <3>3. \E l \in Store!Lifecycle : Store!LifecycleToDb[l] = cases[c].status
        BY <3>2 DEF Store!Statuses, Store!Lifecycle, Store!LifecycleToDb
      <3>4. s \in Store!Lifecycle /\ Store!LifecycleToDb[s] = cases[c].status
        BY <3>3 DEF Store!DbToLifecycle
      <3> HIDE DEF s
      <3>5. (s = "NEW" <=> cases[c].status = "Open")
              /\ (s = "INVESTIGATING" <=> cases[c].status = "In Progress")
        BY <3>4 DEF Store!Lifecycle, Store!LifecycleToDb
      <3> QED
        BY <3>2, <3>5 DEF s
    <2>2. /\ Open = Store!SearchInvestigations("NEW") \cup Store!SearchInvestigations("INVESTIGATING")
          /\ Store!SearchInvestigations("NEW") \cap Store!SearchInvestigations("INVESTIGATING") = {}
      BY <2>1 DEF Store!SearchInvestigations, Store!Ended, Store!Statuses
    <2> HIDE DEF Open
    <2> QED
      BY <1>9, <2>2, TwoParts
  <1>12. /\ Store!Kpi.analysed = Cardinality(L) /\ Store!Kpi.grave = Cardinality(Grave)
         /\ Store!Kpi.open = Cardinality(Open)
    BY StoreCardinality DEF Store!Kpi
  <1>13. /\ Store!Distribution.Critical = Cardinality(Band("CRITICAL"))
         /\ Store!Distribution.High = Cardinality(Band("HIGH"))
         /\ Store!Distribution.Suspicious =
              Cardinality(Band("MEDIUM")) + Cardinality(Band("LOW")) + Cardinality(Kind("SUSPICIOUS"))
         /\ Store!Distribution.Clean = Cardinality(Kind("CLEAN"))
    BY StoreCardinality DEF Store!Distribution
  <1> HIDE DEF L, T, Band, Kind, Grave, Open
  <1>14. Cardinality(Band("CRITICAL")) + Cardinality(Band("HIGH"))
           + (Cardinality(Band("MEDIUM")) + Cardinality(Band("LOW")) + Cardinality(Kind("SUSPICIOUS")))
           + Cardinality(Kind("CLEAN")) = Cardinality(L)
    BY <1>4, <1>5, <1>6, <1>7, <1>8
  <1> QED
    BY <1>7, <1>10, <1>11, <1>12, <1>13, <1>14, StoreCardinality

\* A place in the order.
LEMMA PlaceProperties ==
    ASSUME Store!TypeOK
    PROVE  /\ \A c \in Case : Store!Exists(c) =>
                Store!Place(c) \in DOMAIN order /\ Store!Place(c) \in Nat \ {0}
                  /\ order[Store!Place(c)] = c
           /\ \A n \in Nat : \A c \in Case :
                Store!Exists(c) => (c \in Store!Newest(n) <=> Store!Place(c) <= n)
  <1>1. order \in Seq(Case) /\ Len(order) \in Nat /\ DOMAIN order = 1..Len(order)
    <2>1. order \in Seq(Case)
      BY DEF Store!TypeOK
    <2> QED
      BY <2>1
  <1>2. \A i, j \in DOMAIN order : order[i] = order[j] => i = j
    BY <1>1 DEF Store!TypeOK, Store!IsInjective
  <1>3. ASSUME NEW c \in Case, Store!Exists(c)
        PROVE  /\ Store!Place(c) \in DOMAIN order /\ Store!Place(c) \in Nat \ {0}
               /\ order[Store!Place(c)] = c
    <2>1. c \in Store!ToSet(order)
      BY <1>3 DEF Store!TypeOK, Store!Exists
    <2>2. \E i \in DOMAIN order : order[i] = c
      BY <2>1 DEF Store!ToSet
    <2>3. Store!Place(c) \in DOMAIN order /\ order[Store!Place(c)] = c
      BY <2>2 DEF Store!Place
    <2> QED
      BY <1>1, <2>3
  <1>4. ASSUME NEW n \in Nat, NEW c \in Case, Store!Exists(c)
        PROVE  c \in Store!Newest(n) <=> Store!Place(c) <= n
    <2>1. /\ Store!Place(c) \in DOMAIN order /\ Store!Place(c) \in Nat \ {0}
          /\ order[Store!Place(c)] = c
      BY <1>3, <1>4
    <2>2. ASSUME c \in Store!Newest(n) PROVE Store!Place(c) <= n
      <3>1. PICK i \in 1..n \cap DOMAIN order : order[i] = c
        BY <2>2 DEF Store!Newest
      <3>2. i = Store!Place(c)
        BY <1>2, <2>1, <3>1
      <3> QED
        BY <3>1, <3>2
    <2>3. ASSUME Store!Place(c) <= n PROVE c \in Store!Newest(n)
      <3>1. Store!Place(c) \in 1..n
        BY <2>1, <2>3
      <3> QED
        BY <2>1, <3>1 DEF Store!Newest
    <2> QED
      BY <2>2, <2>3
  <1> QED
    BY <1>3, <1>4

LEMMA WeightProperties ==
    ASSUME Store!TypeOK, NEW c \in Case
    PROVE  /\ Store!Weight(c) \in Nat
           /\ Store!Weight(c) = 0 <=> Severity[c] = "CRITICAL" /\ ~Store!Ended(c)
  <1>1. Store!Rank(c) \in Nat /\ (Store!Rank(c) = 0 <=> Severity[c] = "CRITICAL")
    BY ClassTyped DEF Store!Rank
  <1> QED
    BY <1>1 DEF Store!Weight

\* An open critical case is in the queue, or too old to be looked at, or the queue is full
\* of others like it.
LEMMA QueueCovers ==
    ASSUME Store!TypeOK, NEW c \in Case, c \notin Store!InvestigationQueue,
           Store!Exists(c), ~Store!Ended(c), Severity[c] = "CRITICAL",
           ~(Store!Place(c) > QueueScan)
    PROVE  Cardinality({d \in Store!InvestigationQueue : Severity[d] = "CRITICAL"}) = QueueLimit
  <1> DEFINE Q == Store!Queued
             K == {d \in Q : Store!Weight(d) = 0}
             Earlier(d) == {e \in K : Store!Place(e) < Store!Place(d)}
             Above(d) == {e \in Q : Store!Before(e, d)}
  <1>1. Q \subseteq {d \in Case : Store!Exists(d)} /\ IsFiniteSet(Q)
    <2>1. Q \subseteq Store!Newest(QueueScan)
      BY DEF Store!Queued
    <2> QED
      BY <2>1, NewestExist, NewestFinite, FS_Subset
  <1>2. \A d \in Q : Store!Weight(d) \in Nat
                     /\ (Store!Weight(d) = 0 <=> Severity[d] = "CRITICAL" /\ ~Store!Ended(d))
    BY <1>1, WeightProperties
  <1>3. c \in K
    <2>1. Store!Place(c) \in Nat
      BY PlaceProperties
    <2>2. c \in Store!Newest(QueueScan)
      BY <2>1, PlaceProperties
    <2>3. c \in Q
      BY <2>2 DEF Store!Queued, Store!Ended
    <2> QED
      BY <1>2, <2>3
  <1>4. \A d \in Q : /\ Store!Place(d) \in 0..QueueScan
                     /\ \A e \in Q : Store!Place(d) = Store!Place(e) => d = e
    <2>1. ASSUME NEW d \in Q
          PROVE  /\ Store!Place(d) \in Nat /\ Store!Place(d) <= QueueScan
                 /\ order[Store!Place(d)] = d
      <3>1. d \in Case /\ Store!Exists(d) /\ d \in Store!Newest(QueueScan)
        BY <1>1 DEF Store!Queued
      <3> QED
        BY <3>1, PlaceProperties
    <2> QED
      BY <2>1
  <1>5. \A d \in K : Above(d) = Earlier(d)
    <2>1. ASSUME NEW d \in K, NEW e \in Q
          PROVE  Store!Before(e, d) <=> (Store!Weight(e) = 0 /\ Store!Place(e) < Store!Place(d))
      BY <1>2, <2>1 DEF Store!Before
    <2> QED
      BY <2>1
  <1>6. \A d \in Q : d \in Store!InvestigationQueue <=> Cardinality(Above(d)) < QueueLimit
    BY StoreCardinality DEF Store!InvestigationQueue
  <1>7. IsFiniteSet(K) /\ Cardinality(K) \in Nat /\ c \in Q
    BY <1>1, <1>3, FS_Subset, FS_CardinalityType
  <1>8. IsFiniteSet(Above(c)) /\ Cardinality(Above(c)) \in Nat /\ ~(Cardinality(Above(c)) < QueueLimit)
    <2>1. Above(c) \subseteq Q
      OBVIOUS
    <2> QED
      BY <1>1, <1>6, <1>7, <2>1, FS_Subset, FS_CardinalityType
  <1>9. QueueLimit <= Cardinality(K)
    <2>1. Above(c) \subseteq K
      BY <1>3, <1>5
    <2> HIDE DEF Above, K
    <2>2. Cardinality(Above(c)) <= Cardinality(K)
      BY <1>7, <2>1, FS_Subset
    <2> QED
      BY <1>7, <1>8, <2>2
  <1>10. ASSUME NEW d \in Store!InvestigationQueue, Severity[d] = "CRITICAL" PROVE d \in K
    <2>1. d \in Q /\ Cardinality(Above(d)) < QueueLimit
      BY <1>6, <1>10 DEF Store!InvestigationQueue
    <2>2. CASE Store!Weight(d) # 0
      <3>1. Above(c) \subseteq Above(d)
        <4>1. ASSUME NEW e \in Above(c) PROVE Store!Before(e, d)
          <5>1. e \in Q /\ Store!Weight(e) = 0
            BY <1>3, <1>5, <4>1
          <5> QED
            BY <1>2, <2>1, <2>2, <5>1 DEF Store!Before
        <4> QED
          BY <4>1
      <3>2. IsFiniteSet(Above(d))
        <4>1. Above(d) \subseteq Q
          OBVIOUS
        <4> QED
          BY <1>1, <4>1, FS_Subset
      <3> HIDE DEF Above
      <3>3. Cardinality(Above(c)) <= Cardinality(Above(d)) /\ Cardinality(Above(d)) \in Nat
        BY <3>1, <3>2, FS_Subset, FS_CardinalityType
      <3> QED
        BY <1>8, <2>1, <3>3
    <2> QED
      BY <2>1, <2>2
  <1>11. {d \in Store!InvestigationQueue : Severity[d] = "CRITICAL"}
           = {d \in K : Cardinality(Earlier(d)) < QueueLimit}
    <2>1. ASSUME NEW d \in K
          PROVE  /\ Severity[d] = "CRITICAL"
                 /\ d \in Store!InvestigationQueue <=> Cardinality(Earlier(d)) < QueueLimit
      <3>1. d \in Q
        BY <2>1
      <3> QED
        BY <1>2, <1>5, <1>6, <2>1, <3>1
    <2> HIDE DEF K, Earlier, Above
    <2> QED
      BY <1>10, <2>1
  <1> DEFINE place == [d \in K |-> Store!Place(d)]
  <1>12. /\ place \in [K -> 0..QueueScan]
         /\ \A x, y \in K : place[x] = place[y] => x = y
         /\ \A d \in K : Earlier(d) = {e \in K : place[e] < place[d]}
    BY <1>4
  <1> HIDE DEF K, place, Earlier, Above
  <1>13. Cardinality({x \in K : Cardinality({y \in K : place[y] < place[x]}) < QueueLimit}) = QueueLimit
    BY ZenonT(40), <1>7, <1>9, <1>12, FirstOnes
  <1>14. {x \in K : Cardinality({y \in K : place[y] < place[x]}) < QueueLimit}
           = {d \in K : Cardinality(Earlier(d)) < QueueLimit}
    BY <1>12
  <1> QED
    BY <1>11, <1>13, <1>14

\* The figures of the dashboard agree with one another, and the queue leaves out an open
\* critical case only for QueueLimit others or for its age, whatever the cases and the limits
\* (get_soc_kpi_metrics, get_soc_threat_distribution, get_soc_investigation_queue).
THEOREM FiguresAgreeAlways == Spec => []DashboardAgrees
  <1>1. StoreInv => DashboardAgrees
    <2> SUFFICES ASSUME Store!TypeOK PROVE Store!DashboardAgrees
      BY DEF StoreInv, DashboardAgrees
    <2>1. \A c \in Case \ Store!InvestigationQueue :
            Store!Exists(c) /\ ~Store!Ended(c) /\ Severity[c] = "CRITICAL" =>
              \/ Store!Place(c) > QueueScan
              \/ Store!Cardinality({d \in Store!InvestigationQueue : Severity[d] = "CRITICAL"})
                   = QueueLimit
      BY QueueCovers, StoreCardinality
    <2> QED
      BY <2>1, FiguresAgree DEF Store!DashboardAgrees
  <1> QED
    BY <1>1, StoreInvariant, PTL

\* The two stores keep every variable in its type.
THEOREM StoresTypeCorrect == Spec => []TypeOK
  <1>1. StoreInv /\ LocalInv => TypeOK
    BY DEF StoreInv, LocalInv, TypeOK
  <1> QED
    BY <1>1, StoreInvariant, LocalInvariant, PTL
=============================================================================
