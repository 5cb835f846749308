------------------------------ MODULE MCStores ------------------------------
(***************************************************************************)
(* The two stores of the program for TLC: the case store and the local     *)
(* forensic store.  They share no state, so a behaviour is one of the case *)
(* store or one of the local store, as its first state decides.            *)
(***************************************************************************)
EXTENDS Naturals, TLC

CONSTANTS Tab, Worker, Case, Note, Demo, KpiLimit, QueueLimit, QueueScan, MaxCopies,
          Critical,   \* the critical threats among the cases; the others are high threats
          User, Kept, Evidence, Report, DemoUser, MaxCrashes

VARIABLES remote, cases, order, inds, at, acked, raced,
          row, sheet, item, file, call, job, begun, audited, crashes,
          which       \* the store this behaviour is about
storeVars == <<remote, cases, order, inds, at, acked, raced>>
localVars == <<row, sheet, item, file, call, job, begun, audited, crashes>>
vars == <<storeVars, localVars, which>>

ASSUME StoresAssumption ==
    /\ MaxCopies \in Nat \ {0} /\ MaxCrashes \in Nat
    /\ KpiLimit \in Nat \ {0} /\ QueueLimit \in Nat \ {0} /\ QueueScan \in Nat \ {0}

Class == [c \in Case |-> IF c \in Demo THEN "SUSPICIOUS" ELSE "THREAT"]
Severity == [c \in Case |-> IF c \in Critical THEN "CRITICAL" ELSE "HIGH"]

Store == INSTANCE CaseStore
Local == INSTANCE LocalStorage WITH Case <- Kept, DemoCase <- Kept

Init ==
    /\ which \in {"case_store", "local_storage"}
    /\ Store!Init /\ Local!Init
    /\ which = "local_storage" => ~remote

Next ==
    \/ which = "case_store" /\ Store!Next /\ UNCHANGED <<localVars, which>>
    \/ which = "local_storage" /\ Local!Next /\ UNCHANGED <<storeVars, which>>

Spec == Init /\ [][Next]_vars

\* Browser tabs, and the users of the local store, are interchangeable.
Interchangeable == Permutations(Tab) \cup Permutations(User)

(* The properties of the two modules. *)
TypeOK == Store!TypeOK /\ Local!TypeOK
NotesKept == Store!NotesKept
IndicatorsFollow == Store!IndicatorsFollow
DashboardAgrees == Store!DashboardAgrees
CloseAllCovers == Store!CloseAllCovers
FilesAccounted == Local!RowHasFile /\ Local!AuditGap
SparesTheRest == Local!SparesTheRest
=============================================================================
