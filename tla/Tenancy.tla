------------------------------ MODULE Tenancy ------------------------------
(***************************************************************************)
(* What a worker lease promises, without rows, tokens, calls or replies:   *)
(* workers that consult only their own clocks hold one office in turn.     *)
(* WorkerLease is shown to implement it.                                   *)
(***************************************************************************)
EXTENDS Integers

CONSTANTS
    Process,    \* who may hold the office
    Term,       \* the longest term
    Grace,      \* how long news may take, and so how long a former holder may linger
    Cap         \* where since saturates

VARIABLES
    wanted,     \* the owner wants the office filled
    since,      \* seconds since he stopped wanting it
    holder,     \* who is on record as the holder: one or nobody
    left        \* for how long each process believes in its term

vars == <<wanted, since, holder, left>>

Init ==
    /\ wanted = TRUE
    /\ since = 0
    /\ holder = {}
    /\ left = [p \in Process |-> 0]

\* The office is awarded only while it is wanted, and only when nobody else
\* believes in a term that outlasts the grace.
Award(p) ==
    /\ wanted
    /\ \A q \in Process \ {p} : left[q] <= Grace
    /\ holder' = {p}
    /\ UNCHANGED <<wanted, since, left>>

\* Only who is on record begins or extends a term, on news that is no older than
\* the grace: the office was still wanted when they were sent.
Serve(p) ==
    /\ p \in holder
    /\ since <= Grace
    /\ \E seconds \in 1 .. Term : left' = [left EXCEPT ![p] = seconds]
    /\ UNCHANGED <<wanted, since, holder>>

\* Whoever goes off the record has ended the term, or lingers within the grace.
Leave(p) ==
    /\ \E seconds \in {0, left[p]} :
          seconds <= Grace /\ left' = [left EXCEPT ![p] = seconds]
    /\ holder' \in {holder, holder \ {p}}
    /\ UNCHANGED <<wanted, since>>

\* The owner changes his mind, at any time.
Want(w) ==
    /\ wanted' = w
    /\ since' = IF w THEN 0 ELSE since
    /\ UNCHANGED <<holder, left>>

Tick ==
    /\ left' = [p \in Process |-> IF left[p] > 0 THEN left[p] - 1 ELSE 0]
    /\ since' = IF ~wanted /\ since < Cap THEN since + 1 ELSE since
    /\ UNCHANGED <<wanted, holder>>

Next ==
    \/ \E p \in Process : Award(p) \/ Serve(p) \/ Leave(p)
    \/ \E w \in BOOLEAN : Want(w)
    \/ Tick

Spec == Init /\ [][Next]_vars

-----------------------------------------------------------------------------
\* Two processes serve at once only while one of them lingers: the promise that
\* BoundedOverlap states of the code (worker/lease.py, is_active).
OneHolder ==
    \A p, q \in Process : p # q => left[p] <= Grace \/ left[q] <= Grace

\* Nobody serves longer than a term and the grace after the office is unwanted: the
\* promise that HaltBound states of the code.
Vacated ==
    \A p \in Process : ~wanted /\ left[p] > 0 => since < Term + Grace

\* The inductive invariant behind both: who is off the record lingers at most, the
\* record names one at most, and no term outlasts its grant and the news of it.
TermInv ==
    /\ wanted => since = 0
    /\ \A p, q \in holder : p = q
    /\ \A p \in Process :
          /\ p \notin holder => left[p] <= Grace
          /\ left[p] > 0 => left[p] + since <= Term + Grace
=============================================================================
