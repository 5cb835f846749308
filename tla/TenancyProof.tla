---------------------------- MODULE TenancyProof ----------------------------
(* Theorems of Tenancy, for every value of its constants. *)
EXTENDS Tenancy, TLAPS

TypeOK ==
    /\ wanted \in BOOLEAN
    /\ since \in Nat
    /\ holder \in SUBSET Process
    /\ left \in [Process -> Nat]

Bounds == Term \in Nat /\ Grace \in Nat /\ Cap \in Nat

LEMMA TenancyType == ASSUME TypeOK, [Next]_vars PROVE TypeOK'
  <1>1. CASE \E p \in Process : Award(p) \/ Serve(p) \/ Leave(p)
    BY <1>1 DEF TypeOK, Award, Serve, Leave
  <1>2. CASE \E w \in BOOLEAN : Want(w)
    BY <1>2 DEF TypeOK, Want
  <1>3. CASE Tick
    BY <1>3 DEF TypeOK, Tick
  <1>4. CASE UNCHANGED vars
    BY <1>4 DEF TypeOK, vars
  <1> QED
    BY <1>1, <1>2, <1>3, <1>4 DEF Next

LEMMA TenancyStep == ASSUME Bounds, TypeOK, TermInv, [Next]_vars PROVE TermInv'
  <1> USE DEF TypeOK, TermInv, Bounds
  <1>1. ASSUME NEW p \in Process, Award(p) PROVE TermInv'
    BY <1>1 DEF Award
  <1>2. ASSUME NEW p \in Process, Serve(p) PROVE TermInv'
    BY <1>2 DEF Serve
  <1>3. ASSUME NEW p \in Process, Leave(p) PROVE TermInv'
    BY <1>3 DEF Leave
  <1>4. ASSUME NEW w \in BOOLEAN, Want(w) PROVE TermInv'
    BY <1>4 DEF Want
  <1>5. CASE Tick
    BY <1>5 DEF Tick
  <1>6. CASE UNCHANGED vars
    BY <1>6 DEF vars
  <1> QED
    BY <1>1, <1>2, <1>3, <1>4, <1>5, <1>6 DEF Next

\* OneHolder and Vacated: whatever implements Tenancy keeps both promises.
THEOREM TenancyKept == ASSUME Bounds PROVE Spec => [](OneHolder /\ Vacated)
  <1>1. Init => TypeOK /\ TermInv
    BY DEF Init, TypeOK, TermInv, Bounds
  <1>2. TypeOK /\ TermInv /\ [Next]_vars => (TypeOK /\ TermInv)'
    BY TenancyType, TenancyStep
  <1>3. TypeOK /\ TermInv => OneHolder /\ Vacated
    BY DEF TypeOK, TermInv, OneHolder, Vacated, Bounds
  <1> QED
    BY <1>1, <1>2, <1>3, PTL DEF Spec
=============================================================================
