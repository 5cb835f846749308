------------------------- MODULE WorkerServiceProof -------------------------
(* Theorems of WorkerService, for any number of leases, signals and faults. *)
EXTENDS WorkerService, TLAPS

USE ServiceAssumption DEF Postgres

\* What stop() does, in whichever flow, once it has begun.
Leaving == {"release", "releasing", "close", "closing", "final"}

\* The points reached before step() first runs, and the end.
Outside == {"register", "start", "connect", "connecting", "verify", "verifying", "exited"}

\* A reply that waits to be bound is the lease the row records.
BindInv == pc = "bind" /\ row # 0 => row = reply

\* A message is looked at only under the row's lease.
ServeInv == pc \in {"messages", "work"} /\ Active => bound = row

\* Two stops never overlap: the handler's finds the service STOPPING when the
\* main flow's has begun, and the main flow stands still under the handler's.
StopInv ==
    /\ pc \in Leaving => state = "STOPPING" /\ handler \in {"none", "entered"}
    /\ handler \in {"release", "close", "final"} => state = "STOPPING"
    /\ handler \in {"close", "final"} => bound = 0
    /\ handler = "final" => ~conn /\ (Postgres => pc \notin Locked)

\* After the handler's stop no client call of the step in progress can run:
\* the connection is closed, and the next call hangs reconnecting.
StoppedInv ==
    Postgres /\ state = "STOPPED" =>
        /\ pc \in Outside \/ (~conn /\ pc \notin Locked)
        /\ pc \in {"messages", "work"} => bound = 0

-----------------------------------------------------------------------------
\* One step keeps every variable in its type.
LEMMA TypeStep ==
    ASSUME TypeOK, [Next]_vars
    PROVE  TypeOK'
  <1> USE DEF TypeOK, Points, Locked, leases, budget
  <1>1. CASE Register
    BY <1>1 DEF Register, At
  <1>2. CASE StartBegins
    BY <1>2 DEF StartBegins, At
  <1>3. CASE TakeLock
    BY <1>3 DEF TakeLock, At
  <1>4. CASE Reconnect
    BY <1>4 DEF Reconnect, At
  <1>5. CASE Connect
    <2>1. faults' \in 0..MaxFaults
      BY <1>5 DEF Connect, At, Fault
    <2>2. conn' \in BOOLEAN
      BY <1>5, Zenon DEF Connect, At, Fault
    <2>3. pc' \in Points
      BY <1>5 DEF Connect, At, Fault
    <2> QED
      BY <1>5, <2>1, <2>2, <2>3 DEF Connect, At, Fault
  <1>6. CASE Verify
    BY <1>6 DEF Verify, At
  <1>7. CASE Loop
    BY <1>7 DEF Loop, At
  <1>8. CASE StepDecides
    BY <1>8 DEF StepDecides, At
  <1>9. CASE Claim
    BY <1>9 DEF Claim, At, Fault
  <1>10. CASE Bind
    BY <1>10 DEF Bind, At
  <1>11. CASE Renew
    BY <1>11 DEF Renew, At
  <1>12. CASE FetchCredential
    BY <1>12 DEF FetchCredential, At, Authorised
  <1>13. CASE Message
    BY <1>13 DEF Message, At
  <1>14. CASE MainStop
    BY <1>14 DEF MainStop, At, Stopping
  <1>15. CASE MainRelease
    BY <1>15 DEF MainRelease, At, ReleaseLease, ReleaseRow, Fault
  <1>16. CASE MainClose
    BY <1>16 DEF MainClose, At
  <1>17. CASE HandlerStop
    BY ZenonT(40), <1>17 DEF HandlerStop, Stopping
  <1>18. CASE HandlerRelease
    BY <1>18 DEF HandlerRelease, ReleaseLease, ReleaseRow, Fault
  <1>19. CASE HandlerClose
    BY ZenonT(40), <1>19 DEF HandlerClose, LockFree
  <1>20. CASE HandlerFinal
    BY <1>20 DEF HandlerFinal
  <1>21. CASE Signal
    BY <1>21 DEF Signal
  <1>22. CASE LeaseLapses
    <2>1. row \in 1..MaxClaims
      <3>1. row \in 0..MaxClaims
        OBVIOUS
      <3> QED
        BY <1>22, <3>1 DEF LeaseLapses
    <2>2. lapsed' \subseteq 1..MaxClaims
      BY <1>22, <2>1 DEF LeaseLapses
    <2> QED
      BY <1>22, <2>2 DEF LeaseLapses
  <1>23. CASE LinkLost
    <2>1. faults' \in 0..MaxFaults
      BY <1>23 DEF LinkLost, Fault
    <2>2. conn' \in BOOLEAN
      BY <1>23, Zenon DEF LinkLost, Fault
    <2>3. pc' \in Points
      BY <1>23 DEF LinkLost, Fault
    <2> QED
      BY <1>23, <2>1, <2>2, <2>3 DEF LinkLost, Fault
  <1>24. CASE UNCHANGED vars
    BY <1>24 DEF vars
  <1> QED
    BY <1>1, <1>2, <1>3, <1>4, <1>5, <1>6, <1>7, <1>8, <1>9, <1>10, <1>11, <1>12, <1>13, <1>14, <1>15, <1>16, <1>17, <1>18, <1>19, <1>20, <1>21, <1>22, <1>23, <1>24 DEF Next, Main, Handler

\* A reply waiting to be bound stays the row's lease.
LEMMA BindStep ==
    ASSUME TypeOK, BindInv, [Next]_vars
    PROVE  BindInv'
  <1> USE DEF BindInv, TypeOK, leases, budget
  <1>1. CASE Register
    BY <1>1 DEF Register, At
  <1>2. CASE StartBegins
    BY <1>2 DEF StartBegins, At
  <1>3. CASE TakeLock
    BY <1>3 DEF TakeLock, At
  <1>4. CASE Reconnect
    BY <1>4 DEF Reconnect, At
  <1>5. CASE Connect
    BY <1>5 DEF Connect, At, Fault
  <1>6. CASE Verify
    BY <1>6 DEF Verify, At
  <1>7. CASE Loop
    BY <1>7 DEF Loop, At
  <1>8. CASE StepDecides
    BY <1>8 DEF StepDecides, At
  <1>9. CASE Claim
    BY <1>9 DEF Claim, At, Fault
  <1>10. CASE Bind
    BY <1>10 DEF Bind, At
  <1>11. CASE Renew
    BY <1>11 DEF Renew, At
  <1>12. CASE FetchCredential
    BY <1>12 DEF FetchCredential, At, Authorised
  <1>13. CASE Message
    BY <1>13 DEF Message, At
  <1>14. CASE MainStop
    BY <1>14 DEF MainStop, At, Stopping
  <1>15. CASE MainRelease
    BY <1>15 DEF MainRelease, At, ReleaseLease, ReleaseRow, Fault
  <1>16. CASE MainClose
    BY <1>16 DEF MainClose, At
  <1>17. CASE HandlerStop
    BY <1>17 DEF HandlerStop, Stopping
  <1>18. CASE HandlerRelease
    BY <1>18 DEF HandlerRelease, ReleaseLease, ReleaseRow, Fault
  <1>19. CASE HandlerClose
    BY <1>19 DEF HandlerClose, LockFree
  <1>20. CASE HandlerFinal
    BY <1>20 DEF HandlerFinal
  <1>21. CASE Signal
    BY <1>21 DEF Signal
  <1>22. CASE LeaseLapses
    BY <1>22 DEF LeaseLapses
  <1>23. CASE LinkLost
    BY <1>23 DEF LinkLost, Fault
  <1>24. CASE UNCHANGED vars
    BY <1>24 DEF vars
  <1> QED
    BY <1>1, <1>2, <1>3, <1>4, <1>5, <1>6, <1>7, <1>8, <1>9, <1>10, <1>11, <1>12, <1>13, <1>14, <1>15, <1>16, <1>17, <1>18, <1>19, <1>20, <1>21, <1>22, <1>23, <1>24 DEF Next, Main, Handler

\* No step leaves a live lease without a bearer, unless it fails.
LEMMA BearerStep ==
    ASSUME TypeOK, BindInv, OnlyBearer, [Next]_vars
    PROVE  OnlyBearer'
  <1> USE DEF BindInv, OnlyBearer, TypeOK, leases, budget
  <1>1. CASE Register
    BY <1>1 DEF Register, At
  <1>2. CASE StartBegins
    BY <1>2 DEF StartBegins, At
  <1>3. CASE TakeLock
    BY <1>3 DEF TakeLock, At
  <1>4. CASE Reconnect
    BY <1>4 DEF Reconnect, At
  <1>5. CASE Connect
    BY <1>5 DEF Connect, At, Fault
  <1>6. CASE Verify
    BY <1>6 DEF Verify, At
  <1>7. CASE Loop
    BY <1>7 DEF Loop, At
  <1>8. CASE StepDecides
    BY <1>8 DEF StepDecides, At
  <1>9. CASE Claim
    BY <1>9 DEF Claim, At, Fault
  <1>10. CASE Bind
    BY <1>10 DEF Bind, At
  <1>11. CASE Renew
    BY <1>11 DEF Renew, At
  <1>12. CASE FetchCredential
    BY <1>12 DEF FetchCredential, At, Authorised
  <1>13. CASE Message
    BY <1>13 DEF Message, At
  <1>14. CASE MainStop
    BY <1>14 DEF MainStop, At, Stopping
  <1>15. CASE MainRelease
    BY <1>15 DEF MainRelease, At, ReleaseLease, ReleaseRow, Fault
  <1>16. CASE MainClose
    BY <1>16 DEF MainClose, At
  <1>17. CASE HandlerStop
    BY <1>17 DEF HandlerStop, Stopping
  <1>18. CASE HandlerRelease
    BY <1>18 DEF HandlerRelease, ReleaseLease, ReleaseRow, Fault
  <1>19. CASE HandlerClose
    BY <1>19 DEF HandlerClose, LockFree
  <1>20. CASE HandlerFinal
    BY <1>20 DEF HandlerFinal
  <1>21. CASE Signal
    BY <1>21 DEF Signal
  <1>22. CASE LeaseLapses
    BY <1>22 DEF LeaseLapses
  <1>23. CASE LinkLost
    BY <1>23 DEF LinkLost, Fault
  <1>24. CASE UNCHANGED vars
    BY <1>24 DEF vars
  <1> QED
    BY <1>1, <1>2, <1>3, <1>4, <1>5, <1>6, <1>7, <1>8, <1>9, <1>10, <1>11, <1>12, <1>13, <1>14, <1>15, <1>16, <1>17, <1>18, <1>19, <1>20, <1>21, <1>22, <1>23, <1>24 DEF Next, Main, Handler

\* No step leaves a message looked at under another lease.
LEMMA ServeStep ==
    ASSUME TypeOK, ServeInv, [Next]_vars
    PROVE  ServeInv'
  <1> USE DEF ServeInv, Active, TypeOK, leases, budget
  <1>1. CASE Register
    BY <1>1 DEF Register, At
  <1>2. CASE StartBegins
    BY <1>2 DEF StartBegins, At
  <1>3. CASE TakeLock
    BY <1>3 DEF TakeLock, At
  <1>4. CASE Reconnect
    BY <1>4 DEF Reconnect, At
  <1>5. CASE Connect
    BY <1>5 DEF Connect, At, Fault
  <1>6. CASE Verify
    BY <1>6 DEF Verify, At
  <1>7. CASE Loop
    BY <1>7 DEF Loop, At
  <1>8. CASE StepDecides
    BY <1>8 DEF StepDecides, At
  <1>9. CASE Claim
    BY <1>9 DEF Claim, At, Fault
  <1>10. CASE Bind
    BY <1>10 DEF Bind, At
  <1>11. CASE Renew
    BY <1>11 DEF Renew, At
  <1>12. CASE FetchCredential
    BY <1>12 DEF FetchCredential, At, Authorised
  <1>13. CASE Message
    BY <1>13 DEF Message, At
  <1>14. CASE MainStop
    BY <1>14 DEF MainStop, At, Stopping
  <1>15. CASE MainRelease
    BY <1>15 DEF MainRelease, At, ReleaseLease, ReleaseRow, Fault
  <1>16. CASE MainClose
    BY <1>16 DEF MainClose, At
  <1>17. CASE HandlerStop
    BY <1>17 DEF HandlerStop, Stopping
  <1>18. CASE HandlerRelease
    BY <1>18 DEF HandlerRelease, ReleaseLease, ReleaseRow, Fault
  <1>19. CASE HandlerClose
    BY <1>19 DEF HandlerClose, LockFree
  <1>20. CASE HandlerFinal
    BY <1>20 DEF HandlerFinal
  <1>21. CASE Signal
    BY <1>21 DEF Signal
  <1>22. CASE LeaseLapses
    BY <1>22 DEF LeaseLapses
  <1>23. CASE LinkLost
    BY <1>23 DEF LinkLost, Fault
  <1>24. CASE UNCHANGED vars
    BY <1>24 DEF vars
  <1> QED
    BY <1>1, <1>2, <1>3, <1>4, <1>5, <1>6, <1>7, <1>8, <1>9, <1>10, <1>11, <1>12, <1>13, <1>14, <1>15, <1>16, <1>17, <1>18, <1>19, <1>20, <1>21, <1>22, <1>23, <1>24 DEF Next, Main, Handler

\* No step lets two stops overlap.
LEMMA StopStep ==
    ASSUME TypeOK, StopInv, [Next]_vars
    PROVE  StopInv'
  <1> USE DEF StopInv, Leaving, Locked, TypeOK, leases, budget
  <1>1. CASE Register
    BY <1>1 DEF Register, At
  <1>2. CASE StartBegins
    BY <1>2 DEF StartBegins, At
  <1>3. CASE TakeLock
    BY <1>3 DEF TakeLock, At
  <1>4. CASE Reconnect
    BY <1>4 DEF Reconnect, At
  <1>5. CASE Connect
    BY <1>5 DEF Connect, At, Fault
  <1>6. CASE Verify
    BY <1>6 DEF Verify, At
  <1>7. CASE Loop
    BY <1>7 DEF Loop, At
  <1>8. CASE StepDecides
    BY <1>8 DEF StepDecides, At
  <1>9. CASE Claim
    BY <1>9 DEF Claim, At, Fault
  <1>10. CASE Bind
    BY <1>10 DEF Bind, At
  <1>11. CASE Renew
    BY <1>11 DEF Renew, At
  <1>12. CASE FetchCredential
    BY <1>12 DEF FetchCredential, At, Authorised
  <1>13. CASE Message
    BY <1>13 DEF Message, At
  <1>14. CASE MainStop
    BY <1>14 DEF MainStop, At, Stopping
  <1>15. CASE MainRelease
    BY <1>15 DEF MainRelease, At, ReleaseLease, ReleaseRow, Fault
  <1>16. CASE MainClose
    BY <1>16 DEF MainClose, At
  <1>17. CASE HandlerStop
    BY <1>17 DEF HandlerStop, Stopping
  <1>18. CASE HandlerRelease
    BY <1>18 DEF HandlerRelease, ReleaseLease, ReleaseRow, Fault
  <1>19. CASE HandlerClose
    BY <1>19 DEF HandlerClose, LockFree
  <1>20. CASE HandlerFinal
    BY <1>20 DEF HandlerFinal
  <1>21. CASE Signal
    BY <1>21 DEF Signal
  <1>22. CASE LeaseLapses
    BY <1>22 DEF LeaseLapses
  <1>23. CASE LinkLost
    BY <1>23 DEF LinkLost, Fault
  <1>24. CASE UNCHANGED vars
    BY <1>24 DEF vars
  <1> QED
    BY <1>1, <1>2, <1>3, <1>4, <1>5, <1>6, <1>7, <1>8, <1>9, <1>10, <1>11, <1>12, <1>13, <1>14, <1>15, <1>16, <1>17, <1>18, <1>19, <1>20, <1>21, <1>22, <1>23, <1>24 DEF Next, Main, Handler

\* No step takes a stopped process back into a client call.
LEMMA StoppedStep ==
    ASSUME TypeOK, StopInv, StoppedInv, [Next]_vars
    PROVE  StoppedInv'
  <1> USE DEF StoppedInv, StopInv, Leaving, Outside, Locked, TypeOK, leases, budget
  <1>1. CASE Register
    BY <1>1 DEF Register, At
  <1>2. CASE StartBegins
    BY <1>2 DEF StartBegins, At
  <1>3. CASE TakeLock
    BY <1>3 DEF TakeLock, At
  <1>4. CASE Reconnect
    BY <1>4 DEF Reconnect, At
  <1>5. CASE Connect
    BY <1>5 DEF Connect, At, Fault
  <1>6. CASE Verify
    BY <1>6 DEF Verify, At
  <1>7. CASE Loop
    BY <1>7 DEF Loop, At
  <1>8. CASE StepDecides
    BY <1>8 DEF StepDecides, At
  <1>9. CASE Claim
    BY <1>9 DEF Claim, At, Fault
  <1>10. CASE Bind
    BY <1>10 DEF Bind, At
  <1>11. CASE Renew
    BY <1>11 DEF Renew, At
  <1>12. CASE FetchCredential
    BY <1>12 DEF FetchCredential, At, Authorised
  <1>13. CASE Message
    BY <1>13 DEF Message, At
  <1>14. CASE MainStop
    BY <1>14 DEF MainStop, At, Stopping
  <1>15. CASE MainRelease
    BY <1>15 DEF MainRelease, At, ReleaseLease, ReleaseRow, Fault
  <1>16. CASE MainClose
    BY <1>16 DEF MainClose, At
  <1>17. CASE HandlerStop
    BY <1>17 DEF HandlerStop, Stopping
  <1>18. CASE HandlerRelease
    BY <1>18 DEF HandlerRelease, ReleaseLease, ReleaseRow, Fault
  <1>19. CASE HandlerClose
    BY <1>19 DEF HandlerClose, LockFree
  <1>20. CASE HandlerFinal
    BY <1>20 DEF HandlerFinal
  <1>21. CASE Signal
    BY <1>21 DEF Signal
  <1>22. CASE LeaseLapses
    BY <1>22 DEF LeaseLapses
  <1>23. CASE LinkLost
    BY <1>23 DEF LinkLost, Fault
  <1>24. CASE UNCHANGED vars
    BY <1>24 DEF vars
  <1> QED
    BY <1>1, <1>2, <1>3, <1>4, <1>5, <1>6, <1>7, <1>8, <1>9, <1>10, <1>11, <1>12, <1>13, <1>14, <1>15, <1>16, <1>17, <1>18, <1>19, <1>20, <1>21, <1>22, <1>23, <1>24 DEF Next, Main, Handler

-----------------------------------------------------------------------------
ServiceInv == TypeOK /\ BindInv /\ OnlyBearer /\ ServeInv /\ StopInv /\ StoppedInv

\* The inductive invariant behind the theorems below.
THEOREM ServiceInvariant == Spec => []ServiceInv
  <1>1. Init => ServiceInv
    <2> SUFFICES ASSUME Init PROVE ServiceInv
      OBVIOUS
    <2>1. TypeOK
      <3>1. /\ {bound, reply, row} \subseteq 0..MaxClaims
            /\ granted \in 0..MaxClaims
        BY DEF Init
      <3>2. signals \in 0..MaxSignals /\ faults \in 0..MaxFaults
        BY DEF Init
      <3>3. /\ shouldStop \in BOOLEAN /\ conn \in BOOLEAN
            /\ pc \in Points /\ lapsed \subseteq 1..MaxClaims
        BY Zenon DEF Init, Points
      <3> QED
        BY <3>1, <3>2, <3>3 DEF Init, TypeOK
    <2>2. BindInv /\ OnlyBearer /\ ServeInv
      BY DEF Init, BindInv, OnlyBearer, ServeInv
    <2>3. StopInv /\ StoppedInv
      BY DEF Init, StopInv, StoppedInv, Leaving, Outside
    <2> QED
      BY <2>1, <2>2, <2>3 DEF ServiceInv
  <1>2. ServiceInv /\ [Next]_vars => ServiceInv'
    BY TypeStep, BindStep, BearerStep, ServeStep, StopStep, StoppedStep DEF ServiceInv
  <1> QED
    BY <1>1, <1>2, PTL DEF Spec

\* Every variable keeps its type.
THEOREM ServiceTypeCorrect == Spec => []TypeOK
  BY ServiceInvariant, PTL DEF ServiceInv

\* A process works on a message only under the lease the row still records,
\* whatever handler ran in between: the token that authorised the credential
\* is the only one that can make is_active true until it is wiped.
THEOREM WorkLeased == Spec => []WorkIsLeased
  <1>1. ServiceInv => WorkIsLeased
    BY DEF ServiceInv, ServeInv, WorkIsLeased
  <1> QED
    BY <1>1, ServiceInvariant, PTL

\* A live lease in the row has its token in the process that claimed it.
THEOREM OneBearer == Spec => []OnlyBearer
  BY ServiceInvariant, PTL DEF ServiceInv

\* With the PostgreSQL client no message is taken after a handler stopped the
\* service in the middle of a poll.
THEOREM StoppedStaysIdle == Spec => NoWorkAfterStop
  <1>1. ServiceInv /\ [Next]_vars
            => [Postgres /\ pc = "messages" /\ pc' = "work" => state # "STOPPED"]_vars
    <2> SUFFICES ASSUME ServiceInv, [Next]_vars, Postgres,
                        pc = "messages", pc' = "work",
                        state = "STOPPED"
                 PROVE  FALSE
      OBVIOUS
    <2>1. ~Active
      BY DEF ServiceInv, StoppedInv, Active
    <2>2. Message
      BY DEF Next, Main, Handler, vars, At, Register, StartBegins, TakeLock, Reconnect,
             Connect, Verify, Loop, StepDecides, Claim, Bind, Renew, FetchCredential,
             MainStop, MainRelease, MainClose, HandlerStop, HandlerRelease,
             HandlerClose, HandlerFinal, Signal, LeaseLapses, LinkLost
    <2> QED
      BY <2>1, <2>2 DEF Message, At
  <1> QED
    BY <1>1, ServiceInvariant, PTL DEF Spec, NoWorkAfterStop
=============================================================================
