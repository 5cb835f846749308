-------------------------- MODULE WorkerLeaseProof --------------------------
(* Theorems of WorkerLease, for every value of its constants. *)
EXTENDS WorkerLease, TLAPS

USE LeaseAssumption DEF RowType, LeaseType, CallType

\* The configuration is already inside the RPCs' bounds, so the clamp the
\* server applies changes nothing and daemon and row agree on the grant.
LEMMA ClampIdentity ==
    /\ Clamp(Duration, MaxClaim) = Duration
    /\ Clamp(Extension, MaxExtend) = Extension
  BY DEF Clamp

LEMMA GrantBounds ==
    /\ Grant \in Nat /\ Duration <= Grant /\ Extension <= Grant
    /\ Duration \in Nat /\ Extension \in Nat
    /\ Duration > MaxLatency /\ Extension > MaxLatency
    /\ Span = Grant + MaxLatency
  BY DEF Grant, Span, Longest

\* The state a call leaves behind when the server answers it.
LEMMA AnsweredType ==
    ASSUME TypeOK, NEW p \in Process, NEW op \in Waiting,
           NEW ok \in BOOLEAN, NEW t \in Token \cup {NoToken}, Answered(p, op, ok, t)
    PROVE  /\ pc' \in [Process -> Points]
           /\ call' \in CallType
  BY DEF TypeOK, Answered, Goto, Waiting, Points

LEMMA RefusedType ==
    ASSUME TypeOK, NEW p \in Process, NEW op \in Waiting,
           Refused(p, op) \/ Aborted(p, op)
    PROVE  TypeOK'
  <1>1. Answered(p, op, FALSE, NoToken)
    BY DEF Refused, Aborted
  <1>2. /\ pc' \in [Process -> Points]
        /\ call' \in CallType
    BY <1>1, AnsweredType
  <1>3. CASE Refused(p, op)
    BY <1>2, <1>3 DEF TypeOK, Refused, env
  <1>4. CASE Aborted(p, op)
    BY <1>2, <1>4 DEF TypeOK, Aborted
  <1> QED
    BY <1>3, <1>4

LEMMA ClaimType ==
    ASSUME TypeOK, NEW p \in Process, ClaimWorkerLease(p)
    PROVE  TypeOK'
  <1>1. CASE Refused(p, "claim") \/ Aborted(p, "claim")
    BY <1>1, RefusedType DEF Waiting
  <1>2. CASE \E t \in Token \ InUse :
               /\ row' = [row EXCEPT !.token = t, !.ttl = Clamp(Duration, MaxClaim),
                                     !.actual = "RUNNING"]
               /\ Answered(p, "claim", TRUE, t)
               /\ UNCHANGED <<lease, link, env>>
    <2>1. PICK t \in Token :
               /\ row' = [row EXCEPT !.token = t, !.ttl = Clamp(Duration, MaxClaim),
                                     !.actual = "RUNNING"]
               /\ Answered(p, "claim", TRUE, t)
               /\ UNCHANGED <<lease, link, env>>
      BY <1>2
    <2>2. /\ pc' \in [Process -> Points]
          /\ call' \in CallType
      BY <2>1, AnsweredType DEF Waiting
    <2>3. row' \in RowType
      <3>1. Duration \in -1..MaxClaim
        OBVIOUS
      <3>2. row' = [row EXCEPT !.token = t, !.ttl = Duration, !.actual = "RUNNING"]
        BY <2>1, ClampIdentity
      <3> QED
        BY <3>1, <3>2 DEF TypeOK
    <2> QED
      BY <2>1, <2>2, <2>3 DEF TypeOK, env
  <1> QED
    BY <1>1, <1>2 DEF ClaimWorkerLease

LEMMA RenewType ==
    ASSUME TypeOK, NEW p \in Process, NEW op \in {"renew", "midrenew"},
           RenewWorkerLease(p, op)
    PROVE  TypeOK'
  <1>1. CASE Refused(p, op) \/ Aborted(p, op)
    BY <1>1, RefusedType DEF Waiting
  <1>2. CASE /\ row' = [row EXCEPT !.ttl = Clamp(Extension, MaxExtend)]
             /\ Answered(p, op, TRUE, NoToken)
             /\ UNCHANGED <<lease, link, env>>
    <2>1. /\ pc' \in [Process -> Points]
          /\ call' \in CallType
      BY <1>2, AnsweredType DEF Waiting
    <2>2. row' \in RowType
      BY <1>2, ClampIdentity DEF TypeOK
    <2> QED
      BY <1>2, <2>1, <2>2 DEF TypeOK, env
  <1> QED
    BY <1>1, <1>2 DEF RenewWorkerLease

\* A step that only moves one daemon's program counter.
LEMMA LocalType ==
    ASSUME TypeOK, NEW p \in Process, NEW point \in Points, Goto(p, point),
           UNCHANGED <<row, lease, call, link, env>>
    PROVE  TypeOK'
  BY DEF TypeOK, Goto, env

\* A step that consumes a reply and may rebind the daemon's lease.
LEMMA ReplyType ==
    ASSUME TypeOK, NEW p \in Process, NEW point \in Points, Goto(p, point),
           Reply(p),
           lease' \in LeaseType
    PROVE  TypeOK'
  <1>1. call' \in CallType
    BY DEF TypeOK, Reply, NoCall
  <1>2. pc' \in [Process -> Points]
    BY DEF TypeOK, Goto
  <1> QED
    BY <1>1, <1>2 DEF TypeOK, Reply, env

LEMMA RenewedType ==
    ASSUME TypeOK, NEW p \in Process
    PROVE  RenewedLease(p) \in LeaseType
  BY GrantBounds DEF TypeOK, RenewedLease

LEMMA ProgressType ==
    ASSUME TypeOK, NEW p \in Process, Progress(p)
    PROVE  TypeOK'
  <1> USE DEF Points
  <1>1. CASE StepLease(p)
    BY <1>1, LocalType, ClaimType DEF StepLease
  <1>2. CASE StepRenewal(p)
    BY <1>2, LocalType, RenewType DEF StepRenewal
  <1>3. CASE StepIdle(p)
    BY <1>3, LocalType DEF StepIdle
  <1>4. CASE StepPoll(p)
    <2>1. CASE Aborted(p, "credential")
      BY <2>1, RefusedType DEF Waiting
    <2>2. CASE /\ Answered(p, "credential", Authorised(p) /\ mailbox, NoToken)
               /\ UNCHANGED <<row, lease, link, env>>
      <3>1. (Authorised(p) /\ mailbox) \in BOOLEAN
        BY DEF Authorised, TypeOK
      <3>2. /\ pc' \in [Process -> Points]
            /\ call' \in CallType
        BY <2>2, <3>1, AnsweredType DEF Waiting
      <3> QED
        BY <2>2, <3>2 DEF TypeOK, env
    <2> QED
      BY <1>4, <2>1, <2>2 DEF StepPoll, FetchLeasedMailboxCredential
  <1>5. CASE ClaimReply(p)
    <2>1. lease' \in LeaseType
      <3>1. Duration - call[p].age \in 0..Grant /\ Duration - 0 \in 0..Grant
        BY GrantBounds DEF TypeOK
      <3> QED
        BY <1>5, <3>1, ClampIdentity DEF ClaimReply, TypeOK
    <2> QED
      BY <1>5, <2>1, ReplyType DEF ClaimReply
  <1>6. CASE RenewReply(p)
    BY <1>6, RenewedType, ReplyType DEF RenewReply
  <1>7. CASE CredentialReply(p)
    BY <1>7, ReplyType DEF CredentialReply, TypeOK
  <1>8. CASE MidRenewReply(p)
    BY <1>8, RenewedType, ReplyType DEF MidRenewReply
  <1>9. CASE PollMessage(p)
    BY <1>9, LocalType, RenewType DEF PollMessage
  <1>10. CASE MessageFetched(p) \/ MessageDone(p) \/ PollEnd(p) \/ Hang(p)
    BY <1>10, LocalType DEF MessageFetched, MessageDone, PollEnd, Hang
  <1>11. CASE ReleaseReply(p)
    <2>1. lease' \in LeaseType
      BY <1>11, GrantBounds DEF ReleaseReply, TypeOK, NoLease
    <2> QED
      BY <1>11, <2>1, ReplyType DEF ReleaseReply
  <1> QED
    BY <1>1, <1>2, <1>3, <1>4, <1>5, <1>6, <1>7, <1>8, <1>9, <1>10, <1>11 DEF Progress

LEMMA DisturbType ==
    ASSUME TypeOK, NEW p \in Process, Disturb(p)
    PROVE  TypeOK'
  <1>1. CASE Start(p)
    BY <1>1 DEF Start, Goto, Points, TypeOK, env
  <1>2. CASE Stop(p)
    <2>1. CASE Goto(p, "down") /\ UNCHANGED <<row, lease, call, link, env>>
      BY <2>1, LocalType DEF Points
    <2>2. CASE Refused(p, "release") \/ Aborted(p, "release")
      BY <2>2, RefusedType DEF Waiting
    <2>3. CASE /\ row' = [row EXCEPT !.token = NoToken, !.ttl = -1,
                     !.actual = IF row.desired = "RUNNING" THEN "STOPPED" ELSE @]
               /\ Answered(p, "release", TRUE, NoToken)
               /\ UNCHANGED <<lease, link, env>>
      <3>1. row' \in RowType
        <4>1. (IF row.desired = "RUNNING" THEN "STOPPED" ELSE row.actual)
                \in {"RUNNING", "STOPPED"}
          BY DEF TypeOK
        <4>2. -1 \in -1..MaxClaim
          OBVIOUS
        <4> QED
          BY <2>3, <4>1, <4>2 DEF TypeOK
      <3>2. /\ pc' \in [Process -> Points]
            /\ call' \in CallType
        BY <2>3, AnsweredType DEF Waiting
      <3> QED
        BY <2>3, <3>1, <3>2 DEF TypeOK, env
    <2> QED
      BY <1>2, <2>1, <2>2, <2>3 DEF Stop, ReleaseWorkerLease
  <1>3. CASE StopHangs(p)
    BY <1>3, LocalType DEF StopHangs, Points
  <1>4. CASE LinkLost(p)
    <2>1. call' \in CallType
      BY ZenonT(40), <1>4 DEF LinkLost, TypeOK
    <2>2. link' \in [Process -> BOOLEAN] /\ faults' \in 0..MaxFaults
      BY <1>4 DEF LinkLost, TypeOK
    <2> QED
      BY <1>4, <2>1, <2>2 DEF LinkLost, TypeOK
  <1>5. CASE Crash(p)
    <2>1. lease' \in LeaseType
      BY <1>5, GrantBounds DEF Crash, TypeOK, NoLease
    <2>2. call' \in CallType
      BY <1>5 DEF Crash, TypeOK, NoCall
    <2>3. pc' \in [Process -> Points] /\ link' \in [Process -> BOOLEAN]
      BY <1>5 DEF Crash, TypeOK, Goto, Points
    <2> QED
      BY <1>5, <2>1, <2>2, <2>3 DEF Crash, TypeOK
  <1> QED
    BY <1>1, <1>2, <1>3, <1>4, <1>5 DEF Disturb

LEMMA ControlPlaneType ==
    ASSUME TypeOK, ControlPlane
    PROVE  TypeOK'
  <1>1. \A state \in {"RUNNING", "STOPPED"} :
           /\ Unleased \in RowType
           /\ [Unleased EXCEPT !.desired = state] \in RowType
    <2>1. -1 \in -1..MaxClaim
      OBVIOUS
    <2>2. Unleased \in RowType
      BY <2>1 DEF Unleased, TypeOK
    <2> QED
      BY <2>2
  <1>2. CASE \E state \in {"RUNNING", "STOPPED"} : SetDesiredState(state)
    <2>1. PICK state \in {"RUNNING", "STOPPED"} : SetDesiredState(state)
      BY <1>2
    <2>2. row' \in RowType
      BY <2>1 DEF SetDesiredState, TypeOK
    <2>3. haltedFor' \in 0..HaltCap
      BY <2>1 DEF SetDesiredState, TypeOK
    <2> QED
      BY <2>1, <2>2, <2>3 DEF SetDesiredState, TypeOK, daemons
  <1>3. CASE \E active \in BOOLEAN : SetMailboxActive(active)
    BY <1>3 DEF SetMailboxActive, TypeOK, daemons
  <1>4. CASE SyncMailboxAndWorker \/ DeactivateMailbox \/ ForceReleaseWorkerLease
    <2>1. row' \in RowType
      BY <1>1, <1>4
         DEF SyncMailboxAndWorker, DeactivateMailbox, ForceReleaseWorkerLease
    <2>2. haltedFor' \in 0..HaltCap /\ mailbox' \in BOOLEAN
      <3>1. 0 \in 0..HaltCap
        OBVIOUS
      <3> QED
      BY <1>4, <3>1 DEF SyncMailboxAndWorker, DeactivateMailbox,
                  ForceReleaseWorkerLease, TypeOK
    <2> QED
      BY <1>4, <2>1, <2>2
         DEF SyncMailboxAndWorker, DeactivateMailbox, ForceReleaseWorkerLease,
             TypeOK, daemons
  <1> QED
    BY <1>2, <1>3, <1>4 DEF ControlPlane

LEMMA TickType ==
    ASSUME TypeOK, Tick
    PROVE  TypeOK'
  <1>1. row' \in RowType
    <2>1. Down(row.ttl, -1) \in -1..MaxClaim
      BY DEF TypeOK, Down
    <2> QED
      BY <2>1 DEF Tick, TypeOK
  <1>2. lease' \in LeaseType
    <2>1. \A n \in 0..Grant : Down(n, 0) \in 0..Grant
      BY GrantBounds DEF Down
    <2> QED
      BY ZenonT(40), <2>1 DEF Tick, TypeOK
  <1>3. call' \in CallType
    <2>1. SUFFICES ASSUME NEW p \in Process
                   PROVE  call'[p] \in [ok : BOOLEAN, token : Token \cup {NoToken},
                                        age : 0..MaxLatency]
      BY DEF Tick
    <2>2. CASE pc[p] \in Waiting
      <3>1. call[p].age + 1 \in 0..MaxLatency
        BY <2>2 DEF Tick, TypeOK
      <3>2. call[p] \in [ok : BOOLEAN, token : Token \cup {NoToken}, age : 0..MaxLatency]
        BY DEF TypeOK
      <3>3. call'[p] = [call[p] EXCEPT !.age = call[p].age + 1]
        BY <2>2 DEF Tick
      <3> QED
        BY <3>1, <3>2, <3>3
    <2>3. CASE pc[p] \notin Waiting
      BY <2>3 DEF Tick, TypeOK
    <2> QED
      BY <2>2, <2>3
  <1>4. haltedFor' \in 0..HaltCap
    BY DEF Tick, TypeOK
  <1> QED
    BY <1>1, <1>2, <1>3, <1>4 DEF Tick, TypeOK

LEMMA TypeInit == Init => TypeOK
  BY GrantBounds DEF Init, TypeOK, NoLease, NoCall, Points

LEMMA TypeStep == TypeOK /\ [Next]_vars => TypeOK'
  <1> SUFFICES ASSUME TypeOK, [Next]_vars PROVE TypeOK'
    OBVIOUS
  <1>1. CASE UNCHANGED vars
    BY <1>1 DEF TypeOK, vars
  <1> QED
    BY <1>1, ProgressType, DisturbType, ControlPlaneType, TickType DEF Next

\* TypeOK: every countdown stays inside the grants the RPCs can hand out.
THEOREM TypeCorrect == Spec => []TypeOK
  BY TypeInit, TypeStep, PTL DEF Spec

-----------------------------------------------------------------------------
\* A daemon's step leaves every other daemon and the control plane alone.
SameDaemon(q) == lease'[q] = lease[q] /\ call'[q] = call[q] /\ pc'[q] = pc[q]

OthersSame(p) ==
    /\ haltedFor' = haltedFor
    /\ row'.desired = row.desired
    /\ \A q \in Process \ {p} : SameDaemon(q)

\* The four RPCs never touch a lease in memory, and a renewal or a claim that
\* the server answers with ok is one it granted while desired_state was RUNNING.
LEMMA CallFrame ==
    ASSUME TypeOK, NEW p \in Process,
           \/ ClaimWorkerLease(p)
           \/ RenewWorkerLease(p, "renew")
           \/ RenewWorkerLease(p, "midrenew")
           \/ FetchLeasedMailboxCredential(p)
           \/ ReleaseWorkerLease(p)
    PROVE  /\ OthersSame(p)
           /\ lease' = lease
           /\ pc'[p] \in Waiting
           /\ call'[p].ok /\ pc'[p] \in Extending => row.desired = "RUNNING"
  <1> USE DEF OthersSame, SameDaemon, Refused, Aborted, Answered, Goto, env
  <1>1. CASE ClaimWorkerLease(p)
    <2>1. ASSUME Claimable, NEW t \in Token \ InUse,
                 row' = [row EXCEPT !.token = t, !.ttl = Clamp(Duration, MaxClaim),
                                    !.actual = "RUNNING"],
                 Answered(p, "claim", TRUE, t), UNCHANGED <<lease, link, env>>
          PROVE  /\ OthersSame(p)
                 /\ lease' = lease
                 /\ pc'[p] \in Waiting
                 /\ row.desired = "RUNNING"
      <3>1. row'.desired = row.desired
        BY <2>1 DEF TypeOK
      <3> QED
        BY <2>1, <3>1 DEF Claimable, TypeOK, Waiting
    <2>2. CASE Refused(p, "claim") \/ Aborted(p, "claim")
      BY <2>2 DEF TypeOK, Waiting
    <2> QED
      <3> HIDE DEF OthersSame, Answered
      <3> QED
        BY <1>1, <2>1, <2>2 DEF ClaimWorkerLease
  <1>2. ASSUME NEW op \in {"renew", "midrenew"}, RenewWorkerLease(p, op)
        PROVE  /\ OthersSame(p)
               /\ lease' = lease
               /\ pc'[p] \in Waiting
               /\ call'[p].ok /\ pc'[p] \in Extending => row.desired = "RUNNING"
    <2>1. CASE Authorised(p)
      BY <1>2, <2>1 DEF RenewWorkerLease, Authorised, TypeOK, Waiting
    <2>2. CASE Refused(p, op) \/ Aborted(p, op)
      BY <2>2 DEF TypeOK, Waiting
    <2> QED
      BY <1>2, <2>1, <2>2 DEF RenewWorkerLease
  <1>3. CASE FetchLeasedMailboxCredential(p)
    BY <1>3 DEF FetchLeasedMailboxCredential, TypeOK, Extending, Waiting
  <1>4. CASE ReleaseWorkerLease(p)
    BY <1>4 DEF ReleaseWorkerLease, TypeOK, Extending, Waiting
  <1> QED
    BY <1>1, <1>2, <1>3, <1>4

\* HaltInv survives a step of p that keeps p's own clauses.
LEMMA HaltFrame ==
    ASSUME HaltInv, NEW p \in Process, OthersSame(p),
           lease'[p].ttl > 0 => lease'[p].ttl + haltedFor <= Span,
           call'[p].ok /\ pc'[p] \in Extending => haltedFor <= call'[p].age
    PROVE  HaltInv'
  BY DEF HaltInv, OthersSame, SameDaemon

\* A call leaves the daemon's clock alone, and one that extends the lease was
\* answered while nothing was halted.
LEMMA HaltCall ==
    ASSUME TypeOK, HaltInv, NEW p \in Process, OthersSame(p), lease' = lease, TypeOK',
           call'[p].ok /\ pc'[p] \in Extending => row.desired = "RUNNING"
    PROVE  HaltInv'
  <1>1. call'[p].ok /\ pc'[p] \in Extending => haltedFor <= call'[p].age
    BY DEF HaltInv, TypeOK
  <1>2. lease'[p].ttl > 0 => lease'[p].ttl + haltedFor <= Span
    BY DEF HaltInv
  <1> QED
    BY <1>1, <1>2, HaltFrame

\* A step that only moves p's program counter, outside a call.
LEMMA HaltLocal ==
    ASSUME TypeOK, HaltInv, NEW p \in Process, NEW point \in Points \ Waiting,
           Goto(p, point), UNCHANGED <<row, lease, call, link, env>>
    PROVE  HaltInv'
  <1>1. OthersSame(p) /\ pc'[p] \notin Extending
    BY DEF OthersSame, SameDaemon, Goto, TypeOK, env, Waiting, Extending
  <1>2. lease'[p].ttl > 0 => lease'[p].ttl + haltedFor <= Span
    BY DEF HaltInv
  <1> QED
    BY <1>1, <1>2, HaltFrame

\* A step that consumes p's reply: only the new countdown is in question.
LEMMA HaltReply ==
    ASSUME TypeOK, HaltInv, NEW p \in Process, NEW point \in Points, Goto(p, point),
           Reply(p), \A q \in Process \ {p} : lease'[q] = lease[q],
           lease'[p].ttl > 0 => lease'[p].ttl + haltedFor <= Span
    PROVE  HaltInv'
  <1>1. OthersSame(p)
    BY DEF OthersSame, SameDaemon, Reply, Goto, TypeOK, env
  <1>2. ~call'[p].ok
    BY DEF Reply, NoCall, TypeOK
  <1> QED
    BY <1>1, <1>2, HaltFrame

\* A renewal that succeeded was granted before the halt, one reply ago.
LEMMA HaltRenewed ==
    ASSUME TypeOK, HaltInv, NEW p \in Process, pc[p] \in {"renew", "midrenew"},
           lease' = RenewedLease(p)
    PROVE  /\ \A q \in Process \ {p} : lease'[q] = lease[q]
           /\ lease'[p].ttl > 0 => lease'[p].ttl + haltedFor <= Span
  <1>1. CASE call[p].ok
    <2>1. haltedFor <= call[p].age
      BY <1>1 DEF HaltInv, Extending
    <2>2. lease'[p].ttl = Extension /\ \A q \in Process \ {p} : lease'[q] = lease[q]
      BY <1>1 DEF RenewedLease, TypeOK
    <2> QED
      BY <2>1, <2>2, GrantBounds DEF TypeOK
  <1>2. CASE ~call[p].ok
    BY <1>2 DEF RenewedLease, HaltInv
  <1> QED
    BY <1>1, <1>2

LEMMA HaltProgress ==
    ASSUME TypeOK, HaltInv, NEW p \in Process, Progress(p)
    PROVE  HaltInv'
  <1> USE DEF Points, Waiting
  <1>0. TypeOK'
    BY ProgressType
  <1>1. CASE StepLease(p)
    BY <1>0, <1>1, HaltLocal, CallFrame, HaltCall DEF StepLease
  <1>2. CASE StepRenewal(p)
    BY <1>0, <1>2, HaltLocal, CallFrame, HaltCall DEF StepRenewal
  <1>3. CASE StepIdle(p) \/ MessageFetched(p) \/ MessageDone(p) \/ PollEnd(p) \/ Hang(p)
    BY <1>3, HaltLocal DEF StepIdle, MessageFetched, MessageDone, PollEnd, Hang
  <1>4. CASE StepPoll(p)
    BY <1>0, <1>4, CallFrame, HaltCall DEF StepPoll
  <1>5. CASE ClaimReply(p)
    <2>1. CASE call[p].ok
      <3>1. haltedFor <= call[p].age
        BY <1>5, <2>1 DEF HaltInv, Extending, ClaimReply
      <3>2. /\ lease'[p].ttl <= Duration
            /\ \A q \in Process \ {p} : lease'[q] = lease[q]
        BY <1>5, <2>1, ClampIdentity, GrantBounds DEF ClaimReply, TypeOK
      <3>3. lease'[p].ttl + haltedFor <= Span
        BY <1>0, <3>1, <3>2, GrantBounds DEF TypeOK
      <3> QED
        BY <1>5, <2>1, <3>2, <3>3, HaltReply DEF ClaimReply
    <2>2. CASE ~call[p].ok
      <3>1. \A q \in Process : lease'[q] = lease[q]
        BY <1>5, <2>2 DEF ClaimReply
      <3>2. lease'[p].ttl > 0 => lease'[p].ttl + haltedFor <= Span
        BY <3>1 DEF HaltInv
      <3> QED
        BY <1>5, <2>2, <3>1, <3>2, HaltReply DEF ClaimReply
    <2> QED
      BY <2>1, <2>2
  <1>6. CASE RenewReply(p)
    BY <1>6, HaltRenewed, HaltReply DEF RenewReply
  <1>7. CASE MidRenewReply(p)
    BY <1>7, HaltRenewed, HaltReply DEF MidRenewReply
  <1>8. CASE CredentialReply(p)
    <2>1. lease'[p].ttl > 0 => lease'[p].ttl + haltedFor <= Span
      BY <1>8 DEF HaltInv, CredentialReply
    <2> QED
      BY <1>8, <2>1, HaltReply DEF CredentialReply
  <1>9. CASE PollMessage(p)
    BY <1>0, <1>9, HaltLocal, CallFrame, HaltCall DEF PollMessage
  <1>10. CASE ReleaseReply(p)
    <2>1. lease'[p].ttl = 0 /\ \A q \in Process \ {p} : lease'[q] = lease[q]
      BY <1>10 DEF ReleaseReply, NoLease, TypeOK
    <2> QED
      BY <1>10, <2>1, HaltReply DEF ReleaseReply
  <1> QED
    BY <1>1, <1>2, <1>3, <1>4, <1>5, <1>6, <1>7, <1>8, <1>9, <1>10 DEF Progress

LEMMA HaltDisturb ==
    ASSUME TypeOK, HaltInv, NEW p \in Process, Disturb(p)
    PROVE  HaltInv'
  <1> USE DEF Points, Waiting
  <1>0. TypeOK'
    BY DisturbType
  <1>1. CASE Start(p)
    BY <1>1, HaltFrame DEF Start, Goto, HaltInv, OthersSame, SameDaemon, Extending, TypeOK, env
  <1>2. CASE Stop(p)
    BY <1>0, <1>2, HaltLocal, CallFrame, HaltCall DEF Stop
  <1>3. CASE StopHangs(p)
    BY <1>3, HaltLocal DEF StopHangs
  <1>4. CASE LinkLost(p)
    <2>1. OthersSame(p) /\ lease' = lease /\ ~call'[p].ok
      BY <1>4 DEF LinkLost, OthersSame, SameDaemon, TypeOK
    <2> QED
      BY <1>0, <2>1, HaltCall
  <1>5. CASE Crash(p)
    <2>1. OthersSame(p) /\ lease'[p].ttl = 0 /\ ~call'[p].ok
      BY <1>5 DEF Crash, OthersSame, SameDaemon, Goto, TypeOK, NoLease, NoCall
    <2> QED
      BY <2>1, HaltFrame
  <1> QED
    BY <1>1, <1>2, <1>3, <1>4, <1>5 DEF Disturb

LEMMA HaltControl ==
    ASSUME TypeOK, HaltInv, ControlPlane
    PROVE  HaltInv'
  <1> USE DEF daemons
  <1>1. CASE \E state \in {"RUNNING", "STOPPED"} : SetDesiredState(state)
    <2>1. PICK state \in {"RUNNING", "STOPPED"} : SetDesiredState(state)
      BY <1>1
    <2>2. /\ row'.desired = state
          /\ haltedFor' = IF state = "RUNNING" THEN 0 ELSE haltedFor
          /\ UNCHANGED <<pc, lease, call>>
      BY <2>1 DEF SetDesiredState, TypeOK
    <2>3. haltedFor' <= haltedFor
      BY <2>2 DEF TypeOK
    <2> QED
      BY <2>2, <2>3, GrantBounds DEF HaltInv, TypeOK
  <1>2. CASE \E active \in BOOLEAN : SetMailboxActive(active)
    BY <1>2 DEF SetMailboxActive, HaltInv
  <1>3. CASE SyncMailboxAndWorker
    <2>1. haltedFor' = 0 /\ UNCHANGED <<pc, lease, call>>
      BY <1>3 DEF SyncMailboxAndWorker
    <2>2. haltedFor' <= haltedFor
      BY <2>1 DEF TypeOK
    <2> QED
      BY <2>1, <2>2, GrantBounds DEF HaltInv, TypeOK
  <1>4. CASE DeactivateMailbox \/ ForceReleaseWorkerLease
    <2>1. UNCHANGED <<pc, lease, call, haltedFor>>
      BY <1>4 DEF DeactivateMailbox, ForceReleaseWorkerLease
    <2>2. row'.desired = "RUNNING" => row.desired = "RUNNING"
      BY <1>4 DEF DeactivateMailbox, ForceReleaseWorkerLease, Unleased, TypeOK
    <2> QED
      BY <2>1, <2>2 DEF HaltInv
  <1> QED
    BY <1>1, <1>2, <1>3, <1>4 DEF ControlPlane

LEMMA HaltTick ==
    ASSUME TypeOK, HaltInv, Tick
    PROVE  HaltInv'
  <1>1. row'.desired = row.desired /\ UNCHANGED pc
    BY DEF Tick, TypeOK
  <1>2. /\ haltedFor' <= haltedFor + 1
        /\ haltedFor' \in 0..HaltCap
        /\ row.desired = "RUNNING" => haltedFor' = haltedFor
    BY DEF Tick, TypeOK
  <1>3. ASSUME NEW p \in Process
        PROVE  lease'[p].ttl > 0 => lease'[p].ttl + haltedFor' <= Span
    <2>1. lease'[p].ttl = Down(lease[p].ttl, 0)
      BY DEF Tick, TypeOK
    <2> QED
      BY <1>2, <2>1, GrantBounds DEF HaltInv, TypeOK, Down
  <1>4. ASSUME NEW p \in Process, call'[p].ok, pc'[p] \in Extending
        PROVE  haltedFor' <= call'[p].age
    <2>1. call[p].ok /\ call'[p].age = call[p].age + 1
      BY <1>1, <1>4 DEF Tick, TypeOK, Extending, Waiting
    <2> QED
      BY <1>1, <1>2, <1>4, <2>1 DEF HaltInv, TypeOK
  <1> QED
    BY <1>1, <1>2, <1>3, <1>4 DEF HaltInv

LEMMA HaltInductive == TypeOK /\ HaltInv /\ [Next]_vars => HaltInv'
  <1> SUFFICES ASSUME TypeOK, HaltInv, [Next]_vars PROVE HaltInv'
    OBVIOUS
  <1>1. CASE UNCHANGED vars
    BY <1>1 DEF HaltInv, vars
  <1> QED
    BY <1>1, HaltProgress, HaltDisturb, HaltControl, HaltTick DEF Next

\* HaltBound: however the daemons, the network and the control plane behave,
\* a daemon told to stop takes no message later than the longest lease plus
\* one reply, in both dialects of the claim RPC and with the local database.
THEOREM HaltBounded == Spec => []HaltBound
  <1>1. Init => HaltInv
    BY DEF Init, HaltInv, NoLease, NoCall
  <1>2. TypeOK /\ HaltInv => HaltBound
    BY GrantBounds DEF TypeOK, HaltInv, HaltBound, Active
  <1> QED
    BY <1>1, <1>2, TypeInit, TypeStep, HaltInductive, PTL DEF Spec

-----------------------------------------------------------------------------
(* The overlap of two daemons, for the phase 4 claim RPC and a control plane *)
(* that writes desired_state only.                                           *)

Exclusive == ~OwnerReclaims /\ ~LocalPlane /\ Threshold <= Extension

SameLease == row'.token = row.token /\ row'.ttl = row.ttl

\* Tokens can be dropped without making two bearers of one token.
LEMMA TokensKept ==
    ASSUME TokensDistinct,
           \A q \in Process : /\ lease'[q].token \in {lease[q].token, NoToken}
                              /\ call'[q].token \in {call[q].token, NoToken}
    PROVE  TokensDistinct'
  BY DEF TokensDistinct

\* OverlapInv survives a step of p that leaves the row's lease alone.
LEMMA OverlapFrame ==
    ASSUME OverlapInv, NEW p \in Process, OthersSame(p), SameLease,
           TokensDistinct', InFlight(p)', Clock(p)'
    PROVE  OverlapInv'
  BY DEF OverlapInv, OthersSame, SameDaemon, SameLease, InFlight, Clock, Serving, Active

\* A step that only moves p's program counter, outside a call.
LEMMA OverlapLocal ==
    ASSUME TypeOK, OverlapInv, NEW p \in Process, NEW point \in Points \ Waiting,
           pc[p] # "release", Goto(p, point), UNCHANGED <<row, lease, call, link, env>>
    PROVE  OverlapInv'
  <1>1. OthersSame(p) /\ SameLease /\ pc'[p] = point
    BY DEF OthersSame, SameDaemon, SameLease, Goto, TypeOK, env
  <1>2. TokensDistinct'
    BY TokensKept DEF OverlapInv
  <1>3. InFlight(p)'
    BY <1>1 DEF InFlight, Waiting
  <1>4. Clock(p)'
    BY <1>1 DEF OverlapInv, Clock, Serving, Active, SameLease
  <1> QED
    BY <1>1, <1>2, <1>3, <1>4, OverlapFrame

\* A call the server refuses or aborts.
LEMMA OverlapRefused ==
    ASSUME TypeOK, OverlapInv, NEW p \in Process, NEW op \in Waiting,
           pc[p] # "release", Refused(p, op) \/ Aborted(p, op)
    PROVE  OverlapInv'
  <1>1. /\ OthersSame(p) /\ SameLease /\ lease' = lease /\ pc'[p] = op
        /\ ~call'[p].ok /\ call'[p].token = NoToken
    BY DEF OthersSame, SameDaemon, SameLease, Refused, Aborted, Answered, Goto, TypeOK, env
  <1>2. TokensDistinct'
    BY <1>1, TokensKept DEF OverlapInv, OthersSame, SameDaemon
  <1>3. InFlight(p)' /\ Clock(p)'
    BY <1>1 DEF OverlapInv, InFlight, Clock, Serving, Active, SameLease
  <1> QED
    BY <1>1, <1>2, <1>3, OverlapFrame

\* A claim is granted only when nobody's lease is live in the row; whoever
\* still believes in the old one is within MaxLatency of its own expiry.
LEMMA OverlapClaim ==
    ASSUME Exclusive, TypeOK, OverlapInv, NEW p \in Process, pc[p] # "release",
           ~Active(p), ClaimWorkerLease(p)
    PROVE  OverlapInv'
  <1>1. CASE Refused(p, "claim") \/ Aborted(p, "claim")
    BY <1>1, OverlapRefused DEF Waiting
  <1>2. ASSUME Claimable, NEW t \in Token \ InUse,
               row' = [row EXCEPT !.token = t, !.ttl = Clamp(Duration, MaxClaim),
                                  !.actual = "RUNNING"],
               Answered(p, "claim", TRUE, t), UNCHANGED <<lease, link, env>>
        PROVE  OverlapInv'
    <2>1. row'.token = t /\ row'.ttl = Duration /\ t # NoToken
      BY <1>2, ClampIdentity DEF TypeOK
    <2>2. /\ call'[p] = [ok |-> TRUE, token |-> t, age |-> 0] /\ pc'[p] = "claim"
          /\ \A q \in Process \ {p} : SameDaemon(q)
      BY <1>2 DEF Answered, Goto, SameDaemon, TypeOK
    <2>3. \A q \in Process : lease[q].token # t /\ call[q].token # t
      BY <1>2 DEF InUse
    <2>4. TokensDistinct'
      BY <1>2, <2>2, <2>3 DEF OverlapInv, TokensDistinct, SameDaemon
    <2>5. InFlight(p)' /\ Clock(p)'
      BY <1>2, <2>1, <2>2, GrantBounds DEF InFlight, Clock, Serving, Active
    <2>6. ASSUME NEW q \in Process \ {p}
          PROVE  InFlight(q)' /\ Clock(q)'
      <3>1. row.token = NoToken \/ row.ttl < 0
        BY <1>2 DEF Claimable, Expired, Exclusive
      <3>2. InFlight(q)'
        BY <2>2, <2>6, <3>1, GrantBounds DEF OverlapInv, InFlight, SameDaemon, TypeOK
      <3>3. Serving(q) => lease[q].ttl <= MaxLatency
        BY <2>6, <3>1 DEF OverlapInv, Clock, Serving, Active, TypeOK
      <3>4. Clock(q)'
        BY <2>1, <2>2, <2>3, <2>6, <3>3 DEF Clock, Serving, Active, SameDaemon
      <3> QED
        BY <3>2, <3>4
    <2> QED
      BY <2>4, <2>5, <2>6 DEF OverlapInv
  <1> QED
    BY <1>1, <1>2 DEF ClaimWorkerLease

\* A renewal touches only its own daemon's lease, and while Threshold does not
\* exceed Extension it never shortens it.
LEMMA OverlapRenew ==
    ASSUME Exclusive, TypeOK, OverlapInv, NEW p \in Process, pc[p] # "release",
           NearExpiry(p), NEW op \in {"renew", "midrenew"}, RenewWorkerLease(p, op)
    PROVE  OverlapInv'
  <1>1. CASE Refused(p, op) \/ Aborted(p, op)
    BY <1>1, OverlapRefused DEF Waiting
  <1>2. ASSUME Authorised(p),
               row' = [row EXCEPT !.ttl = Clamp(Extension, MaxExtend)],
               Answered(p, op, TRUE, NoToken), UNCHANGED <<lease, link, env>>
        PROVE  OverlapInv'
    <2>1. row'.token = row.token /\ row'.ttl = Extension
      BY <1>2, ClampIdentity DEF TypeOK
    <2>2. /\ call'[p] = [ok |-> TRUE, token |-> NoToken, age |-> 0] /\ pc'[p] = op
          /\ \A q \in Process \ {p} : SameDaemon(q)
      BY <1>2 DEF Answered, Goto, SameDaemon, TypeOK
    <2>3. TokensDistinct'
      BY <1>2, <2>2, TokensKept DEF OverlapInv, SameDaemon
    <2>4. lease[p].token # NoToken /\ lease[p].token = row.token
      BY <1>2 DEF Authorised
    <2>5. InFlight(p)'
      BY <1>2, <2>1, <2>2, <2>4, GrantBounds DEF InFlight
    <2>6. Clock(p)'
      BY <1>2, <2>1, <2>4 DEF Exclusive, Clock, Serving, Active, NearExpiry, TypeOK
    <2>7. ASSUME NEW q \in Process \ {p}
          PROVE  InFlight(q)' /\ Clock(q)'
      BY <2>1, <2>2, <2>4, <2>7
         DEF OverlapInv, TokensDistinct, InFlight, Clock, Serving, Active, SameDaemon
    <2> QED
      BY <2>3, <2>5, <2>6, <2>7 DEF OverlapInv
  <1> QED
    BY <1>1, <1>2 DEF RenewWorkerLease

LEMMA OverlapFetch ==
    ASSUME TypeOK, OverlapInv, NEW p \in Process, pc[p] # "release",
           FetchLeasedMailboxCredential(p)
    PROVE  OverlapInv'
  <1>1. /\ OthersSame(p) /\ SameLease /\ lease' = lease
        /\ pc'[p] = "credential" /\ call'[p].token = NoToken
    BY DEF FetchLeasedMailboxCredential, OthersSame, SameDaemon, SameLease,
           Aborted, Answered, Goto, TypeOK, env
  <1>2. TokensDistinct'
    BY <1>1, TokensKept DEF OverlapInv, OthersSame, SameDaemon
  <1>3. InFlight(p)' /\ Clock(p)'
    BY <1>1 DEF OverlapInv, InFlight, Clock, Serving, Active, SameLease
  <1> QED
    BY <1>1, <1>2, <1>3, OverlapFrame

\* Only the bearer of the row's token can release it.
LEMMA OverlapRelease ==
    ASSUME Exclusive, TypeOK, OverlapInv, NEW p \in Process, pc[p] # "release",
           lease[p].token # NoToken, ReleaseWorkerLease(p)
    PROVE  OverlapInv'
  <1>1. CASE Refused(p, "release") \/ Aborted(p, "release")
    BY <1>1, OverlapRefused DEF Waiting
  <1>2. ASSUME lease[p].token = row.token,
               row' = [row EXCEPT !.token = NoToken, !.ttl = -1,
                     !.actual = IF row.desired = "RUNNING" THEN "STOPPED" ELSE @],
               Answered(p, "release", TRUE, NoToken), UNCHANGED <<lease, link, env>>
        PROVE  OverlapInv'
    <2>1. row'.token = NoToken
      BY <1>2 DEF TypeOK
    <2>2. /\ call'[p].token = NoToken /\ pc'[p] = "release"
          /\ \A q \in Process \ {p} : SameDaemon(q)
      BY <1>2 DEF Answered, Goto, SameDaemon, TypeOK
    <2>3. TokensDistinct'
      BY <1>2, <2>2, TokensKept DEF OverlapInv, SameDaemon
    <2>4. InFlight(p)' /\ Clock(p)'
      BY <2>2 DEF InFlight, Clock, Serving
    <2>5. ASSUME NEW q \in Process \ {p}
          PROVE  InFlight(q)' /\ Clock(q)'
      BY <1>2, <2>1, <2>2, <2>5
         DEF OverlapInv, TokensDistinct, InFlight, Clock, Serving, Active, SameDaemon
    <2> QED
      BY <2>3, <2>4, <2>5 DEF OverlapInv
  <1> QED
    BY <1>1, <1>2 DEF ReleaseWorkerLease

\* A step that consumes p's reply: tokens and p's new clock are in question.
LEMMA OverlapReply ==
    ASSUME TypeOK, OverlapInv, NEW p \in Process, NEW point \in Points,
           Goto(p, point), Reply(p), \A q \in Process \ {p} : lease'[q] = lease[q],
           TokensDistinct', Clock(p)'
    PROVE  OverlapInv'
  <1>1. OthersSame(p) /\ SameLease
    BY DEF OthersSame, SameDaemon, SameLease, Reply, Goto, TypeOK, env
  <1>2. InFlight(p)'
    BY DEF InFlight, Reply, NoCall, TypeOK
  <1> QED
    BY <1>1, <1>2, OverlapFrame

LEMMA OverlapClaimReply ==
    ASSUME TypeOK, OverlapInv, NEW p \in Process, ClaimReply(p)
    PROVE  OverlapInv'
  <1>1. /\ call'[p].token = NoToken
        /\ \A q \in Process \ {p} : call'[q] = call[q]
        /\ row' = row
    BY DEF ClaimReply, Reply, NoCall, TypeOK, env
  <1>2. CASE call[p].ok
    <2>1. /\ lease'[p].token = call[p].token
          /\ lease'[p].ttl <= Duration
          /\ \A q \in Process \ {p} : lease'[q] = lease[q]
          /\ Goto(p, "leased")
      BY <1>2, ClampIdentity, GrantBounds DEF ClaimReply, TypeOK
    <2>2. TokensDistinct'
      BY <1>1, <2>1 DEF OverlapInv, TokensDistinct
    <2>3. call[p].token = row.token /\ row.ttl >= Duration - call[p].age
      BY <1>2 DEF OverlapInv, InFlight, ClaimReply
    <2>4. Clock(p)'
      <3>1. lease'[p].ttl \in Int
        BY ProgressType DEF Progress, TypeOK
      <3> QED
        BY <1>1, <2>1, <2>3, <3>1, GrantBounds DEF Clock, TypeOK
    <2> QED
      BY <1>2, <2>1, <2>2, <2>4, OverlapReply DEF ClaimReply, Points
  <1>3. CASE ~call[p].ok
    <2>1. lease' = lease /\ Goto(p, "loop")
      BY <1>3 DEF ClaimReply
    <2>2. TokensDistinct'
      BY <1>1, <2>1, TokensKept DEF OverlapInv
    <2>3. Clock(p)'
      BY <1>1, <2>1 DEF OverlapInv, Clock, Serving, Active, ClaimReply
    <2> QED
      BY <2>1, <2>2, <2>3, OverlapReply DEF ClaimReply, Points
  <1> QED
    BY <1>2, <1>3

\* A renewal's reply, in the loop or in the middle of a poll.
LEMMA OverlapRenewReply ==
    ASSUME TypeOK, OverlapInv, NEW p \in Process, pc[p] \in {"renew", "midrenew"},
           NEW point \in Points, Goto(p, point), Reply(p), lease' = RenewedLease(p)
    PROVE  OverlapInv'
  <1>1. /\ \A q \in Process \ {p} : lease'[q] = lease[q]
        /\ lease'[p].token = lease[p].token
        /\ IF call[p].ok THEN lease'[p].ttl = Extension ELSE lease'[p].ttl = lease[p].ttl
    BY DEF RenewedLease, TypeOK
  <1>2. row' = row /\ \A q \in Process : call'[q].token \in {call[q].token, NoToken}
    BY DEF Reply, NoCall, TypeOK
  <1>3. TokensDistinct'
    BY <1>1, <1>2, TokensKept DEF OverlapInv
  <1>4. CASE call[p].ok
    <2>1. lease[p].token = row.token /\ row.ttl >= Extension - call[p].age
      BY <1>4 DEF OverlapInv, InFlight
    <2>2. Clock(p)'
      BY <1>1, <1>2, <1>4, <2>1, GrantBounds DEF Clock, TypeOK
    <2> QED
      BY <1>1, <1>3, <2>2, OverlapReply
  <1>5. CASE ~call[p].ok
    <2>1. Clock(p)'
      BY <1>1, <1>2, <1>5 DEF OverlapInv, Clock, Serving, Active
    <2> QED
      BY <1>1, <1>3, <2>1, OverlapReply
  <1> QED
    BY <1>4, <1>5

\* The daemon forgets its lease: after a release, or in a crash.
LEMMA OverlapForget ==
    ASSUME TypeOK, OverlapInv, NEW p \in Process, OthersSame(p), SameLease,
           lease'[p] = NoLease, call'[p] = NoCall
    PROVE  OverlapInv'
  <1>1. TokensDistinct'
    BY TokensKept DEF OverlapInv, OthersSame, SameDaemon, NoLease, NoCall
  <1>2. InFlight(p)' /\ Clock(p)'
    BY DEF InFlight, Clock, Serving, Active, NoLease, NoCall
  <1> QED
    BY <1>1, <1>2, OverlapFrame

LEMMA OverlapProgress ==
    ASSUME Exclusive, TypeOK, OverlapInv, NEW p \in Process, Progress(p)
    PROVE  OverlapInv'
  <1> USE DEF Points, Waiting
  <1>1. CASE StepLease(p)
    BY <1>1, OverlapLocal, OverlapClaim DEF StepLease
  <1>2. CASE StepRenewal(p)
    BY <1>2, OverlapLocal, OverlapRenew DEF StepRenewal
  <1>3. CASE StepIdle(p) \/ MessageFetched(p) \/ MessageDone(p) \/ PollEnd(p) \/ Hang(p)
    BY <1>3, OverlapLocal DEF StepIdle, MessageFetched, MessageDone, PollEnd, Hang
  <1>4. CASE StepPoll(p)
    BY <1>4, OverlapFetch DEF StepPoll
  <1>5. CASE ClaimReply(p)
    BY <1>5, OverlapClaimReply
  <1>6. CASE RenewReply(p)
    BY <1>6, OverlapRenewReply DEF RenewReply
  <1>7. CASE MidRenewReply(p)
    BY <1>7, OverlapRenewReply DEF MidRenewReply
  <1>8. CASE CredentialReply(p)
    <2>1. row' = row /\ lease' = lease
      BY <1>8 DEF CredentialReply, Reply
    <2>2. TokensDistinct'
      BY <1>8, <2>1, TokensKept DEF OverlapInv, CredentialReply, Reply, NoCall, TypeOK
    <2>3. Clock(p)'
      BY <1>8, <2>1 DEF OverlapInv, Clock, Serving, Active, CredentialReply
    <2> QED
      BY <1>8, <2>1, <2>2, <2>3, OverlapReply DEF CredentialReply
  <1>9. CASE PollMessage(p)
    BY <1>9, OverlapLocal, OverlapRenew DEF PollMessage
  <1>10. CASE ReleaseReply(p)
    BY <1>10, OverlapForget
       DEF ReleaseReply, Reply, OthersSame, SameDaemon, SameLease, Goto, TypeOK, env
  <1> QED
    BY <1>1, <1>2, <1>3, <1>4, <1>5, <1>6, <1>7, <1>8, <1>9, <1>10 DEF Progress

LEMMA OverlapDisturb ==
    ASSUME Exclusive, TypeOK, OverlapInv, NEW p \in Process, Disturb(p)
    PROVE  OverlapInv'
  <1> USE DEF Points, Waiting
  <1>1. CASE Start(p)
    <2>1. OthersSame(p) /\ SameLease /\ lease' = lease /\ call' = call /\ pc'[p] = "loop"
      BY <1>1 DEF Start, Goto, OthersSame, SameDaemon, SameLease, TypeOK, env
    <2>2. TokensDistinct'
      BY <2>1, TokensKept DEF OverlapInv
    <2>3. InFlight(p)' /\ Clock(p)'
      BY <1>1, <2>1 DEF OverlapInv, Start, InFlight, Clock, Serving, Active, SameLease
    <2> QED
      BY <2>1, <2>2, <2>3, OverlapFrame
  <1>2. CASE Stop(p)
    BY <1>2, OverlapLocal, OverlapRelease DEF Stop
  <1>3. CASE StopHangs(p)
    BY <1>3, OverlapLocal DEF StopHangs
  <1>4. CASE LinkLost(p)
    <2>1. /\ OthersSame(p) /\ SameLease /\ lease' = lease /\ pc' = pc
          /\ ~call'[p].ok /\ call'[p].token = call[p].token
      BY <1>4 DEF LinkLost, OthersSame, SameDaemon, SameLease, TypeOK
    <2>2. TokensDistinct'
      BY <2>1, TokensKept DEF OverlapInv, OthersSame, SameDaemon
    <2>3. InFlight(p)' /\ Clock(p)'
      BY <2>1 DEF OverlapInv, InFlight, Clock, Serving, Active, SameLease
    <2> QED
      BY <2>1, <2>2, <2>3, OverlapFrame
  <1>5. CASE Crash(p)
    BY <1>5, OverlapForget
       DEF Crash, OthersSame, SameDaemon, SameLease, Goto, TypeOK
  <1> QED
    BY <1>1, <1>2, <1>3, <1>4, <1>5 DEF Disturb

LEMMA OverlapControl ==
    ASSUME Exclusive, TypeOK, OverlapInv, ControlPlane
    PROVE  OverlapInv'
  <1>1. SameLease /\ UNCHANGED <<pc, lease, call>>
    BY DEF ControlPlane, SetDesiredState, SetMailboxActive, SyncMailboxAndWorker,
           DeactivateMailbox, ForceReleaseWorkerLease, Exclusive, SameLease, daemons, TypeOK
  <1> QED
    BY <1>1 DEF OverlapInv, TokensDistinct, InFlight, Clock, Serving, Active, SameLease

LEMMA OverlapTick ==
    ASSUME TypeOK, OverlapInv, Tick
    PROVE  OverlapInv'
  <1>1. row'.token = row.token /\ row'.ttl = Down(row.ttl, -1) /\ pc' = pc
    BY DEF Tick, TypeOK
  <1>2. \A p \in Process :
          /\ lease'[p].token = lease[p].token
          /\ lease'[p].ttl = Down(lease[p].ttl, 0)
    BY DEF Tick, TypeOK
  <1>3. \A p \in Process :
          /\ call'[p].token = call[p].token
          /\ call'[p].ok = call[p].ok
          /\ pc[p] \in Waiting => call'[p].age = call[p].age + 1
    BY DEF Tick, TypeOK
  <1>4. TokensDistinct'
    BY <1>2, <1>3, TokensKept DEF OverlapInv
  <1>5. ASSUME NEW p \in Process PROVE InFlight(p)'
    <2>1. row'.ttl >= row.ttl - 1
      BY <1>1 DEF Down, TypeOK
    <2>2. row'.ttl \in Int /\ row.ttl \in Int /\ call[p].age \in Nat
      BY <1>1 DEF Down, TypeOK
    <2>3. CASE pc[p] = "claim"
      <3>1. call'[p].age = call[p].age + 1
        BY <1>3, <2>3 DEF Waiting
      <3> QED
        BY <1>1, <1>3, <2>1, <2>2, <2>3, <3>1, GrantBounds DEF OverlapInv, InFlight
    <2>4. CASE pc[p] \in {"renew", "midrenew"}
      <3>1. call'[p].age = call[p].age + 1
        BY <1>3, <2>4 DEF Waiting
      <3> QED
        BY <1>1, <1>2, <1>3, <2>1, <2>2, <2>4, <3>1, GrantBounds DEF OverlapInv, InFlight
    <2> QED
      BY <1>1, <2>3, <2>4 DEF InFlight
  <1>6. ASSUME NEW p \in Process PROVE Clock(p)'
    BY <1>1, <1>2 DEF OverlapInv, Clock, Serving, Active, Down, TypeOK
  <1> QED
    BY <1>4, <1>5, <1>6 DEF OverlapInv

LEMMA OverlapInductive ==
    Exclusive /\ TypeOK /\ OverlapInv /\ [Next]_vars => OverlapInv'
  <1> SUFFICES ASSUME Exclusive, TypeOK, OverlapInv, [Next]_vars PROVE OverlapInv'
    OBVIOUS
  <1>1. CASE UNCHANGED vars
    BY <1>1 DEF OverlapInv, TokensDistinct, InFlight, Clock, Serving, Active, vars
  <1> QED
    BY <1>1, OverlapProgress, OverlapDisturb, OverlapControl, OverlapTick DEF Next

\* BoundedOverlap: with the phase 4 claim RPC, a control plane that never
\* clears a lease and a renewal interval no longer than the extension, two
\* daemons of one worker can both be active only while one of them is within
\* one reply's age of its own expiry, for any number of daemons.
THEOREM OverlapBounded ==
    ASSUME ~OwnerReclaims, ~LocalPlane, Threshold <= Extension
    PROVE  Spec => []BoundedOverlap
  <1>1. Exclusive
    BY DEF Exclusive
  <1>2. Init => OverlapInv
    BY DEF Init, OverlapInv, TokensDistinct, InFlight, Clock, Serving, Active,
           NoLease, NoCall
  <1>3. TypeOK /\ OverlapInv => BoundedOverlap
    BY DEF OverlapInv, TokensDistinct, Clock, BoundedOverlap, Serving, Active
  <1>4. TypeOK /\ OverlapInv /\ [Next]_vars => OverlapInv'
    BY <1>1, OverlapInductive
  <1> QED
    BY <1>2, <1>3, <1>4, TypeInit, TypeStep, PTL DEF Spec

-----------------------------------------------------------------------------
(* NoOrphan: who bears the row's live token. *)

Orphans == OrphanInv /\ NoOrphan

\* A step of p that gives the row no new lease and takes none from it but p's.
LEMMA OrphanFrame ==
    ASSUME Orphans, NEW p \in Process, OthersSame(p),
           row'.token \in {row.token, NoToken},
           row'.ttl > 0 => row.ttl > 0 /\ row'.token # NoToken,
           faults' = 0 => faults = 0, crashes' = 0 => crashes = 0,
           pc'[p] # "claim" => call'[p].token = NoToken,
           pc'[p] = "claim" /\ call'[p].ok => call'[p].token # NoToken,
           call'[p].token # NoToken => lease'[p].token # row'.token \/ row'.token = NoToken,
           faults' = 0 /\ ~call'[p].ok => call'[p].token = NoToken,
           faults' = 0 /\ pc'[p] = "release" =>
              lease'[p].token # row'.token \/ row'.token = NoToken,
           faults' = 0 /\ crashes' = 0 /\ row'.token = row.token /\ row.token # NoToken
              /\ row.token \in {lease[p].token, call[p].token} =>
              row.token \in {lease'[p].token, call'[p].token}
    PROVE  Orphans'
  <1>1. OrphanInv'
    BY DEF Orphans, OrphanInv, OthersSame, SameDaemon
  <1>2. NoOrphan'
    BY DEF Orphans, OrphanInv, NoOrphan, OthersSame, SameDaemon
  <1> QED
    BY <1>1, <1>2 DEF Orphans

\* A step that only moves p's program counter, outside a call.
LEMMA OrphanLocal ==
    ASSUME TypeOK, Orphans, NEW p \in Process, NEW point \in Points \ Waiting,
           pc[p] # "claim", Goto(p, point), UNCHANGED <<row, lease, call, link, env>>
    PROVE  Orphans'
  <1>1. OthersSame(p) /\ pc'[p] = point
    BY DEF OthersSame, SameDaemon, Goto, TypeOK, env
  <1> QED
    BY <1>1, OrphanFrame DEF Orphans, OrphanInv, Waiting, env

\* A call that the server refuses or aborts.
LEMMA OrphanRefused ==
    ASSUME TypeOK, Orphans, NEW p \in Process, NEW op \in Waiting, pc[p] # "claim",
           Refused(p, op) \/ Aborted(p, op),
           op = "release" /\ Refused(p, op) => lease[p].token # row.token
    PROVE  Orphans'
  <1>1. /\ OthersSame(p) /\ row' = row /\ lease' = lease /\ pc'[p] = op
        /\ call'[p].token = NoToken /\ ~call'[p].ok
        /\ faults' = 0 => faults = 0 /\ Refused(p, op)
        /\ crashes' = crashes
    BY LeaseAssumption DEF OthersSame, SameDaemon, Refused, Aborted, Answered, Goto, TypeOK, env
  <1>2. call[p].token = NoToken
    BY DEF Orphans, OrphanInv
  <1> QED
    BY <1>1, <1>2, OrphanFrame DEF Orphans, OrphanInv

LEMMA OrphanClaim ==
    ASSUME TypeOK, Orphans, NEW p \in Process, pc[p] = "loop", ClaimWorkerLease(p)
    PROVE  Orphans'
  <1>1. CASE Refused(p, "claim") \/ Aborted(p, "claim")
    BY <1>1, OrphanRefused DEF Waiting
  <1>2. ASSUME NEW t \in Token \ InUse,
               row' = [row EXCEPT !.token = t, !.ttl = Clamp(Duration, MaxClaim),
                                  !.actual = "RUNNING"],
               Answered(p, "claim", TRUE, t), UNCHANGED <<lease, link, env>>
        PROVE  Orphans'
    <2>1. row'.token = t /\ t # NoToken
      BY <1>2 DEF TypeOK
    <2>2. /\ call'[p] = [ok |-> TRUE, token |-> t, age |-> 0] /\ pc'[p] = "claim"
          /\ \A q \in Process \ {p} : SameDaemon(q)
      BY <1>2 DEF Answered, Goto, SameDaemon, TypeOK
    <2>3. \A q \in Process : lease[q].token # t /\ call[q].token # t
      BY <1>2 DEF InUse
    <2>4. OrphanInv'
      BY <1>2, <2>1, <2>2, <2>3 DEF Orphans, OrphanInv, SameDaemon, env
    <2>5. NoOrphan'
      BY <2>1, <2>2 DEF NoOrphan
    <2> QED
      BY <2>4, <2>5 DEF Orphans
  <1> QED
    BY <1>1, <1>2 DEF ClaimWorkerLease

LEMMA OrphanRenew ==
    ASSUME TypeOK, Orphans, NEW p \in Process, pc[p] # "claim",
           NEW op \in {"renew", "midrenew"}, RenewWorkerLease(p, op)
    PROVE  Orphans'
  <1>1. CASE Refused(p, op) \/ Aborted(p, op)
    BY <1>1, OrphanRefused DEF Waiting
  <1>2. ASSUME Authorised(p), row' = [row EXCEPT !.ttl = Clamp(Extension, MaxExtend)],
               Answered(p, op, TRUE, NoToken), UNCHANGED <<lease, link, env>>
        PROVE  Orphans'
    <2>1. /\ row'.token = row.token /\ row.token # NoToken /\ row.ttl > 0
          /\ row'.desired = row.desired
      BY <1>2 DEF Authorised, TypeOK
    <2>2. OthersSame(p) /\ call'[p].token = NoToken /\ call'[p].ok /\ pc'[p] = op
      BY <1>2, <2>1 DEF Answered, Goto, OthersSame, SameDaemon, TypeOK, env
    <2> QED
      BY <1>2, <2>1, <2>2, OrphanFrame DEF Orphans, OrphanInv, env
  <1> QED
    BY <1>1, <1>2 DEF RenewWorkerLease

LEMMA OrphanRelease ==
    ASSUME TypeOK, Orphans, NEW p \in Process, pc[p] = "loop", ReleaseWorkerLease(p)
    PROVE  Orphans'
  <1>1. CASE lease[p].token # row.token /\ Refused(p, "release")
    BY <1>1, OrphanRefused DEF Waiting
  <1>2. CASE Aborted(p, "release")
    <2>1. ~Refused(p, "release")
      <3>1. faults' # faults
        BY <1>2, LeaseAssumption DEF Aborted, TypeOK
      <3> QED
        BY <3>1 DEF Refused, env
    <2> QED
      BY <1>2, <2>1, OrphanRefused DEF Waiting
  <1>3. ASSUME row' = [row EXCEPT !.token = NoToken, !.ttl = -1,
                     !.actual = IF row.desired = "RUNNING" THEN "STOPPED" ELSE @],
               Answered(p, "release", TRUE, NoToken), UNCHANGED <<lease, link, env>>
        PROVE  Orphans'
    <2>1. row'.token = NoToken /\ row'.ttl = -1 /\ row'.desired = row.desired
      BY <1>3 DEF TypeOK
    <2>2. OthersSame(p) /\ call'[p].token = NoToken /\ pc'[p] = "release"
      BY <1>3, <2>1 DEF Answered, Goto, OthersSame, SameDaemon, TypeOK, env
    <2> QED
      BY <1>3, <2>1, <2>2, OrphanFrame DEF Orphans, OrphanInv, env
  <1> QED
    BY <1>1, <1>2, <1>3 DEF ReleaseWorkerLease

\* A reply to a renewal, or to the request for the credential.
LEMMA OrphanReply ==
    ASSUME TypeOK, Orphans, NEW p \in Process, NEW point \in Points \ Waiting,
           pc[p] # "claim", Goto(p, point), Reply(p),
           \A q \in Process : lease'[q].token = lease[q].token,
           \A q \in Process \ {p} : lease'[q] = lease[q]
    PROVE  Orphans'
  <1>1. /\ OthersSame(p) /\ row' = row /\ call'[p].token = NoToken
        /\ pc'[p] = point /\ faults' = faults /\ crashes' = crashes
    BY DEF Reply, NoCall, Goto, OthersSame, SameDaemon, TypeOK, env
  <1>2. call[p].token = NoToken
    BY DEF Orphans, OrphanInv
  <1> QED
    BY <1>1, <1>2, OrphanFrame DEF Orphans, OrphanInv, Waiting

LEMMA OrphanProgress ==
    ASSUME TypeOK, Orphans, NEW p \in Process, Progress(p)
    PROVE  Orphans'
  <1> USE DEF Points, Waiting
  <1>1. CASE StepLease(p)
    BY <1>1, OrphanLocal, OrphanClaim DEF StepLease
  <1>2. CASE StepRenewal(p)
    BY <1>2, OrphanLocal, OrphanRenew DEF StepRenewal
  <1>3. CASE StepIdle(p) \/ MessageFetched(p) \/ MessageDone(p) \/ PollEnd(p) \/ Hang(p)
    BY <1>3, OrphanLocal DEF StepIdle, MessageFetched, MessageDone, PollEnd, Hang
  <1>4. CASE StepPoll(p)
    <2>1. CASE Aborted(p, "credential")
      BY <1>4, <2>1, OrphanRefused DEF StepPoll
    <2>2. CASE /\ Answered(p, "credential", Authorised(p) /\ mailbox, NoToken)
               /\ UNCHANGED <<row, lease, link, env>>
      <3>1. OthersSame(p) /\ call'[p].token = NoToken /\ pc'[p] = "credential"
        BY <2>2 DEF Answered, Goto, OthersSame, SameDaemon, TypeOK, env
      <3>2. call[p].token = NoToken
        BY <1>4 DEF StepPoll, Orphans, OrphanInv
      <3> QED
        BY <2>2, <3>1, <3>2, OrphanFrame DEF Orphans, OrphanInv, env
    <2> QED
      BY <1>4, <2>1, <2>2 DEF StepPoll, FetchLeasedMailboxCredential
  <1>5. CASE ClaimReply(p)
    <2>1. /\ row' = row /\ call'[p] = NoCall /\ pc'[p] # "claim"
          /\ faults' = faults /\ crashes' = crashes /\ OthersSame(p)
      BY <1>5 DEF ClaimReply, Reply, Goto, OthersSame, SameDaemon, TypeOK, env
    <2>2. IF call[p].ok THEN lease'[p].token = call[p].token ELSE lease' = lease
      BY <1>5 DEF ClaimReply, TypeOK
    <2>3. pc'[p] # "release"
      BY <1>5 DEF ClaimReply, Goto, TypeOK
    <2>4. CASE call[p].ok
      BY <1>5, <2>1, <2>2, <2>3, <2>4, OrphanFrame
         DEF ClaimReply, Orphans, OrphanInv, NoCall
    <2>5. CASE ~call[p].ok
      BY <1>5, <2>1, <2>2, <2>3, <2>5, OrphanFrame
         DEF ClaimReply, Orphans, OrphanInv, NoCall
    <2> QED
      BY <2>4, <2>5
  <1>6. CASE RenewReply(p) \/ MidRenewReply(p)
    <2>1. /\ \A q \in Process : lease'[q].token = lease[q].token
          /\ \A q \in Process \ {p} : lease'[q] = lease[q]
      BY <1>6 DEF RenewReply, MidRenewReply, RenewedLease, TypeOK
    <2>2. PICK point \in Points \ Waiting : Goto(p, point)
      BY <1>6 DEF RenewReply, MidRenewReply
    <2> QED
      BY <1>6, <2>1, <2>2, OrphanReply DEF RenewReply, MidRenewReply
  <1>7. CASE CredentialReply(p)
    BY <1>7, OrphanReply DEF CredentialReply
  <1>8. CASE PollMessage(p)
    BY <1>8, OrphanLocal, OrphanRenew DEF PollMessage
  <1>9. CASE ReleaseReply(p)
    <2>1. /\ OthersSame(p) /\ row' = row /\ call'[p] = NoCall /\ lease'[p] = NoLease
          /\ pc'[p] = "down" /\ faults' = faults /\ crashes' = crashes
      BY <1>9 DEF ReleaseReply, Reply, Goto, OthersSame, SameDaemon, TypeOK, env
    <2>2. call[p].token = NoToken
      BY <1>9 DEF ReleaseReply, Orphans, OrphanInv
    <2> QED
      BY <1>9, <2>1, <2>2, OrphanFrame DEF ReleaseReply, Orphans, OrphanInv, NoCall
  <1> QED
    BY <1>1, <1>2, <1>3, <1>4, <1>5, <1>6, <1>7, <1>8, <1>9 DEF Progress

LEMMA OrphanDisturb ==
    ASSUME TypeOK, Orphans, NEW p \in Process, Disturb(p)
    PROVE  Orphans'
  <1> USE DEF Points, Waiting
  <1>1. CASE Start(p)
    <2>1. OthersSame(p) /\ lease' = lease /\ call' = call /\ pc[p] = "down" /\ pc'[p] = "loop"
      BY <1>1 DEF Start, Goto, OthersSame, SameDaemon, TypeOK, env
    <2> QED
      BY <1>1, <2>1, OrphanFrame DEF Start, Orphans, OrphanInv, env
  <1>2. CASE Stop(p)
    BY <1>2, OrphanLocal, OrphanRelease DEF Stop
  <1>3. CASE StopHangs(p)
    BY <1>3, OrphanLocal DEF StopHangs
  <1>4. CASE LinkLost(p)
    <2>1. /\ OthersSame(p) /\ row' = row /\ lease' = lease /\ pc' = pc
          /\ ~call'[p].ok /\ call'[p].token = call[p].token
          /\ pc[p] # "claim" => call'[p].token = NoToken
          /\ faults' # 0 /\ crashes' = crashes
      BY <1>4, LeaseAssumption
         DEF LinkLost, OthersSame, SameDaemon, TypeOK, Orphans, OrphanInv
    <2> QED
      BY <2>1, OrphanFrame DEF Orphans, OrphanInv
  <1>5. CASE Crash(p)
    <2>1. /\ OthersSame(p) /\ row' = row /\ lease'[p] = NoLease /\ call'[p] = NoCall
          /\ pc'[p] = "down" /\ faults' = faults /\ crashes' # 0
      BY <1>5, LeaseAssumption DEF Crash, Goto, OthersSame, SameDaemon, TypeOK
    <2> QED
      BY <2>1, OrphanFrame DEF Orphans, OrphanInv, NoCall
  <1> QED
    BY <1>1, <1>2, <1>3, <1>4, <1>5 DEF Disturb

LEMMA OrphanControl ==
    ASSUME TypeOK, Orphans, ControlPlane
    PROVE  Orphans'
  <1>1. UNCHANGED <<pc, lease, call, faults, crashes>>
    BY DEF ControlPlane, SetDesiredState, SetMailboxActive, SyncMailboxAndWorker,
           DeactivateMailbox, ForceReleaseWorkerLease, daemons
  <1>2. \/ row'.token = row.token /\ row'.ttl = row.ttl
        \/ row'.token = NoToken /\ row'.ttl = -1
    BY DEF ControlPlane, SetDesiredState, SetMailboxActive, SyncMailboxAndWorker,
           DeactivateMailbox, ForceReleaseWorkerLease, Unleased, TypeOK
  <1>3. OrphanInv' /\ NoOrphan'
    BY <1>1, <1>2 DEF Orphans, OrphanInv, NoOrphan
  <1> QED
    BY <1>3 DEF Orphans

LEMMA OrphanTick ==
    ASSUME TypeOK, Orphans, Tick
    PROVE  Orphans'
  <1>1. UNCHANGED <<pc, faults, crashes>>
    BY DEF Tick
  <1>2. row'.token = row.token /\ row'.ttl \in Int /\ (row'.ttl > 0 => row.ttl > 0)
    BY DEF Tick, Down, TypeOK
  <1>3. \A p \in Process :
          /\ lease'[p].token = lease[p].token
          /\ call'[p].token = call[p].token
          /\ call'[p].ok = call[p].ok
    BY DEF Tick, TypeOK
  <1>4. OrphanInv' /\ NoOrphan'
    BY <1>1, <1>2, <1>3 DEF Orphans, OrphanInv, NoOrphan, TypeOK
  <1> QED
    BY <1>4 DEF Orphans

LEMMA OrphanInductive == TypeOK /\ Orphans /\ [Next]_vars => Orphans'
  <1> SUFFICES ASSUME TypeOK, Orphans, [Next]_vars PROVE Orphans'
    OBVIOUS
  <1>1. CASE UNCHANGED vars
    BY <1>1 DEF Orphans, OrphanInv, NoOrphan, vars
  <1> QED
    BY <1>1, OrphanProgress, OrphanDisturb, OrphanControl, OrphanTick DEF Next

\* NoOrphan: for any number of daemons, every dialect of the RPCs and the local
\* control plane, a live lease in the row has a bearer unless a fault or a crash
\* lost it: no order of claims, refused renewals, expiries and releases makes a
\* daemon forget the lease the row still holds for it.
THEOREM NothingOrphaned == Spec => []NoOrphan
  <1>1. Init => Orphans
    BY DEF Init, Orphans, OrphanInv, NoOrphan, NoLease, NoCall
  <1>2. Orphans => NoOrphan
    BY DEF Orphans
  <1> QED
    BY <1>1, <1>2, TypeInit, TypeStep, OrphanInductive, PTL DEF Spec

-----------------------------------------------------------------------------
(* WorkerLease implements Tenancy: every step of a daemon is, for the office, *)
(* an Award, a Serve, a Leave or nothing.                                     *)

Terms == [p \in Process |-> Left(p)]

\* p's step leaves the others' terms alone.
LEMMA OthersTerms ==
    ASSUME NEW p \in Process, OthersSame(p)
    PROVE  Terms' = [Terms EXCEPT ![p] = Left(p)']
  BY DEF Terms, Left, Serving, Active, OthersSame, SameDaemon

\* Who is on record is so alone.
LEMMA OneBearer ==
    ASSUME OverlapInv, NEW p \in Bearers, NEW q \in Bearers
    PROVE  p = q
  BY DEF OverlapInv, TokensDistinct, Bearers

\* Whoever stops bearing the row's token, which stays, is out of office or lingers.
LEMMA Leaving ==
    ASSUME NEW p \in Process, OthersSame(p), row'.token = row.token,
           lease'[p].token \in {lease[p].token, NoToken},
           call'[p].token \in {call[p].token, NoToken},
           Left(p)' \in {0, Left(p)}, Left(p)' <= MaxLatency
    PROVE  Promise!Leave(p)
  <1>1. Bearers' \in {Bearers, Bearers \ {p}}
    BY DEF Bearers, OthersSame, SameDaemon
  <1> QED
    BY <1>1, OthersTerms DEF Promise!Leave, OthersSame, Terms

\* A step that leaves p's term alone, and may use up a reply.
LEMMA Settled ==
    ASSUME TypeOK, OverlapInv, NEW p \in Process, OthersSame(p), row'.token = row.token,
           lease'[p].token = lease[p].token, Left(p)' = Left(p),
           call'[p].token \in {call[p].token, NoToken}
    PROVE  [Promise!Next]_(Promise!vars)
  <1>1. CASE call'[p].token = call[p].token
    <2>1. Bearers' = Bearers
      BY <1>1 DEF Bearers, OthersSame, SameDaemon
    <2>2. Terms' = Terms
      BY OthersTerms DEF Terms
    <2> QED
      BY <2>1, <2>2 DEF Promise!vars, OthersSame, Terms
  <1>2. CASE call'[p].token # call[p].token /\ p \notin Bearers
    <2>1. Bearers' = Bearers
      BY <1>2 DEF Bearers, OthersSame, SameDaemon
    <2>2. Terms' = Terms
      BY OthersTerms DEF Terms
    <2> QED
      BY <2>1, <2>2 DEF Promise!vars, OthersSame, Terms
  <1>3. CASE call[p].token # NoToken /\ p \in Bearers /\ call[p].token # row.token
    <2>1. Bearers' = Bearers
      BY <1>3 DEF Bearers, OthersSame, SameDaemon
    <2>2. Terms' = Terms
      BY OthersTerms DEF Terms
    <2> QED
      BY <2>1, <2>2 DEF Promise!vars, OthersSame, Terms
  <1>4. CASE call[p].token # NoToken /\ call[p].token = row.token
    <2>1. lease[p].token # row.token
      BY <1>4 DEF OverlapInv, TokensDistinct
    <2>2. Left(p) <= MaxLatency
      BY <2>1 DEF OverlapInv, Clock, Left
    <2>3. Promise!Leave(p)
      BY <2>2, Leaving
    <2> QED
      BY <2>3 DEF Promise!Next
  <1> QED
    BY <1>1, <1>2, <1>3, <1>4

\* A step after which p serves no longer.
LEMMA Departed ==
    ASSUME NEW p \in Process, OthersSame(p), row'.token = row.token,
           lease'[p].token \in {lease[p].token, NoToken},
           call'[p].token \in {call[p].token, NoToken}, ~Serving(p)'
    PROVE  [Promise!Next]_(Promise!vars)
  <1>1. Left(p)' = 0
    BY DEF Left
  <1>2. Promise!Leave(p)
    BY <1>1, Leaving
  <1> QED
    BY <1>2 DEF Promise!Next

\* A step with which p, which is on record, begins or extends its term.
LEMMA Served ==
    ASSUME NEW p \in Bearers, OthersSame(p), Bearers' = Bearers, haltedFor <= MaxLatency,
           Left(p)' \in 1..Grant
    PROVE  [Promise!Next]_(Promise!vars)
  <1>1. p \in Process
    BY DEF Bearers
  <1>2. Promise!Serve(p)
    BY <1>1, OthersTerms DEF Promise!Serve, OthersSame, Terms
  <1> QED
    BY <1>1, <1>2 DEF Promise!Next

\* A call that the server refuses or aborts, or that reads only.
LEMMA PromiseUnanswered ==
    ASSUME TypeOK, OverlapInv, NEW p \in Process, NEW op \in Waiting \ {"release"},
           pc[p] # "release", NEW ok \in BOOLEAN, Answered(p, op, ok, NoToken),
           UNCHANGED <<row, lease, mailbox, link, crashes, haltedFor>>
    PROVE  [Promise!Next]_(Promise!vars)
  <1>1. OthersSame(p) /\ pc'[p] = op /\ call'[p].token = NoToken
    BY DEF Answered, Goto, OthersSame, SameDaemon, TypeOK
  <1>2. Left(p)' = Left(p)
    BY <1>1 DEF Left, Serving, Active
  <1> QED
    BY <1>1, <1>2, Settled

\* A granted claim awards the office.
LEMMA PromiseClaim ==
    ASSUME Exclusive, TypeOK, HaltInv, OverlapInv, NEW p \in Process, pc[p] = "loop",
           ClaimWorkerLease(p)
    PROVE  [Promise!Next]_(Promise!vars)
  <1>1. CASE Refused(p, "claim") \/ Aborted(p, "claim")
    BY <1>1, PromiseUnanswered DEF Refused, Aborted, Waiting, env
  <1>2. ASSUME Claimable, NEW t \in Token \ InUse,
               row' = [row EXCEPT !.token = t, !.ttl = Clamp(Duration, MaxClaim),
                                  !.actual = "RUNNING"],
               Answered(p, "claim", TRUE, t), UNCHANGED <<lease, link, env>>
        PROVE  Promise!Award(p)
    <2>1. row'.token = t /\ t # NoToken /\ row'.desired = row.desired
      BY <1>2 DEF TypeOK
    <2>2. /\ call'[p].token = t /\ pc'[p] = "claim"
          /\ \A q \in Process \ {p} : SameDaemon(q)
      BY <1>2 DEF Answered, Goto, SameDaemon, TypeOK
    <2>3. \A q \in Process : lease[q].token # t /\ call[q].token # t
      BY <1>2 DEF InUse
    <2>4. Bearers' = {p}
      BY <2>1, <2>2, <2>3 DEF Bearers, SameDaemon
    <2>5. Terms' = Terms
      BY <1>2, <2>2 DEF Terms, Left, Serving, Active, SameDaemon
    <2>6. ASSUME NEW q \in Process \ {p}
          PROVE  Left(q) <= MaxLatency
      <3>1. row.token = NoToken \/ row.ttl < 0
        BY <1>2 DEF Claimable, Expired, Exclusive
      <3> QED
        BY <3>1 DEF OverlapInv, Clock, Serving, Active, TypeOK, Left
    <2> QED
      BY <1>2, <2>1, <2>4, <2>5, <2>6 DEF Promise!Award, Claimable, Terms, env
  <1> QED
    BY <1>1, <1>2 DEF ClaimWorkerLease, Promise!Next

\* A granted renewal is news only when its reply is read.
LEMMA PromiseRenew ==
    ASSUME TypeOK, OverlapInv, NEW p \in Process, pc[p] # "release",
           NEW op \in {"renew", "midrenew"}, RenewWorkerLease(p, op)
    PROVE  [Promise!Next]_(Promise!vars)
  <1>1. CASE Refused(p, op) \/ Aborted(p, op)
    BY <1>1, PromiseUnanswered DEF Refused, Aborted, Waiting, env
  <1>2. ASSUME row' = [row EXCEPT !.ttl = Clamp(Extension, MaxExtend)],
               Answered(p, op, TRUE, NoToken), UNCHANGED <<lease, link, env>>
        PROVE  [Promise!Next]_(Promise!vars)
    <2>1. row'.token = row.token /\ row'.desired = row.desired
      BY <1>2 DEF TypeOK
    <2>2. OthersSame(p) /\ pc'[p] = op /\ call'[p].token = NoToken
      BY <1>2, <2>1 DEF Answered, Goto, OthersSame, SameDaemon, TypeOK, env
    <2>3. Left(p)' = Left(p)
      BY <1>2, <2>2 DEF Left, Serving, Active
    <2> QED
      BY <1>2, <2>1, <2>2, <2>3, Settled
  <1> QED
    BY <1>1, <1>2 DEF RenewWorkerLease

\* A release ends the term as soon as it is sent, and the record when it is granted.
LEMMA PromiseRelease ==
    ASSUME TypeOK, OverlapInv, NEW p \in Process, lease[p].token # NoToken,
           ReleaseWorkerLease(p)
    PROVE  [Promise!Next]_(Promise!vars)
  <1>1. CASE Refused(p, "release") \/ Aborted(p, "release")
    <2>1. /\ OthersSame(p) /\ row' = row /\ lease' = lease
          /\ call'[p].token = NoToken /\ pc'[p] = "release"
      BY <1>1 DEF Refused, Aborted, Answered, Goto, OthersSame, SameDaemon, TypeOK, env
    <2> QED
      BY <2>1, Departed DEF Serving
  <1>2. ASSUME lease[p].token = row.token,
               row' = [row EXCEPT !.token = NoToken, !.ttl = -1,
                     !.actual = IF row.desired = "RUNNING" THEN "STOPPED" ELSE @],
               Answered(p, "release", TRUE, NoToken), UNCHANGED <<lease, link, env>>
        PROVE  Promise!Leave(p)
    <2>1. row'.token = NoToken /\ row'.desired = row.desired
      BY <1>2 DEF TypeOK
    <2>2. OthersSame(p) /\ pc'[p] = "release"
      BY <1>2, <2>1 DEF Answered, Goto, OthersSame, SameDaemon, TypeOK, env
    <2>3. p \in Bearers
      BY <1>2 DEF Bearers
    <2>4. Bearers' = Bearers \ {p}
      BY <2>1, <2>3, OneBearer DEF Bearers
    <2>5. Left(p)' = 0
      BY <2>2 DEF Left, Serving
    <2>6. Terms' = [Terms EXCEPT ![p] = 0]
      BY <2>2, <2>5, OthersTerms
    <2>7. 0 <= MaxLatency /\ UNCHANGED <<row.desired = "RUNNING", haltedFor>>
      BY <2>2 DEF OthersSame
    <2> QED
      BY <2>4, <2>6, <2>7 DEF Promise!Leave, Terms
  <1> QED
    BY <1>1, <1>2 DEF ReleaseWorkerLease, Promise!Next

\* A step that only moves p's program counter, outside a call.
LEMMA PromiseLocal ==
    ASSUME TypeOK, OverlapInv, NEW p \in Process, NEW point \in Points \ Waiting,
           pc[p] # "release", Goto(p, point), UNCHANGED <<row, lease, call, link, env>>
    PROVE  [Promise!Next]_(Promise!vars)
  <1>1. OthersSame(p) /\ pc'[p] = point
    BY DEF OthersSame, SameDaemon, Goto, TypeOK, env
  <1>2. Left(p)' = Left(p)
    BY <1>1 DEF Left, Serving, Active, Waiting
  <1> QED
    BY <1>1, <1>2, Settled

\* A claim's reply begins a term, if it is a grant.
LEMMA PromiseClaimReply ==
    ASSUME TypeOK, HaltInv, OverlapInv, NEW p \in Process, ClaimReply(p)
    PROVE  [Promise!Next]_(Promise!vars)
  <1>1. /\ call'[p].token = NoToken
        /\ \A q \in Process \ {p} : call'[q] = call[q]
        /\ row' = row /\ haltedFor' = haltedFor
    BY DEF ClaimReply, Reply, NoCall, TypeOK, env
  <1>2. CASE call[p].ok
    <2>1. /\ lease'[p].token = call[p].token
          /\ lease'[p].ttl \in Duration - call[p].age .. Duration
          /\ \A q \in Process \ {p} : lease'[q] = lease[q]
          /\ pc' = [pc EXCEPT ![p] = "leased"]
      <3>1. call[p].age \in 0..MaxLatency
        BY DEF TypeOK
      <3>2. lease'[p].ttl = Duration - (IF NumericExpiry THEN call[p].age ELSE 0)
        BY <1>2, ClampIdentity DEF ClaimReply, TypeOK
      <3> QED
        BY <1>2, <3>1, <3>2, GrantBounds DEF ClaimReply, TypeOK, Goto
    <2>2. OthersSame(p) /\ pc'[p] = "leased"
      BY <1>1, <2>1 DEF OthersSame, SameDaemon, TypeOK
    <2>3. call[p].token # NoToken /\ call[p].token = row.token
      BY <1>2 DEF OverlapInv, InFlight, ClaimReply
    <2>4. p \in Bearers /\ Bearers' = Bearers
      <3>1. lease[p].token # row.token
        BY <2>3 DEF OverlapInv, TokensDistinct
      <3> QED
        BY <1>1, <2>1, <2>3, <3>1 DEF Bearers
    <2>5. haltedFor <= MaxLatency
      BY <1>2 DEF HaltInv, ClaimReply, Extending, TypeOK
    <2>6. Left(p)' \in 1..Grant
      <3>1. lease'[p].ttl \in 1..Grant
        BY <2>1, GrantBounds DEF TypeOK
      <3> QED
        BY <2>1, <2>2, <2>3, <3>1 DEF Left, Serving, Active
    <2> QED
      BY <2>2, <2>4, <2>5, <2>6, Served
  <1>3. CASE ~call[p].ok
    <2>1. OthersSame(p) /\ lease' = lease /\ pc'[p] = "loop"
      BY <1>1, <1>3 DEF ClaimReply, Goto, OthersSame, SameDaemon, TypeOK
    <2>2. Left(p)' = Left(p)
      BY <2>1 DEF Left, Serving, Active, ClaimReply
    <2> QED
      BY <1>1, <2>1, <2>2, Settled
  <1> QED
    BY <1>2, <1>3

\* A renewal's reply extends the term, if it is a grant.
LEMMA PromiseRenewReply ==
    ASSUME TypeOK, HaltInv, OverlapInv, NEW p \in Process, pc[p] \in {"renew", "midrenew"},
           NEW point \in Points \ Waiting, Goto(p, point), Reply(p), lease' = RenewedLease(p)
    PROVE  [Promise!Next]_(Promise!vars)
  <1>1. /\ \A q \in Process \ {p} : lease'[q] = lease[q]
        /\ lease'[p].token = lease[p].token
        /\ IF call[p].ok THEN lease'[p].ttl = Extension ELSE lease'[p].ttl = lease[p].ttl
    BY DEF RenewedLease, TypeOK
  <1>2. OthersSame(p) /\ pc'[p] = point /\ row' = row /\ call'[p].token = NoToken
    BY <1>1 DEF Reply, NoCall, Goto, OthersSame, SameDaemon, TypeOK, env
  <1>3. CASE call[p].ok
    <2>1. lease[p].token # NoToken /\ lease[p].token = row.token
      BY <1>3 DEF OverlapInv, InFlight
    <2>2. p \in Bearers /\ Bearers' = Bearers
      <3>1. call[p].token # row.token
        BY <2>1 DEF OverlapInv, TokensDistinct
      <3> QED
        BY <1>1, <1>2, <2>1, <3>1 DEF Bearers, OthersSame, SameDaemon
    <2>3. haltedFor <= MaxLatency
      BY <1>3 DEF HaltInv, Extending, TypeOK
    <2>4. Left(p)' \in 1..Grant
      BY <1>1, <1>2, <1>3, <2>1, GrantBounds DEF Left, Serving, Active, Waiting
    <2> QED
      BY <1>2, <2>2, <2>3, <2>4, Served
  <1>4. CASE ~call[p].ok
    <2>1. Left(p)' = Left(p)
      BY <1>1, <1>2, <1>4 DEF Left, Serving, Active, Waiting
    <2> QED
      BY <1>1, <1>2, <2>1, Settled
  <1> QED
    BY <1>3, <1>4

LEMMA PromiseProgress ==
    ASSUME Exclusive, TypeOK, HaltInv, OverlapInv, NEW p \in Process, Progress(p)
    PROVE  [Promise!Next]_(Promise!vars)
  <1> USE DEF Points, Waiting
  <1>1. CASE StepLease(p)
    BY <1>1, PromiseLocal, PromiseClaim DEF StepLease
  <1>2. CASE StepRenewal(p)
    BY <1>2, PromiseLocal, PromiseRenew DEF StepRenewal
  <1>3. CASE StepIdle(p) \/ MessageFetched(p) \/ MessageDone(p) \/ PollEnd(p) \/ Hang(p)
    BY <1>3, PromiseLocal DEF StepIdle, MessageFetched, MessageDone, PollEnd, Hang
  <1>4. CASE StepPoll(p)
    <2>1. PICK ok \in BOOLEAN :
             /\ Answered(p, "credential", ok, NoToken)
             /\ UNCHANGED <<row, lease, mailbox, link, crashes, haltedFor>>
      <3>1. (Authorised(p) /\ mailbox) \in BOOLEAN
        BY DEF Authorised, TypeOK
      <3> QED
        BY <1>4, <3>1 DEF StepPoll, FetchLeasedMailboxCredential, Aborted, env
    <2> QED
      BY <1>4, <2>1, PromiseUnanswered DEF StepPoll
  <1>5. CASE ClaimReply(p)
    BY <1>5, PromiseClaimReply
  <1>6. CASE RenewReply(p)
    BY <1>6, PromiseRenewReply DEF RenewReply
  <1>7. CASE MidRenewReply(p)
    BY <1>7, PromiseRenewReply DEF MidRenewReply
  <1>8. CASE CredentialReply(p)
    <2>1. /\ OthersSame(p) /\ row' = row /\ lease' = lease
          /\ call'[p].token = NoToken /\ pc'[p] \in {"poll", "loop"}
      BY <1>8 DEF CredentialReply, Reply, NoCall, Goto, OthersSame, SameDaemon, TypeOK, env
    <2>2. Left(p)' = Left(p)
      BY <1>8, <2>1 DEF CredentialReply, Left, Serving, Active
    <2> QED
      BY <2>1, <2>2, Settled
  <1>9. CASE PollMessage(p)
    BY <1>9, PromiseLocal, PromiseRenew DEF PollMessage
  <1>10. CASE ReleaseReply(p)
    <2>1. /\ OthersSame(p) /\ row' = row /\ lease'[p] = NoLease
          /\ call'[p].token = NoToken
      BY <1>10 DEF ReleaseReply, Reply, NoCall, Goto, OthersSame, SameDaemon, TypeOK, env
    <2> QED
      BY <2>1, Departed DEF Serving, Active, NoLease
  <1> QED
    BY <1>1, <1>2, <1>3, <1>4, <1>5, <1>6, <1>7, <1>8, <1>9, <1>10 DEF Progress

LEMMA PromiseDisturb ==
    ASSUME Exclusive, TypeOK, HaltInv, OverlapInv, NEW p \in Process, Disturb(p)
    PROVE  [Promise!Next]_(Promise!vars)
  <1> USE DEF Points, Waiting
  <1>1. CASE Start(p)
    <2>1. /\ OthersSame(p) /\ row' = row /\ lease' = lease /\ call' = call
          /\ pc[p] = "down" /\ pc'[p] = "loop"
      BY <1>1 DEF Start, Goto, OthersSame, SameDaemon, TypeOK, env
    <2>2. Left(p)' = Left(p)
      BY <2>1 DEF Left, Serving, Active
    <2> QED
      BY <2>1, <2>2, Settled
  <1>2. CASE Stop(p)
    BY <1>2, PromiseLocal, PromiseRelease DEF Stop
  <1>3. CASE StopHangs(p)
    BY <1>3, PromiseLocal DEF StopHangs
  <1>4. CASE LinkLost(p)
    <2>1. /\ OthersSame(p) /\ row' = row /\ lease' = lease /\ pc' = pc
          /\ call'[p].token = call[p].token
      BY <1>4 DEF LinkLost, OthersSame, SameDaemon, TypeOK
    <2>2. Left(p)' = Left(p)
      BY <2>1 DEF Left, Serving, Active
    <2> QED
      BY <2>1, <2>2, Settled
  <1>5. CASE Crash(p)
    <2>1. /\ OthersSame(p) /\ row' = row /\ lease'[p] = NoLease
          /\ call'[p].token = NoToken
      BY <1>5 DEF Crash, NoCall, Goto, OthersSame, SameDaemon, TypeOK
    <2> QED
      BY <2>1, Departed DEF Serving, Active, NoLease
  <1> QED
    BY <1>1, <1>2, <1>3, <1>4, <1>5 DEF Disturb

LEMMA PromiseControl ==
    ASSUME Exclusive, TypeOK, ControlPlane
    PROVE  [Promise!Next]_(Promise!vars)
  <1>1. UNCHANGED <<pc, lease, call>> /\ row'.token = row.token
    BY DEF ControlPlane, SetDesiredState, SetMailboxActive, SyncMailboxAndWorker,
           DeactivateMailbox, ForceReleaseWorkerLease, Exclusive, daemons, TypeOK
  <1>2. Bearers' = Bearers /\ Terms' = Terms
    BY <1>1 DEF Bearers, Terms, Left, Serving, Active
  <1>3. ASSUME NEW state \in {"RUNNING", "STOPPED"}, SetDesiredState(state)
        PROVE  Promise!Want(state = "RUNNING")
    <2>1. /\ row'.desired = state
          /\ haltedFor' = IF state = "RUNNING" THEN 0 ELSE haltedFor
      BY <1>3 DEF SetDesiredState, TypeOK
    <2> QED
      BY <1>2, <2>1 DEF Promise!Want, Terms
  <1>4. ASSUME NEW active \in BOOLEAN, SetMailboxActive(active)
        PROVE  UNCHANGED Promise!vars
    BY <1>2, <1>4 DEF Promise!vars, SetMailboxActive, Terms
  <1> QED
    BY <1>3, <1>4
       DEF ControlPlane, SyncMailboxAndWorker, DeactivateMailbox, ForceReleaseWorkerLease,
           Exclusive, Promise!Next

LEMMA PromiseTick ==
    ASSUME TypeOK, Tick
    PROVE  Promise!Tick
  <1>1. row'.token = row.token /\ row'.desired = row.desired /\ pc' = pc
    BY DEF Tick, TypeOK
  <1>2. \A p \in Process :
          /\ lease'[p].token = lease[p].token
          /\ lease'[p].ttl = Down(lease[p].ttl, 0)
          /\ call'[p].token = call[p].token
    BY DEF Tick, TypeOK
  <1>3. Bearers' = Bearers
    BY <1>1, <1>2 DEF Bearers
  <1>4. ASSUME NEW p \in Process
        PROVE  Left(p)' = IF Left(p) > 0 THEN Left(p) - 1 ELSE 0
    <2>1. lease[p].ttl \in Nat /\ lease'[p].ttl = Down(lease[p].ttl, 0)
      BY <1>2, GrantBounds DEF TypeOK
    <2>2. Serving(p)' <=> Serving(p) /\ lease'[p].ttl > 0
      BY <1>1, <1>2, <2>1 DEF Serving, Active, Down
    <2> QED
      BY <2>1, <2>2 DEF Left, Serving, Active, Down
  <1>5. haltedFor' = IF ~(row.desired = "RUNNING") /\ haltedFor < HaltCap
                     THEN haltedFor + 1 ELSE haltedFor
    BY DEF Tick, TypeOK
  <1> QED
    BY <1>1, <1>3, <1>4, <1>5 DEF Promise!Tick

\* KeepsPromise: with the phase 4 claim RPC, a control plane that never clears a
\* lease and a renewal interval no longer than the extension, the rows, tokens, calls
\* and clocks of any number of daemons implement Tenancy.
THEOREM ImplementsTenancy ==
    ASSUME ~OwnerReclaims, ~LocalPlane, Threshold <= Extension
    PROVE  Spec => KeepsPromise
  <1>1. Exclusive
    BY DEF Exclusive
  <1>2. Init => HaltInv /\ OverlapInv
    BY DEF Init, HaltInv, OverlapInv, TokensDistinct, InFlight, Clock, Serving, Active,
           NoLease, NoCall
  <1>3. Init => Promise!Init
    BY DEF Init, Promise!Init, Bearers, Left, Serving, Active, NoLease, NoCall
  <1>4. TypeOK /\ HaltInv /\ OverlapInv /\ [Next]_vars => OverlapInv'
    BY <1>1, OverlapInductive
  <1>5. TypeOK /\ HaltInv /\ OverlapInv /\ [Next]_vars => [Promise!Next]_(Promise!vars)
    <2> SUFFICES ASSUME TypeOK, HaltInv, OverlapInv, [Next]_vars
                 PROVE  [Promise!Next]_(Promise!vars)
      OBVIOUS
    <2>1. CASE UNCHANGED vars
      BY <2>1 DEF vars, Promise!vars, Bearers, Left, Serving, Active
    <2>2. CASE Tick
      BY <2>2, PromiseTick DEF Promise!Next
    <2> QED
      BY <1>1, <2>1, <2>2, PromiseProgress, PromiseDisturb, PromiseControl DEF Next
  <1> QED
    BY <1>2, <1>3, <1>4, <1>5, TypeInit, TypeStep, HaltInductive, PTL
       DEF Spec, KeepsPromise, Promise!Spec
=============================================================================
