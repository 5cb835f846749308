---------------------------- MODULE WorkerLease ----------------------------
(***************************************************************************)
(* The lease of one Sentinel worker row, and the daemons that compete for  *)
(* it.  Every daemon logs in with the same database role, so the row's     *)
(* lease_owner never tells two daemons of one worker_id apart: only the    *)
(* capability token does.  A daemon decides whether it may work from its   *)
(* own clock (is_active), never by asking the database.                    *)
(*                                                                         *)
(* Time is kept as countdowns.  A lease with ttl seconds left has          *)
(* lease_expires_at - now = ttl; ttl = 0 is the instant of expiry, where   *)
(* the row can be neither renewed (expires > now) nor claimed              *)
(* (expires < now), and -1 is any later instant.  An RPC takes effect in   *)
(* the database at once and its reply is at most MaxLatency seconds old    *)
(* when the daemon reads it.                                               *)
(***************************************************************************)
EXTENDS Integers

CONSTANTS
    Process,        \* daemons configured with the same worker_id
    Token,          \* capability tokens, a pool large enough to look random
    NoToken,        \* lease_token_hash IS NULL / no token bound
    Duration,       \* config.lease_duration_seconds
    Extension,      \* config.renewal_extension_seconds
    Threshold,      \* config.renewal_interval_seconds
    MinGrant,       \* 30 in the RPCs
    MaxClaim,       \* 600 in the claim RPC
    MaxExtend,      \* 300 in the renew RPC
    MaxLatency,     \* age of a reply when it is read
    OwnerReclaims,  \* TRUE: the phase G claim RPC; FALSE: phase 4 and the mock
    NumericExpiry,  \* TRUE: claim returns a number; FALSE: an ISO timestamp
    LocalPlane,     \* TRUE: the control plane also clears leases (local DB)
    MaxFaults,      \* bound on failed RPCs and lost connections
    MaxCrashes,     \* bound on crashes
    HaltCap         \* where haltedFor saturates: beyond Span, or 0 to leave it out

Longest(a, b) == IF a > b THEN a ELSE b

Clamp(seconds, most) ==
    IF seconds < MinGrant THEN MinGrant
    ELSE IF seconds > most THEN most ELSE seconds

\* Variant: time_until_expiry without its max(0.0, ...).
DownUnbounded(n, least) == n - 1

\* A countdown, one second later.
Down(n, least) == IF n > least THEN n - 1 ELSE n

\* WorkerConfig.from_env clamps both durations to the bounds of the RPCs.
ASSUME LeaseAssumption ==
    /\ NoToken \notin Token
    /\ MinGrant \in Nat /\ MaxClaim \in Nat /\ MaxExtend \in Nat
    /\ MaxLatency \in Nat /\ Threshold \in Nat /\ HaltCap \in Nat
    /\ Duration \in MinGrant..MaxClaim
    /\ Extension \in MinGrant..MaxExtend
    /\ MaxExtend <= MaxClaim
    /\ MaxLatency < MinGrant
    /\ MaxFaults \in Nat /\ MaxCrashes \in Nat
    /\ {OwnerReclaims, NumericExpiry, LocalPlane} \subseteq BOOLEAN

VARIABLES
    row,        \* sentinel_workers: token, ttl, desired and actual state
    mailbox,    \* sentinel_mailboxes.is_active
    pc,         \* where each daemon is in run / step / poll / stop
    lease,      \* WorkerLeaseManager: bound token and seconds to _expires_at
    call,       \* the RPC each daemon is waiting for
    link,       \* FALSE once the daemon's database connection is closed
    faults, crashes,
    haltedFor   \* seconds since desired_state left RUNNING (history)

vars == <<row, mailbox, pc, lease, call, link, faults, crashes, haltedFor>>
env  == <<mailbox, faults, crashes, haltedFor>>

Grant == Longest(Duration, Extension)

Span == Grant + MaxLatency

Points == {"down", "loop", "leased", "ready", "poll", "fetched", "analyse",
           "claim", "renew", "credential", "midrenew", "release", "hung"}

Waiting == {"claim", "renew", "credential", "midrenew", "release"}

NoLease == [token |-> NoToken, ttl |-> 0]

NoCall == [ok |-> FALSE, token |-> NoToken, age |-> 0]

RowType == [token : Token \cup {NoToken}, ttl : -1..MaxClaim,
            desired : {"RUNNING", "STOPPED"}, actual : {"RUNNING", "STOPPED"}]

LeaseType == [Process -> [token : Token \cup {NoToken}, ttl : 0..Grant]]

CallType == [Process -> [ok : BOOLEAN, token : Token \cup {NoToken},
                         age : 0..MaxLatency]]

TypeOK ==
    /\ row \in RowType
    /\ mailbox \in BOOLEAN
    /\ pc \in [Process -> Points]
    /\ lease \in LeaseType
    /\ call \in CallType
    /\ link \in [Process -> BOOLEAN]
    /\ faults \in 0..MaxFaults
    /\ crashes \in 0..MaxCrashes
    /\ haltedFor \in 0..HaltCap

Init ==
    /\ row = [token |-> NoToken, ttl |-> -1, desired |-> "RUNNING", actual |-> "STOPPED"]
    /\ mailbox = TRUE
    /\ pc = [p \in Process |-> "down"]
    /\ lease = [p \in Process |-> NoLease]
    /\ call = [p \in Process |-> NoCall]
    /\ link = [p \in Process |-> FALSE]
    /\ faults = 0
    /\ crashes = 0
    /\ haltedFor = 0

-----------------------------------------------------------------------------
(* The daemon's own view of its lease. *)

Active(p) == lease[p].token # NoToken /\ lease[p].ttl > 0

\* time_until_expiry() < renewal_interval_seconds; 0.0 when not active.
NearExpiry(p) == ~Active(p) \/ lease[p].ttl < Threshold

Goto(p, point) == pc' = [pc EXCEPT ![p] = point]

(* The database side of each RPC. *)

Expired == row.ttl < 0

\* Variant: the claim RPC does not look at the lease in the row.
ClaimableAlways == row.desired = "RUNNING"

\* Variant: a lease becomes free only by being released.
ClaimableWhenReleased == row.desired = "RUNNING" /\ row.token = NoToken

Claimable ==
    /\ row.desired = "RUNNING"
    /\ row.token = NoToken \/ Expired \/ OwnerReclaims

\* Variant: a token check that forgets desired_state.
AuthorisedWhileStopped(p) ==
    lease[p].token # NoToken /\ lease[p].token = row.token /\ row.ttl > 0

Authorised(p) ==
    /\ lease[p].token # NoToken
    /\ lease[p].token = row.token
    /\ row.ttl > 0
    /\ row.desired = "RUNNING"

InUse == {row.token} \cup {lease[q].token : q \in Process}
                     \cup {call[q].token : q \in Process}

\* A call the server answers with result ok; token is what the reply carries.
Answered(p, op, ok, token) ==
    /\ link[p]
    /\ Goto(p, op)
    /\ call' = [call EXCEPT ![p] = [ok |-> ok, token |-> token, age |-> 0]]

\* The server aborts the statement: timeout, or the row locked by another call.
Aborted(p, op) ==
    /\ faults < MaxFaults
    /\ faults' = faults + 1
    /\ Answered(p, op, FALSE, NoToken)
    /\ UNCHANGED <<row, mailbox, lease, link, crashes, haltedFor>>

Refused(p, op) ==
    /\ Answered(p, op, FALSE, NoToken)
    /\ UNCHANGED <<row, lease, link, env>>

ClaimWorkerLease(p) ==
    \/ /\ Claimable
       /\ \E t \in Token \ InUse :
             /\ row' = [row EXCEPT !.token = t, !.ttl = Clamp(Duration, MaxClaim),
                                   !.actual = "RUNNING"]
             /\ Answered(p, "claim", TRUE, t)
       /\ UNCHANGED <<lease, link, env>>
    \/ ~Claimable /\ Refused(p, "claim")
    \/ Aborted(p, "claim")

RenewWorkerLease(p, op) ==
    \/ /\ Authorised(p)
       /\ row' = [row EXCEPT !.ttl = Clamp(Extension, MaxExtend)]
       /\ Answered(p, op, TRUE, NoToken)
       /\ UNCHANGED <<lease, link, env>>
    \/ ~Authorised(p) /\ Refused(p, op)
    \/ Aborted(p, op)

FetchLeasedMailboxCredential(p) ==
    \/ /\ Answered(p, "credential", Authorised(p) /\ mailbox, NoToken)
       /\ UNCHANGED <<row, lease, link, env>>
    \/ Aborted(p, "credential")

ReleaseWorkerLease(p) ==
    \/ /\ lease[p].token = row.token
       /\ row' = [row EXCEPT !.token = NoToken, !.ttl = -1,
                     !.actual = IF row.desired = "RUNNING" THEN "STOPPED" ELSE @]
       /\ Answered(p, "release", TRUE, NoToken)
       /\ UNCHANGED <<lease, link, env>>
    \/ lease[p].token # row.token /\ Refused(p, "release")
    \/ Aborted(p, "release")

-----------------------------------------------------------------------------
(* WorkerService.run and step. *)

Start(p) ==
    /\ pc[p] = "down"
    /\ Goto(p, "loop")
    /\ link' = [link EXCEPT ![p] = TRUE]
    /\ UNCHANGED <<row, lease, call, env>>

StepLease(p) ==
    /\ pc[p] = "loop"
    /\ \/ Active(p) /\ Goto(p, "leased") /\ UNCHANGED <<row, lease, call, link, env>>
       \/ ~Active(p) /\ ClaimWorkerLease(p)

StepRenewal(p) ==
    /\ pc[p] = "leased"
    /\ \/ ~NearExpiry(p) /\ Goto(p, "ready") /\ UNCHANGED <<row, lease, call, link, env>>
       \/ NearExpiry(p) /\ RenewWorkerLease(p, "renew")

\* Polling is off, the interval has not elapsed, or the lease ran out.
StepIdle(p) ==
    /\ pc[p] = "ready"
    /\ Goto(p, "loop")
    /\ UNCHANGED <<row, lease, call, link, env>>

StepPoll(p) ==
    /\ pc[p] = "ready"
    /\ Active(p)
    /\ FetchLeasedMailboxCredential(p)

\* acquire_lease / renew_lease / release_lease after the RPC has answered.
Reply(p) ==
    /\ pc[p] \in Waiting
    /\ call' = [call EXCEPT ![p] = NoCall]
    /\ UNCHANGED <<row, link, env>>

ClaimReply(p) ==
    /\ pc[p] = "claim"
    /\ Reply(p)
    /\ IF call[p].ok
       THEN /\ Goto(p, "leased")
            /\ lease' = [lease EXCEPT ![p] =
                 [token |-> call[p].token,
                  ttl   |-> Clamp(Duration, MaxClaim)
                              - (IF NumericExpiry THEN call[p].age ELSE 0)]]
       ELSE Goto(p, "loop") /\ UNCHANGED lease

\* Variant: a refused renewal wipes the token without releasing it.
RenewedLeaseOrNone(p) ==
    IF call[p].ok THEN [lease EXCEPT ![p].ttl = Extension]
                  ELSE [lease EXCEPT ![p] = NoLease]

\* Variant: the manager extends its expiry without looking at the RPC's result.
RenewedLeaseUnchecked(p) == [lease EXCEPT ![p].ttl = Extension]

\* A refused renewal keeps the token and the old expiry.
RenewedLease(p) ==
    IF call[p].ok THEN [lease EXCEPT ![p].ttl = Extension] ELSE lease

RenewReply(p) ==
    /\ pc[p] = "renew"
    /\ Reply(p)
    /\ lease' = RenewedLease(p)
    /\ Goto(p, IF call[p].ok THEN "ready" ELSE "loop")

CredentialReply(p) ==
    /\ pc[p] = "credential"
    /\ Reply(p)
    /\ Goto(p, IF call[p].ok THEN "poll" ELSE "loop")
    /\ UNCHANGED lease

-----------------------------------------------------------------------------
(* MailboxPoller.poll: the lease checks around each message. *)

\* No message left, or an IMAP error ends the poll.
PollEnd(p) ==
    /\ pc[p] \in {"poll", "fetched", "analyse"}
    /\ Goto(p, "loop")
    /\ UNCHANGED <<row, lease, call, link, env>>

PollMessage(p) ==
    /\ pc[p] = "poll"
    /\ \/ Active(p) /\ ~NearExpiry(p) /\ Goto(p, "fetched")
             /\ UNCHANGED <<row, lease, call, link, env>>
       \/ Active(p) /\ NearExpiry(p) /\ RenewWorkerLease(p, "midrenew")

\* The poller ignores the result of the renewal and looks at its own clock.
MidRenewReply(p) ==
    /\ pc[p] = "midrenew"
    /\ Reply(p)
    /\ lease' = RenewedLease(p)
    /\ Goto(p, IF lease'[p].ttl > 0 THEN "fetched" ELSE "loop")

MessageFetched(p) ==
    /\ pc[p] = "fetched"
    /\ Active(p)
    /\ Goto(p, "analyse")
    /\ UNCHANGED <<row, lease, call, link, env>>

MessageDone(p) ==
    /\ pc[p] = "analyse"
    /\ Goto(p, "poll")
    /\ UNCHANGED <<row, lease, call, link, env>>

-----------------------------------------------------------------------------
(* WorkerService.stop, the database connection, crashes. *)

Stop(p) ==
    /\ pc[p] = "loop"
    /\ IF lease[p].token = NoToken
       THEN Goto(p, "down") /\ UNCHANGED <<row, lease, call, link, env>>
       ELSE ReleaseWorkerLease(p)

\* The token is wiped whatever the RPC returned or raised.
ReleaseReply(p) ==
    /\ pc[p] = "release"
    /\ Reply(p)
    /\ lease' = [lease EXCEPT ![p] = NoLease]
    /\ Goto(p, "down")

\* The connection closes; a reply in flight becomes an exception.
LinkLost(p) ==
    /\ faults < MaxFaults
    /\ faults' = faults + 1
    /\ link[p]
    /\ pc[p] \notin {"down", "hung"}
    /\ link' = [link EXCEPT ![p] = FALSE]
    /\ call' = [call EXCEPT ![p].ok = FALSE]
    /\ UNCHANGED <<row, mailbox, pc, lease, crashes, haltedFor>>

\* Every RPC of WorkerDBClient calls connect() while holding the lock that
\* connect() takes: after a lost connection the next call never returns.
Hang(p) ==
    /\ ~link[p]
    /\ \/ pc[p] = "loop" /\ ~Active(p)
       \/ pc[p] = "leased" /\ NearExpiry(p)
       \/ pc[p] = "ready" /\ Active(p)
       \/ pc[p] = "poll" /\ Active(p) /\ NearExpiry(p)
    /\ Goto(p, "hung")
    /\ UNCHANGED <<row, lease, call, link, env>>

StopHangs(p) ==
    /\ ~link[p]
    /\ pc[p] = "loop"
    /\ lease[p].token # NoToken
    /\ Goto(p, "hung")
    /\ UNCHANGED <<row, lease, call, link, env>>

Crash(p) ==
    /\ pc[p] # "down"
    /\ crashes < MaxCrashes
    /\ crashes' = crashes + 1
    /\ Goto(p, "down")
    /\ lease' = [lease EXCEPT ![p] = NoLease]
    /\ call' = [call EXCEPT ![p] = NoCall]
    /\ link' = [link EXCEPT ![p] = FALSE]
    /\ UNCHANGED <<row, mailbox, faults, haltedFor>>

-----------------------------------------------------------------------------
(* The control plane, one database transaction at a time. *)

daemons == <<pc, lease, call, link, faults, crashes>>

SetDesiredState(state) ==
    /\ row' = [row EXCEPT !.desired = state]
    /\ haltedFor' = IF state = "RUNNING" THEN 0 ELSE haltedFor
    /\ UNCHANGED <<mailbox, daemons>>

SetMailboxActive(active) ==
    /\ mailbox' = active
    /\ UNCHANGED <<row, haltedFor, daemons>>

Unleased == [row EXCEPT !.token = NoToken, !.ttl = -1, !.actual = "STOPPED"]

\* LocalWorkerDBClient.sync_mailbox_and_worker, through seed_worker
SyncMailboxAndWorker ==
    /\ LocalPlane
    /\ row' = [Unleased EXCEPT !.desired = "RUNNING"]
    /\ mailbox' = TRUE
    /\ haltedFor' = 0
    /\ UNCHANGED daemons

DeactivateMailbox ==
    /\ LocalPlane
    /\ row' = [Unleased EXCEPT !.desired = "STOPPED"]
    /\ mailbox' = FALSE
    /\ UNCHANGED <<haltedFor, daemons>>

ForceReleaseWorkerLease ==
    /\ LocalPlane
    /\ row' = Unleased
    /\ UNCHANGED <<mailbox, haltedFor, daemons>>

-----------------------------------------------------------------------------
\* One second passes; no reply grows older than MaxLatency.
Tick ==
    /\ \A p \in Process : pc[p] \in Waiting => call[p].age < MaxLatency
    /\ row' = [row EXCEPT !.ttl = Down(@, -1)]
    /\ lease' = [p \in Process |-> [lease[p] EXCEPT !.ttl = Down(@, 0)]]
    /\ call' = [p \in Process |->
          IF pc[p] \in Waiting THEN [call[p] EXCEPT !.age = @ + 1] ELSE call[p]]
    /\ haltedFor' = IF row.desired = "STOPPED" /\ haltedFor < HaltCap
                    THEN haltedFor + 1 ELSE haltedFor
    /\ UNCHANGED <<mailbox, pc, link, faults, crashes>>

\* What a daemon that is up does by itself.
Progress(p) ==
    \/ StepLease(p) \/ StepRenewal(p) \/ StepIdle(p) \/ StepPoll(p)
    \/ ClaimReply(p) \/ RenewReply(p) \/ CredentialReply(p) \/ MidRenewReply(p)
    \/ PollMessage(p) \/ MessageFetched(p) \/ MessageDone(p) \/ PollEnd(p)
    \/ ReleaseReply(p) \/ Hang(p)

Disturb(p) == Start(p) \/ Stop(p) \/ StopHangs(p) \/ LinkLost(p) \/ Crash(p)

ControlPlane ==
    \/ \E state \in {"RUNNING", "STOPPED"} : SetDesiredState(state)
    \/ \E active \in BOOLEAN : SetMailboxActive(active)
    \/ SyncMailboxAndWorker \/ DeactivateMailbox \/ ForceReleaseWorkerLease

Next ==
    \/ \E p \in Process : Progress(p) \/ Disturb(p)
    \/ ControlPlane
    \/ Tick

Spec == Init /\ [][Next]_vars

\* The daemon's loop keeps running and time passes; nothing else is promised.
FairSpec ==
    /\ Spec
    /\ WF_vars(Tick)
    /\ \A p \in Process : WF_vars(Progress(p))

-----------------------------------------------------------------------------
\* A daemon that works, or will work as soon as it looks at its clock.
Serving(p) == Active(p) /\ pc[p] # "release"

\* Two daemons of one worker both believe they hold the lease only while one
\* of them is within MaxLatency of its own expiry: the check is_active makes
\* on the local clock outlives the database lease by a reply's age at most.
BoundedOverlap ==
    \A p, q \in Process :
        p # q /\ Serving(p) /\ Serving(q)
            => lease[p].ttl <= MaxLatency \/ lease[q].ttl <= MaxLatency

\* After the control plane sets desired_state to STOPPED a daemon can go on
\* taking messages, but never past the longest lease plus one reply.
HaltBound ==
    \A p \in Process :
        row.desired = "STOPPED" /\ Active(p) => haltedFor < Span

\* A token the database no longer knows is never the only one in the row:
\* the lease the row records live belongs to a daemon or to a reply on its
\* way, unless a fault or a crash lost it.
NoOrphan ==
    row.ttl > 0 /\ faults = 0 /\ crashes = 0 =>
        \E p \in Process : lease[p].token = row.token \/ call[p].token = row.token

Holds(p) == Active(p) /\ lease[p].token = row.token

\* Local helpers that take the lease out of the row under its holder.
TakesLease == SyncMailboxAndWorker \/ ForceReleaseWorkerLease

\* Once the control plane wants the worker RUNNING, leaves its lease alone and
\* a daemon is up, the lease is held again and again: neither a holder that
\* crashed or stopped, a reply that died with it, nor an expiry leaves the row
\* unusable for ever.
Recovers ==
    <>[][~TakesLease]_vars =>
        \A p \in Process :
            <>[](row.desired = "RUNNING" /\ pc[p] \notin {"down", "hung"})
                => []<>(\E q \in Process : Holds(q))

-----------------------------------------------------------------------------
(* The inductive invariants behind HaltBound and BoundedOverlap. *)

Extending == {"claim", "renew", "midrenew"}

\* Once halted nothing extends a lease: what a daemon holds, or will hold when
\* its reply arrives, was granted before the halt.
HaltInv ==
    /\ row.desired = "RUNNING" => haltedFor = 0
    /\ \A p \in Process :
          /\ lease[p].ttl > 0 => lease[p].ttl + haltedFor <= Span
          /\ call[p].ok /\ pc[p] \in Extending => haltedFor <= call[p].age

\* Every token has one bearer, bound or on its way.
TokensDistinct ==
    \A p, q \in Process :
        /\ p # q /\ lease[p].token # NoToken => lease[p].token # lease[q].token
        /\ p # q /\ call[p].token # NoToken => call[p].token # call[q].token
        /\ call[p].token # NoToken => call[p].token # lease[q].token

\* A grant on its way is still the row's lease, and no older than its reply.
InFlight(p) ==
    call[p].ok =>
        /\ pc[p] = "claim" =>
              /\ call[p].token # NoToken
              /\ call[p].token = row.token
              /\ row.ttl >= Duration - call[p].age
        /\ pc[p] \in {"renew", "midrenew"} =>
              /\ lease[p].token # NoToken
              /\ lease[p].token = row.token
              /\ row.ttl >= Extension - call[p].age

\* The local clock runs at most one reply's age behind the row, and a daemon
\* whose token was superseded is within that age of its own expiry.
Clock(p) ==
    Serving(p) =>
        IF lease[p].token = row.token
        THEN lease[p].ttl <= row.ttl + MaxLatency
        ELSE lease[p].ttl <= MaxLatency

OverlapInv ==
    TokensDistinct /\ \A p \in Process : InFlight(p) /\ Clock(p)

\* A token on its way is a claim's, and not the one that its daemon gives up for it;
\* without a fault no claim's reply is lost, and what a releasing daemon forgets is
\* no longer the row's.
OrphanInv ==
    /\ row.ttl > 0 => row.token # NoToken
    /\ \A p \in Process :
          /\ pc[p] # "claim" => call[p].token = NoToken
          /\ pc[p] = "claim" /\ call[p].ok => call[p].token # NoToken
          /\ call[p].token # NoToken => lease[p].token # row.token \/ row.token = NoToken
          /\ faults = 0 /\ ~call[p].ok => call[p].token = NoToken
          /\ faults = 0 /\ pc[p] = "release" =>
                lease[p].token # row.token \/ row.token = NoToken

-----------------------------------------------------------------------------
(* The lease keeps the abstract promise of Tenancy. *)

Left(p) == IF Serving(p) THEN lease[p].ttl ELSE 0

\* On record: who bears the row's token, or will when a reply arrives.
Bearers ==
    {p \in Process : row.token # NoToken /\ row.token \in {lease[p].token, call[p].token}}

Promise == INSTANCE Tenancy WITH
    Term <- Grant, Grace <- MaxLatency, Cap <- HaltCap,
    wanted <- row.desired = "RUNNING", since <- haltedFor,
    holder <- Bearers, left <- [p \in Process |-> Left(p)]

\* Whatever the order of claims, renewals, replies, lost connections, crashes and
\* expiries, each step of the daemons and the RPCs awards, extends or ends a term as
\* Tenancy allows, or changes nothing of it: in particular a daemon begins or extends
\* its term only while the row still names it, and the row is given to another only
\* when everybody else lingers at most.
KeepsPromise == Promise!Spec
=============================================================================
