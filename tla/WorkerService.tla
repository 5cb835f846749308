--------------------------- MODULE WorkerService ---------------------------
(***************************************************************************)
(* One daemon process: WorkerService.run on the main thread and, between   *)
(* any two of its bytecodes, _handle_signal on the same thread.  While the *)
(* handler runs the main flow stands still, so a lock the main flow holds  *)
(* stays held.  The PostgreSQL client uses a plain Lock and reconnects     *)
(* inside it; the local JSON client uses an RLock and needs no connection. *)
(***************************************************************************)
EXTENDS Integers

CONSTANTS
    MaxClaims,    \* bound on leases granted
    MaxSignals,   \* bound on SIGTERM and SIGINT
    MaxFaults     \* bound on failed RPCs and connection attempts

ASSUME ServiceAssumption ==
    MaxClaims \in Nat /\ MaxSignals \in Nat /\ MaxFaults \in Nat

VARIABLES
    client,      \* the database client the configuration selects, for good
    state,       \* DaemonState
    shouldStop,  \* _should_stop
    pc,          \* the main flow
    handler,     \* _handle_signal and the stop() it calls
    conn,        \* the PostgreSQL connection is open
    bound,       \* token in WorkerIdentity, 0 for none
    reply,       \* token in a claim's reply not yet bound
    lapsed,      \* tokens whose lease has run out
    row,         \* token in the worker row, 0 for none
    granted, signals, faults

leases == <<bound, reply, lapsed, row, granted>>
budget == <<signals, faults>>
vars   == <<client, state, shouldStop, pc, handler, conn, leases, budget>>

\* Points of the main flow, in the order run() and step() reach them; *ing is
\* inside the client's lock.
Locked == {"connecting", "verifying", "claiming", "renewing", "fetching",
           "releasing", "closing"}

Points == {"register", "start", "connect", "verify", "announce", "loop", "lease",
           "claim", "bind", "renewal", "renew", "beat", "poll", "credential",
           "fetch", "messages", "work", "leave", "release", "close", "final",
           "hung", "exited"} \cup Locked

TypeOK ==
    /\ client \in {"postgres", "local"}
    /\ state \in {"STOPPED", "STARTING", "RUNNING", "STOPPING"}
    /\ shouldStop \in BOOLEAN
    /\ pc \in Points
    /\ handler \in {"none", "entered", "release", "close", "final"}
    /\ conn \in BOOLEAN
    /\ {bound, reply, row} \subseteq 0..MaxClaims
    /\ lapsed \subseteq 1..MaxClaims
    /\ granted \in 0..MaxClaims
    /\ signals \in 0..MaxSignals
    /\ faults \in 0..MaxFaults

Init ==
    /\ client \in {"postgres", "local"}
    /\ state = "STOPPED" /\ shouldStop = FALSE
    /\ pc = "register" /\ handler = "none" /\ conn = FALSE
    /\ bound = 0 /\ reply = 0 /\ lapsed = {} /\ row = 0
    /\ granted = 0 /\ signals = 0 /\ faults = 0

Postgres == client = "postgres"

Active == bound # 0 /\ bound \notin lapsed

IsRunning == state = "RUNNING" /\ ~shouldStop

\* The main flow moves from one point to another.
At(from, to) == handler = "none" /\ pc = from /\ pc' = to

Fault == faults < MaxFaults /\ faults' = faults + 1

-----------------------------------------------------------------------------
(* run(): handlers are registered before start() sets STARTING. *)

Register ==
    /\ At("register", "start")
    /\ UNCHANGED <<client, state, shouldStop, handler, conn, leases, budget>>

StartBegins ==
    /\ At("start", "connect")
    /\ state' = "STARTING"
    /\ shouldStop' = FALSE
    /\ UNCHANGED <<client, handler, conn, leases, budget>>

\* Each client call is bracketed by the lock.
TakeLock ==
    /\ \/ At("connect", "connecting") \/ At("verify", "verifying")
       \/ (conn \/ ~Postgres) /\
             (At("claim", "claiming") \/ At("renew", "renewing")
              \/ At("fetch", "fetching") \/ At("release", "releasing"))
       \/ At("close", "closing")
    /\ UNCHANGED <<client, state, shouldStop, handler, conn, leases, budget>>

\* With the connection closed the call reconnects inside its own lock.
Reconnect ==
    /\ Postgres /\ ~conn
    /\ \/ At("claim", "hung") \/ At("renew", "hung") \/ At("fetch", "hung")
       \/ At("release", "hung")
    /\ UNCHANGED <<client, state, shouldStop, handler, conn, leases, budget>>

Connect ==
    /\ \/ At("connecting", "verify") /\ conn' = TRUE /\ UNCHANGED faults
       \/ At("connecting", "exited") /\ Fault /\ UNCHANGED conn
    /\ UNCHANGED <<client, state, shouldStop, handler, signals, leases>>

\* A handler that ran in between closed the connection: start() raises, and
\* run() has not reached its try.
Verify ==
    /\ IF conn \/ ~Postgres THEN At("verifying", "announce") /\ state' = "RUNNING"
                            ELSE At("verifying", "exited") /\ UNCHANGED state
    /\ UNCHANGED <<client, shouldStop, handler, conn, leases, budget>>

\* run(max_iterations) may also leave the loop by itself.
Loop ==
    /\ \/ At("announce", "loop")
       \/ IsRunning /\ At("loop", "lease")
       \/ At("loop", "leave")
    /\ UNCHANGED <<client, state, shouldStop, handler, conn, leases, budget>>

-----------------------------------------------------------------------------
(* step(): lease, renewal, heartbeat, poll. *)

StepDecides ==
    /\ \/ Active /\ At("lease", "renewal")
       \/ ~Active /\ At("lease", "claim")
       \/ At("renewal", "beat")
       \/ bound # 0 /\ At("renewal", "renew")
       \/ bound = 0 /\ At("renewal", "loop")
       \/ At("beat", "loop") \/ At("beat", "poll")
       \/ Active /\ At("poll", "credential")
       \/ ~Active /\ At("poll", "loop")
       \/ bound # 0 /\ At("credential", "fetch")
       \/ bound = 0 /\ At("credential", "loop")
    /\ UNCHANGED <<client, state, shouldStop, handler, conn, leases, budget>>

\* The row is claimed and the token answered, or the answer is lost; or the
\* claim is refused, because of desired_state or of another daemon's lease.
Claim ==
    /\ \/ /\ row = 0 \/ row \in lapsed
          /\ granted < MaxClaims
          /\ granted' = granted + 1
          /\ row' = granted + 1
          /\ \/ At("claiming", "bind") /\ reply' = granted + 1 /\ UNCHANGED faults
             \/ At("claiming", "loop") /\ Fault /\ UNCHANGED reply
       \/ At("claiming", "loop") /\ UNCHANGED <<row, reply, granted, faults>>
    /\ UNCHANGED <<client, state, shouldStop, handler, conn, bound, lapsed,
                   signals>>

Bind ==
    /\ At("bind", "renewal")
    /\ bound' = reply
    /\ reply' = 0
    /\ UNCHANGED <<client, state, shouldStop, handler, conn, lapsed, row,
                   granted, budget>>

\* Both RPCs verify the token against the row, and may be refused or fail.
Authorised == Active /\ bound = row

Renew ==
    /\ (Authorised /\ At("renewing", "beat")) \/ At("renewing", "loop")
    /\ UNCHANGED <<client, state, shouldStop, handler, conn, leases, budget>>

FetchCredential ==
    /\ (Authorised /\ At("fetching", "messages")) \/ At("fetching", "loop")
    /\ UNCHANGED <<client, state, shouldStop, handler, conn, leases, budget>>

\* The poller takes another message only while is_active.
Message ==
    /\ \/ Active /\ At("messages", "work")
       \/ At("messages", "loop")
       \/ At("work", "messages")
    /\ UNCHANGED <<client, state, shouldStop, handler, conn, leases, budget>>

\* Variant: an expiry without a lease to expire.
LeaseLapsesAlways ==
    /\ lapsed' = lapsed \cup {row}
    /\ UNCHANGED <<client, state, shouldStop, pc, handler, conn, bound, reply,
                   row, granted, budget>>

LeaseLapses ==
    /\ row # 0 /\ row # reply
    /\ lapsed' = lapsed \cup {row}
    /\ UNCHANGED <<client, state, shouldStop, pc, handler, conn, bound, reply,
                   row, granted, budget>>

-----------------------------------------------------------------------------
(* stop(), by the main flow in run()'s finally or by the handler. *)

Stopping == state \in {"STOPPING", "STOPPED"}

\* Variant: the token is wiped but the row is not released.
ReleaseRowNever == row' = row

ReleaseRow == row' = IF bound = row THEN 0 ELSE row

\* Variant: the released token stays bound.
ReleaseLeaseKeepsToken ==
    /\ ReleaseRow
    /\ UNCHANGED <<faults, bound>>

\* The token and the expiry are wiped whatever becomes of the RPC.
ReleaseLease ==
    /\ \/ ReleaseRow /\ UNCHANGED faults
       \/ Fault /\ UNCHANGED row
    /\ bound' = 0

MainStop ==
    /\ \/ At("leave", "exited") /\ Stopping /\ UNCHANGED <<state, shouldStop>>
       \/ At("leave", "release") /\ ~Stopping /\ bound # 0
             /\ state' = "STOPPING" /\ shouldStop' = TRUE
       \/ At("leave", "close") /\ ~Stopping /\ bound = 0
             /\ state' = "STOPPING" /\ shouldStop' = TRUE
       \/ At("final", "exited") /\ state' = "STOPPED" /\ UNCHANGED shouldStop
    /\ UNCHANGED <<client, handler, conn, leases, budget>>

MainRelease ==
    /\ At("releasing", "close")
    /\ ReleaseLease
    /\ UNCHANGED <<client, state, shouldStop, handler, conn, reply, lapsed,
                   granted, signals>>

MainClose ==
    /\ At("closing", "final")
    /\ conn' = FALSE
    /\ UNCHANGED <<client, state, shouldStop, handler, leases, budget>>

Signal ==
    /\ signals < MaxSignals
    /\ signals' = signals + 1
    /\ handler = "none"
    /\ pc \notin {"register", "exited"}
    /\ handler' = "entered"
    /\ UNCHANGED <<client, state, shouldStop, pc, conn, faults, leases>>

\* Variant: a stop that leaves _should_stop alone.
HandlerStopForgetsFlag ==
    /\ handler = "entered"
    /\ \/ Stopping /\ handler' = "none" /\ UNCHANGED state
       \/ /\ ~Stopping
          /\ handler' = IF bound # 0 THEN "release" ELSE "close"
          /\ state' = "STOPPING"
    /\ UNCHANGED <<client, shouldStop, pc, conn, leases, budget>>

\* Variant: a stop that closes the connection and keeps the lease.
HandlerStopKeepsLease ==
    /\ handler = "entered"
    /\ \/ Stopping /\ handler' = "none" /\ UNCHANGED <<state, shouldStop>>
       \/ ~Stopping /\ handler' = "close" /\ state' = "STOPPING" /\ shouldStop' = TRUE
    /\ UNCHANGED <<client, pc, conn, leases, budget>>

HandlerStop ==
    /\ handler = "entered"
    /\ \/ Stopping /\ handler' = "none" /\ UNCHANGED <<state, shouldStop>>
       \/ /\ ~Stopping
          /\ handler' = IF bound # 0 THEN "release" ELSE "close"
          /\ state' = "STOPPING"
          /\ shouldStop' = TRUE
    /\ UNCHANGED <<client, pc, conn, leases, budget>>

\* The lock is free, or it is an RLock of this very thread.
LockFree == ~Postgres \/ pc \notin Locked \cup {"hung"}

\* The local client reads the file first: a claim the main flow has made in
\* memory but not yet saved is undone.
HandlerRelease ==
    /\ handler = "release"
    /\ LockFree
    /\ conn \/ ~Postgres
    /\ handler' = "close"
    /\ \/ ReleaseLease
       \/ ~Postgres /\ pc = "bind" /\ row' = 0 /\ bound' = 0 /\ UNCHANGED faults
    /\ UNCHANGED <<client, state, shouldStop, pc, conn, reply, lapsed, granted,
                   signals>>

HandlerClose ==
    /\ handler = "close"
    /\ LockFree
    /\ conn' = FALSE
    /\ handler' = "final"
    /\ UNCHANGED <<client, state, shouldStop, pc, leases, budget>>

HandlerFinal ==
    /\ handler = "final"
    /\ handler' = "none"
    /\ state' = "STOPPED"
    /\ UNCHANGED <<client, shouldStop, pc, conn, leases, budget>>

LinkLost ==
    /\ conn /\ Fault
    /\ conn' = FALSE
    /\ UNCHANGED <<client, state, shouldStop, pc, handler, leases, signals>>

-----------------------------------------------------------------------------
Main ==
    \/ Register \/ StartBegins \/ TakeLock \/ Reconnect \/ Connect \/ Verify
    \/ Loop \/ StepDecides \/ Claim \/ Bind \/ Renew \/ FetchCredential
    \/ Message \/ MainStop \/ MainRelease \/ MainClose

Handler == HandlerStop \/ HandlerRelease \/ HandlerClose \/ HandlerFinal

Next == Main \/ Handler \/ Signal \/ LeaseLapses \/ LinkLost

Spec == Init /\ [][Next]_vars

\* The process is scheduled; a poll has finitely many messages.
FairSpec ==
    /\ Spec
    /\ WF_vars(Main) /\ WF_vars(Handler)
    /\ SF_vars(Message /\ pc = "messages" /\ pc' = "loop")

-----------------------------------------------------------------------------
\* A message is being worked on only under the lease the row still records,
\* whatever handler ran while the main flow stood still.
WorkIsLeased == pc = "work" /\ Active => bound = row

\* Once a handler has stopped the service no further message is taken, with
\* the PostgreSQL client: the local one can claim again in the same step.
NoWorkAfterStop ==
    [][Postgres /\ pc = "messages" /\ pc' = "work" => state # "STOPPED"]_vars

\* A live lease in the row is one whose token the process holds or is about to
\* bind: stopping in the middle of a step wipes no token it did not release.
OnlyBearer ==
    faults = 0 /\ row # 0 /\ row \notin lapsed => row \in {bound, reply}

\* With the local client a signal that found the service up is followed by the
\* end of the process, wherever in a step or a stop it arrived.
LocalShutdownEnds == handler = "entered" /\ ~Stopping /\ ~Postgres ~> pc = "exited"

\* With any client, a signal that found the service up is followed by the end
\* of the process.
ShutdownEnds == handler = "entered" /\ ~Stopping ~> pc = "exited"
=============================================================================
