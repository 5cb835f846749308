----------------------------- MODULE Deployment -----------------------------
(***************************************************************************)
(* A deployment with a local worker: the control plane of the web          *)
(* application (core/sentinel_control.py), the JSON file it shares with    *)
(* the worker daemons (LocalWorkerDBClient in worker/db.py), the daemons   *)
(* themselves and the code that starts and stops them                      *)
(* (core/sentinel_stats.py, worker/lifecycle.py, worker/service.py).       *)
(*                                                                         *)
(* A button of the live mail page is a script: a sequence of steps, each a *)
(* call to the hosted database, a read or a write of one local file, or a  *)
(* process call.  Scripts of different users and the daemons interleave    *)
(* between any two steps.  The JSON file is read whole into a snapshot and *)
(* written back whole, with no lock between processes (db.py:536, 555).    *)
(*                                                                         *)
(* An account stands for a worker record and its mailbox, which the        *)
(* control plane creates together; deleting the worker deletes both        *)
(* (ON DELETE CASCADE), and the next connection makes a new account.       *)
(***************************************************************************)
EXTENDS Naturals, Sequences, FiniteSets, SequencesExt

CONSTANTS
    User,       \* users of the web application
    Process,    \* process ids: a dead process's id may be given again
    Nobody,     \* no process, no account, no session
    Operator,   \* whoever runs worker/lifecycle.py
    MaxGen,     \* bound: accounts a user has over time
    MaxClaims,  \* bound: leases claimed
    MaxOps,     \* bound: buttons pressed
    MaxFaults   \* bound: daemons that die and hosted calls that fail

Account == User \X (1..MaxGen)
Owner(a) == a[1]

VARIABLES
    hosted,     \* the hosted tables: desired state and generation of each user's
                \* account, and the users whose mailbox is active
    db,         \* the JSON file
    flag,       \* sentinel_production_polling.txt exists
    widfile,    \* sentinel_worker_id.txt: an account or Nobody
    runtime,    \* sentinel_worker_runtime.json: a pid and a worker id
    proc,       \* the daemons
    session,    \* the scripts in progress
    live,       \* the leases whose time has not run out
    claims, ops, faults,    \* counters
    lost,       \* some save was of a snapshot that another save had overtaken
    ended       \* the button with which a user has ended the monitoring since the
                \* mailbox was last connected, or "no"

vars == <<hosted, db, flag, widfile, runtime, proc, session, live, claims, ops,
          faults, lost, ended>>

-----------------------------------------------------------------------------
(* The state. *)

Op == {"connect", "pause", "resume", "disconnect", "deactivate", "delete"}
OperatorOp == {"cli_start", "cli_stop"}
Step == {"host_on", "host_off", "mailbox_on", "mailbox_off", "host_delete", "load",
         "save_run", "save_stop", "save_sync", "save_off", "save_free", "save_target",
         "wid", "flag_on", "flag_off", "others", "look", "cli_look", "spawn", "kill"}

\* What the JSON file holds: the workers, those to run, their leases, the active
\* mailboxes and the usable credentials.
Db == [known : SUBSET Account, run : SUBSET Account, lease : [Account -> 0..MaxClaims],
       active : SUBSET Account, usable : SUBSET Account]

\* A script in progress: the steps left, the snapshot of the file if it has read
\* it, and the worker it starts.
Script == [op : Op \cup OperatorOp, todo : Seq(Step), snap : Db \cup {Nobody},
           target : Account \cup {Nobody}]

ASSUME DeploymentAssumption ==
    /\ Operator \notin User /\ Nobody \notin Script
    /\ MaxGen \in Nat /\ MaxClaims \in Nat /\ MaxOps \in Nat /\ MaxFaults \in Nat

Down == [pc |-> "off", wid |-> Nobody, polls |-> FALSE, token |-> 0, snap |-> Nobody]
NoDb == [known |-> {}, run |-> {}, lease |-> [a \in Account |-> 0],
         active |-> {}, usable |-> {}]

Init ==
    /\ hosted = [desired |-> [u \in User |-> "none"], gen |-> [u \in User |-> 0],
                 active |-> {}]
    /\ db = NoDb
    /\ flag = FALSE
    /\ widfile = Nobody
    /\ runtime = [pid |-> Nobody, wid |-> Nobody]
    /\ proc = [p \in Process |-> Down]
    /\ session = [u \in User \cup {Operator} |-> Nobody]
    /\ live = {}
    /\ claims = 0 /\ ops = 0 /\ faults = 0
    /\ lost = FALSE
    /\ ended = [u \in User |-> "no"]

HasAccount(u) == hosted.desired[u] # "none"
AccountOf(u) == <<u, hosted.gen[u]>>
AccountsOf(u) == {a \in db.known : Owner(a) = u}

\* is_pid_alive: the signal 0 reaches a process that has died too, until its
\* parent, the web application, has waited for it.
Alive(p) == p # Nobody /\ proc[p].pc # "off"

\* has_other_active_mailboxes, over the file as it is.
OthersActive(u) == \E a \in db.active : Owner(a) # u

-----------------------------------------------------------------------------
(* The changes made to a snapshot of the JSON file. *)

\* Variant: the user's other mailboxes stay active.
SyncedBeside(d, a) ==
    [known |-> d.known \cup {a}, run |-> d.run \cup {a},
     lease |-> [d.lease EXCEPT ![a] = 0],
     active |-> d.active \cup {a}, usable |-> d.usable \cup {a}]

\* seed_worker and the rest of sync_mailbox_and_worker: the worker anew and
\* unleased, the mailbox anew, every other mailbox of the user inactive.
Synced(d, a) ==
    [known |-> d.known \cup {a},
     run |-> d.run \cup {a},
     lease |-> [d.lease EXCEPT ![a] = 0],
     active |-> {b \in d.active : Owner(b) # Owner(a)} \cup {a},
     usable |-> d.usable \cup {a}]

\* Variant: the desired state of every worker of the file.
DesiredOfAll(d, u, running) == [d EXCEPT !.run = IF running THEN d.known ELSE {}]

\* set_desired_state: every worker of the user.
Desired(d, u, running) ==
    LET mine == {a \in d.known : Owner(a) = u}
    IN  [d EXCEPT !.run = IF running THEN @ \cup mine ELSE @ \ mine]

\* Variant: the mailboxes inactive with their credentials left.
DeactivatedOnly(d, u) ==
    LET others == {a \in Account : Owner(a) # u}
    IN  [d EXCEPT !.run = @ \cap others, !.active = @ \cap others,
                  !.lease = [a \in Account |-> IF a \in others THEN @[a] ELSE 0]]

\* deactivate_mailbox: the user's workers stopped and unleased, the user's
\* mailboxes inactive and their credentials overwritten.
Deactivated(d, u) ==
    LET others == {a \in Account : Owner(a) # u}
    IN  [d EXCEPT !.run = @ \cap others, !.active = @ \cap others,
                  !.usable = @ \cap others,
                  !.lease = [a \in Account |-> IF a \in others THEN @[a] ELSE 0]]

\* force_release_worker_lease without an argument: every worker's lease.
Released(d) == [d EXCEPT !.lease = [a \in Account |-> 0]]

\* start_sentinel_worker_daemon on its target, whoever's worker it is.
Targeted(d, a) ==
    IF a \in d.known THEN [d EXCEPT !.run = @ \cup {a}, !.lease[a] = 0] ELSE d

-----------------------------------------------------------------------------
(* The scripts.  A "load" and the "save" after it are one use of the file. *)

StartSteps == <<"flag_on", "look">>
StopSteps == <<"load", "save_free">>    \* stop_sentinel_worker_daemon: no process is
                                        \* signalled, the name sys is not imported there

\* The pages differ: the dashboard and the settings pause without a look at the
\* daemon, the dashboard resumes without starting one and disconnects without
\* stopping one, the live mail page does all three.
Scripts(u, op) ==
    CASE op = "connect" ->
            {<<"host_on", "load", "save_run", "mailbox_on", "host_on",
               "load", "save_sync", "wid", "flag_on">> \o StartSteps}
      [] op = "pause" ->
            {<<"host_off", "load", "save_stop">> \o tail : tail \in {<<>>, StopSteps}}
      [] op = "resume" ->
            {<<"host_on", "load", "save_run">> \o tail : tail \in {<<>>, StartSteps}}
      [] op = "disconnect" ->
            {<<"host_off", "mailbox_off", "load", "save_off", "others">> \o tail :
                tail \in {<<>>, StopSteps}}
      [] op = "deactivate" -> {<<"host_off", "mailbox_off", "others">>}
      [] op = "delete" -> {<<"others", "host_delete">>}
      [] op = "cli_start" -> {<<"cli_look">>}
      [] op = "cli_stop" -> {<<"kill", "load", "save_free">>}

\* What the pages offer: the connect form to everyone, the buttons to a user with
\* an account, and Disconnect to one with an active mailbox.
Offered(u, op) ==
    CASE op = "connect" -> HasAccount(u) \/ hosted.gen[u] < MaxGen
      [] op = "disconnect" -> u \in hosted.active
      [] OTHER -> HasAccount(u)

Begin(u, op) ==
    /\ session[u] = Nobody /\ ops < MaxOps
    /\ IF u = Operator THEN op \in OperatorOp /\ db.known # {}
                       ELSE op \in Op /\ Offered(u, op)
    /\ \E script \in Scripts(u, op) :
          session' = [session EXCEPT ![u] = [op |-> op, todo |-> script,
                                             snap |-> Nobody, target |-> Nobody]]
    /\ ops' = ops + 1
    /\ UNCHANGED <<hosted, db, flag, widfile, runtime, proc, live, claims, faults, lost, ended>>

Ending == {"disconnect", "deactivate", "delete"}

\* u's script takes the step `name`; then come the steps `rest`.
Takes(u, name) == session[u] # Nobody /\ Head(session[u].todo) = name
Remaining(u) == Tail(session[u].todo)
Continue(u, s, rest) ==
    IF rest = <<>>
    THEN /\ session' = [session EXCEPT ![u] = Nobody]
         /\ ended' = IF s.op \in Ending THEN [ended EXCEPT ![u] = s.op] ELSE ended
    ELSE /\ session' = [session EXCEPT ![u] = [s EXCEPT !.todo = rest]]
         /\ UNCHANGED ended
Advance(u) == Continue(u, session[u], Remaining(u))

-----------------------------------------------------------------------------
(* The steps of the scripts on the hosted database. *)

\* Variant: a worker is inserted on every call, an upsert by no key.
HostOnAnew(u) ==
    /\ Takes(u, "host_on")
    /\ hosted' = [hosted EXCEPT !.desired[u] = "RUNNING", !.gen[u] = @ + 1]
    /\ Advance(u)
    /\ UNCHANGED <<db, flag, widfile, runtime, proc, live, claims, ops, faults, lost>>

\* get_user_worker, then the worker upserted or its desired state set.
HostOn(u) ==
    /\ Takes(u, "host_on")
    /\ hosted' = [hosted EXCEPT !.desired[u] = "RUNNING",
                                !.gen[u] = IF HasAccount(u) THEN @ ELSE @ + 1]
    /\ Advance(u)
    /\ UNCHANGED <<db, flag, widfile, runtime, proc, live, claims, ops, faults, lost>>

HostOff(u) ==
    /\ Takes(u, "host_off")
    /\ hosted' = [hosted EXCEPT !.desired[u] = IF @ = "none" THEN @ ELSE "STOPPED"]
    /\ Advance(u)
    /\ UNCHANGED <<db, flag, widfile, runtime, proc, live, claims, ops, faults, lost>>

\* The connection takes effect: what the user ended before is over.
MailboxOn(u) ==
    /\ Takes(u, "mailbox_on")
    /\ hosted' = [hosted EXCEPT !.active = @ \cup {u}]
    /\ session' = [session EXCEPT ![u].todo = Remaining(u)]
    /\ ended' = [ended EXCEPT ![u] = "no"]
    /\ UNCHANGED <<db, flag, widfile, runtime, proc, live, claims, ops, faults, lost>>

MailboxOff(u) ==
    /\ Takes(u, "mailbox_off")
    /\ hosted' = [hosted EXCEPT !.active = @ \ {u}]
    /\ Advance(u)
    /\ UNCHANGED <<db, flag, widfile, runtime, proc, live, claims, ops, faults, lost>>

\* With row security that hides the row from the update, a disconnect finds its
\* mailbox still active and deletes the configuration instead.
MailboxHidden(u) ==
    /\ Takes(u, "mailbox_off") /\ session[u].op = "disconnect"
    /\ Continue(u, session[u], <<"others", "host_delete">> \o Remaining(u))
    /\ UNCHANGED <<hosted, db, flag, widfile, runtime, proc, live, claims, ops, faults, lost>>

HostDelete(u) ==
    /\ Takes(u, "host_delete")
    /\ hosted' = [hosted EXCEPT !.desired[u] = "none", !.active = @ \ {u}]
    /\ Advance(u)
    /\ UNCHANGED <<db, flag, widfile, runtime, proc, live, claims, ops, faults, lost>>

\* A hosted call fails, and the button ends with an error; what was done before
\* stays done.  A connect goes on when its writes of the desired state fail, and a
\* disconnect when the deletion it resorts to does.
HostedFails(u) ==
    LET rest == Remaining(u)
        again == Takes(u, "host_on") /\ session[u].op = "connect" /\ HasAccount(u)
        resort == Takes(u, "host_delete") /\ session[u].op = "disconnect"
    IN  /\ session[u] # Nobody /\ faults < MaxFaults
        /\ Head(session[u].todo) \in
              {"host_on", "host_off", "mailbox_on", "mailbox_off", "host_delete"}
        /\ IF again \/ resort
           THEN Continue(u, session[u],
                         IF "save_run" \in ToSet(rest) THEN Tail(Tail(rest)) ELSE rest)
           ELSE /\ session' = [session EXCEPT ![u] = Nobody]
                /\ UNCHANGED ended
        /\ faults' = faults + 1
        /\ UNCHANGED <<hosted, db, flag, widfile, runtime, proc, live, claims, ops, lost>>

-----------------------------------------------------------------------------
(* The steps on the local files. *)

Load(u) ==
    /\ Takes(u, "load")
    /\ Continue(u, [session[u] EXCEPT !.snap = db], Remaining(u))
    /\ UNCHANGED <<hosted, db, flag, widfile, runtime, proc, live, claims, ops, faults, lost>>

\* os.replace of the file by the changed snapshot, whatever was saved since it
\* was read; no save when there was nothing to change.
Save(u, name, new, changes) ==
    /\ Takes(u, name)
    /\ db' = IF changes THEN new ELSE db
    /\ lost' = (lost \/ (changes /\ session[u].snap # db))
    /\ Continue(u, [session[u] EXCEPT !.snap = Nobody], Remaining(u))
    /\ UNCHANGED <<hosted, flag, widfile, runtime, proc, live, claims, ops, faults>>

Mine(u) == {a \in session[u].snap.known : Owner(a) = u}
SaveRun(u) ==
    Save(u, "save_run", Desired(session[u].snap, u, TRUE), Mine(u) # {})
SaveStop(u) ==
    Save(u, "save_stop", Desired(session[u].snap, u, FALSE), Mine(u) # {})
SaveSync(u) == Save(u, "save_sync", Synced(session[u].snap, AccountOf(u)), TRUE)
SaveOff(u) == Save(u, "save_off", Deactivated(session[u].snap, u), Mine(u) # {})
SaveFree(u) ==
    Save(u, "save_free", Released(session[u].snap),
         session[u].snap.known # {} \/ u = Operator)
SaveTarget(u) == Save(u, "save_target", Targeted(session[u].snap, session[u].target), TRUE)

WriteWid(u) ==
    /\ Takes(u, "wid")
    /\ widfile' = AccountOf(u)
    /\ Advance(u)
    /\ UNCHANGED <<hosted, db, flag, runtime, proc, live, claims, ops, faults, lost>>

FlagOn(u) ==
    /\ Takes(u, "flag_on")
    /\ flag' = TRUE
    /\ Advance(u)
    /\ UNCHANGED <<hosted, db, widfile, runtime, proc, live, claims, ops, faults, lost>>

\* has_other_active_mailboxes reads the file before the flag is removed.
LookForOthers(u) ==
    /\ Takes(u, "others")
    /\ Continue(u, session[u],
                (IF OthersActive(u) THEN <<>> ELSE <<"flag_off">>) \o Remaining(u))
    /\ UNCHANGED <<hosted, db, flag, widfile, runtime, proc, live, claims, ops, faults, lost>>

FlagOff(u) ==
    /\ Takes(u, "flag_off")
    /\ flag' = FALSE
    /\ Advance(u)
    /\ UNCHANGED <<hosted, db, widfile, runtime, proc, live, claims, ops, faults, lost>>

-----------------------------------------------------------------------------
(* Starting and stopping the daemon. *)

\* start_sentinel_worker_daemon reads the worker id file and the runtime file: a
\* live daemon of the same worker is left alone, one of another worker is
\* "stopped" first, and without a target the worker record is not touched.
Look(u) ==
    LET t == widfile
        spawn == IF t = Nobody THEN <<"spawn">> ELSE <<"load", "save_target", "spawn">>
        mismatch == t # Nobody /\ runtime.wid # Nobody /\ t # runtime.wid
    IN  /\ Takes(u, "look")
        /\ Continue(u, [session[u] EXCEPT !.target = t],
                    IF ~Alive(runtime.pid) THEN spawn
                    ELSE IF mismatch THEN StopSteps \o spawn ELSE <<>>)
        /\ UNCHANGED <<hosted, db, flag, widfile, runtime, proc, live, claims, ops,
                       faults, lost>>

\* start_worker_process: the leases are cleared only when no daemon is alive.
CliLook(u) ==
    /\ Takes(u, "cli_look")
    /\ Continue(u, session[u],
                IF Alive(runtime.pid) THEN <<>> ELSE <<"load", "save_free", "spawn">>)
    /\ UNCHANGED <<hosted, db, flag, widfile, runtime, proc, live, claims, ops, faults, lost>>

\* Popen, which also waits for children that have died.  The web application
\* passes the polling switch and its target on; the operator's daemon reads the
\* two files when it boots.
Spawn(u, p) ==
    LET reaped == [q \in Process |->
                     IF u # Operator /\ proc[q].pc = "dead" THEN Down ELSE proc[q]]
    IN  /\ Takes(u, "spawn")
        /\ reaped[p].pc = "off"
        /\ proc' = [reaped EXCEPT ![p] = [Down EXCEPT !.pc = "boot", !.polls = u # Operator,
                                                      !.wid = session[u].target]]
        /\ Advance(u)
        /\ UNCHANGED <<hosted, db, flag, widfile, runtime, live, claims, ops, faults, lost>>

\* stop_worker_process: SIGTERM, then SIGKILL, to the process the runtime file
\* names; nothing is done when it is not alive.
Kill(u) ==
    /\ Takes(u, "kill")
    /\ IF Alive(runtime.pid)
       THEN /\ proc' = [proc EXCEPT ![runtime.pid] = IF @.pc = "dead" THEN @ ELSE Down]
            /\ runtime' = [runtime EXCEPT !.pid = Nobody]
            /\ Advance(u)
       ELSE /\ Continue(u, session[u], <<>>)
            /\ UNCHANGED <<proc, runtime>>
    /\ UNCHANGED <<hosted, db, flag, widfile, live, claims, ops, faults, lost>>

Act(u) ==
    \/ HostOn(u) \/ HostOff(u) \/ MailboxOn(u) \/ MailboxOff(u) \/ MailboxHidden(u)
    \/ HostDelete(u) \/ HostedFails(u)
    \/ Load(u) \/ SaveRun(u) \/ SaveStop(u) \/ SaveSync(u) \/ SaveOff(u) \/ SaveFree(u)
    \/ SaveTarget(u) \/ WriteWid(u) \/ FlagOn(u) \/ LookForOthers(u) \/ FlagOff(u) \/ Look(u) \/ CliLook(u) \/ Kill(u)
    \/ \E p \in Process : Spawn(u, p)

-----------------------------------------------------------------------------
(* The daemon. *)

Go(p, s) == proc' = [proc EXCEPT ![p] = s]
Holding(p) == proc[p].token \in live

\* WorkerConfig.from_env and start(): the worker id from the environment, else
\* the worker id file, else the first worker of the JSON file.
Boot(p) ==
    /\ proc[p].pc = "boot"
    /\ \E a \in IF proc[p].wid # Nobody THEN {proc[p].wid}
                ELSE IF widfile # Nobody THEN {widfile} ELSE db.known :
          /\ Go(p, [proc[p] EXCEPT !.pc = "idle", !.wid = a, !.polls = @ \/ flag])
          /\ runtime' = [pid |-> p, wid |-> a]
    /\ UNCHANGED <<hosted, db, flag, widfile, session, live, claims, ops, faults, lost, ended>>

\* claim_worker_lease reads the file and the runtime file: a lease that has not
\* run out is taken over when the process the runtime file names is not alive.
Claimable(d, a) ==
    /\ a \in d.run
    /\ d.lease[a] \notin live \/ (runtime.pid # Nobody /\ ~Alive(runtime.pid))

ClaimLoad(p) ==
    /\ proc[p].pc = "idle" /\ ~Holding(p)
    /\ claims < MaxClaims
    /\ Claimable(db, proc[p].wid)
    /\ Go(p, [proc[p] EXCEPT !.pc = "claim", !.snap = db])
    /\ UNCHANGED <<hosted, db, flag, widfile, runtime, session, live, claims, ops, faults,
                   lost, ended>>

Write(p, d) ==
    /\ db' = d
    /\ lost' = (lost \/ proc[p].snap # db)

ClaimSave(p) ==
    /\ proc[p].pc = "claim" /\ claims < MaxClaims
    /\ claims' = claims + 1
    /\ live' = live \cup {claims'}
    /\ Write(p, [proc[p].snap EXCEPT !.lease[proc[p].wid] = claims'])
    /\ Go(p, [proc[p] EXCEPT !.pc = "idle", !.snap = Nobody, !.token = claims'])
    /\ UNCHANGED <<hosted, flag, widfile, runtime, session, ops, faults, ended>>

\* renew_worker_lease writes the file back too.
RenewLoad(p) ==
    /\ proc[p].pc = "idle" /\ Holding(p)
    /\ db.lease[proc[p].wid] = proc[p].token /\ proc[p].wid \in db.run
    /\ Go(p, [proc[p] EXCEPT !.pc = "renew", !.snap = db])
    /\ UNCHANGED <<hosted, db, flag, widfile, runtime, session, live, claims, ops, faults,
                   lost, ended>>

RenewSave(p) ==
    /\ proc[p].pc = "renew"
    /\ Write(p, proc[p].snap)
    /\ Go(p, [proc[p] EXCEPT !.pc = "idle", !.snap = Nobody])
    /\ UNCHANGED <<hosted, flag, widfile, runtime, session, live, claims, ops, faults, ended>>

\* The rest of a step: the runtime file names the daemon that wrote it last.
Heartbeat(p) ==
    /\ proc[p].pc = "idle" /\ Holding(p)
    /\ runtime' = [pid |-> p, wid |-> proc[p].wid]
    /\ UNCHANGED <<hosted, db, flag, widfile, proc, session, live, claims, ops, faults,
                   lost, ended>>

\* A daemon dies without a word; a child of the web application stays a zombie.
Die(p, pc) ==
    /\ proc[p].pc \notin {"off", "dead"} /\ faults < MaxFaults
    /\ Go(p, [Down EXCEPT !.pc = pc])
    /\ faults' = faults + 1
    /\ UNCHANGED <<hosted, db, flag, widfile, runtime, session, live, claims, ops, lost, ended>>

LeaseRunsOut(c) ==
    /\ c \in live
    /\ live' = live \ {c}
    /\ UNCHANGED <<hosted, db, flag, widfile, runtime, proc, session, claims, ops, faults,
                   lost, ended>>

Daemon(p) ==
    \/ Boot(p) \/ ClaimLoad(p) \/ ClaimSave(p) \/ RenewLoad(p) \/ RenewSave(p)
    \/ Heartbeat(p) \/ \E pc \in {"off", "dead"} : Die(p, pc)

Next ==
    \/ \E u \in User \cup {Operator}, op \in Op \cup OperatorOp : Begin(u, op)
    \/ \E u \in User \cup {Operator} : Act(u)
    \/ \E p \in Process : Daemon(p)
    \/ \E c \in live : LeaseRunsOut(c)

Spec == Init /\ [][Next]_vars

-----------------------------------------------------------------------------
(* Properties. *)

\* Every variable keeps its type.
TypeOK ==
    /\ hosted \in [desired : [User -> {"none", "RUNNING", "STOPPED"}],
                   gen : [User -> 0..MaxGen], active : SUBSET User]
    /\ db \in Db
    /\ flag \in BOOLEAN /\ lost \in BOOLEAN
    /\ widfile \in Account \cup {Nobody}
    /\ runtime \in [pid : Process \cup {Nobody}, wid : Account \cup {Nobody}]
    /\ \A p \in Process :
          /\ proc[p].pc \in {"off", "boot", "idle", "claim", "renew", "dead"}
          /\ proc[p].wid \in Account \cup {Nobody} /\ proc[p].token \in 0..claims
          /\ proc[p].snap \in Db \cup {Nobody}
    /\ \A u \in User \cup {Operator} :
          session[u] # Nobody => session[u] \in Script /\ session[u].todo # <<>>
    /\ live \subseteq 1..claims
    /\ claims \in 0..MaxClaims /\ ops \in 0..MaxOps /\ faults \in 0..MaxFaults
    /\ ended \in [User -> {"no"} \cup Ending]

\* Whatever saves overtake each other, the JSON file and every snapshot of it is
\* one some script or daemon meant: at most one active mailbox per user, no
\* active mailbox without a usable credential, no worker running or leased that
\* the file does not know, no lease shared by two workers (worker/db.py:622-746).
Sound(d) ==
    /\ d.active \subseteq d.usable /\ d.usable \cup d.run \subseteq d.known
    /\ \A a, b \in d.active : Owner(a) = Owner(b) => a = b
    /\ \A a, b \in Account :
          d.lease[a] # 0 => a \in d.known /\ (d.lease[b] = d.lease[a] => a = b)
Snapshots == {proc[p].snap : p \in Process} \cup
             {session[u].snap : u \in {v \in User \cup {Operator} : session[v] # Nobody}}
LocalStateSound == \A d \in {db} \cup (Snapshots \ {Nobody}) : Sound(d)

\* Unless a save was lost, the file keeps no usable credential of a user who has
\* disconnected and whose mailbox was not connected again, whatever the other users'
\* buttons, the daemons, the operator and a failed connection do meanwhile
\* (sentinel_control.py:583).
RevocationHolds ==
    ~lost => \A u \in User :
        ended[u] = "disconnect" => \A a \in AccountsOf(u) : a \notin db.active \cup db.usable

\* Unless a save was lost, a user the hosted tables show as monitored, who has not
\* ended it and has no button in progress, is monitored in the file the daemons
\* read: the other users' starts and stops, the restarts of the daemons and the
\* buttons that failed half-way never stop them.
LocalFollows ==
    ~lost => \A u \in hosted.active :
        (session[u] = Nobody /\ ended[u] = "no") =>
            /\ AccountOf(u) \in db.active \cap db.usable
            /\ hosted.desired[u] = "RUNNING" => AccountOf(u) \in db.run
=============================================================================
