--------------------------- MODULE MailboxPoller ---------------------------
(***************************************************************************)
(* One Sentinel daemon polling one IMAP folder: the in-memory checkpoint,  *)
(* the Message-ID index, the telemetry file that survives a restart and    *)
(* the case store.  The folder is an environment that delivers, expunges   *)
(* and, with a new UIDVALIDITY, renumbers mail while the poll runs.        *)
(*                                                                         *)
(* Mails are numbered in the order they are delivered; the UID of a mail   *)
(* is its position in inbox, so that renumbering the folder is compacting  *)
(* it.  The folder's own state is taken from how src/ uses IMAP.           *)
(***************************************************************************)
EXTENDS Integers, Sequences, FiniteSets

CONSTANTS
    MessageId,      \* Message-ID headers; delivered mail may share one
    NoId,           \* a mail without a Message-ID
    FirstValidity,  \* the folder's UIDVALIDITY at the start
    Modes,          \* values of config.production_polling_enabled
    Batch,          \* MAX_MESSAGES_PER_POLL
    SeenCap,        \* MAX_SEEN_MSG_IDS_PER_MAILBOX
    MaxMail,        \* bound on delivered mail
    MaxRebuilds,    \* bound on UIDVALIDITY changes
    MaxExpunged,    \* bound on expunged mail
    MaxAborts,      \* bound on polls that end early
    MaxLosses,      \* bound on swallowed write errors
    MaxCrashes      \* bound on daemon restarts

ASSUME PollerAssumption ==
    /\ NoId \notin MessageId
    /\ Modes \subseteq BOOLEAN
    /\ Batch \in Nat \ {0} /\ SeenCap \in Nat \ {0} /\ FirstValidity \in Nat
    /\ {MaxMail, MaxRebuilds, MaxExpunged, MaxAborts, MaxLosses, MaxCrashes} \subseteq Nat

VARIABLES
    \* the IMAP server
    header,     \* Message-ID of each mail delivered
    inbox,      \* the mail at each UID
    gone,       \* UIDs expunged
    validity,   \* UIDVALIDITY
    \* the daemon
    production, \* config.production_polling_enabled, for good
    pc,
    cp,         \* MailboxCheckpoint
    seen,       \* _seen_msg_ids, oldest first
    todo,       \* uids_to_process still ahead
    hand,       \* the message just fetched
    tally,      \* poll_arrived ... and highest_uid
    \* what survives the daemon
    disk,       \* telemetry file of core/sentinel_stats.py
    cases,      \* mail stored under case LIVE-<uid>
    \* history and bounds
    analysed,   \* times each mail entered forensic analysis
    failed, dropped, skipped,   \* mails: processing error, duplicate, baseline
    lastSeen,   \* UIDVALIDITY of the last poll of any daemon, 0 for none
    expunged, aborts, losses, crashes

server  == <<header, inbox, gone, validity>>
daemon  == <<pc, cp, seen, todo, hand, tally>>
history == <<analysed, failed, dropped, skipped, lastSeen>>
bounds  == <<expunged, aborts, losses, crashes>>
vars    == <<production, server, daemon, disk, cases, history, bounds>>

Mail == 1..MaxMail

Uid == 0..MaxMail

\* What the deduplication index can hold.  A mail without a Message-ID gets
\* one made of its UID, and so does one that was oversized or malformed.
Name == MessageId \cup ({"generated", "unread"} \X Uid)

NoTally == [arrived |-> 0, analysed |-> 0, dups |-> 0, errors |-> 0]

NoCheckpoint == [has |-> FALSE, uv |-> 1, last |-> 0, sum |-> NoTally]

NoTelemetry == [has |-> FALSE, last |-> 0, sum |-> NoTally]

Nobody == [uid |-> 0, mail |-> 0]

Largest(S) == IF S = {} THEN 0 ELSE CHOOSE n \in S : \A m \in S : m <= n

Tally == [arrived : Nat, analysed : Nat, dups : Nat, errors : Nat]

TypeOK ==
    /\ production \in Modes
    /\ header \in Seq(MessageId \cup {NoId}) /\ Len(header) <= MaxMail
    /\ inbox \in Seq(Mail) /\ Len(inbox) <= MaxMail
    /\ gone \subseteq 1..Len(inbox)
    /\ validity \in FirstValidity..(FirstValidity + MaxRebuilds)
    /\ pc \in {"down", "idle", "search", "loop", "fetched", "persist"}
    /\ cp \in [has : BOOLEAN, uv : Nat, last : Uid, sum : Tally]
    /\ seen \in Seq(Name) /\ Len(seen) <= SeenCap
    /\ todo \in Seq(Uid \ {0}) /\ Len(todo) <= Batch
    /\ hand \in [uid : Uid, mail : {0} \cup Mail]
    /\ tally \in [sum : Tally, highest : Uid]
    /\ disk \in [has : BOOLEAN, last : Uid, sum : Tally]
    /\ cases \in [Mail -> {0} \cup Mail]
    /\ analysed \in [Mail -> Nat]
    /\ failed \subseteq Mail /\ dropped \subseteq Mail /\ skipped \subseteq Mail
    /\ lastSeen \in Nat
    /\ expunged \in 0..MaxExpunged /\ aborts \in 0..MaxAborts
    /\ losses \in 0..MaxLosses /\ crashes \in 0..MaxCrashes

Init ==
    /\ production \in Modes
    /\ header = <<>> /\ inbox = <<>> /\ gone = {} /\ validity = FirstValidity
    /\ pc = "down" /\ cp = NoCheckpoint /\ seen = <<>> /\ todo = <<>>
    /\ hand = Nobody /\ tally = [sum |-> NoTally, highest |-> 0]
    /\ disk = NoTelemetry
    /\ cases = [u \in Mail |-> 0]
    /\ analysed = [m \in Mail |-> 0]
    /\ failed = {} /\ dropped = {} /\ skipped = {} /\ lastSeen = 0
    /\ expunged = 0 /\ aborts = 0 /\ losses = 0 /\ crashes = 0

-----------------------------------------------------------------------------
(* The folder. *)

Present == (1..Len(inbox)) \ gone

\* The members of a set of UIDs in ascending order.
InOrder(S) ==
    CHOOSE s \in [1..Cardinality(S) -> S] :
        \A i, j \in 1..Cardinality(S) : i < j => s[i] < s[j]

\* Variant: the search starts one UID too late.
SearchUidsOffByOne(since) == InOrder({u \in Present : u > since + 1})

\* conn.search(since_uid), in ascending order
SearchUids(since) == InOrder({u \in Present : u > since})

Deliver ==
    /\ Len(header) < MaxMail
    /\ \E id \in MessageId \cup {NoId} : header' = Append(header, id)
    /\ inbox' = Append(inbox, Len(header) + 1)
    /\ UNCHANGED <<production, gone, validity, daemon, disk, cases, history,
                   bounds>>

Expunge ==
    /\ expunged < MaxExpunged
    /\ expunged' = expunged + 1
    /\ \E u \in Present : gone' = gone \cup {u}
    /\ UNCHANGED <<production, header, inbox, validity, daemon, disk, cases,
                   history,
                   aborts, losses, crashes>>

\* The server drops its sessions: a search fails and ends the poll, a fetch
\* logs in and selects the folder again without looking at UIDVALIDITY.
Rebuild ==
    /\ validity < FirstValidity + MaxRebuilds
    /\ validity' = validity + 1
    /\ inbox' = [i \in 1..Cardinality(Present) |-> inbox[InOrder(Present)[i]]]
    /\ gone' = {}
    /\ pc' = IF pc = "search" THEN "idle" ELSE pc
    /\ UNCHANGED <<production, header, cp, seen, todo, hand, tally, disk,
                   cases, history, bounds>>

-----------------------------------------------------------------------------
(* CheckpointStore and the telemetry registry. *)

AddTally(a, b) ==
    [arrived |-> a.arrived + b.arrived, analysed |-> a.analysed + b.analysed,
     dups |-> a.dups + b.dups, errors |-> a.errors + b.errors]

\* Variant: only the position is restored, not the totals.
SeedPositionOnly ==
    IF production /\ ~cp.has /\ disk.has
    THEN [cp EXCEPT !.has = TRUE, !.last = disk.last] ELSE cp

\* seed_from_telemetry: the telemetry file has no UIDVALIDITY to restore.
SeedFromTelemetry ==
    IF production /\ ~cp.has /\ disk.has
    THEN [cp EXCEPT !.has = TRUE, !.last = disk.last, !.sum = disk.sum]
    ELSE cp

\* Variant: the index is never trimmed.
RecordedForEver(name) == Append(seen, name)

\* seen with a name recorded; recording one again does not make it younger.
Recorded(name) ==
    LET longer == IF \E i \in 1..Len(seen) : seen[i] = name
                  THEN seen ELSE Append(seen, name)
    IN  IF Len(longer) > SeenCap THEN Tail(longer) ELSE longer

IsDuplicateMessageId(name) == \E i \in 1..Len(seen) : seen[i] = name

\* Variant: the checkpoint moves only at the end of a poll.
AdvanceAtEnd(uid, name) == UNCHANGED <<cp, seen>>

AdvanceCheckpoint(uid, name) ==
    /\ cp' = IF uid > cp.last THEN [cp EXCEPT !.last = uid] ELSE cp
    /\ seen' = Recorded(name)

RecordPollStats(poll, uid) ==
    cp' = [cp EXCEPT !.has = TRUE, !.last = IF uid > @ THEN uid ELSE @,
                     !.sum = AddTally(@, poll)]

\* Variant: the totals reach the file without the position.
RecordPollTotals(poll, uid) ==
    disk' = [disk EXCEPT !.has = TRUE, !.sum = AddTally(@, poll)]

\* record_user_sentinel_poll: load the file, add, write it back in one rename.
RecordPoll(poll, uid) ==
    disk' = [has |-> TRUE, last |-> IF uid > disk.last THEN uid ELSE disk.last,
             sum |-> AddTally(disk.sum, poll)]

-----------------------------------------------------------------------------
(* WorkerService starts the daemon; MailboxPoller.poll step by step. *)

Start ==
    /\ pc = "down"
    /\ pc' = "idle"
    /\ UNCHANGED <<production, server, cp, seen, todo, hand, tally, disk,
                   cases, history, bounds>>

\* Mail the daemon will not look at because a baseline moves past it.
Passed(baseline) == {inbox[u] : u \in {v \in Present : v <= baseline}}

\* Variant: after a renumbering the folder is read again from the start.
RebaselinedToStart(seeded) == [seeded EXCEPT !.uv = validity, !.last = 0]

\* The checkpoint after a change of UIDVALIDITY: what is there is history.
Rebaselined(seeded) == [seeded EXCEPT !.uv = validity, !.last = Largest(Present)]

\* Login, select, seed the checkpoint and compare UIDVALIDITY.
OpenFolder ==
    /\ pc = "idle"
    /\ pc' = "search"
    /\ LET seeded == SeedFromTelemetry
       IN  \/ /\ seeded.has /\ seeded.uv # validity
              /\ cp' = Rebaselined(seeded)
              /\ skipped' = IF validity = lastSeen THEN skipped
                            ELSE skipped \cup Passed(cp'.last)
           \/ /\ seeded.has /\ seeded.uv = validity
              /\ cp' = seeded
              /\ UNCHANGED skipped
           \/ /\ ~seeded.has
              /\ cp' = [seeded EXCEPT !.uv = validity]
              /\ UNCHANGED skipped
    /\ lastSeen' = validity
    /\ UNCHANGED <<production, server, seen, todo, hand, tally, disk, cases,
                   analysed,
                   failed, dropped, bounds>>

InitialSync == production /\ cp.last = 0 /\ ~cp.has

\* The first poll of a mailbox takes what is there as history.
SkipHistorical ==
    /\ pc = "search"
    /\ InitialSync
    /\ LET top == Largest(Present)
       IN  /\ cp' = [cp EXCEPT !.has = TRUE, !.last = top]
           /\ tally' = [sum |-> NoTally, highest |-> top]
           /\ skipped' = skipped \cup Passed(top)
    /\ pc' = "persist"
    /\ UNCHANGED <<production, server, seen, todo, hand, disk, cases, analysed,
                   failed,
                   dropped, lastSeen, bounds>>

\* Variant: the poll ends at the last UID found, not the last one handled.
SearchMarksAll ==
    /\ pc = "search"
    /\ ~InitialSync
    /\ LET uids == SearchUids(cp.last)
       IN  todo' = IF Len(uids) > Batch THEN SubSeq(uids, 1, Batch) ELSE uids
    /\ tally' = [sum |-> NoTally, highest |-> Largest(Present)]
    /\ pc' = "loop"
    /\ UNCHANGED <<production, server, cp, seen, hand, disk, cases, history,
                   bounds>>

Search ==
    /\ pc = "search"
    /\ ~InitialSync
    /\ LET uids == SearchUids(cp.last)
       IN  todo' = IF Len(uids) > Batch THEN SubSeq(uids, 1, Batch) ELSE uids
    /\ tally' = [sum |-> NoTally, highest |-> cp.last]
    /\ pc' = "loop"
    /\ UNCHANGED <<production, server, cp, seen, hand, disk, cases, history,
                   bounds>>

\* A UID that no longer exists is answered with an empty message.
Fetch ==
    /\ pc = "loop"
    /\ todo # <<>>
    /\ hand' = [uid |-> Head(todo),
                mail |-> IF Head(todo) \in Present THEN inbox[Head(todo)] ELSE 0]
    /\ todo' = Tail(todo)
    /\ pc' = "fetched"
    /\ UNCHANGED <<production, server, cp, seen, tally, disk, cases, history,
                   bounds>>

\* Variant: every mail without a Message-ID gets the same one.
MsgIdWithoutUid ==
    IF hand.mail = 0 \/ header[hand.mail] = NoId
    THEN <<"generated", 0>> ELSE header[hand.mail]

MsgId ==
    IF hand.mail = 0 \/ header[hand.mail] = NoId
    THEN <<"generated", hand.uid>> ELSE header[hand.mail]

Handle(name, poll) ==
    /\ pc = "fetched"
    /\ pc' = "loop"
    /\ AdvanceCheckpoint(hand.uid, name)
    /\ tally' = [sum |-> AddTally(tally.sum, poll),
                 highest |-> IF hand.uid > tally.highest THEN hand.uid ELSE tally.highest]
    /\ hand' = Nobody
    /\ UNCHANGED <<production, server, todo, disk, skipped, lastSeen, expunged,
                   aborts,
                   crashes>>

\* Oversized, malformed, or the forensic agent raised: counted and passed over.
\* Only the agent comes after the duplicate check, and keeps the Message-ID.
MessageError ==
    /\ \E name \in {<<"unread", hand.uid>>, MsgId} :
          Handle(name, [NoTally EXCEPT !.arrived = 1, !.errors = 1])
    /\ failed' = failed \cup ({hand.mail} \ {0})
    /\ UNCHANGED <<cases, analysed, dropped, losses>>

Duplicate ==
    /\ IsDuplicateMessageId(MsgId)
    /\ Handle(MsgId, [NoTally EXCEPT !.dups = 1])
    /\ dropped' = dropped \cup ({hand.mail} \ {0})
    /\ UNCHANGED <<cases, analysed, failed, losses>>

\* Variant: the case is numbered by its place in the poll.
SaveCaseByPlace ==
    /\ cases' = [cases EXCEPT ![tally.sum.arrived + 1] = hand.mail]
    /\ UNCHANGED losses

\* The case is upserted under LIVE-<uid>; a failure is logged and forgotten.
SaveCase ==
    \/ /\ cases' = [cases EXCEPT ![hand.uid] = hand.mail]
       /\ UNCHANGED losses
    \/ /\ losses < MaxLosses
       /\ losses' = losses + 1
       /\ UNCHANGED cases

Analyse ==
    /\ ~IsDuplicateMessageId(MsgId)
    /\ Handle(MsgId, [NoTally EXCEPT !.arrived = 1, !.analysed = 1])
    /\ analysed' = IF hand.mail = 0 THEN analysed
                   ELSE [analysed EXCEPT ![hand.mail] = @ + 1]
    /\ SaveCase
    /\ UNCHANGED <<failed, dropped>>

RecordStats ==
    /\ pc = "loop"
    /\ todo = <<>>
    /\ RecordPollStats(tally.sum, tally.highest)
    /\ pc' = "persist"
    /\ UNCHANGED <<production, server, seen, todo, hand, tally, disk, cases,
                   history, bounds>>

\* The telemetry file; an error writing it is swallowed.
Persist ==
    /\ pc = "persist"
    /\ pc' = "idle"
    /\ \/ RecordPoll(tally.sum, tally.highest) /\ UNCHANGED losses
       \/ losses < MaxLosses /\ losses' = losses + 1 /\ UNCHANGED disk
    /\ tally' = [sum |-> NoTally, highest |-> 0]
    /\ UNCHANGED <<production, server, cp, seen, todo, hand, cases, history,
                   expunged,
                   aborts, crashes>>

\* A network error that outlived its retries, or the lease expired.
PollAborts ==
    /\ aborts < MaxAborts
    /\ aborts' = aborts + 1
    /\ pc \in {"search", "loop", "fetched"}
    /\ pc' = "idle"
    /\ todo' = <<>>
    /\ hand' = Nobody
    /\ tally' = [sum |-> NoTally, highest |-> 0]
    /\ UNCHANGED <<production, server, cp, seen, disk, cases, history,
                   expunged, losses, crashes>>

\* The process ends, between polls or in one: only disk and cases remain.
Crash ==
    /\ crashes < MaxCrashes
    /\ crashes' = crashes + 1
    /\ pc # "down"
    /\ pc' = "down"
    /\ cp' = NoCheckpoint
    /\ seen' = <<>>
    /\ todo' = <<>>
    /\ hand' = Nobody
    /\ tally' = [sum |-> NoTally, highest |-> 0]
    /\ UNCHANGED <<production, server, disk, cases, history, expunged, aborts,
                   losses>>

Poll ==
    \/ OpenFolder \/ SkipHistorical \/ Search \/ Fetch
    \/ MessageError \/ Duplicate \/ Analyse \/ RecordStats \/ Persist

Next ==
    \/ Start \/ Poll \/ PollAborts \/ Crash
    \/ Deliver \/ Expunge \/ Rebuild

Spec == Init /\ [][Next]_vars

\* The service restarts and polls for ever; the folder owes nothing.
FairSpec == Spec /\ WF_vars(Start) /\ WF_vars(Poll)

-----------------------------------------------------------------------------
Analysed == {m \in Mail : analysed[m] > 0}

Worked == Analysed \cup failed

Accounted == Worked \cup dropped \cup skipped

\* Whatever the checkpoint has moved past was analysed, reported as an error,
\* recognised as a duplicate, or left behind by a baseline the user asked for
\* or a renumbering made necessary: no crash, abort or restart loses a mail.
NoSilentLoss ==
    cp.uv = validity => \A u \in Present : u <= cp.last => inbox[u] \in Accounted

\* A mail is analysed twice only if the daemon died in between: an aborted
\* poll resumes after the last message it handled, even when the Message-ID
\* index is too small to remember it.
AnalysedOnce == \A m \in Mail : analysed[m] <= 1 + crashes

\* The totals never count a message twice, although a crash replays mail whose
\* poll was not recorded: position and totals reach the disk together.
NoDoubleCount ==
    /\ cp.sum.arrived <= Cardinality(Worked) + expunged
    /\ disk.sum.arrived <= Cardinality(Worked) + expunged

\* Between polls the file the dashboard reads shows the daemon's own totals,
\* before and after a restart, unless a write was lost.
TelemetryMirrors ==
    pc = "idle" /\ cp.has /\ losses = 0 => disk.has /\ disk.sum = cp.sum

\* The totals of the checkpoint and of the dashboard's file: none counts a message
\* twice, and the two agree between polls.
TotalsHold == NoDoubleCount /\ TelemetryMirrors

\* Only a mail whose Message-ID another mail had is dropped as a duplicate.
DroppedHasTwin ==
    \A m \in dropped : \E n \in Worked :
        n # m /\ header[n] = header[m] /\ header[m] # NoId

\* Every analysed mail is still in the case store, whatever was analysed after
\* it and however often the daemon restarted, unless a write was lost or a mail
\* expunged between two runs came back empty under the same case.
CaseKept ==
    losses = 0 /\ expunged = 0 => \A m \in Analysed : \E u \in Mail : cases[u] = m

\* Every mail delivered is dealt with sooner or later, unless it is expunged.
EveryMailReached ==
    \A m \in Mail :
        (\E u \in Present : inbox[u] = m)
            ~> (m \in Accounted \/ ~\E u \in Present : inbox[u] = m)

=============================================================================
