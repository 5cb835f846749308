------------------------ MODULE MailboxPollerLedger ------------------------
(* What becomes of every mail: theorems of MailboxPoller about its cases, its *)
(* losses, its duplicates and its totals, on the invariant PollInv.            *)
EXTENDS MailboxPollerProof

USE PollerAssumption

-----------------------------------------------------------------------------
(* No analysed mail loses its case. *)

\* Until a mail is expunged and the folder renumbered, the UID of a mail is its
\* number, for the folder and for the poll; what comes back empty was expunged.
NumberedInv ==
    expunged = 0 \/ validity = FirstValidity =>
        /\ Len(inbox) = Len(header)
        /\ \A u \in 1..Len(inbox) : inbox[u] = u
        /\ hand.mail \in {0, hand.uid} /\ hand.uid <= Len(inbox)
        /\ \A i \in 1..Len(todo) : todo[i] <= Len(inbox)
        /\ pc = "fetched" /\ hand.mail = 0 => hand.uid \in gone

\* Without an expunged mail or a lost write every analysed mail has its own case.
CaseInv ==
    /\ expunged = 0 => gone = {}
    /\ expunged = 0 /\ losses = 0 => \A m \in Analysed : cases[m] = m

\* The folder as it is: lengths and UIDs are numbers.
LEMMA FolderFacts ==
    ASSUME TypedFolder
    PROVE  /\ Len(inbox) \in Nat /\ Len(header) \in Nat /\ Len(header) <= MaxMail
           /\ Len(inbox) <= Len(header)
           /\ Present \subseteq 1..Len(inbox)
           /\ gone \subseteq 1..Len(inbox)
           /\ inbox \in Seq(Mail) /\ todo \in Seq(Uid \ {0}) /\ Len(todo) \in Nat
  <1>1. /\ inbox \in Seq(Mail) /\ header \in Seq(MessageId \cup {NoId})
        /\ todo \in Seq(Uid \ {0}) /\ Len(header) <= MaxMail
        /\ gone \subseteq 1..Len(inbox)
    BY DEF TypedFolder, TypeOK
  <1>2. Len(inbox) \in Nat /\ Len(header) \in Nat /\ Len(todo) \in Nat
    BY <1>1
  <1> QED
    BY <1>1, <1>2, PresentProperties DEF TypedFolder, FolderInv

LEMMA TodoNumbers ==
    ASSUME TypedFolder
    PROVE  \A i \in 1..Len(todo) : todo[i] \in Nat
  <1>1. todo \in Seq(Uid \ {0})
    BY FolderFacts
  <1>2. \A i \in 1..Len(todo) : todo[i] \in Uid
    BY <1>1
  <1> QED
    BY <1>2 DEF Uid

\* What Deliver appends.
LEMMA DeliverChange ==
    ASSUME TypedFolder, Deliver
    PROVE  /\ Len(header') = Len(header) + 1 /\ Len(inbox') = Len(inbox) + 1
           /\ Len(header) < MaxMail
           /\ \A u \in 1..Len(inbox) : inbox'[u] = inbox[u]
           /\ inbox'[Len(inbox) + 1] = Len(header) + 1
           /\ \A m \in 1..Len(header) : header'[m] = header[m]
           /\ UNCHANGED <<production, gone, validity, pc, cp, seen, todo, hand, tally,
                          disk, cases, history, bounds>>
  <1>1. inbox \in Seq(Mail) /\ Len(inbox) \in Nat /\ Len(header) \in Nat
        /\ header \in Seq(MessageId \cup {NoId})
    BY FolderFacts DEF TypedFolder, TypeOK
  <1>2. /\ \E id \in MessageId \cup {NoId} : header' = Append(header, id)
        /\ inbox' = Append(inbox, Len(header) + 1) /\ Len(header) < MaxMail
    BY DEF Deliver
  <1>3. Len(header') = Len(header) + 1 /\ \A m \in 1..Len(header) : header'[m] = header[m]
    BY <1>1, <1>2
  <1>4. /\ Len(inbox') = Len(inbox) + 1 /\ \A u \in 1..Len(inbox) : inbox'[u] = inbox[u]
        /\ inbox'[Len(inbox) + 1] = Len(header) + 1
    BY <1>1, <1>2
  <1> QED
    BY <1>2, <1>3, <1>4 DEF Deliver, daemon

\* A folder with nothing expunged is renumbered to itself.
LEMMA RebuildIdentity ==
    ASSUME TypedFolder, NumberedInv, gone = {}, expunged = 0, Rebuild
    PROVE  inbox' = inbox
  <1> DEFINE n == Cardinality(Present)
             at == InOrder(Present)
             Bad == {i \in 1..n : at[i] # i}
  <1>1. /\ Present = 1..Len(inbox) /\ Len(inbox) \in Nat
        /\ \A u \in 1..Len(inbox) : inbox[u] = u
    BY FolderFacts DEF Present, NumberedInv
  <1>2. n = Len(inbox)
    BY <1>1, IntervalSize
  <1>3. /\ at \in [1..n -> Present]
        /\ \A i, j \in 1..n : i < j => at[i] < at[j]
        /\ \A x \in Present : \E i \in 1..n : at[i] = x
        /\ \A i \in 1..n : i <= at[i]
    BY PresentProperties, InOrderProperties, InOrderBelow DEF TypedFolder
  <1>4. inbox' = [i \in 1..n |-> inbox[at[i]]]
    BY DEF Rebuild
  <1> HIDE DEF n, at
  <1>5. ASSUME Bad # {} PROVE FALSE
    <2>1. Bad \subseteq 0..n /\ n \in Nat
      BY <1>1, <1>2
    <2>2. PICK k \in Bad : \A j \in Bad : k <= j
      BY <1>5, <2>1, SmallestExists
    <2>3. k \in 1..n /\ at[k] # k /\ k <= at[k] /\ at[k] \in 1..n
      BY <1>1, <1>2, <1>3, <2>2
    <2>4. PICK j \in 1..n : at[j] = k
      BY <1>1, <1>2, <1>3, <2>3
    <2>5. CASE j < k
      <3>1. j \in Bad
        BY <2>4, <2>5, <2>3
      <3> QED
        BY <2>2, <2>3, <2>5, <3>1
    <2>6. CASE k < j
      <3>1. at[k] < at[j]
        BY <1>3, <2>3, <2>4, <2>6
      <3> QED
        BY <2>3, <2>4, <3>1
    <2>7. CASE j = k
      BY <2>3, <2>4, <2>7
    <2> QED
      BY <2>3, <2>4, <2>5, <2>6, <2>7
  <1>6. \A i \in 1..n : at[i] = i
    BY <1>5
  <1>7. inbox' = [i \in 1..Len(inbox) |-> inbox[i]]
    BY <1>2, <1>4, <1>6
  <1>8. inbox \in Seq(Mail)
    BY FolderFacts
  <1> QED
    BY <1>7, <1>8

\* Every step keeps mail and UIDs together.
LEMMA NumberedStep ==
    TypedFolder /\ LoopInv /\ NumberedInv /\ CaseInv /\ [Next]_vars => NumberedInv'
  <1> SUFFICES ASSUME TypedFolder, LoopInv, NumberedInv, CaseInv, [Next]_vars,
                      (expunged = 0 \/ validity = FirstValidity)'
               PROVE  /\ Len(inbox') = Len(header')
                      /\ \A u \in 1..Len(inbox') : inbox'[u] = u
                      /\ hand'.mail \in {0, hand'.uid} /\ hand'.uid <= Len(inbox')
                      /\ \A i \in 1..Len(todo') : todo'[i] <= Len(inbox')
                      /\ pc' = "fetched" /\ hand'.mail = 0 => hand'.uid \in gone'
    BY DEF NumberedInv
  <1> DEFINE N == /\ Len(inbox) = Len(header)
                  /\ \A u \in 1..Len(inbox) : inbox[u] = u
                  /\ hand.mail \in {0, hand.uid} /\ hand.uid <= Len(inbox)
                  /\ \A i \in 1..Len(todo) : todo[i] <= Len(inbox)
                  /\ pc = "fetched" /\ hand.mail = 0 => hand.uid \in gone
  <1>0. /\ Len(inbox) \in Nat /\ Len(header) \in Nat /\ expunged \in Nat /\ hand.uid \in Nat
        /\ todo \in Seq(Uid \ {0}) /\ Present \subseteq 1..Len(inbox)
        /\ FirstValidity \in Nat /\ validity \in Nat /\ Len(todo) \in Nat
        /\ validity >= FirstValidity
    <2>1. validity \in FirstValidity..(FirstValidity + MaxRebuilds) /\ FirstValidity \in Nat
      BY DEF TypedFolder, TypeOK
    <2>2. validity >= FirstValidity
      BY <2>1, Bounds
    <2> QED
      BY <2>2, FolderFacts, Numbers
  <1>1. CASE Deliver
    <2>1. N
      BY <1>1, DeliverChange DEF NumberedInv, bounds
    <2>2. \A u \in 1..Len(inbox') : u \in 1..Len(inbox) \/ u = Len(inbox) + 1
      BY SMTT(30), <1>0, <1>1, DeliverChange
    <2>3. \A i \in 1..Len(todo) : todo[i] \in Nat
      BY <1>0 DEF Uid
    <2> QED
      BY SMTT(30), <1>0, <1>1, <2>1, <2>2, <2>3, DeliverChange
  <1>2. CASE Expunge
    <2>1. expunged' = expunged + 1 /\ validity' = validity /\ gone \subseteq gone'
          /\ UNCHANGED <<inbox, header, hand, todo, pc>>
      BY <1>2 DEF Expunge, daemon
    <2>2. N
      BY <1>0, <2>1 DEF NumberedInv
    <2> QED
      BY <2>1, <2>2
  <1>3. CASE Rebuild
    <2>1. validity' = validity + 1 /\ expunged' = expunged /\ UNCHANGED <<header, hand, todo>>
          /\ (pc' = "fetched" => pc = "fetched")
      BY <1>3 DEF Rebuild, bounds
    <2>2. expunged = 0 /\ N /\ gone = {}
      BY <1>0, <2>1 DEF NumberedInv, CaseInv
    <2>3. inbox' = inbox
      BY <1>3, <2>2, RebuildIdentity
    <2> QED
      BY <2>1, <2>2, <2>3
  <1>4. CASE Start \/ SkipHistorical \/ RecordStats \/ Persist
    BY <1>4 DEF Start, SkipHistorical, RecordStats, Persist, server, history, bounds, NumberedInv
  <1>5. CASE OpenFolder
    BY <1>5 DEF OpenFolder, server, bounds, NumberedInv
  <1>6. CASE Search
    <2>1. UNCHANGED <<inbox, header, hand, validity, expunged>> /\ pc' = "loop"
          /\ todo' = IF Len(SearchUids(cp.last)) > Batch
                     THEN SubSeq(SearchUids(cp.last), 1, Batch) ELSE SearchUids(cp.last)
      BY <1>6 DEF Search, server, bounds
    <2>2. N
      BY <2>1 DEF NumberedInv
    <2>3. \A i \in 1..Len(todo') : todo'[i] \in Present
      <3> DEFINE uids == SearchUids(cp.last)
      <3>1. uids \in Seq(Uid \ {0}) /\ \A i \in 1..Len(uids) : uids[i] \in Present
        BY Numbers, SearchProperties DEF TypedFolder
      <3> HIDE DEF uids
      <3>2. CASE Len(uids) > Batch
        <4>1. Batch \in 0..Len(uids) /\ 1..Batch \subseteq 1..Len(uids)
          BY <3>1, <3>2
        <4>2. todo' = SubSeq(uids, 1, Batch)
          BY <2>1, <3>2 DEF uids
        <4> QED
          BY <3>1, <4>1, <4>2, Prefix
      <3>3. CASE ~(Len(uids) > Batch)
        BY <2>1, <3>1, <3>3 DEF uids
      <3> QED
        BY <3>2, <3>3
    <2>4. \A u \in Present : u <= Len(inbox)
      BY <1>0
    <2>5. \A i \in 1..Len(todo') : todo'[i] <= Len(inbox')
      BY <2>1, <2>3, <2>4
    <2> QED
      BY <2>1, <2>2, <2>5
  <1>7. CASE Fetch
    <2>1. /\ UNCHANGED <<inbox, header, gone, validity, expunged>> /\ todo # <<>> /\ todo' = Tail(todo)
          /\ hand' = [uid |-> Head(todo),
                      mail |-> IF Head(todo) \in Present THEN inbox[Head(todo)] ELSE 0]
      BY <1>7 DEF Fetch, server, bounds
    <2>2. N
      BY <2>1 DEF NumberedInv
    <2>3. /\ Head(todo) = todo[1] /\ 1 \in 1..Len(todo) /\ Head(todo) \in Uid \ {0}
          /\ \A i \in 1..Len(todo') : i + 1 \in 1..Len(todo) /\ todo'[i] = todo[i + 1]
      BY <1>0, <2>1
    <2>4. Head(todo) \in 1..Len(inbox)
      BY <1>0, <2>2, <2>3 DEF Uid
    <2>5. Head(todo) \in Present \/ Head(todo) \in gone
      BY <2>4 DEF Present
    <2>6. hand'.uid = Head(todo) /\ hand'.mail \in {0, hand'.uid}
          /\ (hand'.mail = 0 => Head(todo) \in gone)
      <3>1. CASE Head(todo) \in Present
        BY <1>0, <2>1, <2>2, <2>4, <3>1
      <3>2. CASE Head(todo) \notin Present
        BY <2>1, <2>5, <3>2
      <3> QED
        BY <3>1, <3>2
    <2> QED
      BY <1>0, <2>1, <2>2, <2>3, <2>4, <2>6
  <1>8. CASE MessageError \/ Duplicate \/ Analyse
    <2>1. PICK name \in Name, poll \in Tally : Handle(name, poll)
      BY <1>8, HandleSteps
    <2>2. hand' = Nobody /\ pc' = "loop" /\ UNCHANGED <<inbox, header, todo, validity, expunged>>
      BY <2>1, HandleChange DEF server
    <2> QED
      BY <1>0, <2>2 DEF NumberedInv, Nobody
  <1>9. CASE PollAborts \/ Crash
    <2>1. hand' = Nobody /\ todo' = <<>> /\ pc' # "fetched"
          /\ UNCHANGED <<inbox, header, validity, expunged>>
      BY <1>9 DEF PollAborts, Crash, server
    <2> QED
      BY <1>0, <2>1 DEF NumberedInv, Nobody
  <1>10. CASE UNCHANGED vars
    BY <1>10 DEF vars, server, daemon, bounds, NumberedInv
  <1> QED
    BY <1>1, <1>2, <1>3, <1>4, <1>5, <1>6, <1>7, <1>8, <1>9, <1>10 DEF Next, Poll

\* Every step keeps the case of every analysed mail.
LEMMA CaseStep ==
    TypedFolder /\ LoopInv /\ NumberedInv /\ CaseInv /\ [Next]_vars => CaseInv'
  <1> SUFFICES ASSUME TypedFolder, LoopInv, NumberedInv, CaseInv, [Next]_vars PROVE CaseInv'
    OBVIOUS
  <1>0. expunged \in Nat /\ losses \in Nat
    BY Numbers
  <1>1. CASE Expunge
    <2>1. expunged' = expunged + 1
      BY <1>1 DEF Expunge
    <2> QED
      BY <1>0, <2>1 DEF CaseInv
  <1>2. CASE Rebuild
    BY <1>2 DEF Rebuild, history, bounds, CaseInv, Analysed
  <1>3. CASE MessageError \/ Duplicate
    <2>1. PICK name \in Name, poll \in Tally : Handle(name, poll)
      BY <1>3, HandleSteps
    <2>2. UNCHANGED <<gone, expunged>>
      BY <2>1, HandleChange DEF server
    <2> QED
      BY <1>3, <2>2 DEF MessageError, Duplicate, CaseInv, Analysed
  <1>4. CASE Analyse
    <2>1. PICK name \in Name, poll \in Tally : Handle(name, poll)
      BY <1>4, HandleSteps
    <2>2. UNCHANGED <<gone, expunged>> /\ pc = "fetched"
      BY <2>1, HandleChange DEF server
    <2>3. ASSUME expunged = 0, losses' = 0 PROVE \A m \in Analysed' : cases'[m] = m
      <3>1. losses = 0 /\ cases' = [cases EXCEPT ![hand.uid] = hand.mail]
        BY <1>0, <1>4, <2>3 DEF Analyse, SaveCase
      <3>2. hand.mail # 0 /\ hand.mail = hand.uid
        BY <2>2, <2>3 DEF NumberedInv, CaseInv
      <3>3. hand.mail \in Mail /\ cases \in [Mail -> {0} \cup Mail] /\ analysed \in [Mail -> Nat]
        BY <3>2 DEF TypedFolder, TypeOK
      <3>4. analysed' = [analysed EXCEPT ![hand.mail] = @ + 1]
        BY <1>4, <3>2 DEF Analyse
      <3>5. \A m \in Analysed' : m = hand.mail \/ m \in Analysed
        BY <3>3, <3>4 DEF Analysed
      <3>6. \A m \in Analysed : m \in Mail /\ cases[m] = m
        BY <2>3, <3>1 DEF CaseInv, Analysed
      <3> QED
        BY <3>1, <3>2, <3>3, <3>5, <3>6
    <2> QED
      BY <2>2, <2>3 DEF CaseInv
  <1>5. CASE \/ Deliver \/ Start \/ SkipHistorical \/ Search \/ Fetch \/ RecordStats
             \/ PollAborts \/ Crash \/ UNCHANGED vars
    BY <1>5 DEF Deliver, Start, SkipHistorical, Search, Fetch, RecordStats,
                PollAborts, Crash, vars, server, daemon, history, bounds, CaseInv, Analysed
  <1>6. CASE OpenFolder
    BY <1>6 DEF OpenFolder, server, bounds, CaseInv, Analysed
  <1>7. CASE Persist
    <2>1. UNCHANGED <<gone, expunged, analysed, cases>> /\ losses' \in {losses, losses + 1}
      BY <1>7 DEF Persist, server, history
    <2> QED
      BY <1>0, <2>1 DEF CaseInv, Analysed
  <1> QED
    BY <1>1, <1>2, <1>3, <1>4, <1>5, <1>6, <1>7 DEF Next, Poll

LEMMA NumberedInvariant == Spec => []NumberedInv /\ []CaseInv
  <1>1. Init => NumberedInv /\ CaseInv
    BY DEF Init, NumberedInv, CaseInv, Analysed, Nobody
  <1>2. PollInv => TypedFolder /\ LoopInv
    BY DEF PollInv
  <1>3. TypedFolder /\ LoopInv /\ NumberedInv /\ CaseInv /\ [Next]_vars
          => NumberedInv' /\ CaseInv'
    BY NumberedStep, CaseStep
  <1> QED
    BY <1>1, <1>2, <1>3, PollInvariant, PTL DEF Spec

\* Every analysed mail still has a case, however often the daemon died or the
\* folder was renumbered, unless a write was lost or a mail expunged.
THEOREM CasesKept == Spec => []CaseKept
  <1>1. CaseInv => CaseKept
    BY DEF CaseInv, CaseKept, Analysed
  <1> QED
    BY <1>1, NumberedInvariant, PTL

-----------------------------------------------------------------------------
(* No mail is passed over in silence. *)

\* The folders and daemons NoSilentLoss holds for.  The telemetry file has no
\* UIDVALIDITY, so that a daemon that restarts takes the folder to be the first
\* one it ever was, and a daemon that does not poll for production has a
\* position before it has a checkpoint: a folder is not renumbered under either.
Dependable ==
    \/ MaxRebuilds = 0 /\ (FirstValidity = 1 \/ MaxCrashes = 0 \/ Modes \subseteq {FALSE})
    \/ MaxCrashes = 0 /\ Modes \subseteq {TRUE}

\* The UIDVALIDITY of the checkpoint is that of the last poll, once it has polled.
ValidityInv ==
    /\ lastSeen <= validity
    /\ pc # "fetched" => hand = Nobody
    /\ pc \notin {"down", "idle"} => cp.uv = lastSeen /\ lastSeen >= FirstValidity
    /\ crashes = 0 /\ cp.has => cp.uv = lastSeen
    /\ pc = "search" => cp.uv = validity
    /\ validity = FirstValidity => cp.uv = validity \/ (cp.last = 0 /\ ~cp.has)

\* The checkpoint is about the folder as it is now.
Current == cp.uv = validity

\* Behind a current checkpoint all mail is accounted for; ahead of it the poll
\* still has the mail to do, or the mail is beyond all it has to do.
LossInv ==
    /\ NoSilentLoss
    /\ Current => cp.last <= Len(inbox)
    /\ Current /\ pc \in {"loop", "fetched"} =>
          /\ hand.uid <= Len(inbox)
          /\ \A i \in 1..Len(todo) : todo[i] <= Len(inbox)
          /\ \A u \in Present : u > cp.last =>
                \/ u = hand.uid
                \/ \E i \in 1..Len(todo) : todo[i] = u
                \/ u > hand.uid /\ \A i \in 1..Len(todo) : u > todo[i]
    /\ Current /\ pc = "fetched" /\ hand.uid \in Present => hand.mail = inbox[hand.uid]

\* What the position in the telemetry file has passed is accounted for, too.
DiskInv ==
    FirstValidity = 1 /\ MaxRebuilds = 0 =>
        /\ Current
        /\ disk.last <= Len(inbox)
        /\ \A u \in Present : u <= disk.last => inbox[u] \in Accounted

\* Whatever is accounted for stays accounted for.
LEMMA AccountedGrows ==
    ASSUME TypedFolder, [Next]_vars
    PROVE  Accounted \subseteq Accounted'
  <1>0. analysed \in [Mail -> Nat] /\ \A m \in Mail : analysed[m] \in Nat
    BY DEF TypedFolder, TypeOK
  <1>1. CASE UNCHANGED history
    BY <1>1 DEF history, Accounted, Worked, Analysed
  <1>2. CASE MessageError \/ Duplicate
    <2>1. PICK name \in Name, poll \in Tally : Handle(name, poll)
      BY <1>2, HandleSteps
    <2>2. skipped' = skipped
      BY <2>1, HandleChange DEF Handle
    <2> QED
      BY <1>2, <2>2 DEF MessageError, Duplicate, Accounted, Worked, Analysed
  <1>3. CASE Analyse
    <2>1. skipped' = skipped /\ failed' = failed /\ dropped' = dropped
      BY <1>3 DEF Analyse, Handle
    <2>2. \A m \in Mail : analysed'[m] \in Nat /\ analysed'[m] >= analysed[m]
      BY <1>0, <1>3 DEF Analyse
    <2>3. \A m \in Mail : analysed[m] > 0 => analysed'[m] > 0
      BY <1>0, <2>2
    <2>4. Analysed \subseteq Analysed'
      BY <2>3 DEF Analysed
    <2> QED
      BY <2>1, <2>4 DEF Accounted, Worked
  <1>4. CASE OpenFolder
    BY <1>4 DEF OpenFolder, Accounted, Worked, Analysed
  <1>5. CASE SkipHistorical
    BY <1>5 DEF SkipHistorical, Accounted, Worked, Analysed
  <1>6. CASE \/ Deliver \/ Expunge \/ Rebuild \/ Start \/ Search \/ Fetch \/ RecordStats
             \/ Persist \/ PollAborts \/ Crash \/ UNCHANGED vars
    BY <1>1, <1>6 DEF Deliver, Expunge, Rebuild, Start, Search, Fetch, RecordStats, Persist,
                      PollAborts, Crash, vars
  <1> QED
    BY <1>2, <1>3, <1>4, <1>5, <1>6 DEF Next, Poll

\* Every step keeps what the checkpoint knows of the UIDVALIDITY.
LEMMA ValidityStep ==
    TypedFolder /\ LoopInv /\ MemoryInv /\ ValidityInv /\ [Next]_vars => ValidityInv'
  <1> SUFFICES ASSUME TypedFolder, LoopInv, MemoryInv, ValidityInv, [Next]_vars
               PROVE  ValidityInv'
    OBVIOUS
  <1>0. /\ cp \in [has : BOOLEAN, uv : Nat, last : Uid, sum : Tally]
        /\ crashes \in Nat /\ validity \in Nat /\ lastSeen \in Nat
        /\ FirstValidity \in Nat /\ validity >= FirstValidity
    <2>1. validity \in FirstValidity..(FirstValidity + MaxRebuilds) /\ FirstValidity \in Nat
      BY DEF TypedFolder, TypeOK
    <2>2. validity >= FirstValidity
      BY <2>1, Bounds
    <2> QED
      BY <2>2, Numbers DEF TypedFolder, TypeOK
  <1>1. CASE Deliver \/ Expunge \/ UNCHANGED vars
    BY <1>1 DEF Deliver, Expunge, vars, server, daemon, history, bounds, ValidityInv
  <1>2. CASE Rebuild
    <2>1. validity' = validity + 1 /\ UNCHANGED <<cp, hand, lastSeen, crashes>>
          /\ pc' # "search" /\ (pc' = pc \/ (pc = "search" /\ pc' = "idle"))
      BY <1>2 DEF Rebuild, history, bounds
    <2> QED
      BY <1>0, <2>1 DEF ValidityInv
  <1>3. CASE Start
    BY <1>3 DEF Start, server, history, bounds, ValidityInv
  <1>4. CASE OpenFolder
    <2>1. cp'.uv = validity /\ lastSeen' = validity /\ pc' = "search" /\ pc = "idle"
          /\ hand' = hand /\ validity' = validity
      BY <1>4, OpenFolderChange DEF server
    <2> QED
      BY <1>0, <2>1 DEF ValidityInv
  <1>5. CASE SkipHistorical \/ Search
    <2>1. cp'.uv = cp.uv /\ pc = "search" /\ pc' \in {"loop", "persist"}
          /\ UNCHANGED <<validity, lastSeen, hand>>
      BY <1>0, <1>5 DEF SkipHistorical, Search, server, history
    <2> QED
      BY <2>1 DEF ValidityInv
  <1>6. CASE Fetch
    BY <1>6 DEF Fetch, server, history, bounds, ValidityInv
  <1>7. CASE MessageError \/ Duplicate \/ Analyse
    <2>1. PICK name \in Name, poll \in Tally : Handle(name, poll)
      BY <1>7, HandleSteps
    <2>2. /\ pc = "fetched" /\ pc' = "loop" /\ cp'.uv = cp.uv /\ (cp'.has <=> cp.has)
          /\ hand' = Nobody /\ UNCHANGED <<validity, lastSeen, crashes>>
      BY <2>1, HandleChange DEF server
    <2> QED
      BY <1>0, <2>2 DEF ValidityInv
  <1>8. CASE RecordStats
    <2>1. cp'.uv = cp.uv /\ pc = "loop" /\ pc' = "persist"
          /\ UNCHANGED <<validity, lastSeen, hand, crashes>>
      BY <1>0, <1>8 DEF RecordStats, RecordPollStats, server, history, bounds
    <2> QED
      BY <1>0, <2>1 DEF ValidityInv
  <1>9. CASE Persist
    BY <1>9 DEF Persist, server, history, ValidityInv
  <1>10. CASE PollAborts
    BY <1>10 DEF PollAborts, server, history, ValidityInv
  <1>11. CASE Crash
    <2>1. crashes' # 0 /\ pc' = "down" /\ cp' = NoCheckpoint /\ hand' = Nobody
          /\ UNCHANGED <<validity, lastSeen>>
      BY <1>0, <1>11 DEF Crash, server, history
    <2> QED
      BY <2>1 DEF ValidityInv, NoCheckpoint
  <1> QED
    BY <1>1, <1>2, <1>3, <1>4, <1>5, <1>6, <1>7, <1>8, <1>9, <1>10, <1>11 DEF Next, Poll

\* What Dependable says of a state: when nothing can be renumbered, and when a
\* daemon can have died.
LEMMA DependableStates ==
    ASSUME Dependable, TypedFolder
    PROVE  /\ validity = FirstValidity \/ (crashes = 0 /\ production)
           /\ crashes = 0 \/ MaxRebuilds = 0
           /\ crashes = 0 \/ FirstValidity = 1 \/ ~production
           /\ Rebuild => crashes = 0 /\ production
  <1>1. /\ crashes \in 0..MaxCrashes /\ production \in Modes
        /\ validity \in FirstValidity..(FirstValidity + MaxRebuilds)
        /\ FirstValidity \in Nat
    BY DEF TypedFolder, TypeOK
  <1>2. MaxCrashes = 0 => crashes = 0
    BY <1>1
  <1>3. MaxRebuilds = 0 => validity = FirstValidity
    BY <1>1
  <1>4. Modes \subseteq {FALSE} => ~production
    BY <1>1
  <1>5. Modes \subseteq {TRUE} => production
    BY <1>1
  <1>6. Rebuild => validity < FirstValidity + MaxRebuilds
    BY DEF Rebuild
  <1>7. Rebuild => MaxRebuilds # 0
    BY <1>1, <1>3, <1>6
  <1> QED
    BY <1>2, <1>3, <1>4, <1>5, <1>7 DEF Dependable

\* LossInv and DiskInv in a folder that is as it was, or only lost mail, when the
\* position, the file and the poll are as they were.
LEMMA LossUnchanged ==
    ASSUME TypedFolder, LossInv, DiskInv, [Next]_vars,
           UNCHANGED <<inbox, validity, cp, disk>>, Present' \subseteq Present,
           \/ pc' \notin {"loop", "fetched"}
           \/ UNCHANGED <<pc, hand, todo>>
    PROVE  LossInv' /\ DiskInv'
  <1>1. Accounted \subseteq Accounted'
    BY AccountedGrows
  <1>2. DiskInv'
    BY <1>1 DEF DiskInv, Current
  <1>3. NoSilentLoss'
    BY <1>1 DEF LossInv, NoSilentLoss
  <1> QED
    BY <1>2, <1>3 DEF LossInv, Current

\* LossInv and DiskInv when a poll is at its start or end and has a position that
\* everything behind is accounted for.
LEMMA LossBetweenPolls ==
    ASSUME TypedFolder, LossInv, DiskInv, [Next]_vars,
           UNCHANGED <<inbox, gone, validity, disk>>,
           Current => Current',
           pc' \notin {"loop", "fetched"},
           Current' => cp'.last <= Len(inbox),
           Current' => \A u \in Present : u <= cp'.last => inbox[u] \in Accounted'
    PROVE  LossInv' /\ DiskInv'
  <1>1. Accounted \subseteq Accounted'
    BY AccountedGrows
  <1>2. Present' = Present
    BY DEF Present
  <1>3. DiskInv'
    BY <1>1, <1>2 DEF DiskInv
  <1>4. NoSilentLoss'
    BY <1>2 DEF NoSilentLoss, Current
  <1> QED
    BY <1>3, <1>4 DEF LossInv

\* A poll that opens the folder leaves only mail behind that is accounted for.
LEMMA LossOpen ==
    ASSUME Dependable, TypedFolder, MemoryInv, ValidityInv, LossInv, DiskInv,
           [Next]_vars, OpenFolder
    PROVE  LossInv' /\ DiskInv'
  <1>0. /\ crashes \in Nat /\ cp.last \in Nat /\ \A u \in Present : u \in Nat /\ u > 0
        /\ Len(inbox) \in Nat /\ production \in BOOLEAN
    <2>1. \A u \in Present : u \in Nat /\ u > 0
      BY PresentProperties DEF TypedFolder
    <2> QED
      BY <2>1, Numbers, FolderFacts DEF TypedFolder, TypeOK
  <1>1. /\ pc' = "search" /\ cp'.uv = validity
        /\ UNCHANGED <<inbox, gone, validity, disk>>
    BY OpenFolderChange DEF server
  <1>2. Current'
    BY <1>1 DEF Current
  <1>3. Accounted \subseteq Accounted'
    BY AccountedGrows
  <1>4. cp'.last <= Len(inbox) /\ \A u \in Present : u <= cp'.last => inbox[u] \in Accounted'
    <2>1. CASE cp'.last = cp.last /\ cp.uv = validity
      BY <1>3, <2>1 DEF LossInv, NoSilentLoss, Current
    <2>2. CASE cp'.last = cp.last /\ cp.uv # validity /\ ~cp.has
      <3>1. cp.last = 0
        BY <2>2, DependableStates DEF MemoryInv, ValidityInv
      <3> QED
        BY <1>0, <2>2, <3>1
    <2>3. CASE production /\ ~cp.has /\ disk.has /\ cp'.last = disk.last
      <3>1. crashes # 0
        BY <2>3 DEF MemoryInv
      <3>2. FirstValidity = 1 /\ MaxRebuilds = 0
        BY <2>3, <3>1, DependableStates
      <3> QED
        BY <1>3, <2>3, <3>2 DEF DiskInv
    <2>4. CASE cp'.has /\ cp'.last = Largest(Present) /\ cp.uv # validity
      <3>1. validity # lastSeen
        <4>1. CASE crashes = 0
          <5>1. cp.has
            BY <2>4, <4>1, OpenFolderChange DEF MemoryInv
          <5> QED
            BY <2>4, <4>1, <5>1 DEF ValidityInv
        <4>2. CASE crashes # 0
          <5>1. validity = FirstValidity /\ MaxRebuilds = 0
            BY <4>2, DependableStates
          <5>2. ~cp.has /\ production
            BY <2>4, <5>1, OpenFolderChange DEF ValidityInv
          <5>3. FirstValidity = 1
            BY <4>2, <5>2, DependableStates
          <5> QED
            BY <2>4, <5>1, <5>3 DEF DiskInv, Current
        <4> QED
          BY <4>1, <4>2
      <3>2. skipped' = skipped \cup Passed(Largest(Present))
        BY <2>4, <3>1, OpenFolderChange
      <3>3. \A u \in Present : u <= Largest(Present) => inbox[u] \in Accounted'
        BY <3>2 DEF Passed, Accounted
      <3>4. Largest(Present) <= Len(inbox)
        BY PresentProperties DEF TypedFolder
      <3> QED
        BY <2>4, <3>3, <3>4
    <2> QED
      BY <2>1, <2>2, <2>3, <2>4, OpenFolderChange
  <1> QED
    BY <1>1, <1>2, <1>4, LossBetweenPolls

\* A message that is handled is accounted for, and nothing between it and the
\* position before.
LEMMA LossHandle ==
    ASSUME TypedFolder, LoopInv, LossInv, DiskInv, [Next]_vars,
           MessageError \/ Duplicate \/ Analyse
    PROVE  LossInv' /\ DiskInv'
  <1>1. PICK name \in Name, poll \in Tally : Handle(name, poll)
    BY HandleSteps
  <1>2. /\ pc = "fetched" /\ pc' = "loop" /\ hand.uid > cp.last /\ cp'.last = hand.uid
        /\ cp'.uv = cp.uv /\ hand' = Nobody /\ todo' = todo
        /\ UNCHANGED <<inbox, gone, validity, disk>>
    BY <1>1, HandleChange DEF server
  <1>3. Accounted \subseteq Accounted' /\ Present' = Present
    BY <1>2, AccountedGrows DEF Present
  <1>4. /\ cp.last \in Nat /\ hand.uid \in Nat /\ todo \in Seq(Uid \ {0})
        /\ \A i \in 1..Len(todo) : todo[i] \in Nat /\ todo[i] > hand.uid
        /\ \A u \in Present : u \in Nat /\ u > 0 /\ inbox[u] \in Mail
        /\ Len(inbox) \in Nat
    <2>1. todo \in Seq(Uid \ {0}) /\ \A i \in 1..Len(todo) : todo[i] > hand.uid
      BY <1>2, FolderFacts DEF LoopInv
    <2>2. \A i \in 1..Len(todo) : todo[i] \in Nat
      BY TodoNumbers
    <2>3. \A u \in Present : u \in Nat /\ u > 0
      BY PresentProperties DEF TypedFolder
    <2> QED
      BY <2>1, <2>2, <2>3, Numbers, FolderFacts
  <1>5. Current' <=> Current
    BY <1>2 DEF Current
  <1>6. hand.mail # 0 => hand.mail \in Accounted'
    <2>1. CASE MessageError \/ Duplicate
      BY <2>1 DEF MessageError, Duplicate, Accounted, Worked
    <2>2. CASE Analyse /\ hand.mail # 0
      <3>1. hand.mail \in Mail /\ analysed \in [Mail -> Nat] /\ analysed[hand.mail] \in Nat
        BY <2>2 DEF TypedFolder, TypeOK
      <3>2. analysed'[hand.mail] = analysed[hand.mail] + 1
        BY <2>2, <3>1 DEF Analyse
      <3> QED
        BY <3>1, <3>2 DEF Accounted, Worked, Analysed
    <2> QED
      BY <2>1, <2>2
  <1>7. ASSUME Current, NEW u \in Present, u <= hand.uid PROVE inbox[u] \in Accounted'
    <2>1. CASE u <= cp.last
      BY <1>3, <1>7, <2>1 DEF LossInv, NoSilentLoss, Current
    <2>2. CASE u > cp.last
      <3>1. \/ u = hand.uid
            \/ \E i \in 1..Len(todo) : todo[i] = u
            \/ u > hand.uid /\ \A i \in 1..Len(todo) : u > todo[i]
        BY <1>2, <1>7, <2>2 DEF LossInv
      <3>2. u = hand.uid
        BY <1>4, <1>7, <3>1
      <3>3. hand.mail = inbox[u]
        BY <1>2, <1>7, <3>2 DEF LossInv
      <3>4. inbox[u] # 0
        BY <1>4 DEF Mail
      <3> QED
        BY <1>6, <3>3, <3>4
    <2> QED
      BY <1>4, <2>1, <2>2
  <1>8. NoSilentLoss'
    BY <1>2, <1>3, <1>5, <1>7 DEF NoSilentLoss, Current
  <1>9. Current =>
          /\ 0 <= Len(inbox) /\ \A i \in 1..Len(todo) : todo[i] <= Len(inbox)
          /\ \A u \in Present : u > hand.uid =>
                \/ \E i \in 1..Len(todo) : todo[i] = u
                \/ u > 0 /\ \A i \in 1..Len(todo) : u > todo[i]
    <2>1. ASSUME Current, NEW u \in Present, u > hand.uid
          PROVE  \/ \E i \in 1..Len(todo) : todo[i] = u
                 \/ u > 0 /\ \A i \in 1..Len(todo) : u > todo[i]
      <3>1. u > cp.last /\ u # hand.uid
        BY <1>2, <1>4, <2>1
      <3> QED
        BY <1>2, <1>4, <2>1, <3>1 DEF LossInv
    <2>2. Current => 0 <= Len(inbox) /\ \A i \in 1..Len(todo) : todo[i] <= Len(inbox)
      BY <1>2, <1>4 DEF LossInv
    <2> QED
      BY <2>1, <2>2
  <1>10. hand'.uid = 0
    BY <1>2 DEF Nobody
  <1>11. Current => hand.uid <= Len(inbox)
    BY <1>2 DEF LossInv
  <1>12. LossInv'
    BY <1>2, <1>3, <1>5, <1>8, <1>9, <1>10, <1>11 DEF LossInv
  <1>13. DiskInv'
    BY <1>2, <1>3, <1>5 DEF DiskInv
  <1> QED
    BY <1>12, <1>13

\* A search puts every mail ahead of the position before or behind what it takes.
LEMMA LossSearch ==
    ASSUME TypedFolder, ValidityInv, LossInv, DiskInv, [Next]_vars, Search
    PROVE  LossInv' /\ DiskInv'
  <1> DEFINE uids == SearchUids(cp.last)
  <1>1. /\ pc = "search" /\ pc' = "loop"
        /\ todo' = IF Len(uids) > Batch THEN SubSeq(uids, 1, Batch) ELSE uids
        /\ UNCHANGED <<inbox, gone, validity, cp, hand, disk>>
    BY DEF Search, server
  <1>2. /\ uids \in Seq(Uid \ {0})
        /\ \A i \in 1..Len(uids) : uids[i] \in Present
        /\ \A i, j \in 1..Len(uids) : i < j => uids[i] < uids[j]
        /\ \A u \in Present : u > cp.last => \E i \in 1..Len(uids) : uids[i] = u
    BY Numbers, SearchProperties DEF TypedFolder
  <1> HIDE DEF uids
  <1>3. /\ Len(todo') \in Nat /\ Len(todo') <= Len(uids) /\ Len(uids) \in Nat
        /\ \A i \in 1..Len(todo') : todo'[i] = uids[i]
    <2>1. CASE Len(uids) > Batch
      <3>1. Batch \in 0..Len(uids)
        BY <1>2, <2>1
      <3> QED
        BY <1>1, <1>2, <2>1, <3>1, Prefix
    <2>2. CASE ~(Len(uids) > Batch)
      BY <1>1, <1>2, <2>2
    <2> QED
      BY <2>1, <2>2
  <1>4. hand.uid = 0 /\ Len(inbox) \in Nat /\ Present' = Present
    BY <1>1, FolderFacts DEF ValidityInv, Nobody, Present
  <1>5. \A i \in 1..Len(todo') : todo'[i] <= Len(inbox)
    <2> SUFFICES ASSUME NEW i \in 1..Len(todo') PROVE todo'[i] <= Len(inbox)
      OBVIOUS
    <2>1. i \in 1..Len(uids) /\ todo'[i] = uids[i]
      BY <1>3
    <2>2. todo'[i] \in Present
      BY <1>2, <2>1
    <2> QED
      BY <1>4, <2>2, FolderFacts
  <1>6. ASSUME NEW u \in Present, u > cp.last
        PROVE  \/ \E i \in 1..Len(todo') : todo'[i] = u
               \/ u > 0 /\ \A i \in 1..Len(todo') : u > todo'[i]
    <2>1. PICK j \in 1..Len(uids) : uids[j] = u
      BY <1>2, <1>6
    <2>2. CASE j <= Len(todo')
      <3>1. j \in 1..Len(todo')
        BY <1>3, <2>1, <2>2
      <3> QED
        BY <1>3, <2>1, <3>1
    <2>3. CASE j > Len(todo')
      <3>1. ASSUME NEW i \in 1..Len(todo') PROVE u > todo'[i]
        <4>1. i \in 1..Len(uids) /\ i < j
          BY <1>3, <2>1, <2>3
        <4>2. uids[i] < uids[j] /\ uids[i] \in Nat /\ uids[j] \in Nat
          BY SMTT(30), <1>2, <2>1, <4>1 DEF Uid
        <4> QED
          BY <1>3, <2>1, <4>2
      <3>2. u > 0
        BY PresentProperties DEF TypedFolder
      <3> QED
        BY <3>1, <3>2
    <2> QED
      BY <1>3, <2>1, <2>2, <2>3
  <1>7. Accounted \subseteq Accounted'
    BY AccountedGrows
  <1>8. NoSilentLoss'
    BY <1>1, <1>4, <1>7 DEF LossInv, NoSilentLoss
  <1>9. LossInv'
    BY <1>1, <1>4, <1>5, <1>6, <1>8 DEF LossInv, Current
  <1>10. DiskInv'
    BY <1>1, <1>4, <1>7 DEF DiskInv, Current
  <1> QED
    BY <1>9, <1>10

\* A fetch takes the first of what the poll has to do.
LEMMA LossFetch ==
    ASSUME TypedFolder, LoopInv, ValidityInv, LossInv, DiskInv, [Next]_vars, Fetch
    PROVE  LossInv' /\ DiskInv'
  <1>1. /\ pc = "loop" /\ pc' = "fetched" /\ todo # <<>> /\ todo' = Tail(todo)
        /\ hand' = [uid |-> Head(todo),
                    mail |-> IF Head(todo) \in Present THEN inbox[Head(todo)] ELSE 0]
        /\ UNCHANGED <<inbox, gone, validity, cp, disk>>
    BY DEF Fetch, server
  <1>2. todo \in Seq(Uid \ {0})
    BY FolderFacts
  <1>3. /\ Head(todo) = todo[1] /\ Len(todo) \in Nat /\ 1 \in 1..Len(todo)
        /\ Len(todo') = Len(todo) - 1
        /\ \A i \in 1..Len(todo') : i + 1 \in 1..Len(todo) /\ todo'[i] = todo[i + 1]
        /\ \A i \in 2..Len(todo) : i - 1 \in 1..Len(todo') /\ todo'[i - 1] = todo[i]
    BY <1>1, <1>2
  <1>4. hand.uid = 0 /\ hand'.uid = todo[1]
    BY <1>1, <1>3 DEF ValidityInv, Nobody
  <1>5. Present' = Present /\ \A u \in Present : u \in Nat /\ u > 0
    BY <1>1, PresentProperties DEF Present, TypedFolder
  <1>6. ASSUME Current, NEW u \in Present, u > cp.last
        PROVE  \/ u = todo[1]
               \/ \E i \in 1..Len(todo') : todo'[i] = u
               \/ u > todo[1] /\ \A i \in 1..Len(todo') : u > todo'[i]
    <2>1. \/ \E i \in 1..Len(todo) : todo[i] = u
          \/ \A i \in 1..Len(todo) : u > todo[i]
      BY SMTT(30), <1>1, <1>4, <1>5, <1>6 DEF LossInv
    <2>2. CASE \E i \in 1..Len(todo) : todo[i] = u
      <3>1. PICK i \in 1..Len(todo) : todo[i] = u
        BY <2>2
      <3>2. CASE i = 1
        BY <3>1, <3>2
      <3>3. CASE i # 1
        <4>1. i \in 2..Len(todo)
          BY <1>3, <3>1, <3>3
        <4> QED
          BY <1>3, <3>1, <4>1
      <3> QED
        BY <3>2, <3>3
    <2>3. CASE \A i \in 1..Len(todo) : u > todo[i]
      BY <1>3, <2>3
    <2> QED
      BY <2>1, <2>2, <2>3
  <1>7. Current => todo[1] <= Len(inbox) /\ \A i \in 1..Len(todo') : todo'[i] <= Len(inbox)
    BY <1>1, <1>3 DEF LossInv
  <1>8. hand'.uid \in Present => hand'.mail = inbox[hand'.uid]
    BY <1>1
  <1>9. Accounted \subseteq Accounted'
    BY AccountedGrows
  <1>10. NoSilentLoss'
    BY <1>1, <1>5, <1>9 DEF LossInv, NoSilentLoss
  <1>11. Current' = Current
    BY <1>1 DEF Current
  <1>12. LossInv'
    BY <1>1, <1>4, <1>5, <1>6, <1>7, <1>8, <1>10, <1>11 DEF LossInv
  <1>13. DiskInv'
    BY <1>1, <1>5, <1>9, <1>11 DEF DiskInv
  <1> QED
    BY <1>12, <1>13

\* Every step of a dependable poller keeps the mail behind its position accounted for.
LEMMA LossStep ==
    ASSUME Dependable
    PROVE  PollInv /\ ValidityInv /\ LossInv /\ DiskInv /\ [Next]_vars => LossInv' /\ DiskInv'
  <1> SUFFICES ASSUME PollInv, ValidityInv, LossInv, DiskInv, [Next]_vars
               PROVE  LossInv' /\ DiskInv'
    OBVIOUS
  <1> USE DEF PollInv
  <1>0. /\ Present \subseteq 1..Len(inbox) /\ Len(inbox) \in Nat /\ cp.last \in Nat
        /\ cp \in [has : BOOLEAN, uv : Nat, last : Uid, sum : Tally]
        /\ \A u \in Present : u \in Nat /\ u > 0
        /\ Accounted \subseteq Accounted'
    <2>1. \A u \in Present : u \in Nat /\ u > 0
      BY PresentProperties DEF TypedFolder
    <2> QED
      BY <2>1, FolderFacts, Numbers, AccountedGrows DEF TypedFolder, TypeOK
  <1>1. CASE Deliver
    <2>1. /\ Len(inbox') = Len(inbox) + 1 /\ gone' = gone
          /\ \A u \in 1..Len(inbox) : inbox'[u] = inbox[u]
          /\ UNCHANGED <<validity, pc, cp, todo, hand, disk>>
      BY <1>1, DeliverChange
    <2> DEFINE new == Len(inbox) + 1
    <2>2. \A u \in Present' : (u \in Present /\ inbox'[u] = inbox[u]) \/ u = new
      BY <1>0, <2>1 DEF Present
    <2>3. /\ Current => cp.last < new
          /\ FirstValidity = 1 /\ MaxRebuilds = 0 => disk.last < new
      <3>1. disk.last \in Nat
        BY Numbers
      <3>2. Current => cp.last <= Len(inbox)
        BY DEF LossInv
      <3>3. FirstValidity = 1 /\ MaxRebuilds = 0 => disk.last <= Len(inbox)
        BY DEF DiskInv
      <3> QED
        BY <1>0, <3>1, <3>2, <3>3
    <2>4. Current' <=> Current
      BY <2>1 DEF Current
    <2> HIDE DEF new
    <2>5. new \in Nat
      BY <1>0 DEF new
    <2>6. \A u \in Present' : Current /\ u <= cp.last => u \in Present /\ inbox'[u] = inbox[u]
      BY <1>0, <2>2, <2>3, <2>5
    <2>7. NoSilentLoss'
      BY <1>0, <2>1, <2>4, <2>6 DEF LossInv, NoSilentLoss, Current
    <2>8. Len(inbox') >= Len(inbox) /\ Len(inbox') \in Nat
      BY <1>0, <2>1
    <2>9. /\ Current => cp.last <= Len(inbox')
          /\ Current /\ pc \in {"loop", "fetched"} =>
                hand.uid <= Len(inbox') /\ \A i \in 1..Len(todo) : todo[i] <= Len(inbox')
      <3>1. hand.uid \in Nat /\ \A i \in 1..Len(todo) : todo[i] \in Nat
        BY TodoNumbers, Numbers
      <3> QED
        BY <1>0, <2>8, <3>1 DEF LossInv
    <2>10. ASSUME Current, pc \in {"loop", "fetched"}, NEW u \in Present', u > cp.last
           PROVE  \/ u = hand.uid
                  \/ \E i \in 1..Len(todo) : todo[i] = u
                  \/ u > hand.uid /\ \A i \in 1..Len(todo) : u > todo[i]
      <3>1. CASE u \in Present
        BY <2>10, <3>1 DEF LossInv
      <3>2. CASE u = new
        <4>1. hand.uid <= Len(inbox) /\ \A i \in 1..Len(todo) : todo[i] <= Len(inbox)
          BY <2>10 DEF LossInv
        <4>2. hand.uid \in Nat /\ \A i \in 1..Len(todo) : todo[i] \in Nat
          BY TodoNumbers, Numbers
        <4>3. u = Len(inbox) + 1
          BY <3>2 DEF new
        <4>4. u > hand.uid
          BY <1>0, <4>1, <4>2, <4>3
        <4>5. \A i \in 1..Len(todo) : u > todo[i]
          BY SMTT(30), <1>0, <4>1, <4>2, <4>3
        <4> QED
          BY <4>4, <4>5
      <3> QED
        BY <2>2, <3>1, <3>2
    <2>11. Current /\ pc = "fetched" /\ hand.uid \in Present' => hand.mail = inbox'[hand.uid]
      <3> SUFFICES ASSUME Current, pc = "fetched", hand.uid \in Present'
                   PROVE  hand.mail = inbox'[hand.uid]
        OBVIOUS
      <3>1. hand.uid <= Len(inbox)
        BY DEF LossInv
      <3>2. hand.uid # new
        BY <1>0, <3>1 DEF new
      <3> QED
        BY <2>2, <3>2 DEF LossInv
    <2>12. LossInv'
      BY <2>1, <2>4, <2>7, <2>9, <2>10, <2>11 DEF LossInv
    <2>13. \A u \in Present' : FirstValidity = 1 /\ MaxRebuilds = 0 /\ u <= disk.last
              => u \in Present /\ inbox'[u] = inbox[u]
      BY SMTT(30), <1>0, <2>2, <2>3, <2>5, Numbers
    <2>14. FirstValidity = 1 /\ MaxRebuilds = 0 => disk.last <= Len(inbox')
      BY SMTT(30), <1>0, <2>8, Numbers DEF DiskInv
    <2>15. DiskInv'
      BY <1>0, <2>1, <2>4, <2>13, <2>14 DEF DiskInv
    <2> QED
      BY <2>12, <2>15
  <1>2. CASE Expunge
    <2>1. /\ UNCHANGED <<inbox, validity, cp, disk, pc, hand, todo>>
          /\ Present' \subseteq Present
      BY <1>2 DEF Expunge, daemon, Present
    <2> QED
      BY <2>1, LossUnchanged
  <1>3. CASE Rebuild
    <2>1. crashes = 0 /\ production /\ MaxRebuilds # 0
      <3>1. validity < FirstValidity + MaxRebuilds
            /\ validity \in FirstValidity..(FirstValidity + MaxRebuilds) /\ FirstValidity \in Nat
        BY <1>3 DEF Rebuild, TypedFolder, TypeOK
      <3> QED
        BY <1>3, <3>1, Bounds, DependableStates
    <2>2. /\ validity' = validity + 1 /\ UNCHANGED <<cp, disk>>
          /\ (pc' = pc \/ pc' = "idle")
      BY <1>3 DEF Rebuild
    <2>3. CASE cp.has
      <3>1. cp.uv <= validity /\ cp.uv \in Nat /\ validity \in Nat
        BY <2>1, <2>3, Numbers DEF ValidityInv
      <3>2. ~Current'
        BY <2>2, <3>1 DEF Current
      <3>3. LossInv'
        BY <3>2 DEF LossInv, NoSilentLoss, Current
      <3> QED
        BY <2>1, <3>3 DEF DiskInv
    <2>4. CASE ~cp.has
      <3>1. cp.last = 0 /\ pc' \notin {"loop", "fetched"}
        BY <2>1, <2>2, <2>4 DEF MemoryInv
      <3>2. \A u \in Present' : u > 0 /\ u \in Nat
        <4>1. Present' \subseteq 1..Len(inbox')
          BY DEF Present
        <4> QED
          BY <4>1
      <3>3. \A u \in Present' : ~(u <= cp'.last)
        BY <2>2, <3>1, <3>2
      <3>4. NoSilentLoss'
        BY <3>3 DEF NoSilentLoss
      <3>5. cp'.last <= Len(inbox')
        <4>1. inbox' \in Seq(Mail)
          <5>1. TypedFolder'
            BY FolderStep
          <5> QED
            BY <5>1 DEF TypedFolder, TypeOK
        <4> QED
          BY <2>2, <3>1, <4>1
      <3>6. LossInv'
        BY <3>1, <3>4, <3>5 DEF LossInv
      <3> QED
        BY <2>1, <3>6 DEF DiskInv
    <2> QED
      BY <2>3, <2>4
  <1>4. CASE Start
    <2>1. UNCHANGED <<inbox, gone, validity, cp, disk>> /\ pc' = "idle"
      BY <1>4 DEF Start, server
    <2>2. Present' \subseteq Present
      BY <2>1 DEF Present
    <2> QED
      BY <2>1, <2>2, LossUnchanged
  <1>5. CASE OpenFolder
    BY <1>5, LossOpen
  <1>6. CASE SkipHistorical
    <2>1. /\ cp' = [cp EXCEPT !.has = TRUE, !.last = Largest(Present)]
          /\ skipped' = skipped \cup Passed(Largest(Present)) /\ pc' = "persist"
          /\ UNCHANGED <<inbox, gone, validity, disk>>
      BY <1>6 DEF SkipHistorical, server
    <2>2. cp'.last = Largest(Present) /\ cp'.uv = cp.uv
      BY <1>0, <2>1
    <2>3. \A u \in Present : u <= cp'.last => inbox[u] \in Accounted'
      BY <2>1, <2>2 DEF Passed, Accounted
    <2>4. cp'.last <= Len(inbox)
      BY <2>2, PresentProperties DEF TypedFolder
    <2>5. Current => Current'
      BY <2>1, <2>2 DEF Current
    <2> QED
      BY <2>1, <2>3, <2>4, <2>5, LossBetweenPolls
  <1>7. CASE Search
    BY <1>7, LossSearch
  <1>8. CASE Fetch
    BY <1>8, LossFetch
  <1>9. CASE MessageError \/ Duplicate \/ Analyse
    BY <1>9, LossHandle
  <1>10. CASE RecordStats
    <2>1. /\ cp'.last = cp.last /\ cp'.uv = cp.uv /\ pc' = "persist"
          /\ UNCHANGED <<inbox, gone, validity, disk>>
      BY <1>0, <1>10 DEF RecordStats, RecordPollStats, server, LoopInv
    <2>2. Current' <=> Current
      BY <2>1 DEF Current
    <2> QED
      BY <1>0, <2>1, <2>2, LossBetweenPolls DEF LossInv, NoSilentLoss, Current
  <1>11. CASE Persist
    <2>1. /\ pc = "persist" /\ pc' = "idle" /\ UNCHANGED <<inbox, gone, validity, cp>>
          /\ disk' = disk \/ RecordPoll(tally.sum, tally.highest)
      BY <1>11 DEF Persist, server
    <2>2. disk'.last \in {disk.last, cp.last}
      <3>1. tally.highest = cp.last
        BY <2>1 DEF LoopInv
      <3> QED
        BY <2>1, <3>1 DEF RecordPoll
    <2>3. Present' = Present /\ (Current' <=> Current)
      BY <2>1 DEF Present, Current
    <2>4. LossInv'
      <3>1. NoSilentLoss'
        BY <1>0, <2>1, <2>3 DEF LossInv, NoSilentLoss
      <3> QED
        BY <2>1, <2>3, <3>1 DEF LossInv
    <2>5. DiskInv'
      BY <1>0, <2>1, <2>2, <2>3 DEF DiskInv, LossInv, NoSilentLoss, Current
    <2> QED
      BY <2>4, <2>5
  <1>12. CASE PollAborts
    <2>1. /\ pc' = "idle" /\ UNCHANGED <<inbox, gone, validity, cp, disk>>
      BY <1>12 DEF PollAborts, server
    <2>2. Present' \subseteq Present
      BY <2>1 DEF Present
    <2> QED
      BY <2>1, <2>2, LossUnchanged
  <1>13. CASE Crash
    <2>1. /\ cp'.last = 0 /\ cp'.uv = 1 /\ pc' = "down"
          /\ UNCHANGED <<inbox, gone, validity, disk>>
      BY <1>13 DEF Crash, server, NoCheckpoint
    <2>2. Present' = Present /\ \A u \in Present : ~(u <= cp'.last)
      BY <1>0, <2>1 DEF Present
    <2>3. LossInv'
      BY <1>0, <2>1, <2>2 DEF LossInv, NoSilentLoss
    <2>4. FirstValidity = 1 /\ MaxRebuilds = 0 => Current'
      <3>1. validity \in FirstValidity..(FirstValidity + MaxRebuilds)
        BY DEF TypedFolder, TypeOK
      <3> QED
        BY <2>1, <3>1 DEF Current
    <2>5. DiskInv'
      BY <1>0, <2>1, <2>2, <2>4 DEF DiskInv
    <2> QED
      BY <2>3, <2>5
  <1>14. CASE UNCHANGED vars
    <2>1. UNCHANGED <<inbox, gone, validity, cp, disk, pc, hand, todo>>
      BY <1>14 DEF vars, server, daemon
    <2>2. Present' \subseteq Present
      BY <2>1 DEF Present
    <2> QED
      BY <2>1, <2>2, LossUnchanged
  <1> QED
    BY <1>1, <1>2, <1>3, <1>4, <1>5, <1>6, <1>7, <1>8, <1>9, <1>10, <1>11, <1>12, <1>13,
       <1>14 DEF Next, Poll

LEMMA LossInvariant ==
    ASSUME Dependable
    PROVE  Spec => []ValidityInv /\ []LossInv /\ []DiskInv
  <1>1. Init => ValidityInv /\ LossInv /\ DiskInv
    <2> SUFFICES ASSUME Init PROVE ValidityInv /\ LossInv /\ DiskInv
      OBVIOUS
    <2>1. Present = {} /\ FirstValidity \in Nat
      BY DEF Init, Present
    <2>2. NoSilentLoss
      BY <2>1 DEF NoSilentLoss
    <2> QED
      BY <2>1, <2>2
      DEF Init, ValidityInv, LossInv, DiskInv, Current, NoCheckpoint, NoTelemetry
  <1>2. PollInv /\ ValidityInv /\ LossInv /\ DiskInv /\ [Next]_vars
          => ValidityInv' /\ LossInv' /\ DiskInv'
    BY LossStep, ValidityStep DEF PollInv
  <1> QED
    BY <1>1, <1>2, PollInvariant, PTL DEF Spec

\* A dependable poller passes over no mail in silence: not by a crash, an abort, a
\* failed write, or a renumbering a running production daemon sees.
THEOREM NothingLost ==
    ASSUME Dependable
    PROVE  Spec => []NoSilentLoss
  <1>1. LossInv => NoSilentLoss
    BY DEF LossInv
  <1> QED
    BY <1>1, LossInvariant, PTL

-----------------------------------------------------------------------------
(* Only a mail with a twin is dropped as a duplicate. *)

MadeUp == {"generated", "unread"} \X Nat

\* Each name the index holds is that of a mail worked on at or before the position,
\* and one made up for a mail without a Message-ID is of a UID at or before it.
TwinInv ==
    /\ \A i \in 1..Len(seen) : seen[i] \in MessageId =>
          \E n \in Worked : header[n] = seen[i] /\ n <= cp.last
    /\ \A i \in 1..Len(seen) : \A u \in Nat : seen[i] = <<"generated", u>> => u <= cp.last
    /\ DroppedHasTwin

\* The index after a name is recorded holds the name and what it held.
LEMMA RecordedNames ==
    ASSUME TypedFolder, NEW name \in Name
    PROVE  \A i \in 1..Len(Recorded(name)) :
              \/ Recorded(name)[i] = name
              \/ \E j \in 1..Len(seen) : Recorded(name)[i] = seen[j]
  <1> DEFINE longer == IF \E i \in 1..Len(seen) : seen[i] = name
                       THEN seen ELSE Append(seen, name)
  <1>1. seen \in Seq(Name)
    BY DEF TypedFolder, TypeOK
  <1>2. longer \in Seq(Name)
    BY <1>1
  <1>3. \A i \in 1..Len(longer) :
           longer[i] = name \/ \E j \in 1..Len(seen) : longer[i] = seen[j]
    <2>1. CASE longer = seen
      BY <1>1, <2>1
    <2>2. CASE longer = Append(seen, name)
      <3>1. \A i \in 1..Len(longer) : i \in 1..Len(seen) \/ i = Len(seen) + 1
        BY <1>1, <2>2
      <3>2. longer[Len(seen) + 1] = name /\ \A i \in 1..Len(seen) : longer[i] = seen[i]
        BY <1>1, <2>2
      <3> QED
        BY <3>1, <3>2
    <2> QED
      BY <2>1, <2>2
  <1>4. Recorded(name) = IF Len(longer) > SeenCap THEN Tail(longer) ELSE longer
    BY DEF Recorded
  <1> HIDE DEF longer
  <1>5. CASE Len(longer) > SeenCap
    <2>1. longer # <<>>
      BY <1>2, <1>5
    <2>2. \A i \in 1..Len(Tail(longer)) : i + 1 \in 1..Len(longer)
                                          /\ Tail(longer)[i] = longer[i + 1]
      BY <1>2, <2>1
    <2> QED
      BY <1>3, <1>4, <1>5, <2>2
  <1> QED
    BY <1>3, <1>4, <1>5

\* Every step keeps the index about mail that was worked on.
LEMMA TwinStep ==
    ASSUME MaxRebuilds = 0, MessageId \cap MadeUp = {}
    PROVE  PollInv /\ ValidityInv /\ NumberedInv /\ TwinInv /\ [Next]_vars => TwinInv'
  <1> SUFFICES ASSUME PollInv, ValidityInv, NumberedInv, TwinInv, [Next]_vars PROVE TwinInv'
    OBVIOUS
  <1> USE DEF PollInv
  <1>0. /\ validity = FirstValidity /\ cp.last \in Nat
        /\ Worked \cup dropped \subseteq 1..Len(header)
        /\ analysed \in [Mail -> Nat]
        /\ production \in BOOLEAN
    <2>1. FirstValidity \in Nat /\ validity \in FirstValidity..(FirstValidity + 0)
      BY DEF TypedFolder, TypeOK
    <2>2. validity = FirstValidity
      BY <2>1
    <2> QED
      BY <2>2, Numbers DEF TypedFolder, TypeOK, FolderInv
  <1>1. ASSUME UNCHANGED <<header, dropped>>, Worked' = Worked,
               \/ seen' = <<>>
               \/ seen' = seen /\ cp'.last >= cp.last /\ cp'.last \in Nat
        PROVE  TwinInv'
    <2>1. DroppedHasTwin'
      BY <1>1 DEF TwinInv, DroppedHasTwin
    <2>2. CASE seen' = <<>>
      BY <2>1, <2>2 DEF TwinInv
    <2>3. CASE seen' = seen /\ cp'.last >= cp.last /\ cp'.last \in Nat
      <3>1. \A n \in Worked : n \in Nat
        BY <1>0
      <3>2. \A u \in Nat : u <= cp.last => u <= cp'.last
        BY <1>0, <2>3
      <3> QED
        BY <1>1, <2>1, <2>3, <3>1, <3>2 DEF TwinInv
    <2> QED
      BY <1>1, <2>2, <2>3
  <1>2. CASE Deliver
    <2>1. /\ \A m \in 1..Len(header) : header'[m] = header[m]
          /\ UNCHANGED <<seen, cp, dropped>> /\ Worked' = Worked
      BY <1>2, DeliverChange DEF history, Worked, Analysed
    <2>2. \A m \in Worked \cup dropped : header'[m] = header[m]
      BY <1>0, <2>1
    <2> QED
      BY <2>1, <2>2 DEF TwinInv, DroppedHasTwin
  <1>3. CASE Expunge \/ Start \/ Search \/ Fetch \/ UNCHANGED vars
    <2>1. UNCHANGED <<header, seen, cp, dropped, analysed, failed>>
      BY <1>3 DEF Expunge, Start, Search, Fetch, vars, server, daemon, history
    <2> QED
      BY <1>0, <1>1, <2>1 DEF Worked, Analysed
  <1>4. CASE Rebuild
    <2>1. validity < FirstValidity + 0 /\ FirstValidity \in Nat
      BY <1>4 DEF Rebuild
    <2> QED
      BY <1>0, <2>1
  <1>5. CASE OpenFolder
    <2>1. UNCHANGED <<header, seen, dropped, analysed, failed>>
      BY <1>5, OpenFolderChange DEF server
    <2>2. cp'.last = cp.last \/ seen = <<>>
      <3>1. ASSUME production, ~cp.has PROVE seen = <<>>
        BY <3>1 DEF MemoryInv
      <3>2. cp.uv = validity \/ ~cp.has
        BY <1>0 DEF ValidityInv
      <3> QED
        BY <1>5, <3>1, <3>2, OpenFolderChange
    <2> QED
      BY <1>0, <1>1, <2>1, <2>2 DEF Worked, Analysed
  <1>6. CASE SkipHistorical
    <2>1. UNCHANGED <<header, seen, dropped, analysed, failed>> /\ seen = <<>>
      BY <1>6 DEF SkipHistorical, InitialSync, server, MemoryInv
    <2> QED
      BY <1>1, <2>1 DEF Worked, Analysed
  <1>7. CASE MessageError \/ Duplicate \/ Analyse
    <2>1. PICK name \in Name, poll \in Tally : /\ Handle(name, poll)
                                               /\ name \in {<<"unread", hand.uid>>, MsgId}
                                               /\ ~MessageError => name = MsgId
      <3>1. CASE MessageError
        BY <3>1, MsgIdType, TallyTypes DEF MessageError, PollInv, TypedFolder
      <3>2. CASE Duplicate \/ Analyse
        BY <3>2, MsgIdType, TallyTypes DEF Duplicate, Analyse, PollInv, TypedFolder
      <3> QED
        BY <1>7, <3>1, <3>2
    <2>2. /\ hand.uid > cp.last /\ cp'.last = hand.uid /\ seen' = Recorded(name)
          /\ pc = "fetched" /\ header' = header
      BY <2>1, HandleChange DEF server
    <2>3. /\ hand.mail \in {0, hand.uid} /\ hand.uid \in Nat /\ hand.mail \in Nat
          /\ hand.mail \in {0} \cup 1..Len(header)
      BY <1>0, Numbers, MsgIdType DEF NumberedInv, TypedFolder
    <2>4. \A n \in Worked : n \in Nat
      BY <1>0
    <2>5. Worked \subseteq Worked'
          /\ (MessageError \/ Analyse => hand.mail = 0 \/ hand.mail \in Worked')
      <3>1. CASE MessageError
        BY <3>1 DEF MessageError, Worked, Analysed
      <3>2. CASE Duplicate
        <4>1. Worked' = Worked /\ ~Analyse
          BY <3>2 DEF Duplicate, Analyse, Worked, Analysed
        <4>2. MessageError => hand.mail = 0 \/ hand.mail \in Worked'
          BY DEF MessageError, Worked
        <4> QED
          BY <4>1, <4>2
      <3>3. CASE Analyse
        <4>1. failed' = failed
          BY <3>3 DEF Analyse
        <4>2. CASE hand.mail = 0
          BY <3>3, <4>1, <4>2 DEF Analyse, Worked, Analysed
        <4>3. CASE hand.mail # 0
          <5>1. hand.mail \in Mail
            BY <4>3 DEF TypedFolder, TypeOK
          <5>2. analysed' = [analysed EXCEPT ![hand.mail] = analysed[hand.mail] + 1]
            BY <3>3, <4>3 DEF Analyse
          <5>3. analysed'[hand.mail] > 0 /\ \A m \in Mail : analysed[m] > 0 => analysed'[m] > 0
            BY <1>0, <5>1, <5>2
          <5> QED
            BY <4>1, <5>1, <5>3 DEF Worked, Analysed
        <4> QED
          BY <4>2, <4>3
      <3> QED
        BY <1>7, <3>1, <3>2, <3>3
    <2>6. MsgId \in MessageId => hand.mail # 0 /\ header[hand.mail] = MsgId
      <3>1. <<"generated", hand.uid>> \in MadeUp
        BY <2>3 DEF MadeUp
      <3> QED
        BY <3>1 DEF MsgId
    <2>7. \A u \in Nat : MsgId = <<"generated", u>> => u = hand.uid
      <3> SUFFICES ASSUME NEW u \in Nat, MsgId = <<"generated", u>> PROVE u = hand.uid
        OBVIOUS
      <3>1. CASE hand.mail = 0 \/ header[hand.mail] = NoId
        BY <3>1 DEF MsgId
      <3>2. CASE ~(hand.mail = 0 \/ header[hand.mail] = NoId)
        <4>1. header \in Seq(MessageId \cup {NoId}) /\ hand.mail \in 1..Len(header)
          BY <2>3, <3>2 DEF TypedFolder, TypeOK
        <4>2. header[hand.mail] \in MessageId
          BY <3>2, <4>1
        <4>3. <<"generated", u>> \in MessageId \cap MadeUp
          BY <3>2, <4>2 DEF MsgId, MadeUp
        <4> QED
          BY <4>3
      <3> QED
        BY <3>1, <3>2
    <2>8. ASSUME name \in MessageId
          PROVE  \E n \in Worked' : header[n] = name /\ n <= hand.uid
      <3>1. name = MsgId
        <4>1. <<"unread", hand.uid>> \in MadeUp
          BY <2>3 DEF MadeUp
        <4> QED
          BY <2>1, <2>8, <4>1
      <3>2. hand.mail # 0 /\ header[hand.mail] = name /\ hand.mail <= hand.uid
        BY <2>3, <2>6, <2>8, <3>1
      <3>3. CASE MessageError \/ Analyse
        BY <2>5, <3>2, <3>3
      <3>4. CASE Duplicate
        <4>1. PICK i \in 1..Len(seen) : seen[i] = name
          BY <3>1, <3>4 DEF Duplicate, IsDuplicateMessageId
        <4>2. PICK n \in Worked : header[n] = name /\ n <= cp.last
          BY <2>8, <4>1 DEF TwinInv
        <4>3. n <= hand.uid
          BY <1>0, <2>2, <2>3, <2>4, <4>2
        <4> QED
          BY <2>5, <4>2, <4>3
      <3> QED
        BY <1>7, <3>3, <3>4
    <2>9. ASSUME NEW i \in 1..Len(seen'), seen'[i] \in MessageId
          PROVE  \E n \in Worked' : header'[n] = seen'[i] /\ n <= cp'.last
      <3>1. CASE seen'[i] = name
        BY <2>2, <2>8, <2>9, <3>1
      <3>2. CASE \E j \in 1..Len(seen) : seen'[i] = seen[j]
        <4>1. PICK j \in 1..Len(seen) : seen'[i] = seen[j]
          BY <3>2
        <4>2. PICK n \in Worked : header[n] = seen'[i] /\ n <= cp.last
          BY <2>9, <4>1 DEF TwinInv
        <4>3. n <= hand.uid
          BY SMTT(30), <1>0, <2>2, <2>3, <2>4, <4>2
        <4> QED
          BY <2>2, <2>5, <4>2, <4>3
      <3> QED
        BY <2>2, <3>1, <3>2, RecordedNames
    <2>10. ASSUME NEW i \in 1..Len(seen'), NEW u \in Nat, seen'[i] = <<"generated", u>>
           PROVE  u <= cp'.last
      <3>1. CASE seen'[i] = name
        <4>1. name # <<"unread", hand.uid>>
          BY <2>10, <3>1
        <4>2. name = MsgId
          BY <2>1, <4>1
        <4>3. u = hand.uid
          BY <2>7, <2>10, <3>1, <4>2
        <4> QED
          BY <2>2, <2>3, <4>3
      <3>2. CASE \E j \in 1..Len(seen) : seen'[i] = seen[j]
        <4>1. u <= cp.last
          BY <2>10, <3>2 DEF TwinInv
        <4> QED
          BY <1>0, <2>2, <2>3, <4>1
      <3> QED
        BY <2>2, <3>1, <3>2, RecordedNames
    <2>11. DroppedHasTwin'
      <3>1. ASSUME NEW m \in dropped
            PROVE  \E n \in Worked' : n # m /\ header'[n] = header'[m] /\ header'[m] # NoId
        BY <2>2, <2>5 DEF TwinInv, DroppedHasTwin
      <3>2. CASE ~Duplicate
        <4>1. dropped' = dropped
          BY <1>7, <3>2 DEF MessageError, Analyse
        <4> QED
          BY <3>1, <4>1 DEF DroppedHasTwin
      <3>3. CASE Duplicate
        <4>1. dropped' = dropped \cup ({hand.mail} \ {0}) /\ IsDuplicateMessageId(MsgId)
          BY <3>3 DEF Duplicate
        <4>2. ASSUME hand.mail # 0
              PROVE  \E n \in Worked' : n # hand.mail /\ header'[n] = header'[hand.mail]
                                        /\ header'[hand.mail] # NoId
          <5>1. PICK i \in 1..Len(seen) : seen[i] = MsgId
            BY <4>1 DEF IsDuplicateMessageId
          <5>2. header[hand.mail] # NoId
            <6> SUFFICES ASSUME header[hand.mail] = NoId PROVE FALSE
              OBVIOUS
            <6>1. seen[i] = <<"generated", hand.uid>>
              BY <5>1 DEF MsgId
            <6>2. hand.uid <= cp.last
              BY <2>3, <5>1, <6>1 DEF TwinInv
            <6> QED
              BY <1>0, <2>2, <2>3, <6>2
          <5>3. header[hand.mail] = MsgId /\ MsgId \in MessageId
            <6>1. header \in Seq(MessageId \cup {NoId}) /\ hand.mail \in 1..Len(header)
              BY <2>3, <4>2 DEF TypedFolder, TypeOK
            <6>2. header[hand.mail] \in MessageId
              BY <5>2, <6>1
            <6> QED
              BY <4>2, <5>2, <6>2 DEF MsgId
          <5>4. PICK n \in Worked : header[n] = MsgId /\ n <= cp.last
            BY <5>1, <5>3 DEF TwinInv
          <5>5. n # hand.mail
            BY <1>0, <2>2, <2>3, <2>4, <4>2, <5>4
          <5> QED
            BY <2>2, <2>5, <5>2, <5>3, <5>4, <5>5
        <4> QED
          BY <3>1, <4>1, <4>2 DEF DroppedHasTwin
      <3> QED
        BY <3>2, <3>3
    <2> QED
      BY <2>9, <2>10, <2>11 DEF TwinInv
  <1>8. CASE RecordStats
    <2>1. cp'.last = cp.last /\ UNCHANGED <<header, seen, dropped, analysed, failed>>
      BY <1>8 DEF RecordStats, RecordPollStats, server, history, LoopInv, TypedFolder, TypeOK
    <2> QED
      BY <1>0, <1>1, <2>1 DEF Worked, Analysed
  <1>9. CASE Persist \/ PollAborts
    <2>1. cp' = cp /\ UNCHANGED <<header, seen, dropped, analysed, failed>>
      BY <1>9 DEF Persist, PollAborts, server, history
    <2> QED
      BY <1>0, <1>1, <2>1 DEF Worked, Analysed
  <1>10. CASE Crash
    <2>1. seen' = <<>> /\ UNCHANGED <<header, dropped, analysed, failed>>
      BY <1>10 DEF Crash, server, history
    <2> QED
      BY <1>1, <2>1 DEF Worked, Analysed
  <1> QED
    BY <1>2, <1>3, <1>4, <1>5, <1>6, <1>7, <1>8, <1>9, <1>10 DEF Next, Poll

\* In a folder that keeps its UIDVALIDITY, and whose mail carries no name made up
\* for another, a mail is dropped as a duplicate only if an earlier one, analysed
\* or reported as an error, has its Message-ID.
THEOREM DuplicatesHaveTwins ==
    ASSUME MaxRebuilds = 0, MessageId \cap MadeUp = {}
    PROVE  Spec => []DroppedHasTwin
  <1>1. Init => ValidityInv /\ TwinInv
    <2> SUFFICES ASSUME Init PROVE ValidityInv /\ TwinInv
      OBVIOUS
    <2>1. FirstValidity \in Nat
      OBVIOUS
    <2>2. ValidityInv
      BY <2>1 DEF Init, ValidityInv, NoCheckpoint
    <2> QED
      BY <2>2 DEF Init, TwinInv, DroppedHasTwin
  <1>2. PollInv => TypedFolder /\ LoopInv /\ MemoryInv
    BY DEF PollInv
  <1>3. PollInv /\ ValidityInv /\ NumberedInv /\ TwinInv /\ [Next]_vars
          => ValidityInv' /\ TwinInv'
    BY <1>2, ValidityStep, TwinStep
  <1>4. TwinInv => DroppedHasTwin
    BY DEF TwinInv
  <1> QED
    BY <1>1, <1>3, <1>4, PollInvariant, NumberedInvariant, PTL DEF Spec

-----------------------------------------------------------------------------
(* The totals count no message twice, and the file shows the daemon's own. *)

\* The mail up to a UID that was worked on or expunged.
Spent(n) == {u \in Worked \cup gone : u <= n}

\* The totals of the checkpoint and of the file are within what each position has
\* spent; the file is behind the daemon by the poll it has not yet been given.
SumInv ==
    /\ Cardinality(gone) <= expunged
    /\ disk.sum.arrived <= Cardinality(Spent(disk.last))
    /\ cp.sum.arrived + (IF pc = "persist" THEN 0 ELSE tally.sum.arrived)
          <= Cardinality(Spent(cp.last))
    /\ ~disk.has => disk = NoTelemetry
    /\ ~cp.has => cp.sum = NoTally
    /\ pc \notin {"loop", "fetched", "persist"} => tally.sum = NoTally
    /\ cp.has => disk.last <= cp.last
    /\ ~cp.has /\ pc = "search" => ~disk.has
    /\ cp.has => disk.sum.arrived + (IF pc = "persist" THEN tally.sum.arrived ELSE 0)
                    <= cp.sum.arrived
    /\ losses = 0 /\ cp.has => IF pc = "persist" THEN cp.sum = AddTally(disk.sum, tally.sum)
                               ELSE disk.has /\ cp.sum = disk.sum

\* What is spent is a finite set of mail; more of it has no fewer members.
LEMMA SpentProperties ==
    ASSUME TypedFolder, NEW n \in Nat
    PROVE  /\ Worked \subseteq Mail /\ gone \subseteq Mail
           /\ IsFiniteSet(Worked) /\ IsFiniteSet(gone)
           /\ Spent(n) \subseteq Mail /\ IsFiniteSet(Spent(n)) /\ Cardinality(Spent(n)) \in Nat
           /\ Cardinality(Spent(n)) <= Cardinality(Worked) + Cardinality(gone)
           /\ Cardinality(Worked) \in Nat /\ Cardinality(gone) \in Nat
  <1>1. IsFiniteSet(Mail)
    BY Bounds, IntervalSize DEF Mail
  <1>2. Worked \subseteq Mail /\ gone \subseteq Mail
    <2>1. Len(inbox) \in 0..MaxMail /\ gone \subseteq 1..Len(inbox)
      BY PresentProperties, FolderFacts DEF TypedFolder
    <2>2. 1..Len(inbox) \subseteq Mail
      BY <2>1, Bounds DEF Mail
    <2> QED
      BY <2>1, <2>2 DEF Worked, Analysed, TypedFolder, TypeOK
  <1>3. IsFiniteSet(Worked) /\ IsFiniteSet(gone)
    BY <1>1, <1>2, FS_Subset
  <1>4. /\ IsFiniteSet(Worked \cup gone)
        /\ Cardinality(Worked \cup gone) <= Cardinality(Worked) + Cardinality(gone)
    <2>1. /\ IsFiniteSet(Worked \cup gone) /\ IsFiniteSet(Worked \cap gone)
          /\ Cardinality(Worked \cup gone)
                = Cardinality(Worked) + Cardinality(gone) - Cardinality(Worked \cap gone)
      BY <1>3, FS_Union, FS_Intersection
    <2>2. /\ Cardinality(Worked \cap gone) \in Nat
          /\ Cardinality(Worked) \in Nat /\ Cardinality(gone) \in Nat
      BY <1>3, <2>1, FS_CardinalityType
    <2> QED
      BY <2>1, <2>2
  <1>5. /\ Spent(n) \subseteq Worked \cup gone /\ IsFiniteSet(Spent(n))
        /\ Cardinality(Spent(n)) <= Cardinality(Worked \cup gone)
    <2>1. Spent(n) \subseteq Worked \cup gone
      BY DEF Spent
    <2> QED
      BY <1>4, <2>1, FS_Subset
  <1>6. /\ Cardinality(Spent(n)) \in Nat /\ Cardinality(Worked \cup gone) \in Nat
        /\ Cardinality(Worked) \in Nat /\ Cardinality(gone) \in Nat
    BY <1>3, <1>4, <1>5, FS_CardinalityType
  <1> QED
    BY <1>2, <1>3, <1>4, <1>5, <1>6

\* A set with another member has more members.
LEMMA OneMore ==
    ASSUME NEW S, NEW T, IsFiniteSet(T), S \subseteq T, NEW x \in T, x \notin S
    PROVE  Cardinality(S) + 1 <= Cardinality(T)
  <1>1. IsFiniteSet(S)
    BY FS_Subset
  <1>2. IsFiniteSet(S \cup {x}) /\ Cardinality(S \cup {x}) = Cardinality(S) + 1
    BY <1>1, FS_AddElement
  <1>3. S \cup {x} \subseteq T
    OBVIOUS
  <1>4. Cardinality(S \cup {x}) <= Cardinality(T)
    BY <1>3, FS_Subset
  <1> QED
    BY <1>2, <1>4

\* Without renumbering, nothing spent is ever unspent.
LEMMA SpentGrows ==
    ASSUME TypedFolder, MaxRebuilds = 0, [Next]_vars
    PROVE  Worked \cup gone \subseteq Worked' \cup gone'
  <1>1. ~Rebuild
    <2> SUFFICES ASSUME Rebuild PROVE FALSE
      OBVIOUS
    <2>1. validity < FirstValidity + 0 /\ FirstValidity \in Nat
          /\ validity \in FirstValidity..(FirstValidity + 0)
      BY DEF Rebuild, TypedFolder, TypeOK
    <2> QED
      BY <2>1
  <1>2. gone \subseteq gone'
    <2>1. CASE Expunge
      BY <2>1 DEF Expunge
    <2>2. CASE MessageError \/ Duplicate \/ Analyse
      <3>1. PICK name \in Name, poll \in Tally : Handle(name, poll)
        BY <2>2, HandleSteps
      <3> QED
        BY <3>1 DEF Handle, server
    <2>3. CASE ~(Expunge \/ MessageError \/ Duplicate \/ Analyse)
      BY <1>1, <2>3 DEF Next, Poll, Deliver, Start, OpenFolder, SkipHistorical, Search, Fetch,
                        RecordStats, Persist, PollAborts, Crash, vars, server
    <2> QED
      BY <2>1, <2>2, <2>3
  <1>3. Worked \subseteq Worked'
    <2>1. analysed \in [Mail -> Nat]
      BY DEF TypedFolder, TypeOK
    <2>2. CASE MessageError \/ Duplicate
      BY <2>2 DEF MessageError, Duplicate, Worked, Analysed
    <2>3. CASE Analyse
      <3>1. failed' = failed /\ \A m \in Mail : analysed[m] > 0 => analysed'[m] > 0
        BY <2>1, <2>3 DEF Analyse
      <3> QED
        BY <3>1 DEF Worked, Analysed
    <2>4. CASE ~(MessageError \/ Duplicate \/ Analyse)
      <3>1. UNCHANGED <<analysed, failed>>
        BY <1>1, <2>4 DEF Next, Poll, Deliver, Expunge, Start, OpenFolder, SkipHistorical,
                          Search, Fetch, RecordStats, Persist, PollAborts, Crash, vars, history
      <3> QED
        BY <3>1 DEF Worked, Analysed
    <2> QED
      BY <2>2, <2>3, <2>4
  <1> QED
    BY <1>2, <1>3

SpentAfter(n) == {u \in Worked' \cup gone' : u <= n}

\* A position that moves on has no less spent behind it, and more if it moves to a
\* mail that is spent now.
LEMMA SpentNext ==
    ASSUME TypedFolder, TypedFolder', MaxRebuilds = 0, [Next]_vars
    PROVE  \A m, n \in Nat : m <= n =>
              /\ Cardinality(Spent(m)) \in Nat /\ Cardinality(SpentAfter(n)) \in Nat
              /\ Cardinality(Spent(m)) <= Cardinality(SpentAfter(n))
              /\ n \in Worked' \cup gone' /\ m < n =>
                    Cardinality(Spent(m)) + 1 <= Cardinality(SpentAfter(n))
  <1> SUFFICES ASSUME NEW m \in Nat, NEW n \in Nat, m <= n
               PROVE  /\ Cardinality(Spent(m)) \in Nat /\ Cardinality(SpentAfter(n)) \in Nat
                      /\ Cardinality(Spent(m)) <= Cardinality(SpentAfter(n))
                      /\ n \in Worked' \cup gone' /\ m < n =>
                            Cardinality(Spent(m)) + 1 <= Cardinality(SpentAfter(n))
    OBVIOUS
  <1> DEFINE S == Spent(m)
             T == SpentAfter(n)
  <1>1. IsFiniteSet(Mail) /\ Mail \subseteq Nat
    BY Bounds, IntervalSize DEF Mail
  <1>2. Worked' \cup gone' \subseteq Mail
    <2>1. /\ inbox' \in Seq(Mail) /\ Len(inbox') <= MaxMail /\ gone' \subseteq 1..Len(inbox')
          /\ Worked' \subseteq Mail
      BY DEF TypedFolder, TypeOK, Worked, Analysed
    <2>2. 1..Len(inbox') \subseteq Mail
      BY <2>1, Bounds DEF Mail
    <2> QED
      BY <2>1, <2>2
  <1>3. T \subseteq Mail /\ IsFiniteSet(T)
    <2>1. T \subseteq Mail
      BY <1>2 DEF SpentAfter
    <2> QED
      BY <1>1, <2>1, FS_Subset
  <1>4. S \subseteq T
    <2>1. S \subseteq Worked' \cup gone'
      BY SpentGrows DEF Spent
    <2>2. \A u \in S : u \in Nat /\ u <= m
      BY <1>1, SpentProperties DEF Spent
    <2>3. \A u \in S : u <= n
      BY <2>2
    <2> QED
      BY <2>1, <2>3 DEF SpentAfter
  <1>5. n \in Worked' \cup gone' /\ m < n => n \in T /\ n \notin S
    BY DEF Spent, SpentAfter
  <1> HIDE DEF S, T
  <1>6. Cardinality(S) \in Nat /\ Cardinality(T) \in Nat /\ Cardinality(S) <= Cardinality(T)
    BY <1>3, <1>4, FS_Subset, FS_CardinalityType
  <1>7. n \in Worked' \cup gone' /\ m < n => Cardinality(S) + 1 <= Cardinality(T)
    BY <1>3, <1>4, <1>5, OneMore
  <1> QED
    BY <1>6, <1>7 DEF S, T

\* Sums of tallies.
LEMMA TallySums ==
    /\ NoTally \in Tally /\ NoTally.arrived = 0
    /\ \A a, b \in Tally : /\ AddTally(a, b) \in Tally
                           /\ AddTally(a, b).arrived = a.arrived + b.arrived
                           /\ a.arrived \in Nat
    /\ AddTally(NoTally, NoTally) = NoTally
  <1>1. NoTally \in Tally /\ NoTally.arrived = 0 /\ AddTally(NoTally, NoTally) = NoTally
    BY DEF NoTally, Tally, AddTally
  <1>2. \A a, b \in Tally : /\ AddTally(a, b).arrived = a.arrived + b.arrived
                            /\ a.arrived \in Nat
    BY DEF AddTally, Tally
  <1> QED
    BY <1>1, <1>2, TallyTypes

\* Every step of a production daemon on a folder that keeps its UIDVALIDITY keeps
\* the totals within what is spent.
LEMMA SumStep ==
    ASSUME MaxRebuilds = 0, FirstValidity = 1, Modes \subseteq {TRUE}
    PROVE  PollInv /\ TypedFolder' /\ NumberedInv /\ DiskInv /\ SumInv /\ [Next]_vars => SumInv'
  <1> SUFFICES ASSUME PollInv, TypedFolder', NumberedInv, DiskInv, SumInv, [Next]_vars
               PROVE  SumInv'
    OBVIOUS
  <1> USE DEF PollInv
  <1> DEFINE K(n) == Cardinality(Spent(n))
             L(n) == Cardinality(SpentAfter(n))
  <1>0. /\ production /\ cp.uv = validity /\ validity = FirstValidity
        /\ cp.last \in Nat /\ disk.last \in Nat /\ expunged \in Nat /\ losses \in Nat
        /\ cp \in [has : BOOLEAN, uv : Nat, last : Uid, sum : Tally]
        /\ disk \in [has : BOOLEAN, last : Uid, sum : Tally]
        /\ tally \in [sum : Tally, highest : Uid]
    <2>1. validity \in 1..(1 + 0) /\ production \in {TRUE}
      BY DEF TypedFolder, TypeOK
    <2>2. validity = FirstValidity /\ production
      BY <2>1
    <2> QED
      BY <2>2, Numbers DEF TypedFolder, TypeOK, DiskInv, Current
  <1>1. /\ cp.sum \in Tally /\ disk.sum \in Tally /\ tally.sum \in Tally
        /\ cp.sum.arrived \in Nat /\ disk.sum.arrived \in Nat /\ tally.sum.arrived \in Nat
    BY <1>0, TallySums
  <1>2. \A m, n \in Nat : m <= n =>
           /\ K(m) \in Nat /\ L(n) \in Nat /\ K(m) <= L(n)
           /\ n \in Worked' \cup gone' /\ m < n => K(m) + 1 <= L(n)
    BY SpentNext
  <1>3. /\ Cardinality(gone) <= expunged
        /\ disk.sum.arrived <= K(disk.last)
        /\ cp.sum.arrived + (IF pc = "persist" THEN 0 ELSE tally.sum.arrived) <= K(cp.last)
        /\ ~disk.has => disk = NoTelemetry
        /\ ~cp.has => cp.sum = NoTally
        /\ pc \notin {"loop", "fetched", "persist"} => tally.sum = NoTally
        /\ cp.has => disk.last <= cp.last
        /\ ~cp.has /\ pc = "search" => ~disk.has
        /\ cp.has => disk.sum.arrived + (IF pc = "persist" THEN tally.sum.arrived ELSE 0)
                        <= cp.sum.arrived
        /\ losses = 0 /\ cp.has => IF pc = "persist" THEN cp.sum = AddTally(disk.sum, tally.sum)
                                   ELSE disk.has /\ cp.sum = disk.sum
    BY DEF SumInv
  <1>4. SUFFICES
           /\ Cardinality(gone') <= expunged'
           /\ disk'.sum.arrived <= L(disk'.last)
           /\ cp'.sum.arrived + (IF pc' = "persist" THEN 0 ELSE tally'.sum.arrived) <= L(cp'.last)
           /\ ~disk'.has => disk' = NoTelemetry
           /\ ~cp'.has => cp'.sum = NoTally
           /\ pc' \notin {"loop", "fetched", "persist"} => tally'.sum = NoTally
           /\ cp'.has => disk'.last <= cp'.last
           /\ ~cp'.has /\ pc' = "search" => ~disk'.has
           /\ cp'.has => disk'.sum.arrived + (IF pc' = "persist" THEN tally'.sum.arrived ELSE 0)
                            <= cp'.sum.arrived
           /\ losses' = 0 /\ cp'.has =>
                 IF pc' = "persist" THEN cp'.sum = AddTally(disk'.sum, tally'.sum)
                 ELSE disk'.has /\ cp'.sum = disk'.sum
    BY DEF SumInv, Spent, SpentAfter, NoTelemetry, NoTally, AddTally
  <1> HIDE DEF K, L
  <1>5. /\ K(disk.last) \in Nat /\ L(disk.last) \in Nat /\ K(disk.last) <= L(disk.last)
        /\ K(cp.last) \in Nat /\ L(cp.last) \in Nat /\ K(cp.last) <= L(cp.last)
    BY <1>0, <1>2
  <1>6. CASE Deliver \/ Expunge \/ Start \/ Search \/ Fetch \/ UNCHANGED vars
    <2>1. /\ UNCHANGED <<cp, disk, losses>> /\ tally'.sum = tally.sum
          /\ pc' = "persist" <=> pc = "persist"
          /\ pc' = "search" => pc = "search"
          /\ pc' \notin {"loop", "fetched", "persist"} => pc \notin {"loop", "fetched", "persist"}
      <3>1. CASE Search
        BY <1>3, <3>1 DEF Search, bounds
      <3> QED
        BY <1>6, <3>1 DEF Deliver, Expunge, Start, Fetch, vars, daemon, bounds
    <2>2. Cardinality(gone') <= expunged'
      <3>1. CASE Expunge
        <4>1. PICK u : gone' = gone \cup {u} /\ expunged' = expunged + 1
          BY <3>1 DEF Expunge
        <4>2. IsFiniteSet(gone) /\ Cardinality(gone) \in Nat
          BY <1>0, SpentProperties
        <4>3. Cardinality(gone \cup {u}) = Cardinality(gone)
              \/ Cardinality(gone \cup {u}) = Cardinality(gone) + 1
          BY <4>2, FS_AddElement
        <4> QED
          BY <1>0, <1>3, <4>1, <4>2, <4>3
      <3>2. CASE ~Expunge
        BY <1>3, <1>6, <3>2 DEF Deliver, Start, Search, Fetch, vars, server, bounds
      <3> QED
        BY <3>1, <3>2
    <2>3. disk'.sum.arrived <= L(disk'.last)
          /\ cp'.sum.arrived + (IF pc' = "persist" THEN 0 ELSE tally'.sum.arrived) <= L(cp'.last)
      BY <1>1, <1>3, <1>5, <2>1
    <2> QED
      BY <1>3, <2>1, <2>2, <2>3
  <1>7. CASE Rebuild
    <2>1. validity < FirstValidity + 0
      BY <1>7 DEF Rebuild
    <2> QED
      BY <1>0, <2>1
  <1>8. CASE OpenFolder
    <2>1. /\ pc = "idle" /\ pc' = "search" /\ UNCHANGED <<tally, disk, losses, gone, expunged>>
          /\ (cp'.has <=> cp.has \/ disk.has)
          /\ \/ cp'.last = cp.last /\ cp'.sum = cp.sum /\ (cp'.has <=> cp.has)
             \/ ~cp.has /\ disk.has /\ cp'.last = disk.last /\ cp'.sum = disk.sum
      BY <1>0, <1>8, OpenFolderChange DEF server, bounds
    <2>2. tally.sum.arrived = 0 /\ tally.sum = NoTally
      BY <1>3, <2>1, TallySums
    <2>3. CASE cp'.last = cp.last /\ cp'.sum = cp.sum /\ (cp'.has <=> cp.has)
      BY <1>1, <1>3, <1>5, <2>1, <2>2, <2>3
    <2>4. CASE ~cp.has /\ disk.has /\ cp'.last = disk.last /\ cp'.sum = disk.sum
      BY <1>0, <1>1, <1>3, <1>5, <2>1, <2>2, <2>4
    <2> QED
      BY <2>1, <2>3, <2>4
  <1>9. CASE SkipHistorical
    <2>1. /\ pc = "search" /\ pc' = "persist" /\ ~cp.has
          /\ UNCHANGED <<disk, losses, gone, expunged>>
          /\ cp' = [cp EXCEPT !.has = TRUE, !.last = Largest(Present)]
          /\ tally' = [sum |-> NoTally, highest |-> Largest(Present)]
      BY <1>9 DEF SkipHistorical, InitialSync, server, bounds
    <2>2. disk = NoTelemetry /\ cp.sum = NoTally
      BY <1>3, <2>1
    <2>3. cp'.has /\ cp'.last = Largest(Present) /\ cp'.sum = NoTally /\ tally'.sum = NoTally
      BY <1>0, <2>1, <2>2
    <2>4. disk.sum = NoTally /\ disk.last = 0 /\ NoTally.arrived = 0
      BY <2>2, TallySums DEF NoTelemetry
    <2>5. Largest(Present) \in Nat
      <3>1. cp'.last \in Nat
        BY NextPosition
      <3> QED
        BY <2>3, <3>1
    <2>6. L(Largest(Present)) \in Nat
      BY <1>2, <2>5
    <2> QED
      BY <1>3, <1>5, <2>1, <2>2, <2>3, <2>4, <2>5, <2>6, TallySums
  <1>10. CASE MessageError \/ Duplicate \/ Analyse
    <2>1. PICK name \in Name, poll \in Tally :
             /\ Handle(name, poll)
             /\ poll.arrived \in {0, 1} /\ (poll.arrived = 1 => MessageError \/ Analyse)
      <3>1. /\ [NoTally EXCEPT !.arrived = 1, !.errors = 1].arrived = 1
            /\ [NoTally EXCEPT !.dups = 1].arrived = 0
            /\ [NoTally EXCEPT !.arrived = 1, !.analysed = 1].arrived = 1
        BY DEF NoTally
      <3>2. CASE MessageError
        BY <3>1, <3>2, MsgIdType, TallyTypes DEF MessageError, TypedFolder
      <3>3. CASE Duplicate
        <4>1. Handle(MsgId, [NoTally EXCEPT !.dups = 1])
          BY <3>3 DEF Duplicate
        <4>2. MsgId \in Name
          BY MsgIdType DEF TypedFolder
        <4>3. [NoTally EXCEPT !.dups = 1] \in Tally
          BY TallyTypes
        <4>4. [NoTally EXCEPT !.dups = 1].arrived \in {0, 1}
              /\ [NoTally EXCEPT !.dups = 1].arrived # 1
          BY <3>1
        <4> QED
          BY <4>1, <4>2, <4>3, <4>4
      <3>4. CASE Analyse
        BY <3>1, <3>4, MsgIdType, TallyTypes DEF Analyse, TypedFolder
      <3> QED
        BY <1>10, <3>2, <3>3, <3>4
    <2>2. /\ pc = "fetched" /\ pc' = "loop" /\ hand.uid > cp.last /\ cp'.last = hand.uid
          /\ (cp'.has <=> cp.has) /\ cp'.sum = cp.sum /\ tally'.sum = AddTally(tally.sum, poll)
          /\ UNCHANGED <<disk, gone, expunged>>
      BY <2>1, HandleChange DEF server
    <2>3. hand.uid \in Nat /\ cp.has
      BY <1>0, <2>2, Numbers DEF MemoryInv
    <2>4. tally'.sum.arrived = tally.sum.arrived + poll.arrived /\ poll.arrived \in Nat
      BY <1>1, <2>1, <2>2, TallySums
    <2>5. poll.arrived = 1 => hand.uid \in Worked' \cup gone'
      <3>1. ASSUME poll.arrived = 1 PROVE hand.uid \in Worked' \cup gone'
        <4>1. CASE hand.mail = 0
          BY <1>0, <2>2, <4>1 DEF NumberedInv
        <4>2. CASE hand.mail # 0
          <5>1. hand.mail = hand.uid /\ hand.mail \in Mail
            BY <1>0, <4>2 DEF NumberedInv, TypedFolder, TypeOK
          <5>2. CASE MessageError
            BY <4>2, <5>1, <5>2 DEF MessageError, Worked
          <5>3. CASE Analyse
            <6>1. analysed \in [Mail -> Nat] /\ analysed' = [analysed EXCEPT ![hand.mail] = @ + 1]
              BY <4>2, <5>3 DEF Analyse, TypedFolder, TypeOK
            <6>2. analysed'[hand.mail] > 0
              BY <5>1, <6>1
            <6> QED
              BY <5>1, <6>2 DEF Worked, Analysed
          <5> QED
            BY <2>1, <3>1, <5>2, <5>3
        <4> QED
          BY <4>1, <4>2
      <3> QED
        BY <3>1
    <2>6. K(cp.last) \in Nat /\ L(hand.uid) \in Nat /\ K(cp.last) + poll.arrived <= L(hand.uid)
      <3>1. cp.last <= hand.uid /\ cp.last < hand.uid
        BY <1>0, <2>2, <2>3
      <3>2. K(cp.last) \in Nat /\ L(hand.uid) \in Nat /\ K(cp.last) <= L(hand.uid)
            /\ (hand.uid \in Worked' \cup gone' => K(cp.last) + 1 <= L(hand.uid))
        BY <1>0, <1>2, <2>3, <3>1
      <3> QED
        BY <2>1, <2>5, <3>2
    <2>7. cp'.sum.arrived + (IF pc' = "persist" THEN 0 ELSE tally'.sum.arrived) <= L(cp'.last)
      <3>1. cp.sum.arrived + tally.sum.arrived <= K(cp.last)
        BY <1>3, <2>2
      <3> QED
        BY <1>1, <2>2, <2>4, <2>6, <3>1
    <2>8. disk'.last <= cp'.last
      BY <1>0, <1>3, <2>2, <2>3
    <2>9. losses' = 0 => losses = 0
      BY <1>0, <1>10 DEF MessageError, Duplicate, Analyse, SaveCase
    <2>10. disk'.sum.arrived <= L(disk'.last)
      BY <1>1, <1>3, <1>5, <2>2
    <2> QED
      BY <1>3, <2>2, <2>3, <2>7, <2>8, <2>9, <2>10
  <1>11. CASE RecordStats
    <2>1. /\ pc = "loop" /\ pc' = "persist" /\ UNCHANGED <<disk, tally, losses, gone, expunged>>
          /\ cp'.last = cp.last /\ cp'.has /\ cp'.sum = AddTally(cp.sum, tally.sum)
      BY <1>0, <1>11 DEF RecordStats, RecordPollStats, server, bounds, LoopInv
    <2>2. cp.has
      BY <1>0, <2>1 DEF MemoryInv
    <2>3. cp'.sum.arrived = cp.sum.arrived + tally.sum.arrived
      BY <1>1, <2>1, TallySums
    <2>4. /\ disk'.sum.arrived <= L(disk'.last) /\ cp'.sum.arrived + 0 <= L(cp'.last)
          /\ disk'.sum.arrived + tally'.sum.arrived <= cp'.sum.arrived
      BY <1>1, <1>3, <1>5, <2>1, <2>2, <2>3
    <2> QED
      BY <1>3, <2>1, <2>2, <2>4
  <1>12. CASE Persist
    <2>1. /\ pc = "persist" /\ pc' = "idle" /\ UNCHANGED <<cp, gone, expunged>>
          /\ tally'.sum = NoTally
          /\ \/ RecordPoll(tally.sum, tally.highest) /\ losses' = losses
             \/ losses' = losses + 1 /\ disk' = disk
      BY <1>12 DEF Persist, server
    <2>2. cp.has /\ tally.highest = cp.last
      BY <2>1 DEF MemoryInv, LoopInv
    <2>3. NoTally.arrived = 0
      BY TallySums
    <2>4. CASE RecordPoll(tally.sum, tally.highest) /\ losses' = losses
      <3>1. disk' = [has |-> TRUE, last |-> IF cp.last > disk.last THEN cp.last ELSE disk.last,
                     sum |-> AddTally(disk.sum, tally.sum)]
        BY <2>2, <2>4 DEF RecordPoll
      <3>2. disk'.has /\ disk'.last = cp.last /\ disk'.sum = AddTally(disk.sum, tally.sum)
        BY <1>0, <1>3, <2>2, <3>1
      <3>3. disk'.sum.arrived = disk.sum.arrived + tally.sum.arrived
        BY <1>1, <3>2, TallySums
      <3>4. disk'.sum.arrived <= cp.sum.arrived /\ cp.sum.arrived <= L(cp.last)
        BY <1>1, <1>3, <1>5, <2>1, <2>2, <3>3
      <3>5. disk'.sum.arrived <= L(disk'.last) /\ cp'.sum.arrived + tally'.sum.arrived <= L(cp'.last)
        BY <1>1, <1>5, <2>1, <2>3, <3>2, <3>3, <3>4
      <3>6. disk'.sum.arrived + 0 <= cp'.sum.arrived
        BY <1>1, <2>1, <3>3, <3>4
      <3>7. losses' = 0 => cp'.sum = disk'.sum
        BY <1>3, <2>1, <2>2, <2>4, <3>2
      <3> QED
        BY <1>0, <1>3, <2>1, <2>2, <3>2, <3>5, <3>6, <3>7
    <2>5. CASE losses' = losses + 1 /\ disk' = disk
      <3>1. losses' # 0
        BY <1>0, <2>5
      <3>2. disk'.sum.arrived <= L(disk'.last) /\ cp'.sum.arrived + tally'.sum.arrived <= L(cp'.last)
        BY <1>1, <1>3, <1>5, <2>1, <2>3, <2>5
      <3>3. disk'.sum.arrived + 0 <= cp'.sum.arrived
        BY <1>1, <1>3, <2>1, <2>2, <2>5
      <3> QED
        BY <1>3, <2>1, <2>2, <2>5, <3>1, <3>2, <3>3
    <2> QED
      BY <2>1, <2>4, <2>5
  <1>13. CASE PollAborts
    <2>1. /\ pc \in {"search", "loop", "fetched"} /\ pc' = "idle"
          /\ UNCHANGED <<cp, disk, losses, gone, expunged>> /\ tally'.sum = NoTally
      BY <1>13 DEF PollAborts, server
    <2>2. disk'.sum.arrived <= L(disk'.last) /\ cp'.sum.arrived + tally'.sum.arrived <= L(cp'.last)
      BY <1>1, <1>3, <1>5, <2>1, TallySums
    <2> QED
      BY <1>3, <2>1, <2>2
  <1>14. CASE Crash
    <2>1. /\ pc' = "down" /\ cp' = NoCheckpoint /\ tally'.sum = NoTally
          /\ UNCHANGED <<disk, losses, gone, expunged>>
      BY <1>14 DEF Crash, server
    <2>2. ~cp'.has /\ cp'.sum = NoTally /\ cp'.last = 0
      BY <2>1 DEF NoCheckpoint
    <2>3. L(0) \in Nat
      BY <1>2
    <2>4. disk'.sum.arrived <= L(disk'.last) /\ cp'.sum.arrived + tally'.sum.arrived <= L(cp'.last)
      BY <1>1, <1>3, <1>5, <2>1, <2>2, <2>3, TallySums
    <2> QED
      BY <1>3, <2>1, <2>2, <2>4
  <1> QED
    BY <1>6, <1>7, <1>8, <1>9, <1>10, <1>11, <1>12, <1>13, <1>14 DEF Next, Poll

\* The totals of a production daemon, over any number of restarts and lost writes,
\* count no message twice, and between polls the file has the daemon's own.
THEOREM TotalsKept ==
    ASSUME MaxRebuilds = 0, FirstValidity = 1, Modes \subseteq {TRUE}
    PROVE  Spec => []TotalsHold
  <1>1. Dependable
    BY DEF Dependable
  <1>2. Init => SumInv
    <2> SUFFICES ASSUME Init PROVE SumInv
      OBVIOUS
    <2>1. Spent(0) = {} /\ gone = {} /\ Cardinality({}) = 0
      BY FS_EmptySet DEF Init, Spent, Worked, Analysed
    <2>2. /\ disk = NoTelemetry /\ cp = NoCheckpoint /\ tally.sum = NoTally
          /\ pc = "down" /\ expunged = 0
      BY DEF Init
    <2>3. /\ disk.sum = NoTally /\ disk.last = 0 /\ cp.sum = NoTally /\ cp.last = 0 /\ ~cp.has
      BY <2>2 DEF NoCheckpoint, NoTelemetry
    <2>4. NoTally.arrived = 0
      BY TallySums
    <2>5. /\ Cardinality(gone) <= expunged
          /\ disk.sum.arrived <= Cardinality(Spent(disk.last))
          /\ cp.sum.arrived + tally.sum.arrived <= Cardinality(Spent(cp.last))
      BY <2>1, <2>2, <2>3, <2>4
    <2> QED
      BY <2>2, <2>3, <2>5 DEF SumInv
  <1>3. PollInv => TypedFolder
    BY DEF PollInv
  <1>4. PollInv /\ TypedFolder' /\ NumberedInv /\ DiskInv /\ SumInv /\ [Next]_vars => SumInv'
    BY SumStep
  <1>5. PollInv /\ SumInv => TotalsHold
    <2> SUFFICES ASSUME PollInv, SumInv PROVE TotalsHold
      OBVIOUS
    <2>1. TypedFolder /\ cp.last \in Nat /\ disk.last \in Nat /\ expunged \in Nat
          /\ cp.sum \in Tally /\ disk.sum \in Tally /\ tally.sum \in Tally
      BY Numbers DEF PollInv, TypedFolder, TypeOK
    <2>2. cp.sum.arrived \in Nat /\ disk.sum.arrived \in Nat /\ tally.sum.arrived \in Nat
      BY <2>1, TallySums
    <2>3. \A n \in Nat : /\ Cardinality(Spent(n)) <= Cardinality(Worked) + Cardinality(gone)
                         /\ Cardinality(Spent(n)) \in Nat
                         /\ Cardinality(Worked) \in Nat /\ Cardinality(gone) \in Nat
      BY <2>1, SpentProperties
    <2>4. cp.sum.arrived <= Cardinality(Spent(cp.last))
          /\ disk.sum.arrived <= Cardinality(Spent(disk.last)) /\ Cardinality(gone) <= expunged
      BY <2>1, <2>2, <2>3 DEF SumInv
    <2>5. NoDoubleCount
      BY <2>1, <2>2, <2>3, <2>4 DEF NoDoubleCount
    <2>6. TelemetryMirrors
      BY DEF TelemetryMirrors, SumInv
    <2> QED
      BY <2>5, <2>6 DEF TotalsHold
  <1> QED
    BY <1>1, <1>2, <1>3, <1>4, <1>5, PollInvariant, NumberedInvariant, LossInvariant, PTL DEF Spec
=============================================================================
