---------------------------- MODULE SessionVault ----------------------------
(***************************************************************************)
(* The encrypted file of saved mail accounts (core/session_vault.py), used *)
(* by several threads of the web application at once.  The file is written *)
(* in place: between the truncation and the last byte a reader finds a     *)
(* file that does not decrypt, and the reader's answer is to shred it.     *)
(***************************************************************************)
EXTENDS Naturals, FiniteSets

CONSTANTS
    Email,      \* mail accounts
    Thread,     \* threads of the web application
    None,       \* no file, no payload, no call
    Torn,       \* a file that does not decrypt
    MaxUses,    \* bound: calls to the vault
    MaxRestarts \* bound: restarts of the application

VARIABLES
    file,       \* None, Torn, or a payload
    use,        \* each thread's call: its operation, payload and next step
    uses, restarts, \* counters
    due,        \* the accounts saved, not since forgotten, expired or cleared
    raced       \* a thread met a half-written file, or wrote over another's write

vars == <<file, use, uses, restarts, due, raced>>

Operation == {"save", "switch", "forget", "alerts", "read", "clear"}

\* A payload: the accounts with time left, those past their 14 days, the active
\* one, and those with an alert configuration.
Payload == [fresh : SUBSET Email, old : SUBSET Email, active : Email, alerts : SUBSET Email]
Saved(q) == q.fresh \cup q.old
Whole == file \notin {None, Torn}

Init ==
    /\ file = None
    /\ use = [t \in Thread |-> None]
    /\ uses = 0 /\ restarts = 0
    /\ due = {}
    /\ raced = FALSE

Begin(t, op, e) ==
    /\ use[t] = None /\ uses < MaxUses
    /\ uses' = uses + 1
    /\ use' = [use EXCEPT ![t] = [op |-> op, email |-> e, payload |-> None, seen |-> file,
                                  next |-> IF op = "clear" THEN "shred" ELSE "read"]]
    /\ UNCHANGED <<file, restarts, due, raced>>

Does(t, step) == use[t] # None /\ use[t].next = step

-----------------------------------------------------------------------------
(* What each operation writes back, from the payload it has read. *)

\* Variant: a save starts a new vault.
AddedAlone(q, e) == [fresh |-> {e}, old |-> {}, active |-> e, alerts |-> {}]

Added(q, e) ==
    IF q = None THEN [fresh |-> {e}, old |-> {}, active |-> e, alerts |-> {}]
    ELSE [fresh |-> q.fresh \cup {e}, old |-> q.old \ {e}, active |-> e,
          alerts |-> q.alerts \ {e}]

\* Variant: the account is forgotten and stays the active one.
DroppedOnly(q, e) ==
    {[q EXCEPT !.fresh = @ \ {e}, !.old = @ \ {e}, !.alerts = @ \ {e}]}

\* del of the account; the first of the others becomes the active one.
Dropped(q, e) ==
    LET rest == [q EXCEPT !.fresh = @ \ {e}, !.old = @ \ {e}, !.alerts = @ \ {e}]
    IN  IF q.active = e THEN {[rest EXCEPT !.active = a] : a \in Saved(rest)} ELSE {rest}

\* The payloads the call may write; none when it returns without a write.
Written(c) ==
    LET q == c.payload
        known == q # None /\ c.email \in Saved(q)
    IN  CASE c.op = "save" -> {Added(q, c.email)}
          [] c.op = "forget" /\ q # None -> Dropped(q, c.email)
          [] c.op = "switch" /\ known -> {[q EXCEPT !.active = c.email]}
          [] c.op = "alerts" /\ known -> {[q EXCEPT !.alerts = @ \cup {c.email}]}
          [] OTHER -> {}

\* forget_account shreds the file when it removes the last account.
Shreds(c) == c.op = "forget" /\ c.payload # None /\ Saved(c.payload) \subseteq {c.email}

\* The rest of the call, with its payload read: a write, a shredding, or nothing.
Proceed(t, c) ==
    IF Shreds(c) THEN use' = [use EXCEPT ![t] = [c EXCEPT !.next = "shred"]]
    ELSE \/ /\ Written(c) = {}
            /\ use' = [use EXCEPT ![t] = None]
         \/ \E q \in Written(c) :
                use' = [use EXCEPT ![t] = [c EXCEPT !.payload = q, !.next = "truncate"]]

\* What finishing the call makes of the accounts that are due to be kept.
DueAfter(c) ==
    CASE c.op = "save" -> due \cup ({c.email} \cap c.payload.fresh)
      [] c.op = "forget" -> due \ {c.email}
      [] c.op = "clear" -> {}
      [] OTHER -> due

-----------------------------------------------------------------------------
(* Reading: _read_raw_vault. *)

\* No file: a save starts a new vault, every other call returns.
ReadNothing(t) ==
    /\ Does(t, "read") /\ file = None
    /\ Proceed(t, [use[t] EXCEPT !.seen = file])
    /\ UNCHANGED <<file, uses, restarts, due, raced>>

\* A file that is too short or does not decrypt is shredded, and the call goes
\* on as without a file.
ReadTorn(t) ==
    /\ Does(t, "read") /\ file = Torn
    /\ use' = [use EXCEPT ![t].next = "shred_unread"]
    /\ raced' = TRUE
    /\ UNCHANGED <<file, uses, restarts, due>>

\* Without the accounts past their time; with none left the file is shredded,
\* with some purged or the active one gone the rest is written back first.
Purged(q) ==
    {[q EXCEPT !.old = {}, !.alerts = @ \cap q.fresh, !.active = a] :
        a \in IF q.active \in q.fresh THEN {q.active} ELSE q.fresh}

ReadWhole(t) ==
    /\ Does(t, "read") /\ Whole
    /\ IF file.fresh = {}
       THEN use' = [use EXCEPT ![t].next = "shred_unread", ![t].seen = file]
       ELSE \E q \in Purged(file) :
              LET c == [use[t] EXCEPT !.payload = q, !.seen = file]
              IN  IF q # file THEN use' = [use EXCEPT ![t] = [c EXCEPT !.next = "purge"]]
                              ELSE Proceed(t, c)
    /\ UNCHANGED <<file, uses, restarts, due, raced>>

-----------------------------------------------------------------------------
(* Writing: _write_raw_vault and clear_session_credentials. *)

\* open(VAULT_FILE, "wb") truncates the file.
Truncate(t) ==
    /\ use[t] # None /\ use[t].next \in {"truncate", "purge"}
    /\ file' = Torn
    /\ raced' = (raced \/ file # use[t].seen)
    /\ use' = [use EXCEPT ![t].next = IF @ = "purge" THEN "purging" ELSE "writing",
                          ![t].seen = Torn]
    /\ UNCHANGED <<uses, restarts, due>>

WriteOut(t) ==
    /\ Does(t, "writing")
    /\ file' = use[t].payload
    /\ raced' = (raced \/ file # Torn)
    /\ due' = DueAfter(use[t])
    /\ use' = [use EXCEPT ![t] = None]
    /\ UNCHANGED <<uses, restarts>>

PurgeOut(t) ==
    /\ Does(t, "purging")
    /\ file' = use[t].payload
    /\ raced' = (raced \/ file # Torn)
    /\ Proceed(t, [use[t] EXCEPT !.seen = use[t].payload])
    /\ UNCHANGED <<uses, restarts, due>>

\* Noise over the file, then its removal: two steps of the file system.  A clear
\* reads nothing first and takes whatever payload is there.
Overwrite(t) ==
    /\ use[t] # None /\ use[t].next \in {"shred", "shred_unread"}
    /\ file' = IF file = None THEN None ELSE Torn
    /\ raced' = (raced \/ file = Torn
                       \/ (use[t].op # "clear" /\ file \notin {None, use[t].seen}))
    /\ use' = [use EXCEPT ![t].next = IF @ = "shred" THEN "remove" ELSE "remove_unread",
                          ![t].seen = file']
    /\ UNCHANGED <<uses, restarts, due>>

Remove(t) ==
    /\ Does(t, "remove")
    /\ file' = None
    /\ raced' = (raced \/ file # use[t].seen)
    /\ due' = DueAfter(use[t])
    /\ use' = [use EXCEPT ![t] = None]
    /\ UNCHANGED <<uses, restarts>>

RemoveUnread(t) ==
    /\ Does(t, "remove_unread")
    /\ file' = None
    /\ raced' = (raced \/ file # use[t].seen)
    /\ Proceed(t, [use[t] EXCEPT !.seen = None])
    /\ UNCHANGED <<uses, restarts, due>>

-----------------------------------------------------------------------------
(* The 14 days of an account run out; the application is restarted. *)

Aged(q, e) == IF q \in Payload /\ e \in q.fresh
              THEN [q EXCEPT !.fresh = @ \ {e}, !.old = @ \cup {e}] ELSE q

Expire(e) ==
    /\ e \in due
    /\ due' = due \ {e}
    /\ file' = IF Whole THEN Aged(file, e) ELSE file
    /\ use' = [t \in Thread |->
                 IF use[t] = None THEN None
                 ELSE [use[t] EXCEPT !.payload = IF @ = None THEN None ELSE Aged(@, e),
                                     !.seen = IF @ \in {None, Torn} THEN @ ELSE Aged(@, e)]]
    /\ UNCHANGED <<uses, restarts, raced>>

Restart ==
    /\ restarts < MaxRestarts
    /\ restarts' = restarts + 1
    /\ use' = [t \in Thread |-> None]
    /\ UNCHANGED <<file, uses, due, raced>>

Next ==
    \/ \E t \in Thread, op \in Operation, e \in Email : Begin(t, op, e)
    \/ \E t \in Thread :
          \/ ReadNothing(t) \/ ReadTorn(t) \/ ReadWhole(t)
          \/ Truncate(t) \/ WriteOut(t) \/ PurgeOut(t)
          \/ Overwrite(t) \/ Remove(t) \/ RemoveUnread(t)
    \/ \E e \in Email : Expire(e)
    \/ Restart

Spec == Init /\ [][Next]_vars

-----------------------------------------------------------------------------
(* Properties. *)

\* Whatever the threads do to each other, a vault that decrypts has accounts,
\* and its active account and its alert configurations are of saved accounts:
\* get_account_credentials never finds the active account missing.
VaultSound ==
    /\ file \in {None, Torn} \cup Payload
    /\ Whole => /\ file.active \in Saved(file) /\ file.alerts \subseteq Saved(file)
                /\ file.fresh \cap file.old = {}

\* Unless a thread met a half-written file or wrote over another's write, the
\* vault keeps exactly the accounts it owes its users: nothing a user saved is
\* purged with another account's expiry, and nothing forgotten comes back.
VaultKeeps ==
    (~raced /\ \A t \in Thread : use[t] = None) =>
        (IF Whole THEN file.fresh ELSE {}) = (IF file = Torn THEN {} ELSE due)
=============================================================================
