---------------------------- MODULE AlertSession ----------------------------
(***************************************************************************)
(* Alert channels: the credentials kept in memory for each user            *)
(* (core/alert_session.py), the flags of each browser session, the alert   *)
(* row of the hosted database, and the pages that change them              *)
(* (views/alerts.py, the sign-in and sign-out of app.py).  The store is    *)
(* shared by all sessions of the server and lost with it.                  *)
(***************************************************************************)
EXTENDS Naturals

CONSTANTS
    User, Channel,  \* users; Telegram and WhatsApp
    HasWorker,      \* users with a worker record, the others' alert rows are not written
    Browser,        \* browser sessions
    None,           \* nobody signed in, no connection stored
    MaxRestarts     \* bound: restarts of the server

VARIABLES
    store,      \* _ALERT_SESSION_STORE: a user's connection of each channel
    seat,       \* each browser session: who is signed in, the channel whose form
                \* is being tested, whose alerts the session's flags are about,
                \* and each channel's status and destination
    row,        \* sentinel_alerts: the channels enabled for each user
    restarts

vars == <<store, seat, row, restarts>>

Blank == [status |-> "DISCONNECTED", of |-> None]
Empty == [user |-> None, testing |-> None, about |-> None, flags |-> [c \in Channel |-> Blank]]

Init ==
    /\ store = [u \in User |-> [c \in Channel |-> None]]
    /\ seat = [b \in Browser |-> Empty]
    /\ row = [u \in User |-> {}]
    /\ restarts = 0

\* A destination is masked; whose it is matters here, not which it is.
Connection(u) == [connected |-> TRUE, status |-> "ACTIVE", of |-> u]

Stored(u, c) == store[u][c]
Connected(u, c) == Stored(u, c) # None /\ Stored(u, c).connected

\* Variant: the session's flags are trusted.
ShownByFlags(b, c) == [status |-> seat[b].flags[c].status, of |-> seat[b].flags[c].of]

\* The page b shows of channel c: get_telegram_connection, get_whatsapp_connection.
\* What the store has comes first; the session's flags are shown when they are
\* about the user, and never as a connection.
Shown(b, c) ==
    LET u == seat[b].user
        f == seat[b].flags[c]
        owner == IF seat[b].about # None THEN seat[b].about ELSE u
    IN  IF Stored(u, c) # None
        THEN [status |-> Stored(u, c).status, of |-> Stored(u, c).of]
        ELSE IF owner = u
             THEN [status |-> IF f.status = "ACTIVE" THEN "DISCONNECTED" ELSE f.status,
                   of |-> f.of]
             ELSE Blank

Flag(b, u, c, status, of) ==
    seat' = [seat EXCEPT ![b].about = u, ![b].flags[c] = [status |-> status, of |-> of]]

SignIn(b, u) ==
    /\ seat[b].user = None
    /\ seat' = [seat EXCEPT ![b].user = u]
    /\ UNCHANGED <<store, row, restarts>>

\* Rendering the page of a connected channel refreshes the session's flags.
Render(b, c) ==
    LET u == seat[b].user
    IN  /\ u # None /\ seat[b].testing = None /\ Connected(u, c)
        /\ Flag(b, u, c, Stored(u, c).status, Stored(u, c).of)
        /\ UNCHANGED <<store, row, restarts>>

\* The form of a channel that is not connected is submitted; its test message is
\* on the way while the other sessions go on.
Submit(b, c) ==
    LET u == seat[b].user
    IN  /\ u # None /\ seat[b].testing = None /\ ~Connected(u, c)
        /\ seat' = [seat EXCEPT ![b].testing = c]
        /\ UNCHANGED <<store, row, restarts>>

\* The message was delivered: save_telegram_connection, save_whatsapp_connection;
\* the row is written when the user has a worker.
Delivered(b) ==
    LET u == seat[b].user
        c == seat[b].testing
    IN  /\ c # None
        /\ store' = [store EXCEPT ![u][c] = Connection(u)]
        /\ seat' = [seat EXCEPT ![b].testing = None, ![b].about = u,
                               ![b].flags[c] = [status |-> "ACTIVE", of |-> u]]
        /\ row' = IF u \in HasWorker THEN [row EXCEPT ![u] = @ \cup {c}] ELSE row
        /\ UNCHANGED restarts

\* set_telegram_status, set_whatsapp_status, after a refused connection or a test
\* message that was not delivered: a connection another session made in the
\* meantime is no longer one, its credentials stay.
Fail(b) ==
    LET u == seat[b].user
        c == seat[b].testing
        old == Stored(u, c)
    IN  /\ c # None
        /\ store' = [store EXCEPT ![u][c] =
                        IF old = None
                        THEN [connected |-> FALSE, status |-> "FAILED", of |-> None]
                        ELSE [old EXCEPT !.status = "FAILED", !.connected = FALSE]]
        /\ seat' = [seat EXCEPT ![b].testing = None, ![b].about = u,
                               ![b].flags[c].status = "FAILED"]
        /\ UNCHANGED <<row, restarts>>

Disconnect(b, c) ==
    LET u == seat[b].user
    IN  /\ u # None /\ seat[b].testing = None /\ Connected(u, c)
        /\ store' = [store EXCEPT ![u][c] = None]
        /\ Flag(b, u, c, "DISCONNECTED", None)
        /\ row' = IF u \in HasWorker THEN [row EXCEPT ![u] = @ \ {c}] ELSE row
        /\ UNCHANGED restarts

\* Variant: the store is purged, the flags of the session stay.
SignOutKeepsFlags(b) ==
    /\ seat[b].user # None /\ seat[b].testing = None
    /\ store' = [store EXCEPT ![seat[b].user] = [c \in Channel |-> None]]
    /\ seat' = [seat EXCEPT ![b].user = None, ![b].about = None]
    /\ UNCHANGED <<row, restarts>>

\* Logout, or a token that expired and could not be refreshed: the user's
\* credentials go, for every session of the user, and all of this session.
SignOut(b) ==
    /\ seat[b].user # None /\ seat[b].testing = None
    /\ store' = [store EXCEPT ![seat[b].user] = [c \in Channel |-> None]]
    /\ seat' = [seat EXCEPT ![b] = Empty]
    /\ UNCHANGED <<row, restarts>>

\* The store, its key and the sessions are the server's memory.
Restart ==
    /\ restarts < MaxRestarts
    /\ restarts' = restarts + 1
    /\ store' = [u \in User |-> [c \in Channel |-> None]]
    /\ seat' = [b \in Browser |-> Empty]
    /\ UNCHANGED row

Next ==
    \/ \E b \in Browser :
          \/ \E u \in User : SignIn(b, u)
          \/ SignOut(b) \/ Delivered(b) \/ Fail(b)
          \/ \E c \in Channel : Render(b, c) \/ Submit(b, c) \/ Disconnect(b, c)
    \/ Restart

Spec == Init /\ [][Next]_vars

-----------------------------------------------------------------------------
(* Properties. *)

\* A channel the store calls connected is active and its own user's, though tests
\* of two sessions end in any order; and whatever sessions a user has, and whoever
\* used the browser before, a page shows no destination but its user's.
OwnDestination ==
    /\ \A u \in User, c \in Channel :
          Connected(u, c) => Stored(u, c) = Connection(u)
    /\ \A b \in Browser, c \in Channel :
          seat[b].user # None => Shown(b, c).of \in {seat[b].user, None}

\* A page shows a channel as active only while credentials for it are kept:
\* after a disconnect or a sign-out in one session, and after a restart, no other
\* session goes on showing it; and the alert row of a connected channel is enabled.
ActiveIsConnected ==
    /\ \A b \in Browser, c \in Channel :
          (seat[b].user # None /\ Shown(b, c).status = "ACTIVE") => Connected(seat[b].user, c)
    /\ \A u \in HasWorker, c \in Channel : Connected(u, c) => c \in row[u]
=============================================================================
