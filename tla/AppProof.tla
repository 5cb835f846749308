------------------------------ MODULE AppProof ------------------------------
(***************************************************************************)
(* Proofs about the web application's parts: the vault, the alert session, *)
(* the verdicts and the origin of a mail, each for any number of threads,  *)
(* users, accounts and steps.  A step of the application is a step of the  *)
(* part its first state chose, and leaves the other parts alone.           *)
(***************************************************************************)
EXTENDS MCApp, DeploymentProof, FiniteSetTheorems, TLAPS

\* A step moves one part and leaves the others.
LEMMA AppStep ==
  ASSUME [AppNext]_appVars
  PROVE  /\ Vault!Next \/ UNCHANGED vaultVars
         /\ Alerts!Next \/ UNCHANGED alertVars
         /\ Scoring!Next \/ UNCHANGED verdictVars
         /\ Origin!Next \/ UNCHANGED originVars
         /\ Page!Next \/ UNCHANGED consoleVars
         /\ which' = which
  BY DEF AppNext, appVars

-----------------------------------------------------------------------------
(* The alert session. *)

Stores == [connected : BOOLEAN, status : {"ACTIVE", "FAILED"}, of : {None} \cup Recipient]
Flags == [status : {"ACTIVE", "FAILED", "DISCONNECTED"}, of : {None} \cup Recipient]
Seats == [user : {None} \cup Recipient, testing : {None} \cup Channel,
          about : {None} \cup Recipient, flags : [Channel -> Flags]]

AlertType ==
    /\ store \in [Recipient -> [Channel -> {None} \cup Stores]]
    /\ seat \in [Process -> Seats]
    /\ row \in [Recipient -> SUBSET Channel]

\* What is stored for a user is the user's, active exactly while connected, and
\* enabled in the user's row.
StoreInv ==
    \A u \in Recipient, c \in Channel :
        store[u][c] # None =>
            /\ store[u][c].connected <=> store[u][c].status = "ACTIVE"
            /\ store[u][c].connected => store[u][c].of = u
            /\ store[u][c].of \in {u, None}
            /\ (store[u][c].connected /\ u \in HasWorker) => c \in row[u]

\* The flags of a session name nobody but the one they are about, who is the one
\* signed in; a session without a user is empty.
SeatInv ==
    \A b \in Process :
        /\ seat[b].about \in {None, seat[b].user}
        /\ seat[b].user = None => seat[b] = Alerts!Empty
        /\ \A c \in Channel : seat[b].flags[c].of \in {None, seat[b].about}

AlertInv == AlertType /\ StoreInv /\ SeatInv

LEMMA AlertInit == Alerts!Init => AlertInv
  <1> SUFFICES ASSUME Alerts!Init PROVE AlertInv
    OBVIOUS
  <1>1. Alerts!Empty \in Seats
    BY DEF Alerts!Empty, Alerts!Blank, Seats, Flags
  <1>2. AlertType
    BY <1>1 DEF AlertType, Alerts!Init
  <1>3. StoreInv
    BY DEF StoreInv, Alerts!Init
  <1>4. SeatInv
    BY DEF SeatInv, Alerts!Init, Alerts!Empty, Alerts!Blank
  <1> QED
    BY <1>2, <1>3, <1>4 DEF AlertInv

\* What a write of the session's flags leaves and changes.
Put(o, c, f) ==
    [o EXCEPT !.testing = None, !.about = o.user, !.flags = [o.flags EXCEPT ![c] = f]]

LEMMA SeatPut ==
  ASSUME NEW o \in Seats, o.user \in Recipient, NEW c \in Channel, NEW f \in Flags
  PROVE  /\ Put(o, c, f) \in Seats
         /\ Put(o, c, f).user = o.user /\ Put(o, c, f).about = o.user
         /\ Put(o, c, f).flags[c] = f
         /\ \A d \in Channel : d # c => Put(o, c, f).flags[d] = o.flags[d]
  <1> DEFINE g == [o.flags EXCEPT ![c] = f]
             r == Put(o, c, f)
  <1>2. o.flags \in [Channel -> Flags] /\ o.user \in {None} \cup Recipient
    BY DEF Seats
  <1>3. g \in [Channel -> Flags]
    BY <1>2
  <1>4. g[c] = f /\ \A d \in Channel : d # c => g[d] = o.flags[d]
    BY <1>2
  <1> HIDE DEF g
  <1>5. r = [o EXCEPT !.testing = None, !.about = o.user, !.flags = g]
    BY DEF g, Put
  <1> HIDE DEF r
  <1>6. r \in Seats
    BY <1>3, <1>5 DEF Seats
  <1>7. r.user = o.user /\ r.about = o.user /\ r.flags = g
    BY <1>5 DEF Seats
  <1> QED
    BY <1>4, <1>6, <1>7 DEF r

\* A step that writes the flags of channel c in session b writes f.
Puts(b, c, f) ==
    /\ seat[b].user \in Recipient \ {None} /\ f \in Flags
    /\ seat' = [seat EXCEPT ![b] = Put(seat[b], c, f)]

LEMMA FlagPuts ==
  ASSUME AlertType, NEW b \in Process, NEW c \in Channel, seat[b].testing = None,
         NEW s \in {"ACTIVE", "FAILED", "DISCONNECTED"}, NEW of \in {None} \cup Recipient,
         seat[b].user \in Recipient \ {None}, Alerts!Flag(b, seat[b].user, c, s, of)
  PROVE  Puts(b, c, [status |-> s, of |-> of])
  <1> DEFINE o == seat[b]
             r == [o EXCEPT !.testing = None, !.about = o.user,
                            !.flags = [o.flags EXCEPT ![c] = [status |-> s, of |-> of]]]
             q == [o EXCEPT !.about = o.user,
                            !.flags = [o.flags EXCEPT ![c] = [status |-> s, of |-> of]]]
  <1>1. o \in Seats
    BY DEF AlertType
  <1>2. q = r
    BY <1>1 DEF Seats
  <1>3. seat' = [seat EXCEPT ![b] = q]
    BY <1>1 DEF Alerts!Flag, AlertType, Seats
  <1> QED
    BY <1>2, <1>3 DEF Puts, Put, Flags

LEMMA PutsKept ==
  ASSUME AlertType, SeatInv, NEW b \in Process, NEW c \in Channel, NEW f,
         Puts(b, c, f), f.of \in {None, seat[b].user}
  PROVE  seat' \in [Process -> Seats] /\ SeatInv'
  <1> DEFINE o == seat[b]
             r == Put(o, c, f)
  <1>1. o \in Seats /\ o.user \in Recipient \ {None} /\ f \in Flags /\ seat' = [seat EXCEPT ![b] = r]
    BY DEF AlertType, Puts
  <1> HIDE DEF o
  <1>2. /\ r \in Seats
        /\ r.user = o.user /\ r.about = o.user /\ r.flags[c] = f
        /\ \A d \in Channel : d # c => r.flags[d] = o.flags[d]
    BY <1>1, SeatPut
  <1> HIDE DEF r
  <1> USE DEF o
  <1>3. seat' \in [Process -> Seats] /\ seat'[b] = r
        /\ \A d \in Process : d # b => seat'[d] = seat[d]
    BY <1>1, <1>2 DEF AlertType
  <1>4. \A d \in Channel : r.flags[d].of \in {None, r.about}
    <2> TAKE d \in Channel
    <2>1. CASE d = c
      BY <2>1, <1>2
    <2>2. CASE d # c
      BY <2>2, <1>2 DEF SeatInv
    <2> QED
      BY <2>1, <2>2
  <1>5. SeatInv'
    <2> SUFFICES ASSUME NEW d \in Process
                 PROVE  /\ seat'[d].about \in {None, seat'[d].user}
                        /\ seat'[d].user = None => seat'[d] = Alerts!Empty
                        /\ \A k \in Channel : seat'[d].flags[k].of \in {None, seat'[d].about}
      BY DEF SeatInv, Alerts!Empty, Alerts!Blank
    <2>1. CASE d = b
      BY <2>1, <1>1, <1>2, <1>3, <1>4
    <2>2. CASE d # b
      BY <2>2, <1>3 DEF SeatInv
    <2> QED
      BY <2>1, <2>2
  <1> QED
    BY <1>3, <1>5

\* A page that shows a connected channel has a user and nothing under test.
LEMMA RenderPuts ==
  ASSUME AlertInv, NEW b \in Process, NEW c \in Channel, Alerts!Render(b, c)
  PROVE  \E f \in Flags : Puts(b, c, f) /\ f.of \in {None, seat[b].user}
  <1> DEFINE u == seat[b].user
             x == store[u][c]
  <1>1. u \in Recipient \ {None} /\ seat[b].testing = None /\ x # None
    BY DEF AlertInv, AlertType, Seats, Alerts!Render, Alerts!Connected, Alerts!Stored
  <1>2. x \in Stores /\ x.of \in {u, None}
    BY <1>1 DEF AlertInv, AlertType, StoreInv
  <1>3. x.status \in {"ACTIVE", "FAILED", "DISCONNECTED"} /\ x.of \in {None} \cup Recipient
    BY <1>2 DEF Stores
  <1>4. Alerts!Flag(b, u, c, x.status, x.of)
    BY DEF Alerts!Render, Alerts!Stored
  <1> HIDE DEF x
  <1>5. Puts(b, c, [status |-> x.status, of |-> x.of])
    BY <1>1, <1>3, <1>4, FlagPuts DEF AlertInv
  <1> QED
    BY <1>2, <1>3, <1>5 DEF Flags

LEMMA DisconnectPuts ==
  ASSUME AlertInv, NEW b \in Process, NEW c \in Channel, Alerts!Disconnect(b, c)
  PROVE  \E f \in Flags : Puts(b, c, f) /\ f.of \in {None, seat[b].user}
  <1>1. seat[b].user \in Recipient \ {None} /\ seat[b].testing = None
        /\ Alerts!Flag(b, seat[b].user, c, "DISCONNECTED", None)
    BY DEF AlertInv, AlertType, Seats, Alerts!Disconnect
  <1>2. Puts(b, c, [status |-> "DISCONNECTED", of |-> None])
    BY <1>1, FlagPuts DEF AlertInv
  <1> QED
    BY <1>2 DEF Flags

\* Only a user has a test on the way.
LEMMA Testing ==
  ASSUME AlertInv, NEW b \in Process, seat[b].testing # None
  PROVE  seat[b] \in Seats /\ seat[b].user \in Recipient \ {None} /\ seat[b].testing \in Channel
  <1>1. seat[b] \in Seats
    BY DEF AlertInv, AlertType
  <1>2. seat[b].user # None
    BY DEF AlertInv, SeatInv, Alerts!Empty
  <1> QED
    BY <1>1, <1>2 DEF Seats

LEMMA DeliveredPuts ==
  ASSUME AlertInv, NEW b \in Process, Alerts!Delivered(b)
  PROVE  Puts(b, seat[b].testing, [status |-> "ACTIVE", of |-> seat[b].user])
  <1> DEFINE o == seat[b]
             c == o.testing
             f == [status |-> "ACTIVE", of |-> o.user]
  <1>1. o \in Seats /\ o.user \in Recipient \ {None} /\ c \in Channel
    BY Testing DEF Alerts!Delivered
  <1>2. seat' = [seat EXCEPT ![b] = [o EXCEPT !.testing = None, !.about = o.user,
                                              !.flags = [o.flags EXCEPT ![c] = f]]]
    BY <1>1 DEF AlertInv, AlertType, Alerts!Delivered, Seats
  <1> QED
    BY <1>1, <1>2 DEF Puts, Put, Flags

LEMMA FailPuts ==
  ASSUME AlertInv, NEW b \in Process, Alerts!Fail(b)
  PROVE  \E f \in Flags : Puts(b, seat[b].testing, f) /\ f.of \in {None, seat[b].user}
  <1> DEFINE o == seat[b]
             c == o.testing
             f == [o.flags[c] EXCEPT !.status = "FAILED"]
  <1>1. o \in Seats /\ o.user \in Recipient \ {None} /\ c \in Channel
    BY Testing DEF Alerts!Fail
  <1>2. o.flags[c] \in Flags /\ o.flags[c].of \in {None, o.about} /\ o.about \in {None, o.user}
    BY <1>1 DEF AlertInv, SeatInv, Seats
  <1>3. f \in Flags /\ f.of = o.flags[c].of
    BY <1>2 DEF Flags
  <1>4. seat' = [seat EXCEPT ![b] = [o EXCEPT !.testing = None, !.about = o.user,
                                              !.flags = [o.flags EXCEPT ![c] = f]]]
    BY <1>1 DEF AlertInv, AlertType, Alerts!Fail, Seats
  <1> HIDE DEF f
  <1>5. Puts(b, c, f)
    BY <1>1, <1>3, <1>4 DEF Puts, Put
  <1> QED
    BY <1>2, <1>3, <1>5

LEMMA SeatStep ==
  ASSUME AlertInv, Alerts!Next
  PROVE  seat' \in [Process -> Seats] /\ SeatInv'
  <1>e. Alerts!Empty \in Seats
    BY DEF Alerts!Empty, Alerts!Blank, Seats, Flags
  <1>p. ASSUME NEW b \in Process, NEW c \in Channel,
               \E f \in Flags : Puts(b, c, f) /\ f.of \in {None, seat[b].user}
        PROVE  seat' \in [Process -> Seats] /\ SeatInv'
    BY <1>p, PutsKept DEF AlertInv
  <1>1. ASSUME NEW b \in Process, NEW u \in Recipient, Alerts!SignIn(b, u)
        PROVE  seat' \in [Process -> Seats] /\ SeatInv'
    <2> DEFINE r == [seat[b] EXCEPT !.user = u]
    <2>1. seat[b] = Alerts!Empty
      BY <1>1 DEF AlertInv, SeatInv, Alerts!SignIn
    <2>2. r \in Seats /\ r.about = None /\ \A c \in Channel : r.flags[c].of = None
      BY <1>e, <2>1 DEF Alerts!Empty, Alerts!Blank, Seats
    <2>3. r.user = None => r = Alerts!Empty
      BY <2>1 DEF Alerts!Empty
    <2> HIDE DEF r
    <2>4. seat' = [seat EXCEPT ![b] = r]
      BY <1>1 DEF Alerts!SignIn, AlertInv, AlertType, r
    <2>5. seat' \in [Process -> Seats] /\ seat'[b] = r /\ \A d \in Process : d # b => seat'[d] = seat[d]
      BY <2>2, <2>4 DEF AlertInv, AlertType
    <2> QED
      BY <2>2, <2>3, <2>5 DEF AlertInv, SeatInv, Alerts!Empty, Alerts!Blank
  <1>2. ASSUME NEW b \in Process, Alerts!SignOut(b)
        PROVE  seat' \in [Process -> Seats] /\ SeatInv'
    <2>1. seat' \in [Process -> Seats] /\ seat'[b] = Alerts!Empty
          /\ \A d \in Process : d # b => seat'[d] = seat[d]
      BY <1>2, <1>e DEF Alerts!SignOut, AlertInv, AlertType
    <2> QED
      BY <2>1 DEF AlertInv, SeatInv, Alerts!Empty, Alerts!Blank
  <1>3. ASSUME NEW b \in Process, Alerts!Delivered(b)
        PROVE  seat' \in [Process -> Seats] /\ SeatInv'
    <2> DEFINE f == [status |-> "ACTIVE", of |-> seat[b].user]
    <2>1. seat[b].testing \in Channel /\ seat[b].user \in Recipient
      BY <1>3, Testing DEF Alerts!Delivered
    <2>2. f \in Flags /\ f.of = seat[b].user
      BY <2>1 DEF Flags
    <2>3. Puts(b, seat[b].testing, f)
      BY <1>3, DeliveredPuts
    <2> HIDE DEF f
    <2> QED
      BY <2>1, <2>2, <2>3, <1>p
  <1>4. ASSUME NEW b \in Process, Alerts!Fail(b)
        PROVE  seat' \in [Process -> Seats] /\ SeatInv'
    <2>1. seat[b].testing \in Channel
      BY <1>4, Testing DEF Alerts!Fail
    <2> QED
      BY <1>4, <2>1, <1>p, FailPuts
  <1>5. ASSUME NEW b \in Process, NEW c \in Channel, Alerts!Render(b, c)
        PROVE  seat' \in [Process -> Seats] /\ SeatInv'
    BY <1>5, <1>p, RenderPuts
  <1>6. ASSUME NEW b \in Process, NEW c \in Channel, Alerts!Submit(b, c)
        PROVE  seat' \in [Process -> Seats] /\ SeatInv'
    <2> DEFINE r == [seat[b] EXCEPT !.testing = c]
    <2>1. seat[b] \in Seats /\ seat[b].user # None
      BY <1>6 DEF Alerts!Submit, AlertInv, AlertType
    <2>2. r \in Seats /\ r.user = seat[b].user /\ r.about = seat[b].about /\ r.flags = seat[b].flags
      BY <2>1 DEF Seats
    <2> HIDE DEF r
    <2>3. seat' = [seat EXCEPT ![b] = r]
      BY <1>6 DEF Alerts!Submit, AlertInv, AlertType, r
    <2>4. seat' \in [Process -> Seats] /\ seat'[b] = r /\ \A d \in Process : d # b => seat'[d] = seat[d]
      BY <2>2, <2>3 DEF AlertInv, AlertType
    <2> QED
      BY <2>1, <2>2, <2>4 DEF AlertInv, SeatInv, Alerts!Empty, Alerts!Blank
  <1>7. ASSUME NEW b \in Process, NEW c \in Channel, Alerts!Disconnect(b, c)
        PROVE  seat' \in [Process -> Seats] /\ SeatInv'
    BY <1>7, <1>p, DisconnectPuts
  <1>8. ASSUME Alerts!Restart
        PROVE  seat' \in [Process -> Seats] /\ SeatInv'
    BY <1>8, <1>e DEF Alerts!Restart, SeatInv, Alerts!Empty, Alerts!Blank
  <1> QED
    BY <1>1, <1>2, <1>3, <1>4, <1>5, <1>6, <1>7, <1>8 DEF Alerts!Next

\* A step writes at most one user's store, and what it writes is the user's.
Kept(x, u, c, r) ==
    x # None => /\ x.connected <=> x.status = "ACTIVE"
                /\ x.connected => x.of = u
                /\ x.of \in {u, None}
                /\ (x.connected /\ u \in HasWorker) => c \in r[u]

LEMMA StoreStep ==
  ASSUME AlertInv, Alerts!Next
  PROVE  /\ store' \in [Recipient -> [Channel -> {None} \cup Stores]]
         /\ row' \in [Recipient -> SUBSET Channel]
         /\ StoreInv'
  <1> DEFINE Goal == /\ store' \in [Recipient -> [Channel -> {None} \cup Stores]]
                     /\ row' \in [Recipient -> SUBSET Channel]
                     /\ \A v \in Recipient, d \in Channel : Kept(store'[v][d], v, d, row')
  <1>t. /\ store \in [Recipient -> [Channel -> {None} \cup Stores]]
        /\ row \in [Recipient -> SUBSET Channel]
        /\ \A v \in Recipient, d \in Channel : Kept(store[v][d], v, d, row)
    BY DEF AlertInv, AlertType, StoreInv, Kept
  <1>n. \A v \in Recipient, d \in Channel : Kept(None, v, d, row)
    BY DEF Kept
  <1>o. ASSUME UNCHANGED <<store, row>> PROVE Goal
    BY <1>o, <1>t
  <1>w. ASSUME NEW u \in Recipient, NEW c \in Channel, NEW x \in {None} \cup Stores,
               store' = [store EXCEPT ![u][c] = x], row' \in [Recipient -> SUBSET Channel],
               \A v \in Recipient \ {u} : row'[v] = row[v],
               \A d \in Channel \ {c} : d \in row[u] => d \in row'[u],
               Kept(x, u, c, row')
        PROVE  Goal
    <2>1. /\ store' \in [Recipient -> [Channel -> {None} \cup Stores]]
          /\ store'[u][c] = x
          /\ \A v \in Recipient, d \in Channel : (v # u \/ d # c) => store'[v][d] = store[v][d]
      BY <1>w, <1>t
    <2>2. \A v \in Recipient, d \in Channel : Kept(store'[v][d], v, d, row')
      <3> TAKE v \in Recipient, d \in Channel
      <3>1. CASE v = u /\ d = c
        BY <3>1, <2>1, <1>w
      <3>2. CASE v # u
        BY <3>2, <2>1, <1>w, <1>t DEF Kept
      <3>3. CASE v = u /\ d # c
        BY <3>3, <2>1, <1>w, <1>t DEF Kept
      <3> QED
        BY <3>1, <3>2, <3>3
    <2> QED
      BY <2>1, <2>2, <1>w
  <1> HIDE DEF Goal
  <1>1. ASSUME NEW b \in Process, NEW u \in Recipient, Alerts!SignIn(b, u) PROVE Goal
    BY <1>1, <1>o DEF Alerts!SignIn
  <1>2. ASSUME NEW b \in Process, Alerts!SignOut(b) PROVE Goal
    <2> DEFINE u == seat[b].user
               off == [c \in Channel |-> None]
    <2>1. u \in Recipient
      BY <1>2 DEF Alerts!SignOut, AlertInv, AlertType, Seats
    <2>2. store' = [store EXCEPT ![u] = off] /\ row' = row
      BY <1>2 DEF Alerts!SignOut
    <2>3. off \in [Channel -> {None} \cup Stores]
      OBVIOUS
    <2>4. /\ store' \in [Recipient -> [Channel -> {None} \cup Stores]]
          /\ store'[u] = off
          /\ \A v \in Recipient : v # u => store'[v] = store[v]
      BY <1>t, <2>1, <2>2, <2>3
    <2>5. \A v \in Recipient, d \in Channel : store'[v][d] = None \/ store'[v][d] = store[v][d]
      BY <2>4
    <2> QED
      BY <2>2, <2>4, <2>5, <1>n, <1>t DEF Goal
  <1>3. ASSUME NEW b \in Process, Alerts!Delivered(b) PROVE Goal
    <2> DEFINE u == seat[b].user
               c == seat[b].testing
               x == Alerts!Connection(u)
    <2>1. u \in Recipient /\ c \in Channel
      BY <1>3, Testing DEF Alerts!Delivered
    <2>2. x \in Stores /\ store' = [store EXCEPT ![u][c] = x]
      BY <1>3, <2>1 DEF Alerts!Delivered, Alerts!Connection, Stores
    <2>3. row' = IF u \in HasWorker THEN [row EXCEPT ![u] = row[u] \cup {c}] ELSE row
      BY <1>3 DEF Alerts!Delivered
    <2>4. /\ row' \in [Recipient -> SUBSET Channel]
          /\ \A v \in Recipient \ {u} : row'[v] = row[v]
          /\ \A d \in Channel \ {c} : d \in row[u] => d \in row'[u]
          /\ u \in HasWorker => c \in row'[u]
      BY <2>1, <2>3, <1>t
    <2>5. Kept(x, u, c, row')
      BY <2>4 DEF Kept, Alerts!Connection
    <2> HIDE DEF u, c, x
    <2> QED
      BY <2>1, <2>2, <2>4, <2>5, <1>w
  <1>4. ASSUME NEW b \in Process, Alerts!Fail(b) PROVE Goal
    <2> DEFINE u == seat[b].user
               c == seat[b].testing
               old == store[u][c]
               x == IF old = None THEN [connected |-> FALSE, status |-> "FAILED", of |-> None]
                    ELSE [old EXCEPT !.status = "FAILED", !.connected = FALSE]
    <2>1. u \in Recipient /\ c \in Channel
      BY <1>4, Testing DEF Alerts!Fail
    <2>2. store' = [store EXCEPT ![u][c] = x] /\ row' = row
      BY <1>4 DEF Alerts!Fail, Alerts!Stored
    <2>3. old # None => old \in Stores /\ old.of \in {u, None}
      BY <2>1, <1>t DEF Kept
    <2>4. x \in Stores /\ x.connected = FALSE /\ x.status = "FAILED" /\ x.of \in {u, None}
      BY <2>3 DEF Stores
    <2>5. Kept(x, u, c, row')
      BY <2>4 DEF Kept
    <2> HIDE DEF u, c, x, old
    <2> QED
      BY <2>1, <2>2, <2>4, <2>5, <1>w, <1>t
  <1>5. ASSUME NEW b \in Process, NEW c \in Channel, Alerts!Render(b, c) PROVE Goal
    BY <1>5, <1>o DEF Alerts!Render
  <1>6. ASSUME NEW b \in Process, NEW c \in Channel, Alerts!Submit(b, c) PROVE Goal
    BY <1>6, <1>o DEF Alerts!Submit
  <1>7. ASSUME NEW b \in Process, NEW c \in Channel, Alerts!Disconnect(b, c) PROVE Goal
    <2> DEFINE u == seat[b].user
    <2>1. u \in Recipient
      BY <1>7 DEF Alerts!Disconnect, AlertInv, AlertType, Seats
    <2>2. store' = [store EXCEPT ![u][c] = None]
          /\ row' = IF u \in HasWorker THEN [row EXCEPT ![u] = row[u] \ {c}] ELSE row
      BY <1>7 DEF Alerts!Disconnect
    <2>3. /\ row' \in [Recipient -> SUBSET Channel]
          /\ \A v \in Recipient \ {u} : row'[v] = row[v]
          /\ \A d \in Channel \ {c} : d \in row[u] => d \in row'[u]
      BY <2>1, <2>2, <1>t
    <2>4. Kept(None, u, c, row')
      BY DEF Kept
    <2> HIDE DEF u
    <2> QED
      BY <2>1, <2>2, <2>3, <2>4, <1>w
  <1>8. ASSUME Alerts!Restart PROVE Goal
    BY <1>8, <1>t DEF Alerts!Restart, Goal, Kept
  <1>9. Goal
    BY <1>1, <1>2, <1>3, <1>4, <1>5, <1>6, <1>7, <1>8 DEF Alerts!Next
  <1> QED
    BY <1>9 DEF Goal, StoreInv, Kept

LEMMA AlertInvariant == AppSpec => []AlertInv
  <1>1. AppInit => AlertInv
    BY AlertInit DEF AppInit
  <1>2. AlertInv /\ [AppNext]_appVars => AlertInv'
    <2> SUFFICES ASSUME AlertInv, [AppNext]_appVars PROVE AlertInv'
      OBVIOUS
    <2>1. CASE Alerts!Next
      BY <2>1, SeatStep, StoreStep DEF AlertInv, AlertType
    <2>2. CASE UNCHANGED alertVars
      BY <2>2 DEF alertVars, AlertInv, AlertType, StoreInv, SeatInv, Alerts!Empty, Alerts!Blank
    <2> QED
      BY <2>1, <2>2, AppStep
  <1> QED
    BY <1>1, <1>2, PTL DEF AppSpec

\* A page shows no destination but its user's, and no channel as active whose credentials
\* are gone, whatever other sessions of the same users test, disconnect or sign out, and
\* the alert row of a connected channel is enabled (get_telegram_connection,
\* get_whatsapp_connection, save_telegram_connection, purge_alert_session).
THEOREM AlertsAreTheUsers == AppSpec => []AlertsHold
  <1>1. AlertInv => AlertsHold
    <2> SUFFICES ASSUME AlertInv PROVE Alerts!OwnDestination /\ Alerts!ActiveIsConnected
      BY DEF AlertsHold
    <2>1. ASSUME NEW u \in Recipient, NEW c \in Channel, Alerts!Connected(u, c)
          PROVE  Alerts!Stored(u, c) = Alerts!Connection(u) /\ (u \in HasWorker => c \in row[u])
      <3>1. store[u][c] # None /\ store[u][c].connected
        BY <2>1 DEF Alerts!Connected, Alerts!Stored
      <3>2. store[u][c] \in Stores
        BY <3>1 DEF AlertInv, AlertType
      <3>3. store[u][c].status = "ACTIVE" /\ store[u][c].of = u /\ store[u][c].connected = TRUE
            /\ (u \in HasWorker => c \in row[u])
        BY <3>1, <3>2 DEF AlertInv, StoreInv, Stores
      <3> QED
        BY <3>2, <3>3 DEF Stores, Alerts!Stored, Alerts!Connection
    <2>2. ASSUME NEW b \in Process, NEW c \in Channel, seat[b].user # None
          PROVE  /\ Alerts!Shown(b, c).of \in {seat[b].user, None}
                 /\ Alerts!Shown(b, c).status = "ACTIVE" => Alerts!Connected(seat[b].user, c)
      <3> DEFINE u == seat[b].user
      <3>1. u \in Recipient /\ seat[b].about \in {None, u}
            /\ seat[b].flags[c].of \in {None, seat[b].about}
        BY <2>2 DEF AlertInv, AlertType, SeatInv, Seats
      <3>2. CASE store[u][c] # None
        BY <3>1, <3>2 DEF AlertInv, StoreInv, Alerts!Shown, Alerts!Stored, Alerts!Connected
      <3>3. CASE store[u][c] = None
        BY <3>1, <3>3 DEF Alerts!Shown, Alerts!Stored, Alerts!Blank
      <3> QED
        BY <3>2, <3>3
    <2>3. HasWorker \subseteq Recipient
      BY AppAssumption
    <2> QED
      BY <2>1, <2>2, <2>3 DEF Alerts!OwnDestination, Alerts!ActiveIsConnected
  <1> QED
    BY <1>1, AlertInvariant, PTL

-----------------------------------------------------------------------------
(* The session vault. *)

\* A payload whose active account and alert configurations are of saved accounts.
GoodVault ==
    {q \in Vault!Payload : /\ q.active \in Vault!Saved(q) /\ q.alerts \subseteq Vault!Saved(q)
                           /\ q.fresh \cap q.old = {}}
CallSteps == {"read", "truncate", "writing", "purge", "purging",
              "shred", "shred_unread", "remove", "remove_unread"}
Calls == [op : Vault!Operation, email : Email, payload : {None} \cup GoodVault,
          seen : {None, Torn} \cup GoodVault, next : CallSteps]

\* What a call has in hand at each of its steps.
CallOK(c) ==
    /\ c.op = "clear" => c.next \in {"shred", "remove"} /\ c.payload = None
    /\ c.next \in {"truncate", "writing", "purge", "purging"} => c.payload # None
    /\ c.next \in {"read", "shred_unread", "remove_unread"} => c.payload = None
    /\ c.next \in {"shred", "remove"} => c.op \in {"forget", "clear"}

VaultType ==
    /\ file \in {None, Torn} \cup GoodVault
    /\ due \subseteq Email
    /\ raced \in BOOLEAN
    /\ use \in [Process -> {None} \cup Calls]
    /\ \A t \in Process : use[t] # None => CallOK(use[t])

FreshOf(s) == IF s \in {None, Torn} THEN {} ELSE s.fresh

\* What finishing the call makes of the accounts d.
Result(c, d) ==
    CASE c.op = "save" -> d \cup ({c.email} \cap c.payload.fresh)
      [] c.op = "forget" -> d \ {c.email}
      [] OTHER -> d

\* The call holds the file that is being written or shredded.
HoldsFile(c) ==
    /\ c # None /\ c.next \in {"writing", "purging", "remove", "remove_unread"}
    /\ c.seen = Torn

\* Before it touches the file, what a call is about to do fits the file it has seen.
Ready(c) ==
    /\ c.next = "truncate" => c.seen # Torn /\ c.payload.fresh = Result(c, FreshOf(c.seen))
    /\ c.next = "purge" => c.seen # Torn /\ c.payload.fresh = FreshOf(c.seen)
    /\ (c.next = "shred" /\ c.op # "clear") => c.seen # Torn /\ FreshOf(c.seen) \subseteq {c.email}
    /\ c.next = "shred_unread" => c.seen # Torn /\ FreshOf(c.seen) = {}
    /\ c.next \in {"writing", "purging"} => c.seen = Torn
    /\ c.next \in {"remove", "remove_unread"} => c.seen \in {None, Torn}

\* While it holds the file, the call owes the accounts d their due.
Owes(c, d) ==
    /\ c.next = "writing" => c.payload.fresh = Result(c, d)
    /\ c.next = "purging" => c.payload.fresh = d
    /\ (c.next = "remove" /\ c.op # "clear") => d \subseteq {c.email}
    /\ c.next = "remove_unread" => d = {}

Settled(f, d) == f # Torn => FreshOf(f) = d

KeepInv ==
    ~raced =>
        /\ Settled(file, due)
        /\ \A t \in Process : use[t] # None => Ready(use[t])
        /\ \A t \in Process : HoldsFile(use[t]) => file = Torn /\ Owes(use[t], due)
        /\ \A s, t \in Process : HoldsFile(use[s]) /\ HoldsFile(use[t]) => s = t

VaultInv == VaultType /\ KeepInv

LEMMA NotGood == None \notin GoodVault /\ Torn \notin GoodVault /\ None # Torn
  BY AppAssumption DEF GoodVault

LEMMA GoodFields ==
  ASSUME NEW q \in GoodVault
  PROVE  /\ q.fresh \subseteq Email /\ q.old \subseteq Email /\ q.alerts \subseteq Email
         /\ q.active \in q.fresh \cup q.old /\ q.alerts \subseteq q.fresh \cup q.old
         /\ q.fresh \cap q.old = {} /\ q.active \in Email
         /\ FreshOf(q) = q.fresh
  BY NotGood DEF GoodVault, Vault!Payload, Vault!Saved, FreshOf

LEMMA GoodIs ==
  ASSUME NEW q \in Vault!Payload, q.active \in q.fresh \cup q.old,
         q.alerts \subseteq q.fresh \cup q.old, q.fresh \cap q.old = {}
  PROVE  q \in GoodVault
  BY DEF GoodVault, Vault!Saved

LEMMA AddedGood ==
  ASSUME NEW q \in {None} \cup GoodVault, NEW e \in Email
  PROVE  /\ Vault!Added(q, e) \in GoodVault
         /\ Vault!Added(q, e).fresh = FreshOf(q) \cup {e}
  <1>1. CASE q = None
    <2> DEFINE r == [fresh |-> {e}, old |-> {}, active |-> e, alerts |-> {}]
    <2>1. Vault!Added(q, e) = r
      BY <1>1 DEF Vault!Added
    <2>2. r \in Vault!Payload
      BY DEF Vault!Payload
    <2>3. r \in GoodVault
      BY <2>2, GoodIs
    <2> QED
      BY <1>1, <2>1, <2>3 DEF FreshOf
  <1>2. CASE q # None
    <2> DEFINE r == [fresh |-> q.fresh \cup {e}, old |-> q.old \ {e}, active |-> e,
                     alerts |-> q.alerts \ {e}]
    <2>1. Vault!Added(q, e) = r
      BY <1>2 DEF Vault!Added
    <2>2. q \in GoodVault
      BY <1>2
    <2>3. r \in Vault!Payload
      BY <2>2, GoodFields DEF Vault!Payload
    <2>4. /\ r.active \in r.fresh \cup r.old /\ r.alerts \subseteq r.fresh \cup r.old
          /\ r.fresh \cap r.old = {} /\ r.fresh = FreshOf(q) \cup {e}
      BY <2>2, GoodFields
    <2> HIDE DEF r
    <2> QED
      BY <2>1, <2>3, <2>4, GoodIs
  <1> QED
    BY <1>1, <1>2

LEMMA DroppedGood ==
  ASSUME NEW q \in GoodVault, NEW e \in Email, NEW r \in Vault!Dropped(q, e)
  PROVE  r \in GoodVault /\ r.fresh = FreshOf(q) \ {e}
  <1> DEFINE rest == [q EXCEPT !.fresh = q.fresh \ {e}, !.old = q.old \ {e},
                               !.alerts = q.alerts \ {e}]
  <1>1. q \in Vault!Payload
    BY DEF GoodVault
  <1>2. /\ rest \in Vault!Payload
        /\ rest.fresh = q.fresh \ {e} /\ rest.old = q.old \ {e}
        /\ rest.alerts = q.alerts \ {e} /\ rest.active = q.active
    BY <1>1 DEF Vault!Payload
  <1>3. r \in IF q.active = e THEN {[rest EXCEPT !.active = a] : a \in Vault!Saved(rest)}
              ELSE {rest}
    BY DEF Vault!Dropped
  <1> HIDE DEF rest
  <1>4. CASE q.active # e
    <2>1. r = rest
      BY <1>3, <1>4
    <2> QED
      BY <2>1, <1>2, <1>4, GoodFields, GoodIs
  <1>5. CASE q.active = e
    <2>1. PICK a \in Vault!Saved(rest) : r = [rest EXCEPT !.active = a]
      BY <1>3, <1>5
    <2>2. a \in rest.fresh \cup rest.old /\ a \in Email
      BY <1>2, GoodFields DEF Vault!Saved
    <2>3. /\ r \in Vault!Payload /\ r.active = a
          /\ r.fresh = rest.fresh /\ r.old = rest.old /\ r.alerts = rest.alerts
      BY <2>1, <2>2, <1>2 DEF Vault!Payload
    <2> QED
      BY <2>2, <2>3, <1>2, GoodFields, GoodIs
  <1> QED
    BY <1>4, <1>5

LEMMA AgedGood ==
  ASSUME NEW q \in GoodVault, NEW e \in Email
  PROVE  /\ Vault!Aged(q, e) \in GoodVault
         /\ Vault!Aged(q, e).fresh = q.fresh \ {e}
  <1>1. q \in Vault!Payload
    BY DEF GoodVault
  <1>2. CASE e \notin q.fresh
    BY <1>2, GoodFields DEF Vault!Aged
  <1>3. CASE e \in q.fresh
    <2> DEFINE r == [q EXCEPT !.fresh = q.fresh \ {e}, !.old = q.old \cup {e}]
    <2>1. Vault!Aged(q, e) = r
      BY <1>1, <1>3 DEF Vault!Aged
    <2>2. /\ r \in Vault!Payload /\ r.fresh = q.fresh \ {e} /\ r.old = q.old \cup {e}
          /\ r.alerts = q.alerts /\ r.active = q.active
      BY <1>1 DEF Vault!Payload
    <2> HIDE DEF r
    <2> QED
      BY <2>1, <2>2, <1>3, GoodFields, GoodIs
  <1> QED
    BY <1>2, <1>3

LEMMA PurgedGood ==
  ASSUME NEW q \in GoodVault, q.fresh # {}, NEW r \in Vault!Purged(q)
  PROVE  r \in GoodVault /\ r.fresh = q.fresh
  <1>1. q \in Vault!Payload
    BY DEF GoodVault
  <1>2. PICK a \in IF q.active \in q.fresh THEN {q.active} ELSE q.fresh :
          r = [q EXCEPT !.old = {}, !.alerts = q.alerts \cap q.fresh, !.active = a]
    BY DEF Vault!Purged
  <1>3. a \in q.fresh /\ a \in Email
    BY GoodFields
  <1>4. /\ r \in Vault!Payload /\ r.fresh = q.fresh /\ r.old = {}
        /\ r.alerts = q.alerts \cap q.fresh /\ r.active = a
    BY <1>1, <1>2, <1>3 DEF Vault!Payload
  <1> QED
    BY <1>3, <1>4, GoodIs

\* What a call writes back keeps the accounts it read, with its own added or dropped.
LEMMA WrittenGood ==
  ASSUME NEW c \in Calls, c.op # "clear", NEW q \in Vault!Written(c)
  PROVE  q \in GoodVault /\ q.fresh = Result([c EXCEPT !.payload = q], FreshOf(c.payload))
  <1> DEFINE p == c.payload
             d == [c EXCEPT !.payload = q]
  <1>1. /\ p \in {None} \cup GoodVault /\ c.email \in Email /\ c.op \in Vault!Operation
        /\ d.op = c.op /\ d.email = c.email /\ d.payload = q
    BY DEF Calls
  <1>2. CASE c.op = "save"
    <2>1. q = Vault!Added(p, c.email)
      BY <1>2 DEF Vault!Written
    <2>2. q \in GoodVault /\ q.fresh = FreshOf(p) \cup {c.email}
      BY <1>1, <2>1, AddedGood
    <2>3. Result(d, FreshOf(p)) = FreshOf(p) \cup ({c.email} \cap q.fresh)
      BY <1>1, <1>2 DEF Result
    <2> QED
      BY <2>2, <2>3
  <1>3. c.op # "save" => p # None /\ c.op # "read" /\ p \in GoodVault
    BY <1>1 DEF Vault!Written
  <1>4. CASE c.op = "forget"
    <2>1. q \in Vault!Dropped(p, c.email)
      BY <1>4, <1>3 DEF Vault!Written
    <2>2. q \in GoodVault /\ q.fresh = FreshOf(p) \ {c.email}
      BY <1>1, <1>3, <1>4, <2>1, DroppedGood
    <2> QED
      BY <1>1, <1>4, <2>2 DEF Result
  <1>5. CASE c.op = "switch"
    <2>1. c.email \in Vault!Saved(p) /\ q = [p EXCEPT !.active = c.email]
      BY <1>3, <1>5 DEF Vault!Written
    <2>2. p \in Vault!Payload
      BY <1>3, <1>5 DEF GoodVault
    <2>3. /\ q \in Vault!Payload /\ q.fresh = p.fresh /\ q.old = p.old /\ q.alerts = p.alerts
          /\ q.active = c.email
      BY <1>1, <2>1, <2>2 DEF Vault!Payload
    <2>4. q \in GoodVault
      BY <1>3, <1>5, <2>1, <2>3, GoodFields, GoodIs DEF Vault!Saved
    <2>5. q.fresh = FreshOf(p)
      BY <1>3, <1>5, <2>3, GoodFields
    <2> QED
      BY <1>1, <1>5, <2>4, <2>5 DEF Result
  <1>6. CASE c.op = "alerts"
    <2>1. c.email \in Vault!Saved(p) /\ q = [p EXCEPT !.alerts = p.alerts \cup {c.email}]
      BY <1>3, <1>6 DEF Vault!Written
    <2>2. p \in Vault!Payload
      BY <1>3, <1>6 DEF GoodVault
    <2>3. /\ q \in Vault!Payload /\ q.fresh = p.fresh /\ q.old = p.old /\ q.active = p.active
          /\ q.alerts = p.alerts \cup {c.email}
      BY <1>1, <2>1, <2>2 DEF Vault!Payload
    <2>4. q \in GoodVault
      <3>1. /\ p.active \in p.fresh \cup p.old /\ p.alerts \subseteq p.fresh \cup p.old
            /\ p.fresh \cap p.old = {} /\ c.email \in p.fresh \cup p.old
        BY <1>3, <1>6, <2>1, GoodFields DEF Vault!Saved
      <3> HIDE DEF p
      <3> QED
        BY <2>3, <3>1, GoodIs
    <2>5. q.fresh = FreshOf(p)
      BY <1>3, <1>6, <2>3, GoodFields
    <2> QED
      BY <1>1, <1>6, <2>4, <2>5 DEF Result
  <1> QED
    BY <1>1, <1>2, <1>3, <1>4, <1>5, <1>6 DEF Vault!Operation

\* With its payload read, a call turns to a write or a shredding that fits, or returns.
LEMMA Proceeds ==
  ASSUME NEW t \in Process, NEW c \in Calls, c.op # "clear", Vault!Proceed(t, c)
  PROVE  \E d \in {None} \cup Calls :
           /\ use' = [use EXCEPT ![t] = d]
           /\ d # None =>
                /\ CallOK(d) /\ d.next \in {"shred", "truncate"}
                /\ (c.seen # Torn /\ FreshOf(c.seen) = FreshOf(c.payload)) => Ready(d)
  <1>1. CASE Vault!Shreds(c)
    <2> DEFINE d == [c EXCEPT !.next = "shred"]
    <2>1. use' = [use EXCEPT ![t] = d]
      BY <1>1 DEF Vault!Proceed
    <2>2. /\ d \in Calls /\ d.next = "shred" /\ d.op = c.op /\ d.email = c.email
          /\ d.payload = c.payload /\ d.seen = c.seen
      BY DEF Calls, CallSteps
    <2>3. c.op = "forget" /\ c.payload \in GoodVault /\ c.payload.fresh \subseteq {c.email}
      BY <1>1 DEF Vault!Shreds, Calls, Vault!Saved
    <2>4. FreshOf(c.payload) \subseteq {c.email}
      BY <2>3, GoodFields
    <2> HIDE DEF d
    <2>5. CallOK(d)
      BY <2>2, <2>3 DEF CallOK
    <2>6. (c.seen # Torn /\ FreshOf(c.seen) = FreshOf(c.payload)) => Ready(d)
      BY <2>2, <2>4 DEF Ready
    <2> QED
      BY <2>1, <2>2, <2>5, <2>6
  <1>2. CASE ~Vault!Shreds(c) /\ use' = [use EXCEPT ![t] = None]
    BY <1>2
  <1>3. ASSUME NEW q \in Vault!Written(c),
               use' = [use EXCEPT ![t] = [c EXCEPT !.payload = q, !.next = "truncate"]]
        PROVE  \E d \in {None} \cup Calls :
                 /\ use' = [use EXCEPT ![t] = d]
                 /\ d # None =>
                      /\ CallOK(d) /\ d.next \in {"shred", "truncate"}
                      /\ (c.seen # Torn /\ FreshOf(c.seen) = FreshOf(c.payload)) => Ready(d)
    <2> DEFINE d == [c EXCEPT !.payload = q, !.next = "truncate"]
               p == [c EXCEPT !.payload = q]
    <2>1. q \in GoodVault /\ q.fresh = Result(p, FreshOf(c.payload))
      BY WrittenGood
    <2>2. p.op = c.op /\ p.email = c.email /\ p.payload = q
      BY DEF Calls
    <2>3. /\ d \in Calls /\ d.next = "truncate" /\ d.op = c.op /\ d.email = c.email
          /\ d.payload = q /\ d.seen = c.seen
      BY <2>1 DEF Calls, CallSteps
    <2> HIDE DEF d, p
    <2>4. Result(d, FreshOf(c.payload)) = Result(p, FreshOf(c.payload))
      BY <2>2, <2>3 DEF Result
    <2>5. CallOK(d)
      BY <2>1, <2>3, NotGood DEF CallOK
    <2>6. (c.seen # Torn /\ FreshOf(c.seen) = FreshOf(c.payload)) => Ready(d)
      BY <2>1, <2>3, <2>4 DEF Ready
    <2>7. use' = [use EXCEPT ![t] = d]
      BY <1>3 DEF d
    <2> QED
      BY <2>3, <2>5, <2>6, <2>7
  <1> QED
    BY <1>1, <1>2, <1>3 DEF Vault!Proceed

\* A step of one call: what it must leave behind for the invariant.
LEMMA VaultMove ==
  ASSUME VaultInv, NEW t \in Process, NEW d \in {None} \cup Calls,
         use' = [use EXCEPT ![t] = d], d # None => CallOK(d),
         file' \in {None, Torn} \cup GoodVault, due' \subseteq Email,
         raced' \in BOOLEAN, raced => raced',
         ~raced' =>
             /\ Settled(file', due')
             /\ d # None => Ready(d)
             /\ HoldsFile(d) => file' = Torn /\ Owes(d, due')
             /\ \A s \in Process \ {t} :
                    HoldsFile(use[s]) => ~HoldsFile(d) /\ file' = Torn /\ due' = due
  PROVE  VaultInv'
  <1>1. use' \in [Process -> {None} \cup Calls] /\ use'[t] = d
        /\ \A s \in Process \ {t} : use'[s] = use[s]
    BY DEF VaultInv, VaultType
  <1>2. VaultType'
    BY <1>1 DEF VaultInv, VaultType, CallOK
  <1>3. KeepInv'
    <2> SUFFICES ASSUME ~raced'
                 PROVE  /\ Settled(file', due')
                        /\ \A s \in Process : use'[s] # None => Ready(use'[s])
                        /\ \A s \in Process : HoldsFile(use'[s]) => file' = Torn /\ Owes(use'[s], due')
                        /\ \A r, s \in Process : HoldsFile(use'[r]) /\ HoldsFile(use'[s]) => r = s
      BY DEF KeepInv, Settled, Ready, HoldsFile, Owes, Result, FreshOf
    <2>1. ~raced
      OBVIOUS
    <2>2. \A s \in Process : use'[s] # None => Ready(use'[s])
      BY <1>1, <2>1 DEF VaultInv, KeepInv
    <2>3. \A s \in Process : HoldsFile(use'[s]) => file' = Torn /\ Owes(use'[s], due')
      BY <1>1, <2>1 DEF VaultInv, KeepInv
    <2>4. \A r, s \in Process : HoldsFile(use'[r]) /\ HoldsFile(use'[s]) => r = s
      BY <1>1, <2>1 DEF VaultInv, KeepInv
    <2> QED
      BY <2>2, <2>3, <2>4
  <1> QED
    BY <1>2, <1>3 DEF VaultInv

\* A call in progress, typed.
LEMMA CallTyped ==
  ASSUME VaultInv, NEW t \in Process, use[t] # None
  PROVE  /\ use[t] \in Calls /\ CallOK(use[t])
         /\ use[t].op \in Vault!Operation /\ use[t].email \in Email /\ use[t].next \in CallSteps
         /\ use[t].payload \in {None} \cup GoodVault
         /\ use[t].seen \in {None, Torn} \cup GoodVault
  <1>1. use[t] \in Calls /\ CallOK(use[t])
    BY DEF VaultInv, VaultType
  <1> QED
    BY <1>1 DEF Calls

LEMMA BeginStep ==
  ASSUME VaultInv, NEW t \in Process, NEW op \in Vault!Operation, NEW e \in Email,
         Vault!Begin(t, op, e)
  PROVE  VaultInv'
  <1> DEFINE d == [op |-> op, email |-> e, payload |-> None, seen |-> file,
                   next |-> IF op = "clear" THEN "shred" ELSE "read"]
  <1>1. use' = [use EXCEPT ![t] = d] /\ UNCHANGED <<file, due, raced>>
    BY DEF Vault!Begin
  <1>2. d \in Calls
    BY DEF VaultInv, VaultType, Calls, CallSteps
  <1>3. CallOK(d) /\ Ready(d) /\ ~HoldsFile(d)
    BY DEF CallOK, Ready, HoldsFile
  <1> HIDE DEF d
  <1> QED
    BY <1>1, <1>2, <1>3, VaultMove DEF VaultInv, VaultType, KeepInv

\* The rest of a call, once it has read what is in the file.
LEMMA ProceedStep ==
  ASSUME VaultInv, NEW t \in Process, NEW c \in Calls, c.op # "clear", Vault!Proceed(t, c),
         file' \in {None, Torn} \cup GoodVault, due' = due, raced' \in BOOLEAN, raced => raced',
         c.seen # Torn, FreshOf(c.seen) = FreshOf(c.payload),
         ~raced' => /\ Settled(file', due)
                    /\ \A s \in Process \ {t} : HoldsFile(use[s]) => file' = Torn
  PROVE  VaultInv'
  <1>1. PICK d \in {None} \cup Calls :
           /\ use' = [use EXCEPT ![t] = d]
           /\ d # None => CallOK(d) /\ d.next \in {"shred", "truncate"} /\ Ready(d)
    BY Proceeds
  <1>2. ~HoldsFile(d)
    BY <1>1 DEF HoldsFile
  <1>3. due' \subseteq Email
    BY DEF VaultInv, VaultType
  <1> QED
    BY <1>1, <1>2, <1>3, VaultMove

LEMMA ReadNothingStep ==
  ASSUME VaultInv, NEW t \in Process, Vault!ReadNothing(t)
  PROVE  VaultInv'
  <1> DEFINE c == [use[t] EXCEPT !.seen = file]
  <1>1. /\ use[t] # None /\ use[t].next = "read" /\ file = None
        /\ Vault!Proceed(t, c) /\ UNCHANGED <<file, due, raced>>
    BY DEF Vault!ReadNothing, Vault!Does
  <1>2. use[t] \in Calls /\ use[t].payload = None /\ use[t].op # "clear"
    BY <1>1, CallTyped DEF CallOK
  <1>3. c \in Calls /\ c.seen = None /\ c.payload = None /\ c.op # "clear"
    BY <1>1, <1>2 DEF Calls
  <1> HIDE DEF c
  <1>4. c.seen # Torn /\ FreshOf(c.seen) = FreshOf(c.payload)
    BY <1>3, NotGood
  <1> QED
    BY <1>1, <1>3, <1>4, ProceedStep DEF VaultInv, VaultType, KeepInv

LEMMA ReadTornStep ==
  ASSUME VaultInv, NEW t \in Process, Vault!ReadTorn(t)
  PROVE  VaultInv'
  <1> DEFINE d == [use[t] EXCEPT !.next = "shred_unread"]
  <1>1. /\ use[t] # None /\ use[t].next = "read"
        /\ use' = [use EXCEPT ![t] = d] /\ raced' = TRUE /\ UNCHANGED <<file, due>>
    BY DEF Vault!ReadTorn, Vault!Does
  <1>2. use[t] \in Calls /\ use[t].payload = None /\ use[t].op # "clear"
    BY <1>1, CallTyped DEF CallOK
  <1>3. d \in Calls /\ d.next = "shred_unread" /\ d.payload = None /\ d.op # "clear"
    BY <1>2 DEF Calls, CallSteps
  <1> HIDE DEF d
  <1>4. CallOK(d)
    BY <1>3 DEF CallOK
  <1> QED
    BY <1>1, <1>3, <1>4, VaultMove DEF VaultInv, VaultType

LEMMA ReadWholeStep ==
  ASSUME VaultInv, NEW t \in Process, Vault!ReadWhole(t)
  PROVE  VaultInv'
  <1>1. use[t] # None /\ use[t].next = "read" /\ file \in GoodVault /\ UNCHANGED <<file, due, raced>>
    BY DEF Vault!ReadWhole, Vault!Does, Vault!Whole, VaultInv, VaultType
  <1>2. use[t] \in Calls /\ use[t].payload = None /\ use[t].op # "clear"
    BY <1>1, CallTyped DEF CallOK
  <1>3. file # Torn /\ file # None /\ FreshOf(file) = file.fresh
    BY <1>1, NotGood, GoodFields
  <1>4. ~raced' => Settled(file', due') /\ \A s \in Process : HoldsFile(use[s]) => file' = Torn
    BY <1>1 DEF VaultInv, KeepInv
  <1>5. ASSUME file.fresh = {}, use' = [use EXCEPT ![t].next = "shred_unread", ![t].seen = file]
        PROVE  VaultInv'
    <2> DEFINE d == [use[t] EXCEPT !.next = "shred_unread", !.seen = file]
    <2>1. use' = [use EXCEPT ![t] = d]
      BY <1>5, <1>2 DEF VaultInv, VaultType
    <2>2. /\ d \in Calls /\ d.next = "shred_unread" /\ d.seen = file /\ d.payload = None
          /\ d.op # "clear"
      BY <1>1, <1>2 DEF Calls, CallSteps
    <2> HIDE DEF d
    <2>3. CallOK(d) /\ Ready(d) /\ ~HoldsFile(d)
      BY <2>2, <1>3, <1>5 DEF CallOK, Ready, HoldsFile
    <2> QED
      BY <2>1, <2>2, <2>3, <1>1, <1>3, <1>4, VaultMove DEF VaultInv, VaultType
  <1>6. ASSUME file.fresh # {}, NEW q \in Vault!Purged(file),
               LET c == [use[t] EXCEPT !.payload = q, !.seen = file]
               IN  IF q # file THEN use' = [use EXCEPT ![t] = [c EXCEPT !.next = "purge"]]
                               ELSE Vault!Proceed(t, c)
        PROVE  VaultInv'
    <2> DEFINE c == [use[t] EXCEPT !.payload = q, !.seen = file]
               d == [c EXCEPT !.next = "purge"]
    <2>1. q \in GoodVault /\ q.fresh = file.fresh /\ FreshOf(q) = q.fresh
      BY <1>1, <1>6, PurgedGood, GoodFields
    <2>2. /\ c \in Calls /\ c.payload = q /\ c.seen = file /\ c.op = use[t].op
          /\ c.email = use[t].email
      BY <1>1, <1>2, <2>1 DEF Calls
    <2>3. IF q # file THEN use' = [use EXCEPT ![t] = d] ELSE Vault!Proceed(t, c)
      BY <1>6
    <2> HIDE DEF c
    <2>4. CASE q = file
      BY <1>1, <1>2, <1>3, <1>4, <2>1, <2>2, <2>3, <2>4, ProceedStep DEF VaultInv, VaultType
    <2>5. CASE q # file
      <3>1. /\ d \in Calls /\ d.next = "purge" /\ d.op # "clear" /\ d.payload = q /\ d.seen = file
        BY <1>2, <2>2 DEF Calls, CallSteps
      <3>2. use' = [use EXCEPT ![t] = d]
        BY <2>3, <2>5
      <3> HIDE DEF d
      <3>3. CallOK(d) /\ Ready(d) /\ ~HoldsFile(d)
        BY <3>1, <2>1, <1>3, NotGood DEF CallOK, Ready, HoldsFile
      <3> QED
        BY <3>1, <3>2, <3>3, <1>1, <1>3, <1>4, VaultMove DEF VaultInv, VaultType
    <2> QED
      BY <2>4, <2>5
  <1>7. IF file.fresh = {}
        THEN use' = [use EXCEPT ![t].next = "shred_unread", ![t].seen = file]
        ELSE \E q \in Vault!Purged(file) :
               LET c == [use[t] EXCEPT !.payload = q, !.seen = file]
               IN  IF q # file THEN use' = [use EXCEPT ![t] = [c EXCEPT !.next = "purge"]]
                               ELSE Vault!Proceed(t, c)
    BY DEF Vault!ReadWhole
  <1> QED
    BY <1>5, <1>6, <1>7

LEMMA TruncateStep ==
  ASSUME VaultInv, NEW t \in Process, Vault!Truncate(t)
  PROVE  VaultInv'
  <1> DEFINE c == use[t]
             n == IF c.next = "purge" THEN "purging" ELSE "writing"
             d == [c EXCEPT !.next = n, !.seen = Torn]
  <1>1. /\ c # None /\ c.next \in {"truncate", "purge"} /\ file' = Torn /\ due' = due
        /\ raced' = (raced \/ file # c.seen)
    BY DEF Vault!Truncate
  <1>2. c \in Calls /\ CallOK(c) /\ c.payload # None
    BY <1>1, CallTyped DEF CallOK
  <1>3. use' = [use EXCEPT ![t] = d]
    BY <1>2 DEF Vault!Truncate, VaultInv, VaultType
  <1>4. /\ d \in Calls /\ d.next = n /\ d.seen = Torn /\ d.op = c.op /\ d.email = c.email
        /\ d.payload = c.payload
    BY <1>2 DEF Calls, CallSteps
  <1> HIDE DEF d
  <1>5. CallOK(d)
    BY <1>1, <1>2, <1>4 DEF CallOK
  <1>6. ASSUME ~raced'
        PROVE  /\ Settled(file', due') /\ Ready(d) /\ Owes(d, due')
               /\ \A s \in Process : ~HoldsFile(use[s])
    <2>1. ~raced /\ file = c.seen /\ Ready(c)
      BY <1>1, <1>6 DEF VaultInv, KeepInv
    <2>2. file # Torn /\ FreshOf(c.seen) = due
      BY <1>1, <2>1 DEF Ready, VaultInv, KeepInv, Settled
    <2>3. \A s \in Process : ~HoldsFile(use[s])
      BY <2>1, <2>2 DEF VaultInv, KeepInv
    <2>4. c.next = "truncate" => d.payload.fresh = Result(d, due)
      BY <1>4, <2>1, <2>2 DEF Ready, Result
    <2>5. c.next = "purge" => d.payload.fresh = due
      BY <1>4, <2>1, <2>2 DEF Ready
    <2>6. Owes(d, due')
      BY <1>1, <1>4, <2>4, <2>5 DEF Owes
    <2>7. Ready(d)
      BY <1>1, <1>4 DEF Ready
    <2> QED
      BY <1>1, <2>3, <2>6, <2>7 DEF Settled
  <1>7. /\ due' \subseteq Email /\ raced' \in BOOLEAN /\ (raced => raced')
        /\ file' \in {None, Torn} \cup GoodVault
    BY <1>1 DEF VaultInv, VaultType
  <1>8. ~raced' =>
             /\ Settled(file', due')
             /\ d # None => Ready(d)
             /\ HoldsFile(d) => file' = Torn /\ Owes(d, due')
             /\ \A s \in Process \ {t} :
                    HoldsFile(use[s]) => ~HoldsFile(d) /\ file' = Torn /\ due' = due
    BY <1>1, <1>6
  <1>9. d \in {None} \cup Calls
    BY <1>4
  <1> HIDE DEF c
  <1> QED
    BY <1>3, <1>5, <1>7, <1>8, <1>9, VaultMove

LEMMA WriteOutStep ==
  ASSUME VaultInv, NEW t \in Process, Vault!WriteOut(t)
  PROVE  VaultInv'
  <1> DEFINE c == use[t]
  <1>1. /\ c # None /\ c.next = "writing" /\ file' = c.payload
        /\ raced' = (raced \/ file # Torn) /\ use' = [use EXCEPT ![t] = None]
        /\ due' = Vault!DueAfter(c)
    BY DEF Vault!WriteOut, Vault!Does
  <1>2. c \in Calls /\ c.payload \in GoodVault /\ c.op # "clear" /\ c.email \in Email
    BY <1>1, CallTyped DEF CallOK
  <1>3. due' = Result(c, due)
    BY <1>1, <1>2 DEF Vault!DueAfter, Result
  <1>4. due' \subseteq Email
    BY <1>2, <1>3 DEF Result, VaultInv, VaultType
  <1>5. ASSUME ~raced'
        PROVE  Settled(file', due') /\ \A s \in Process \ {t} : ~HoldsFile(use[s])
    <2>1. HoldsFile(c) /\ Owes(c, due)
      BY <1>1, <1>5 DEF VaultInv, KeepInv, Ready, HoldsFile
    <2>2. due' = file'.fresh
      BY <1>1, <1>3, <2>1 DEF Owes
    <2>3. Settled(file', due')
      BY <1>1, <1>2, <2>2, GoodFields DEF Settled
    <2> QED
      BY <1>1, <1>5, <2>1, <2>3 DEF VaultInv, KeepInv
  <1>6. ~HoldsFile(None)
    BY DEF HoldsFile
  <1>7. /\ due' \subseteq Email /\ raced' \in BOOLEAN /\ (raced => raced')
        /\ file' \in {None, Torn} \cup GoodVault
    BY <1>1, <1>2, <1>4 DEF VaultInv, VaultType
  <1>8. ~raced' =>
             /\ Settled(file', due')
             /\ HoldsFile(None) => file' = Torn /\ Owes(None, due')
             /\ \A s \in Process \ {t} :
                    HoldsFile(use[s]) => ~HoldsFile(None) /\ file' = Torn /\ due' = due
    BY <1>5, <1>6
  <1>9. use' = [use EXCEPT ![t] = None]
    BY <1>1
  <1> HIDE DEF c
  <1> QED
    BY <1>7, <1>8, <1>9, VaultMove

LEMMA PurgeOutStep ==
  ASSUME VaultInv, NEW t \in Process, Vault!PurgeOut(t)
  PROVE  VaultInv'
  <1> DEFINE c == use[t]
             d == [c EXCEPT !.seen = c.payload]
  <1>1. /\ c # None /\ c.next = "purging" /\ file' = c.payload /\ due' = due
        /\ raced' = (raced \/ file # Torn) /\ Vault!Proceed(t, d)
    BY DEF Vault!PurgeOut, Vault!Does
  <1>2. c \in Calls /\ c.payload \in GoodVault /\ c.op # "clear"
    BY <1>1, CallTyped DEF CallOK
  <1>3. d \in Calls /\ d.payload = c.payload /\ d.seen = c.payload /\ d.op # "clear"
    BY <1>2 DEF Calls
  <1> HIDE DEF d
  <1>4. ASSUME ~raced'
        PROVE  Settled(file', due) /\ \A s \in Process \ {t} : ~HoldsFile(use[s])
    <2>1. HoldsFile(c) /\ Owes(c, due)
      BY <1>1, <1>4 DEF VaultInv, KeepInv, Ready, HoldsFile
    <2>2. Settled(file', due)
      BY <1>1, <1>2, <2>1, GoodFields DEF Settled, Owes
    <2> QED
      BY <1>1, <1>4, <2>1, <2>2 DEF VaultInv, KeepInv
  <1>5. /\ file' \in {None, Torn} \cup GoodVault /\ raced' \in BOOLEAN /\ (raced => raced')
        /\ due' = due
    BY <1>1, <1>2 DEF VaultInv, VaultType
  <1>6. d.seen # Torn /\ FreshOf(d.seen) = FreshOf(d.payload)
    BY <1>2, <1>3, NotGood
  <1>7. d \in Calls /\ d.op # "clear" /\ Vault!Proceed(t, d)
    BY <1>1, <1>3
  <1>8. ~raced' => /\ Settled(file', due)
                   /\ \A s \in Process \ {t} : HoldsFile(use[s]) => file' = Torn
    BY <1>4
  <1> HIDE DEF c
  <1> QED
    BY <1>5, <1>6, <1>7, <1>8, ProceedStep

LEMMA OverwriteStep ==
  ASSUME VaultInv, NEW t \in Process, Vault!Overwrite(t)
  PROVE  VaultInv'
  <1> DEFINE c == use[t]
             f == IF file = None THEN None ELSE Torn
             n == IF c.next = "shred" THEN "remove" ELSE "remove_unread"
             d == [c EXCEPT !.next = n, !.seen = f]
  <1>1. /\ c # None /\ c.next \in {"shred", "shred_unread"} /\ file' = f /\ due' = due
        /\ raced' = (raced \/ file = Torn \/ (c.op # "clear" /\ file \notin {None, c.seen}))
    BY DEF Vault!Overwrite
  <1>2. c \in Calls /\ CallOK(c)
    BY <1>1, CallTyped
  <1>3. use' = [use EXCEPT ![t] = d]
    BY <1>1, <1>2 DEF Vault!Overwrite, VaultInv, VaultType
  <1>4. /\ d \in Calls /\ d.next = n /\ d.seen = f /\ d.op = c.op /\ d.email = c.email
        /\ d.payload = c.payload
    BY <1>2 DEF Calls, CallSteps
  <1> HIDE DEF d
  <1>5. CallOK(d)
    BY <1>1, <1>2, <1>4 DEF CallOK
  <1>6. ASSUME ~raced'
        PROVE  /\ Settled(file', due') /\ Ready(d)
               /\ HoldsFile(d) => file' = Torn /\ Owes(d, due')
               /\ \A s \in Process : ~HoldsFile(use[s])
    <2>1. ~raced /\ file # Torn /\ (c.op = "clear" \/ file \in {None, c.seen}) /\ Ready(c)
      BY <1>1, <1>6 DEF VaultInv, KeepInv
    <2>2. FreshOf(file) = due
      BY <2>1 DEF VaultInv, KeepInv, Settled
    <2>3. \A s \in Process : ~HoldsFile(use[s])
      BY <2>1 DEF VaultInv, KeepInv
    <2>4. Ready(d)
      BY <1>1, <1>4 DEF Ready
    <2>5. Settled(file', due')
      BY <1>1, <2>2 DEF Settled, FreshOf
    <2>6. file # None => Owes(d, due')
      BY <1>1, <1>2, <1>4, <2>1, <2>2 DEF Owes, Ready, CallOK
    <2>7. HoldsFile(d) => file # None
      BY <1>4, NotGood DEF HoldsFile
    <2> QED
      BY <1>1, <2>3, <2>4, <2>5, <2>6, <2>7
  <1>7. /\ due' \subseteq Email /\ raced' \in BOOLEAN /\ (raced => raced')
        /\ file' \in {None, Torn} \cup GoodVault
    BY <1>1 DEF VaultInv, VaultType
  <1>8. ~raced' =>
             /\ Settled(file', due')
             /\ d # None => Ready(d)
             /\ HoldsFile(d) => file' = Torn /\ Owes(d, due')
             /\ \A s \in Process \ {t} :
                    HoldsFile(use[s]) => ~HoldsFile(d) /\ file' = Torn /\ due' = due
    BY <1>6
  <1>9. d \in {None} \cup Calls
    BY <1>4
  <1> HIDE DEF c
  <1> QED
    BY <1>3, <1>5, <1>7, <1>8, <1>9, VaultMove

LEMMA RemoveStep ==
  ASSUME VaultInv, NEW t \in Process, Vault!Remove(t)
  PROVE  VaultInv'
  <1> DEFINE c == use[t]
  <1>1. /\ c # None /\ c.next = "remove" /\ file' = None
        /\ raced' = (raced \/ file # c.seen) /\ use' = [use EXCEPT ![t] = None]
        /\ due' = Vault!DueAfter(c)
    BY DEF Vault!Remove, Vault!Does
  <1>2. c.op \in {"forget", "clear"} /\ due \subseteq Email
    BY <1>1, CallTyped DEF CallOK, VaultInv, VaultType
  <1>3. due' = IF c.op = "forget" THEN due \ {c.email} ELSE {}
    BY <1>1, <1>2 DEF Vault!DueAfter
  <1>4. ASSUME ~raced'
        PROVE  due' = {} /\ \A s \in Process \ {t} : ~HoldsFile(use[s])
    <2>1. ~raced /\ file = c.seen /\ c.seen \in {None, Torn}
      BY <1>1, <1>4 DEF VaultInv, KeepInv, Ready
    <2>2. CASE file = None
      <3>1. due = {}
        BY <2>1, <2>2, NotGood DEF VaultInv, KeepInv, Settled, FreshOf
      <3>2. \A s \in Process : ~HoldsFile(use[s])
        BY <2>1, <2>2, NotGood DEF VaultInv, KeepInv
      <3> QED
        BY <1>3, <3>1, <3>2
    <2>3. CASE file = Torn
      <3>1. HoldsFile(c)
        BY <1>1, <2>1, <2>3 DEF HoldsFile
      <3>2. Owes(c, due) /\ \A s \in Process \ {t} : ~HoldsFile(use[s])
        BY <2>1, <3>1 DEF VaultInv, KeepInv
      <3> QED
        BY <1>1, <1>3, <3>2 DEF Owes
    <2> QED
      BY <2>1, <2>2, <2>3
  <1>5. Settled(None, {})
    BY DEF Settled, FreshOf
  <1>6. /\ due' \subseteq Email /\ raced' \in BOOLEAN /\ (raced => raced')
        /\ file' \in {None, Torn} \cup GoodVault
    BY <1>1, <1>2, <1>3 DEF VaultInv, VaultType
  <1>7. ~HoldsFile(None)
    BY DEF HoldsFile
  <1>8. ~raced' =>
             /\ Settled(file', due')
             /\ HoldsFile(None) => file' = Torn /\ Owes(None, due')
             /\ \A s \in Process \ {t} :
                    HoldsFile(use[s]) => ~HoldsFile(None) /\ file' = Torn /\ due' = due
    BY <1>1, <1>4, <1>5, <1>7
  <1>9. use' = [use EXCEPT ![t] = None]
    BY <1>1
  <1> HIDE DEF c
  <1> QED
    BY <1>6, <1>8, <1>9, VaultMove

LEMMA RemoveUnreadStep ==
  ASSUME VaultInv, NEW t \in Process, Vault!RemoveUnread(t)
  PROVE  VaultInv'
  <1> DEFINE c == use[t]
             d == [c EXCEPT !.seen = None]
  <1>1. /\ c # None /\ c.next = "remove_unread" /\ file' = None /\ due' = due
        /\ raced' = (raced \/ file # c.seen) /\ Vault!Proceed(t, d)
    BY DEF Vault!RemoveUnread, Vault!Does
  <1>2. c \in Calls /\ c.payload = None /\ c.op # "clear"
    BY <1>1, CallTyped DEF CallOK
  <1>3. d \in Calls /\ d.payload = None /\ d.seen = None /\ d.op # "clear"
    BY <1>2 DEF Calls
  <1> HIDE DEF d
  <1>4. ASSUME ~raced'
        PROVE  due = {} /\ \A s \in Process \ {t} : ~HoldsFile(use[s])
    <2>1. ~raced /\ file = c.seen /\ c.seen \in {None, Torn}
      BY <1>1, <1>4 DEF VaultInv, KeepInv, Ready
    <2>2. CASE file = None
      <3>1. due = {}
        BY <2>1, <2>2, NotGood DEF VaultInv, KeepInv, Settled, FreshOf
      <3>2. \A s \in Process : ~HoldsFile(use[s])
        BY <2>1, <2>2, NotGood DEF VaultInv, KeepInv
      <3> QED
        BY <3>1, <3>2
    <2>3. CASE file = Torn
      <3>1. HoldsFile(c)
        BY <1>1, <2>1, <2>3 DEF HoldsFile
      <3>2. Owes(c, due) /\ \A s \in Process \ {t} : ~HoldsFile(use[s])
        BY <2>1, <3>1 DEF VaultInv, KeepInv
      <3> QED
        BY <1>1, <3>2 DEF Owes
    <2> QED
      BY <2>1, <2>2, <2>3
  <1>5. Settled(None, {})
    BY DEF Settled, FreshOf
  <1>6. /\ raced' \in BOOLEAN /\ (raced => raced') /\ file' \in {None, Torn} \cup GoodVault
        /\ d.seen # Torn /\ FreshOf(d.seen) = FreshOf(d.payload)
    BY <1>1, <1>3, NotGood DEF VaultInv, VaultType
  <1> HIDE DEF c
  <1> QED
    BY <1>1, <1>3, <1>4, <1>5, <1>6, ProceedStep

\* A call in progress as the 14 days of an account run out.
AgedCall(c, e) ==
    [c EXCEPT !.payload = IF c.payload = None THEN None ELSE Vault!Aged(c.payload, e),
              !.seen = IF c.seen \in {None, Torn} THEN c.seen ELSE Vault!Aged(c.seen, e)]

LEMMA AgedCallFits ==
  ASSUME NEW c \in Calls, NEW e \in Email, CallOK(c)
  PROVE  /\ AgedCall(c, e) \in Calls /\ CallOK(AgedCall(c, e))
         /\ HoldsFile(AgedCall(c, e)) => HoldsFile(c) \/ c = None
         /\ Ready(c) => Ready(AgedCall(c, e))
         /\ \A d \in SUBSET Email :
               Owes(c, d) => Owes(AgedCall(c, e), d \ {e})
  <1> DEFINE p == IF c.payload = None THEN None ELSE Vault!Aged(c.payload, e)
             s == IF c.seen \in {None, Torn} THEN c.seen ELSE Vault!Aged(c.seen, e)
             a == AgedCall(c, e)
  <1>1. /\ c.payload \in {None} \cup GoodVault /\ c.seen \in {None, Torn} \cup GoodVault
        /\ c.email \in Email /\ c.next \in CallSteps
    BY DEF Calls
  <1>2. /\ p \in {None} \cup GoodVault /\ (p = None <=> c.payload = None)
        /\ c.payload # None => p.fresh = c.payload.fresh \ {e}
    BY <1>1, AgedGood, NotGood
  <1>3. /\ s \in {None, Torn} \cup GoodVault /\ (s = Torn <=> c.seen = Torn)
        /\ (s = None <=> c.seen = None)
        /\ FreshOf(s) = FreshOf(c.seen) \ {e}
    BY <1>1, AgedGood, NotGood DEF FreshOf
  <1> HIDE DEF p, s
  <1>4. a = [c EXCEPT !.payload = p, !.seen = s]
    BY DEF AgedCall, p, s
  <1>5. /\ a \in Calls /\ a.payload = p /\ a.seen = s /\ a.op = c.op /\ a.email = c.email
        /\ a.next = c.next
    BY <1>2, <1>3, <1>4 DEF Calls
  <1> HIDE DEF a
  <1>6. CallOK(a)
    BY <1>2, <1>5 DEF CallOK
  <1>7. HoldsFile(a) => HoldsFile(c) \/ c = None
    BY <1>3, <1>5 DEF HoldsFile
  <1>8. \A d \in SUBSET Email :
          (c.payload # None /\ c.payload.fresh = Result(c, d)) => a.payload.fresh = Result(a, d \ {e})
    BY <1>2, <1>5 DEF Result
  <1>9. FreshOf(c.seen) \in SUBSET Email
    BY <1>1, GoodFields DEF FreshOf
  <1>10. ASSUME Ready(c) PROVE Ready(a)
    <2>1. c.next = "truncate" => a.seen # Torn /\ a.payload.fresh = Result(a, FreshOf(a.seen))
      BY <1>3, <1>5, <1>8, <1>9, <1>10 DEF Ready, CallOK
    <2>2. c.next = "purge" => a.seen # Torn /\ a.payload.fresh = FreshOf(a.seen)
      BY <1>2, <1>3, <1>5, <1>10 DEF Ready, CallOK
    <2> QED
      BY <2>1, <2>2, <1>3, <1>5, <1>10 DEF Ready
  <1>11. ASSUME NEW d \in SUBSET Email, Owes(c, d) PROVE Owes(a, d \ {e})
    <2>1. c.next = "writing" => a.payload.fresh = Result(a, d \ {e})
      BY <1>8, <1>11 DEF Owes, CallOK
    <2>2. c.next = "purging" => a.payload.fresh = d \ {e}
      BY <1>2, <1>5, <1>11 DEF Owes, CallOK
    <2> QED
      BY <2>1, <2>2, <1>5, <1>11 DEF Owes
  <1> QED
    BY <1>5, <1>6, <1>7, <1>10, <1>11 DEF a

LEMMA ExpireStep ==
  ASSUME VaultInv, NEW e \in Email, Vault!Expire(e)
  PROVE  VaultInv'
  <1>1. /\ e \in due /\ due' = due \ {e} /\ raced' = raced
        /\ file' = IF Vault!Whole THEN Vault!Aged(file, e) ELSE file
    BY DEF Vault!Expire
  <1>2. use' = [t \in Process |-> IF use[t] = None THEN None ELSE AgedCall(use[t], e)]
    BY DEF Vault!Expire, AgedCall
  <1>3. \A t \in Process : use[t] # None => use[t] \in Calls /\ CallOK(use[t])
    BY DEF VaultInv, VaultType
  <1>4. \A t \in Process :
          /\ use[t] = None => use'[t] = None
          /\ use[t] # None =>
               /\ use'[t] = AgedCall(use[t], e) /\ use'[t] \in Calls /\ CallOK(use'[t])
               /\ HoldsFile(use'[t]) => HoldsFile(use[t])
               /\ Ready(use[t]) => Ready(use'[t])
               /\ Owes(use[t], due) => Owes(use'[t], due')
    BY <1>1, <1>2, <1>3, AgedCallFits DEF VaultInv, VaultType
  <1>5. /\ file' \in {None, Torn} \cup GoodVault
        /\ FreshOf(file') = FreshOf(file) \ {e} /\ (file' = Torn <=> file = Torn)
    BY <1>1, AgedGood, NotGood DEF Vault!Whole, VaultInv, VaultType, FreshOf
  <1>6. VaultType'
    <2>1. use' \in [Process -> {None} \cup Calls]
      BY <1>2, <1>4
    <2>2. \A t \in Process : use'[t] # None => CallOK(use'[t])
      BY <1>4
    <2> QED
      BY <2>1, <2>2, <1>1, <1>5 DEF VaultInv, VaultType, CallOK
  <1>7. \A t \in Process : HoldsFile(use'[t]) => HoldsFile(use[t])
    BY <1>4 DEF HoldsFile
  <1>8. KeepInv'
    <2> SUFFICES ASSUME ~raced'
                 PROVE  /\ Settled(file', due')
                        /\ \A t \in Process : use'[t] # None => Ready(use'[t])
                        /\ \A t \in Process : HoldsFile(use'[t]) => file' = Torn /\ Owes(use'[t], due')
                        /\ \A r, t \in Process : HoldsFile(use'[r]) /\ HoldsFile(use'[t]) => r = t
      BY DEF KeepInv, Settled, Ready, HoldsFile, Owes, Result, FreshOf
    <2>1. /\ Settled(file, due)
          /\ \A t \in Process : use[t] # None => Ready(use[t])
          /\ \A t \in Process : HoldsFile(use[t]) => file = Torn /\ Owes(use[t], due)
          /\ \A r, t \in Process : HoldsFile(use[r]) /\ HoldsFile(use[t]) => r = t
      BY <1>1 DEF VaultInv, KeepInv
    <2>2. Settled(file', due')
      BY <2>1, <1>1, <1>5 DEF Settled
    <2>3. \A t \in Process : use'[t] # None => Ready(use'[t])
      BY <2>1, <1>4
    <2>4. \A t \in Process : HoldsFile(use'[t]) => file' = Torn /\ Owes(use'[t], due')
      BY <2>1, <1>4, <1>5, <1>7 DEF HoldsFile
    <2>5. \A r, t \in Process : HoldsFile(use'[r]) /\ HoldsFile(use'[t]) => r = t
      BY <2>1, <1>7
    <2> QED
      BY <2>2, <2>3, <2>4, <2>5
  <1> QED
    BY <1>6, <1>8 DEF VaultInv

LEMMA VaultRestartStep ==
  ASSUME VaultInv, Vault!Restart
  PROVE  VaultInv'
  <1>1. use' = [t \in Process |-> None] /\ UNCHANGED <<file, due, raced>>
    BY DEF Vault!Restart
  <1>2. \A t \in Process : use'[t] = None /\ ~HoldsFile(use'[t])
    BY <1>1 DEF HoldsFile
  <1>3. VaultType'
    BY <1>1 DEF VaultInv, VaultType
  <1>4. KeepInv'
    <2>1. ~raced' => Settled(file', due')
      BY <1>1 DEF VaultInv, KeepInv
    <2> QED
      BY <1>2, <2>1 DEF KeepInv, Settled, HoldsFile, FreshOf
  <1> QED
    BY <1>3, <1>4 DEF VaultInv

LEMMA VaultInvariant == AppSpec => []VaultInv
  <1>1. AppInit => VaultInv
    <2> SUFFICES ASSUME Vault!Init PROVE VaultInv
      BY DEF AppInit
    <2>1. VaultType
      BY DEF Vault!Init, VaultType
    <2>2. KeepInv
      BY DEF Vault!Init, KeepInv, Settled, FreshOf, HoldsFile
    <2> QED
      BY <2>1, <2>2 DEF VaultInv
  <1>2. VaultInv /\ [AppNext]_appVars => VaultInv'
    <2> SUFFICES ASSUME VaultInv, [AppNext]_appVars PROVE VaultInv'
      OBVIOUS
    <2>1. CASE Vault!Next
      BY <2>1, BeginStep, ReadNothingStep, ReadTornStep, ReadWholeStep, TruncateStep,
         WriteOutStep, PurgeOutStep, OverwriteStep, RemoveStep, RemoveUnreadStep,
         ExpireStep, VaultRestartStep DEF Vault!Next
    <2>2. CASE UNCHANGED vaultVars
      <3>1. UNCHANGED <<file, use, uses, reboots, due, raced>>
        BY <2>2 DEF vaultVars
      <3>2. VaultType'
        BY <3>1 DEF VaultInv, VaultType, CallOK
      <3>3. KeepInv'
        BY <3>1 DEF VaultInv, KeepInv
      <3> QED
        BY <3>2, <3>3 DEF VaultInv
    <2> QED
      BY <2>1, <2>2, AppStep
  <1> QED
    BY <1>1, <1>2, PTL DEF AppSpec

\* However the threads' reads, writes, shreddings and a restart fall, a vault that decrypts has
\* its active account and its alert configurations among its accounts; and unless a thread met
\* a half-written file or wrote over another's write, it keeps exactly the accounts it owes its
\* users (_read_raw_vault, _write_raw_vault, save_account_credentials, forget_account,
\* clear_session_credentials).
THEOREM VaultKeepsAccounts == AppSpec => []VaultHolds
  <1>1. VaultInv => VaultHolds
    <2> SUFFICES ASSUME VaultInv PROVE Vault!VaultSound /\ Vault!VaultKeeps
      BY DEF VaultHolds
    <2>1. Vault!VaultSound
      BY DEF VaultInv, VaultType, GoodVault, Vault!VaultSound, Vault!Whole
    <2>2. Vault!VaultKeeps
      BY DEF VaultInv, KeepInv, Vault!VaultKeeps, Vault!Whole, Settled, FreshOf
    <2> QED
      BY <2>1, <2>2
  <1> QED
    BY <1>1, VaultInvariant, PTL

-----------------------------------------------------------------------------
(* The verdicts. *)

\* What the detector and the rule matrix make of the mail and its authentication.
BecOf == [verdict |-> Scoring!BecVerdict, spoof |-> Scoring!Spoof, exec |-> Scoring!Has("ceo_name"),
          fin |-> Scoring!FinancialLure, score |-> Scoring!BecScore]
First == Scoring!TextFindings(Scoring!Newsletter) \cup Scoring!EvidenceFindings
FindingsOf == Scoring!Matrix(First, Scoring!Newsletter, TRUE)

\* Each step's result is what the earlier ones determine.
VerdictInv ==
    /\ mail \subseteq Scoring!Sign
    /\ stage \in {"auth", "bec", "rules", "score", "done"}
    /\ stage # "auth" => auth \in Scoring!Authenticated
    /\ stage \notin {"auth", "bec"} => bec = BecOf
    /\ stage \in {"score", "done"} => findings = FindingsOf
    /\ stage = "done" => ml \in Scoring!Probability /\ risk = Scoring!HybridRisk(findings, ml)

LEMMA SameBec ==
  ASSUME mail' = mail, auth' = auth
  PROVE  BecOf' = BecOf
  BY DEF BecOf, Scoring!BecVerdict, Scoring!Spoof, Scoring!Has, Scoring!FinancialLure,
         Scoring!BecScore, Scoring!HasAny, Scoring!Newsletter, Scoring!FreemailPersona,
         Scoring!BrandPersona, Scoring!ServicePersona, Scoring!BecAuthOk, Scoring!Verified,
         Scoring!Points

LEMMA SameFindings ==
  ASSUME mail' = mail, auth' = auth, bec' = bec
  PROVE  FindingsOf' = FindingsOf
  BY SMTT(120) DEF FindingsOf, First, Scoring!Matrix, Scoring!TextFindings, Scoring!EvidenceFindings,
         Scoring!AnchorFinding, Scoring!ObfuscationFindings, Scoring!Newsletter, Scoring!Has,
         Scoring!HasAny, Scoring!Finding, Scoring!Unless, Scoring!Urgency, Scoring!RuleAuthOk,
         Scoring!IsAuthOk, Scoring!ThreatDetected, Scoring!LateAuthOk, Scoring!Rules,
         Scoring!Verified

LEMMA SameRisk ==
  ASSUME auth' = auth, findings' = findings, ml' = ml
  PROVE  Scoring!HybridRisk(findings, ml)' = Scoring!HybridRisk(findings, ml)
  BY DEF Scoring!HybridRisk, Scoring!IsAuthOk, Scoring!Count, Scoring!Verified

LEMMA VerdictInvariant == AppSpec => []VerdictInv
  <1>1. AppInit => VerdictInv
    <2> SUFFICES ASSUME Scoring!Init PROVE VerdictInv
      BY DEF AppInit
    <2>1. mail \subseteq Scoring!Sign
      <3>1. CASE mail = {}
        BY <3>1
      <3>2. CASE mail # {}
        <4>1. PICK f \in [1 .. MaxSigns -> Scoring!Sign] : mail = {f[x] : x \in DOMAIN f}
          BY <3>2 DEF Scoring!Init, Scoring!Range
        <4> QED
          BY <4>1
      <3> QED
        BY <3>1, <3>2
    <2> QED
      BY <2>1 DEF Scoring!Init, VerdictInv
  <1>2. VerdictInv /\ [AppNext]_appVars => VerdictInv'
    <2> SUFFICES ASSUME VerdictInv, [AppNext]_appVars PROVE VerdictInv'
      OBVIOUS
    <2> USE DEF VerdictInv
    <2>0. Scoring!Authenticated' = Scoring!Authenticated
      BY DEF Scoring!Authenticated
    <2>1. CASE Scoring!Authenticate
      BY <2>1, <2>0 DEF Scoring!Authenticate
    <2>2. CASE Scoring!DetectBec
      <3>1. bec' = BecOf
        BY <2>2 DEF Scoring!DetectBec, BecOf
      <3> QED
        BY <2>2, <2>0, <3>1, SameBec DEF Scoring!DetectBec
    <2>3. CASE Scoring!EvaluateRules
      <3>1. findings' = FindingsOf
        BY <2>3 DEF Scoring!EvaluateRules, FindingsOf, First
      <3> QED
        BY <2>3, <2>0, <3>1, SameBec, SameFindings DEF Scoring!EvaluateRules
    <2>4. ASSUME NEW p \in Scoring!Probability, Scoring!Score(p) PROVE VerdictInv'
      <3>1. /\ risk' = Scoring!HybridRisk(findings, p) /\ ml' = p /\ stage = "score"
            /\ UNCHANGED <<mail, auth, bec, findings>>
        BY <2>4 DEF Scoring!Score
      <3>2. risk' = Scoring!HybridRisk(findings, ml)'
        BY <3>1, ZenonT(40)
        DEF Scoring!HybridRisk, Scoring!IsAuthOk, Scoring!Count, Scoring!Verified
      <3> QED
        BY <2>4, <2>0, <3>1, <3>2, SameBec, SameFindings DEF Scoring!Score, Scoring!Probability
    <2>5. CASE UNCHANGED verdictVars
      BY <2>5, <2>0, SameBec, SameFindings, SameRisk DEF verdictVars, Scoring!Probability
    <2> QED
      BY <2>1, <2>2, <2>3, <2>4, <2>5, AppStep DEF Scoring!Next
  <1> QED
    BY <1>1, <1>2, PTL DEF AppSpec

\* A finding is there when its condition holds, with its severity.
LEMMA FindingIs ==
  \A rule, condition, severity, f :
     f \in Scoring!Finding(rule, condition, severity) <=>
       condition /\ f = [rule |-> rule, severity |-> severity]
  BY DEF Scoring!Finding

LEMMA FindingFinite ==
  \A rule, condition, severity : IsFiniteSet(Scoring!Finding(rule, condition, severity))
  BY FS_EmptySet, FS_Singleton DEF Scoring!Finding

LEMMA MatrixFinite ==
  ASSUME NEW S, IsFiniteSet(S), NEW n, NEW i
  PROVE  IsFiniteSet(Scoring!Matrix(S, n, i))
  <1>1. \A T, m : IsFiniteSet(Scoring!AnchorFinding(T, m))
    BY FindingFinite DEF Scoring!AnchorFinding
  <1>2. \A T, j : IsFiniteSet(Scoring!ObfuscationFindings(T, j))
    BY FindingFinite, FS_Union DEF Scoring!ObfuscationFindings
  <1> DEFINE second == S \cup Scoring!AnchorFinding(S, n)
  <1>3. IsFiniteSet(second)
    BY <1>1, FS_Union
  <1> HIDE DEF second
  <1>4. IsFiniteSet(second \cup Scoring!ObfuscationFindings(second, i))
    BY <1>2, <1>3, FS_Union
  <1> QED
    BY <1>4 DEF Scoring!Matrix, second

LEMMA FirstFinite ==
  /\ \A n : IsFiniteSet(Scoring!TextFindings(n))
  /\ IsFiniteSet(Scoring!EvidenceFindings)
  <1>1. \A S, T : IsFiniteSet(S) /\ IsFiniteSet(T) => IsFiniteSet(S \cup T)
    BY FS_Union
  <1>2. \A A, B, C, D : IsFiniteSet(A) /\ IsFiniteSet(B) /\ IsFiniteSet(C) /\ IsFiniteSet(D)
          => IsFiniteSet(A \cup B \cup C \cup D)
    BY <1>1
  <1>3. \A A, B, C, D, F, G, H, I :
          /\ IsFiniteSet(A) /\ IsFiniteSet(B) /\ IsFiniteSet(C) /\ IsFiniteSet(D)
          /\ IsFiniteSet(F) /\ IsFiniteSet(G) /\ IsFiniteSet(H) /\ IsFiniteSet(I)
          => IsFiniteSet(A \cup B \cup C \cup D \cup F \cup G \cup H \cup I)
    <2> TAKE A, B, C, D, F, G, H, I
    <2> HAVE /\ IsFiniteSet(A) /\ IsFiniteSet(B) /\ IsFiniteSet(C) /\ IsFiniteSet(D)
             /\ IsFiniteSet(F) /\ IsFiniteSet(G) /\ IsFiniteSet(H) /\ IsFiniteSet(I)
    <2>1. IsFiniteSet(A \cup B \cup C \cup D)
      BY <1>2
    <2>2. IsFiniteSet(A \cup B \cup C \cup D \cup F \cup G)
      BY <1>1, <2>1
    <2> QED
      BY <1>1, <2>2
  <1>4. \A A, B, C, D, F, G, H :
          /\ IsFiniteSet(A) /\ IsFiniteSet(B) /\ IsFiniteSet(C) /\ IsFiniteSet(D)
          /\ IsFiniteSet(F) /\ IsFiniteSet(G) /\ IsFiniteSet(H)
          => IsFiniteSet(A \cup B \cup C \cup D \cup F \cup G \cup H)
    BY <1>1, <1>2
  <1>5. ASSUME NEW n PROVE IsFiniteSet(Scoring!TextFindings(n))
    <2> DEFINE A == Scoring!Finding(2, Scoring!Has("return_path"),
                                    Scoring!Unless(n \/ Scoring!IsAuthOk, "MEDIUM"))
               B == Scoring!Finding(7, Scoring!HasAny({"urgent", "suspend"}), Scoring!Urgency)
               C == Scoring!Finding(6, Scoring!Has("password"),
                                    Scoring!Unless(Scoring!RuleAuthOk, "MEDIUM"))
               D == Scoring!Finding(20, Scoring!Has("extortion"), "HIGH")
               F == Scoring!Finding(21, Scoring!Has("brand_domain") /\ ~Scoring!RuleAuthOk, "HIGH")
               G == Scoring!Finding(8, Scoring!Has("executable"), "HIGH")
               H == Scoring!Finding(14, Scoring!ThreatDetected, "HIGH")
    <2>1. IsFiniteSet(A) /\ IsFiniteSet(B) /\ IsFiniteSet(C) /\ IsFiniteSet(D)
      BY FindingFinite
    <2>2. IsFiniteSet(F) /\ IsFiniteSet(G) /\ IsFiniteSet(H)
      BY FindingFinite
    <2>3. Scoring!TextFindings(n) = A \cup B \cup C \cup D \cup F \cup G \cup H
      BY DEF Scoring!TextFindings
    <2> HIDE DEF A, B, C, D, F, G, H
    <2>4. IsFiniteSet(A \cup B \cup C \cup D \cup F \cup G \cup H)
      BY <1>4, <2>1, <2>2
    <2> QED
      BY <2>3, <2>4
  <1>6. IsFiniteSet(Scoring!EvidenceFindings)
    <2> DEFINE A == Scoring!Finding(1, Scoring!Has("reply_other"),
                       IF bec.fin \/ bec.spoof \/ bec.exec THEN "HIGH"
                       ELSE Scoring!Unless(Scoring!Newsletter, "MEDIUM"))
               B == Scoring!Finding(9, Scoring!Has("bad_infra"), "HIGH")
               C == Scoring!Finding(12, Scoring!Has("bad_link"), "HIGH")
               D == Scoring!Finding(15, Scoring!HasAny({"executable", "macro"}),
                       IF Scoring!Has("executable") THEN "HIGH" ELSE "MEDIUM")
               F == Scoring!Finding(17, bec.spoof \/ (bec.fin /\ bec.score >= 40), "HIGH")
               G == Scoring!Finding(18, Scoring!Has("slow_relay"), "MEDIUM")
               H == Scoring!Finding(24, Scoring!Has("vpn"),
                       Scoring!Unless(Scoring!IsAuthOk \/ Scoring!Newsletter, "MEDIUM"))
               I == Scoring!Finding(25, Scoring!Has("cloud") /\ ~Scoring!IsAuthOk, "MEDIUM")
    <2>1. IsFiniteSet(A) /\ IsFiniteSet(B) /\ IsFiniteSet(C) /\ IsFiniteSet(D)
      BY FindingFinite
    <2>2. IsFiniteSet(F) /\ IsFiniteSet(G) /\ IsFiniteSet(H) /\ IsFiniteSet(I)
      BY FindingFinite
    <2>3. Scoring!EvidenceFindings = A \cup B \cup C \cup D \cup F \cup G \cup H \cup I
      BY DEF Scoring!EvidenceFindings
    <2> HIDE DEF A, B, C, D, F, G, H, I
    <2> QED
      BY <1>3, <2>1, <2>2, <2>3
  <1> QED
    BY <1>5, <1>6

LEMMA FindingsFinite == IsFiniteSet(FindingsOf) /\ IsFiniteSet(Scoring!BatchFindings)
  <1>1. IsFiniteSet(First)
    BY FirstFinite, FS_Union DEF First
  <1>2. \A n, x, c, s : IsFiniteSet(Scoring!TextFindings(n) \cup Scoring!Finding(x, c, s))
    BY FirstFinite, FindingFinite, FS_Union
  <1> QED
    BY <1>1, <1>2, MatrixFinite DEF FindingsOf, Scoring!BatchFindings

\* How many findings of a severity there are, as far as the score asks.
LEMMA Counts ==
  ASSUME NEW S, IsFiniteSet(S), NEW severity
  PROVE  /\ Scoring!Count(S, severity) \in Nat
         /\ Scoring!Count(S, severity) >= 1 <=> \E f \in S : f.severity = severity
  <1> DEFINE T == {f \in S : f.severity = severity}
  <1>1. Scoring!Count(S, severity) = Cardinality(T)
    BY DEF Scoring!Count, Scoring!Cardinality, Cardinality
  <1>2. IsFiniteSet(T)
    BY FS_Subset
  <1>3. T = {} <=> ~\E f \in S : f.severity = severity
    OBVIOUS
  <1> HIDE DEF T
  <1>4. Cardinality(T) \in Nat /\ (Cardinality(T) = 0 <=> T = {})
    BY <1>2, FS_CardinalityType, FS_EmptySet
  <1> QED
    BY <1>1, <1>3, <1>4

\* A finding is there under its condition, rule by rule.
At(rule, severity) == [rule |-> rule, severity |-> severity]

LEMMA Fields == \A r, s : At(r, s).rule = r /\ At(r, s).severity = s
  BY DEF At

LEMMA InText ==
  ASSUME NEW n, NEW f
  PROVE  f \in Scoring!TextFindings(n) <=>
           \/ /\ Scoring!Has("return_path")
              /\ f = At(2, Scoring!Unless(n \/ Scoring!IsAuthOk, "MEDIUM"))
           \/ Scoring!HasAny({"urgent", "suspend"}) /\ f = At(7, Scoring!Urgency)
           \/ Scoring!Has("password") /\ f = At(6, Scoring!Unless(Scoring!RuleAuthOk, "MEDIUM"))
           \/ Scoring!Has("extortion") /\ f = At(20, "HIGH")
           \/ Scoring!Has("brand_domain") /\ ~Scoring!RuleAuthOk /\ f = At(21, "HIGH")
           \/ Scoring!Has("executable") /\ f = At(8, "HIGH")
           \/ Scoring!ThreatDetected /\ f = At(14, "HIGH")
  BY DEF Scoring!TextFindings, Scoring!Finding, At

LEMMA InEvidence ==
  ASSUME NEW f
  PROVE  f \in Scoring!EvidenceFindings <=>
           \/ /\ Scoring!Has("reply_other")
              /\ f = At(1, IF bec.fin \/ bec.spoof \/ bec.exec THEN "HIGH"
                           ELSE Scoring!Unless(Scoring!Newsletter, "MEDIUM"))
           \/ Scoring!Has("bad_infra") /\ f = At(9, "HIGH")
           \/ Scoring!Has("bad_link") /\ f = At(12, "HIGH")
           \/ /\ Scoring!HasAny({"executable", "macro"})
              /\ f = At(15, IF Scoring!Has("executable") THEN "HIGH" ELSE "MEDIUM")
           \/ (bec.spoof \/ (bec.fin /\ bec.score >= 40)) /\ f = At(17, "HIGH")
           \/ Scoring!Has("slow_relay") /\ f = At(18, "MEDIUM")
           \/ /\ Scoring!Has("vpn")
              /\ f = At(24, Scoring!Unless(Scoring!IsAuthOk \/ Scoring!Newsletter, "MEDIUM"))
           \/ Scoring!Has("cloud") /\ ~Scoring!IsAuthOk /\ f = At(25, "MEDIUM")
  BY DEF Scoring!EvidenceFindings, Scoring!Finding, At

\* What the anchor rule takes for a lure, and what the obfuscation rule does.
AnchorLure(found) ==
    \E f \in found : f.rule \in {20, 21} \/ (f.rule = 6 /\ f.severity = "MEDIUM")
Lured(found) == Scoring!Rules(found) \cap {6, 20, 12, 19} # {}

LEMMA InAnchor ==
  ASSUME NEW S, NEW n, NEW f
  PROVE  f \in Scoring!AnchorFinding(S, n) <=>
           /\ Scoring!Has("anchor")
           /\ f = At(19, IF AnchorLure(S) \/ ~Scoring!RuleAuthOk THEN "HIGH"
                         ELSE Scoring!Unless(n, "MEDIUM"))
  BY DEF Scoring!AnchorFinding, Scoring!Finding, At, AnchorLure

LEMMA InObfuscation ==
  ASSUME NEW S, NEW i, NEW f
  PROVE  f \in Scoring!ObfuscationFindings(S, i) <=>
           \/ /\ Scoring!Has("homoglyph")
              /\ f = At(26, Scoring!Unless(Scoring!LateAuthOk(i), "MEDIUM"))
           \/ /\ Scoring!Has("spaced")
              /\ f = At(27, IF Lured(S) /\ ~Scoring!LateAuthOk(i) THEN "HIGH"
                            ELSE Scoring!Unless(~Lured(S) /\ 7 \notin Scoring!Rules(S), "MEDIUM"))
  BY DEF Scoring!ObfuscationFindings, Scoring!Finding, At, Lured

Second == First \cup Scoring!AnchorFinding(First, Scoring!Newsletter)

LEMMA InFindings ==
  \A f : f \in FindingsOf <=>
           \/ f \in Scoring!TextFindings(Scoring!Newsletter)
           \/ f \in Scoring!EvidenceFindings
           \/ f \in Scoring!AnchorFinding(First, Scoring!Newsletter)
           \/ f \in Scoring!ObfuscationFindings(Second, TRUE)
  BY DEF FindingsOf, Scoring!Matrix, First, Second

\* The score is HIGH with a HIGH finding, and only a score without one can be LOW.
LEMMA HighFirst ==
  ASSUME VerdictInv, Scoring!Done
  PROVE  /\ (\E f \in findings : f.severity = "HIGH") => risk = "HIGH"
         /\ ~(\E f \in findings : f.severity = "HIGH") /\ Scoring!IsAuthOk => risk = "LOW"
  <1>1. findings = FindingsOf /\ risk = Scoring!HybridRisk(findings, ml)
    BY DEF VerdictInv, Scoring!Done
  <1>2. Scoring!Count(findings, "HIGH") \in Nat
        /\ (Scoring!Count(findings, "HIGH") >= 1 <=> \E f \in findings : f.severity = "HIGH")
    BY <1>1, FindingsFinite, Counts
  <1> QED
    BY <1>1, <1>2 DEF Scoring!HybridRisk

\* A mail that its sender's domain authenticates and whose only signs are words is LOW whatever
\* the classifier says of it and from whatever network it comes: no rule finds it HIGH
\* (evaluate_rules, calculate_hybrid_risk).
THEOREM AuthenticatedTextStaysLow == AppSpec => []AuthenticatedTextIsLow
  <1>1. VerdictInv => AuthenticatedTextIsLow
    <2> DEFINE Words == {"urgent", "suspend", "password", "invoice", "ceo_text", "spaced",
                         "homoglyph", "list", "newsletter_words", "return_path", "vpn", "cloud"}
    <2> SUFFICES ASSUME VerdictInv, Scoring!Done, auth.effective \in Scoring!Verified,
                        mail \subseteq Words
                 PROVE  risk = "LOW"
      BY DEF AuthenticatedTextIsLow, Scoring!AuthenticatedTextIsLow
    <2>1. /\ Scoring!RuleAuthOk /\ Scoring!IsAuthOk /\ Scoring!BecAuthOk
          /\ ~Scoring!ThreatDetected
      BY DEF Scoring!RuleAuthOk, Scoring!IsAuthOk, Scoring!BecAuthOk, Scoring!ThreatDetected,
             Scoring!Verified
    <2>2. \A s \in {"ceo_name", "dept_name", "brand_name", "service_name", "freemail", "wire",
                    "reply_other", "extortion", "brand_domain", "executable", "macro",
                    "bad_infra", "bad_link", "slow_relay", "anchor"} : ~Scoring!Has(s)
      BY DEF Scoring!Has
    <2>3. ~Scoring!HasAny({"executable", "macro"})
      BY DEF Scoring!HasAny
    <2>4. findings = FindingsOf /\ bec = BecOf
      BY DEF VerdictInv, Scoring!Done
    <2>5. ~bec.spoof /\ ~bec.fin /\ ~bec.exec
      BY <2>1, <2>2, <2>4 DEF BecOf, Scoring!Spoof, Scoring!FreemailPersona,
         Scoring!BrandPersona, Scoring!ServicePersona, Scoring!FinancialLure
    <2>6. ASSUME NEW f \in findings PROVE f.severity # "HIGH"
      <3> HIDE DEF Words
      <3>1. CASE f \in Scoring!TextFindings(Scoring!Newsletter)
        BY <2>1, <2>2, <3>1, InText, Fields DEF Scoring!Unless, Scoring!Urgency
      <3>2. CASE f \in Scoring!EvidenceFindings
        BY <2>1, <2>2, <2>3, <2>5, <3>2, InEvidence, Fields DEF Scoring!Unless
      <3>3. CASE f \in Scoring!AnchorFinding(First, Scoring!Newsletter)
        BY <2>2, <3>3, InAnchor
      <3>4. CASE f \in Scoring!ObfuscationFindings(Second, TRUE)
        <4>1. Scoring!LateAuthOk(TRUE)
          BY <2>1 DEF Scoring!LateAuthOk
        <4>2. \A c : Scoring!Unless(c, "MEDIUM") # "HIGH"
          BY DEF Scoring!Unless
        <4>3. CASE f = At(26, Scoring!Unless(Scoring!LateAuthOk(TRUE), "MEDIUM"))
          BY <4>2, <4>3, Fields
        <4>4. CASE f = At(27, Scoring!Unless(~Lured(Second) /\ 7 \notin Scoring!Rules(Second),
                                            "MEDIUM"))
          BY <4>2, <4>4, Fields
        <4> QED
          BY <3>4, <4>1, <4>3, <4>4, InObfuscation
      <3> QED
        BY <2>4, <3>1, <3>2, <3>3, <3>4, InFindings
    <2> QED
      BY <2>1, <2>6, HighFirst
  <1> QED
    BY <1>1, VerdictInvariant, PTL

\* The analysis page files no mail of LOW risk as a threat: what it does not demote comes with
\* rule 17's HIGH finding (detect_bec_and_impersonation, derive_case_classification).
THEOREM LowIsNeverThreat == AppSpec => []LowIsNoThreat
  <1>1. VerdictInv => LowIsNoThreat
    <2> SUFFICES ASSUME VerdictInv, Scoring!Done, risk = "LOW"
                 PROVE  Scoring!PageClass # "THREAT"
      BY DEF LowIsNoThreat, Scoring!LowIsNoThreat
    <2>1. findings = FindingsOf /\ bec = BecOf
      BY DEF VerdictInv, Scoring!Done
    <2>2. ~Scoring!Spoof
      <3> SUFFICES ASSUME Scoring!Spoof PROVE FALSE
        OBVIOUS
      <3>1. bec.spoof
        BY <2>1 DEF BecOf
      <3>2. At(17, "HIGH") \in findings
        BY <2>1, <3>1, InEvidence, InFindings
      <3> QED
        BY <3>2, HighFirst, Fields
    <2>3. bec.verdict \in Scoring!Demotable \cup {"Security Alert (Authenticated)",
                            "Suspicious Financial", "Standard / Legitimate"}
      BY <2>1, <2>2 DEF BecOf, Scoring!BecVerdict, Scoring!Demotable
    <2>4. Scoring!PageVerdict \in {"Security Alert (Authenticated)", "Suspicious Financial",
                                   "Standard / Legitimate"}
      BY <2>3 DEF Scoring!PageVerdict
    <2> QED
      BY <2>4 DEF Scoring!PageClass, Scoring!Classification
  <1> QED
    BY <1>1, VerdictInvariant, PTL

\* The batch's rules, which know less.
BatchFirst ==
    Scoring!TextFindings(Scoring!BatchNewsletter)
    \cup Scoring!Finding(1, Scoring!Has("reply_other"),
                         Scoring!Unless(Scoring!BatchNewsletter, "MEDIUM"))
BatchSecond == BatchFirst \cup Scoring!AnchorFinding(BatchFirst, Scoring!BatchNewsletter)

LEMMA InBatch ==
  \A f : f \in Scoring!BatchFindings <=>
           \/ f \in Scoring!TextFindings(Scoring!BatchNewsletter)
           \/ /\ Scoring!Has("reply_other")
              /\ f = At(1, Scoring!Unless(Scoring!BatchNewsletter, "MEDIUM"))
           \/ f \in Scoring!AnchorFinding(BatchFirst, Scoring!BatchNewsletter)
           \/ f \in Scoring!ObfuscationFindings(BatchSecond, FALSE)
  BY DEF Scoring!BatchFindings, Scoring!Matrix, BatchFirst, BatchSecond, Scoring!Finding, At

LEMMA BulkByHeader == Scoring!Newsletter => Scoring!BatchNewsletter
  BY DEF Scoring!Newsletter, Scoring!BatchNewsletter, Scoring!Has, Scoring!HasAny

\* A text finding of the batch is one of the full analysis, but for rule 2's severity, which is
\* never worse.
LEMMA TextOfBatch ==
  ASSUME NEW f \in Scoring!TextFindings(Scoring!BatchNewsletter)
  PROVE  \/ f \in Scoring!TextFindings(Scoring!Newsletter)
         \/ /\ f = At(2, "LOW")
            /\ \E g \in Scoring!TextFindings(Scoring!Newsletter) : g.rule = 2
  <1>1. CASE f = At(2, Scoring!Unless(Scoring!BatchNewsletter \/ Scoring!IsAuthOk, "MEDIUM"))
             /\ Scoring!Has("return_path")
    <2> DEFINE n == Scoring!Newsletter
               g == At(2, Scoring!Unless(n \/ Scoring!IsAuthOk, "MEDIUM"))
    <2>1. g \in Scoring!TextFindings(n)
      BY <1>1, InText
    <2>2. g.rule = 2
      BY Fields
    <2>3. CASE Scoring!BatchNewsletter \/ Scoring!IsAuthOk
      BY <1>1, <2>1, <2>2, <2>3 DEF Scoring!Unless
    <2>4. CASE ~(Scoring!BatchNewsletter \/ Scoring!IsAuthOk)
      BY <1>1, <2>1, <2>4, BulkByHeader DEF Scoring!Unless
    <2> QED
      BY <2>3, <2>4
  <1>2. CASE ~(f = At(2, Scoring!Unless(Scoring!BatchNewsletter \/ Scoring!IsAuthOk, "MEDIUM"))
               /\ Scoring!Has("return_path"))
    BY <1>2, InText
  <1> QED
    BY <1>1, <1>2

\* So the batch sees no lure the full analysis does not see, by the anchor rule's measure or the
\* obfuscation rule's.
LEMMA LuresOfBatch ==
  /\ AnchorLure(BatchFirst) => AnchorLure(First)
  /\ Scoring!Rules(BatchSecond) \subseteq Scoring!Rules(Second)
  <1>1. ASSUME NEW f \in BatchFirst
        PROVE  \/ f \in First
               \/ f.rule \in {1, 2} /\ \E g \in First : g.rule = f.rule
    <2>1. CASE f \in Scoring!TextFindings(Scoring!BatchNewsletter)
      BY <2>1, TextOfBatch, Fields DEF First
    <2>2. CASE Scoring!Has("reply_other")
               /\ f = At(1, Scoring!Unless(Scoring!BatchNewsletter, "MEDIUM"))
      <3> DEFINE s == IF bec.fin \/ bec.spoof \/ bec.exec THEN "HIGH"
                      ELSE Scoring!Unless(Scoring!Newsletter, "MEDIUM")
      <3>1. At(1, s) \in Scoring!EvidenceFindings
        BY <2>2, InEvidence
      <3> QED
        BY <2>2, <3>1, Fields DEF First
    <2> QED
      BY <2>1, <2>2 DEF BatchFirst, Scoring!Finding, At
  <1>2. AnchorLure(BatchFirst) => AnchorLure(First)
    BY <1>1 DEF AnchorLure
  <1>3. ASSUME NEW f \in BatchSecond PROVE f.rule \in Scoring!Rules(Second)
    <2>1. CASE f \in BatchFirst
      BY <1>1, <2>1 DEF Scoring!Rules, Second
    <2>2. CASE f \in Scoring!AnchorFinding(BatchFirst, Scoring!BatchNewsletter)
      <3> DEFINE s == IF AnchorLure(First) \/ ~Scoring!RuleAuthOk THEN "HIGH"
                      ELSE Scoring!Unless(Scoring!Newsletter, "MEDIUM")
      <3>1. At(19, s) \in Second
        BY <2>2, InAnchor DEF Second
      <3>2. f.rule = 19 /\ At(19, s).rule = 19
        BY <2>2, InAnchor, Fields
      <3> QED
        BY <3>1, <3>2 DEF Scoring!Rules
    <2> QED
      BY <2>1, <2>2 DEF BatchSecond
  <1>4. Scoring!Rules(BatchSecond) \subseteq Scoring!Rules(Second)
    BY <1>3 DEF Scoring!Rules
  <1> QED
    BY <1>2, <1>4

\* What the batch finds, the full analysis finds, or worse.
LEMMA BatchFindsLess ==
  ASSUME NEW f \in Scoring!BatchFindings,
         ~\E g \in FindingsOf : g.severity = "HIGH"
  PROVE  f.severity # "HIGH" /\ (f.severity = "MEDIUM" => f \in FindingsOf)
  <1>0. \A c : Scoring!Unless(c, "MEDIUM") \in {"LOW", "MEDIUM"}
               /\ (Scoring!Unless(c, "MEDIUM") = "MEDIUM" <=> ~c)
    BY DEF Scoring!Unless
  <1>1. CASE f \in Scoring!TextFindings(Scoring!BatchNewsletter)
    <2>1. CASE f \in Scoring!TextFindings(Scoring!Newsletter)
      <3>1. f \in FindingsOf
        BY <2>1, InFindings
      <3> QED
        BY <3>1
    <2>2. CASE f = At(2, "LOW")
      <3>1. f.severity = "LOW"
        BY <2>2, Fields
      <3> QED
        BY <3>1
    <2> QED
      BY <1>1, <2>1, <2>2, TextOfBatch
  <1>2. CASE Scoring!Has("reply_other")
             /\ f = At(1, Scoring!Unless(Scoring!BatchNewsletter, "MEDIUM"))
    <2> DEFINE grave == bec.fin \/ bec.spoof \/ bec.exec
               s == IF grave THEN "HIGH" ELSE Scoring!Unless(Scoring!Newsletter, "MEDIUM")
    <2>1. At(1, s) \in FindingsOf
      BY <1>2, InEvidence, InFindings
    <2>2. s = Scoring!Unless(Scoring!Newsletter, "MEDIUM")
      BY <2>1, Fields
    <2>3. f.severity = Scoring!Unless(Scoring!BatchNewsletter, "MEDIUM")
      BY <1>2, Fields
    <2>4. f.severity = "MEDIUM" => s = "MEDIUM" /\ f = At(1, "MEDIUM")
      <3> SUFFICES ASSUME f.severity = "MEDIUM" PROVE s = "MEDIUM" /\ f = At(1, "MEDIUM")
        OBVIOUS
      <3>1. ~Scoring!BatchNewsletter
        BY <1>0, <2>3
      <3> QED
        BY <1>2, <2>2, <2>3, <3>1, BulkByHeader DEF Scoring!Unless
    <2> HIDE DEF s
    <2> QED
      BY <1>0, <2>1, <2>3, <2>4
  <1>3. CASE f \in Scoring!AnchorFinding(BatchFirst, Scoring!BatchNewsletter)
    <2> DEFINE harsh(S) == AnchorLure(S) \/ ~Scoring!RuleAuthOk
               s == IF harsh(First) THEN "HIGH" ELSE Scoring!Unless(Scoring!Newsletter, "MEDIUM")
    <2>1. At(19, s) \in FindingsOf
      BY <1>3, InAnchor, InFindings
    <2>2. ~harsh(First)
      BY <2>1, Fields
    <2>3. ~harsh(BatchFirst)
      BY <2>2, LuresOfBatch
    <2>4. f = At(19, Scoring!Unless(Scoring!BatchNewsletter, "MEDIUM"))
      BY <1>3, <2>3, InAnchor
    <2>5. f.severity = Scoring!Unless(Scoring!BatchNewsletter, "MEDIUM")
      BY <2>4, Fields
    <2>6. f.severity = "MEDIUM" => s = "MEDIUM" /\ f = At(19, "MEDIUM")
      <3> SUFFICES ASSUME f.severity = "MEDIUM" PROVE s = "MEDIUM" /\ f = At(19, "MEDIUM")
        OBVIOUS
      <3>1. ~Scoring!BatchNewsletter
        BY <1>0, <2>5
      <3>2. s = Scoring!Unless(Scoring!Newsletter, "MEDIUM")
        BY <2>2
      <3> QED
        BY <2>4, <2>5, <3>1, <3>2, BulkByHeader DEF Scoring!Unless
    <2> HIDE DEF s
    <2> QED
      BY <1>0, <2>1, <2>5, <2>6
  <1>4. CASE f \in Scoring!ObfuscationFindings(BatchSecond, FALSE)
    <2>1. /\ Scoring!LateAuthOk(FALSE) = Scoring!RuleAuthOk
          /\ Scoring!LateAuthOk(TRUE) => Scoring!RuleAuthOk
      BY DEF Scoring!LateAuthOk, Scoring!RuleAuthOk
    <2>2. Lured(BatchSecond) => Lured(Second)
      BY LuresOfBatch DEF Lured
    <2>3. CASE f = At(26, Scoring!Unless(Scoring!LateAuthOk(FALSE), "MEDIUM"))
               /\ Scoring!Has("homoglyph")
      <3>1. f.severity = Scoring!Unless(Scoring!LateAuthOk(FALSE), "MEDIUM")
        BY <2>3, Fields
      <3>2. At(26, Scoring!Unless(Scoring!LateAuthOk(TRUE), "MEDIUM")) \in FindingsOf
        BY <2>3, InObfuscation, InFindings
      <3>3. ASSUME f.severity = "MEDIUM" PROVE f \in FindingsOf
        <4>1. ~Scoring!LateAuthOk(FALSE)
          BY <1>0, <3>1, <3>3
        <4>2. ~Scoring!LateAuthOk(TRUE)
          BY <2>1, <4>1
        <4> QED
          BY <2>3, <3>2, <4>1, <4>2 DEF Scoring!Unless
      <3> QED
        BY <1>0, <3>1, <3>3
    <2>4. CASE Scoring!Has("spaced") /\
               f = At(27, IF Lured(BatchSecond) /\ ~Scoring!LateAuthOk(FALSE) THEN "HIGH"
                          ELSE Scoring!Unless(~Lured(BatchSecond)
                                              /\ 7 \notin Scoring!Rules(BatchSecond), "MEDIUM"))
      <3> DEFINE quiet(S) == ~Lured(S) /\ 7 \notin Scoring!Rules(S)
                 s == IF Lured(Second) /\ ~Scoring!LateAuthOk(TRUE) THEN "HIGH"
                      ELSE Scoring!Unless(quiet(Second), "MEDIUM")
      <3>1. At(27, s) \in FindingsOf
        BY <2>4, InObfuscation, InFindings
      <3>2. ~(Lured(Second) /\ ~Scoring!LateAuthOk(TRUE))
        BY <3>1, Fields
      <3>3. ~(Lured(BatchSecond) /\ ~Scoring!LateAuthOk(FALSE))
        BY <2>1, <2>2, <3>2
      <3>4. f = At(27, Scoring!Unless(quiet(BatchSecond), "MEDIUM"))
        BY <2>4, <3>3
      <3>5. f.severity = Scoring!Unless(quiet(BatchSecond), "MEDIUM")
        BY <3>4, Fields
      <3>6. ASSUME f.severity = "MEDIUM" PROVE f \in FindingsOf
        <4>1. ~quiet(BatchSecond)
          BY <1>0, <3>5, <3>6
        <4>2. ~quiet(Second)
          BY <2>2, <4>1, LuresOfBatch
        <4>3. s = "MEDIUM"
          BY <3>2, <4>2 DEF Scoring!Unless
        <4> HIDE DEF s
        <4> QED
          BY <3>1, <3>4, <4>1, <4>3 DEF Scoring!Unless
      <3> QED
        BY <1>0, <3>5, <3>6
    <2> QED
      BY <1>4, <2>3, <2>4, InObfuscation
  <1> QED
    BY <1>1, <1>2, <1>3, <1>4, InBatch

\* The batch table, which knows the text and the authentication only, shows no mail as worse than
\* its full analysis does (evaluate_rules without evidence, calculate_hybrid_risk).
THEOREM BatchNeverHarsher == AppSpec => []BatchIsNoHarsher
  <1>1. VerdictInv => BatchIsNoHarsher
    <2> DEFINE rank == [LOW |-> 0, SUSPICIOUS |-> 1, HIGH |-> 2]
    <2> SUFFICES ASSUME VerdictInv, Scoring!Done
                 PROVE  rank[Scoring!BatchRisk] <= rank[risk]
      BY DEF BatchIsNoHarsher, Scoring!BatchIsNoHarsher
    <2>1. /\ findings = FindingsOf /\ ml \in Scoring!Probability
          /\ risk = Scoring!HybridRisk(findings, ml)
      BY DEF VerdictInv, Scoring!Done
    <2>2. Scoring!BatchRisk \in {"LOW", "SUSPICIOUS", "HIGH"}
      BY DEF Scoring!BatchRisk, Scoring!HybridRisk
    <2>3. CASE \E g \in findings : g.severity = "HIGH"
      BY <2>2, <2>3, HighFirst
    <2>4. CASE ~\E g \in findings : g.severity = "HIGH"
      <3>1. \A f \in Scoring!BatchFindings :
               f.severity # "HIGH" /\ (f.severity = "MEDIUM" => f \in findings)
        BY <2>1, <2>4, BatchFindsLess
      <3> DEFINE B == {f \in Scoring!BatchFindings : f.severity = "MEDIUM"}
                 F == {f \in findings : f.severity = "MEDIUM"}
      <3>2. B \subseteq F
        BY <3>1
      <3>3. IsFiniteSet(F)
        BY <2>1, FindingsFinite, FS_Subset
      <3>4. Scoring!Count(Scoring!BatchFindings, "MEDIUM") = Cardinality(B)
            /\ Scoring!Count(findings, "MEDIUM") = Cardinality(F)
        BY DEF Scoring!Count, Scoring!Cardinality, Cardinality
      <3> HIDE DEF B, F
      <3>5. /\ Cardinality(B) \in Nat /\ Cardinality(F) \in Nat
            /\ Cardinality(B) <= Cardinality(F)
        BY <3>2, <3>3, FS_Subset, FS_CardinalityType
      <3>6. Scoring!Count(Scoring!BatchFindings, "HIGH") \in Nat
            /\ ~(Scoring!Count(Scoring!BatchFindings, "HIGH") >= 1)
        BY <3>1, FindingsFinite, Counts
      <3>7. Scoring!Count(findings, "HIGH") \in Nat
            /\ ~(Scoring!Count(findings, "HIGH") >= 1)
        BY <2>1, <2>4, FindingsFinite, Counts
      <3> QED
        BY <2>1, <3>4, <3>5, <3>6, <3>7
        DEF Scoring!BatchRisk, Scoring!HybridRisk, Scoring!Probability
    <2> QED
      BY <2>3, <2>4
  <1> QED
    BY <1>1, VerdictInvariant, PTL

-----------------------------------------------------------------------------
(* The origin of a mail. *)

Found == Origin!Geo \cup {Origin!NoGeo}
Somewhere == Address \cup {Nowhere}
Senders == [identified : BOOLEAN, ip : Somewhere, geo : Found, client : BOOLEAN]
Infras == [ip : Somewhere, geo : Found, signs : SUBSET {"cloud", "vpn", "tor", "botnet", "feed"}]
Cases == [sender : Senders, infra : Infras]

OriginType ==
    /\ named \in [Origin!Place -> Somewhere]
    /\ step \in {"text", "sender", "trace", "file", "show"}
    /\ places \in [Address -> Found]
    /\ DOMAIN entries \subseteq Address
    /\ sender \in Senders /\ infra \in Infras
    /\ stored \in Cases /\ report \in Cases
    /\ crossed \in BOOLEAN

\* The cache holds answers; the report has an entry for every address of the text and the headers,
\* and for the sender's; unless another session's answer replaced one, the cache has the same.
EntriesInv ==
    /\ \A a \in Address : places[a] \in Origin!Answers(a) \cup {Origin!NoGeo}
    /\ \A a \in DOMAIN entries : entries[a] \in Origin!Answers(a)
    /\ step # "text" => Origin!Extracted \subseteq DOMAIN entries
    /\ ~crossed => \A a \in DOMAIN entries : places[a] = entries[a]

\* The sender and the infrastructure are what the evidence says and agree with the entries.
FoundInv ==
    /\ step \notin {"text", "sender"} =>
          /\ sender.identified <=> Origin!Origin # Nowhere
          /\ sender.identified => /\ sender.ip = Origin!Origin /\ sender.ip \in DOMAIN entries
                                  /\ ~crossed => entries[sender.ip] = sender.geo
    /\ step \in {"file", "show"} /\ infra.ip # Nowhere =>
          /\ infra.ip \in DOMAIN entries
          /\ {"vpn", "tor"} \cap infra.signs # {} => infra.geo.network = "VPN / Proxy"
          /\ ~crossed => entries[infra.ip] = infra.geo
    /\ step = "show" =>
          /\ stored.sender = sender /\ stored.infra = infra
          /\ report.infra = infra
          /\ report.sender \in {sender, Origin!Derived(stored)}

OriginInv == OriginType /\ EntriesInv /\ FoundInv

LEMMA AnswersAre ==
  ASSUME NEW a \in Address, NEW g \in Origin!Answers(a)
  PROVE  /\ g \in Origin!Geo /\ g # Origin!NoGeo
         /\ a \in Origin!Public /\ (a \in Tor \/ (a \in Vpn /\ g.as)) => g.network = "VPN / Proxy"
  <1>0. \A as : Origin!NetworkOf(a, as) \in Origin!Network
    BY DEF Origin!NetworkOf, Origin!Network
  <1>1. CASE a \in Private
    <2>1. g = [at |-> "local", as |-> FALSE, network |-> "Unknown"]
      BY <1>1 DEF Origin!Answers
    <2> QED
      BY <1>1, <2>1 DEF Origin!Geo, Origin!NoGeo, Origin!Network, Origin!Public
  <1>2. CASE a \notin Private
    <2>1. PICK p \in {"offline", "live", "UNKNOWN"}, revealed \in BOOLEAN :
             g = [at |-> p, as |-> p = "live",
                  network |-> Origin!NetworkOf(a, p = "live" \/ revealed)]
      BY <1>2 DEF Origin!Answers
    <2>2. g \in Origin!Geo
      BY <1>0, <2>1 DEF Origin!Geo
    <2>3. g.at # "none" /\ (g.as <=> p = "live")
          /\ g.network = Origin!NetworkOf(a, p = "live" \/ revealed)
      BY <2>1
    <2>4. g # Origin!NoGeo
      BY <2>3 DEF Origin!NoGeo
    <2> QED
      BY <2>2, <2>3, <2>4 DEF Origin!NetworkOf
  <1> QED
    BY <1>1, <1>2

\* Looking addresses up keeps what is known and answers for the rest.
LEMMA LookedUp ==
  ASSUME OriginType, EntriesInv, NEW S \in SUBSET Address, NEW found \in Origin!LookUps(S),
         Origin!Remember(found)
  PROVE  /\ places' \in [Address -> Found]
         /\ \A a \in Address : places'[a] \in Origin!Answers(a) \cup {Origin!NoGeo}
         /\ \A a \in Address : places[a] # Origin!NoGeo => places'[a] = places[a]
         /\ DOMAIN found = S
         /\ \A a \in S : found[a] \in Origin!Answers(a) /\ places'[a] = found[a]
  <1>1. DOMAIN found = S /\ \A a \in S : found[a] \in Origin!LookUp(a)
    BY DEF Origin!LookUps
  <1>2. \A a \in S : /\ found[a] \in Origin!Answers(a)
                     /\ places[a] # Origin!NoGeo => found[a] = places[a]
    BY <1>1 DEF EntriesInv, Origin!LookUp
  <1>3. places' = [a \in Address |-> IF a \in S THEN found[a] ELSE places[a]]
    BY <1>1 DEF Origin!Remember
  <1>4. \A a \in Address : places'[a] = IF a \in S THEN found[a] ELSE places[a]
    BY <1>3
  <1>5. \A a \in Address : places'[a] \in Origin!Answers(a) \cup {Origin!NoGeo}
    BY <1>2, <1>4 DEF EntriesInv
  <1>6. \A a \in Address : places'[a] \in Found
    BY <1>5, AnswersAre DEF Found
  <1> QED
    BY <1>1, <1>2, <1>3, <1>4, <1>5, <1>6

LEMMA ExtractedAre == OriginType => Origin!Extracted \in SUBSET Address
  BY DEF OriginType, Origin!Extracted, Somewhere

\* The best evidence: the first place of the hierarchy with a public address.
LEMMA OriginIs ==
  ASSUME OriginType
  PROVE  /\ Origin!Origin \in Somewhere
         /\ Origin!Origin # Nowhere <=> \E p \in Origin!Header : Origin!Usable(p)
         /\ Origin!Origin # Nowhere =>
               \E p \in Origin!Header : Origin!Usable(p) /\ Origin!Origin = named[p]
  <1> DEFINE hits == {i \in DOMAIN Origin!Hierarchy : Origin!Usable(Origin!Hierarchy[i])}
             least(i) == \A j \in hits : i <= j
  <1>1. DOMAIN Origin!Hierarchy = 1 .. 5
    BY DEF Origin!Hierarchy
  <1>2. ASSUME hits # {} PROVE \E i \in hits : least(i)
    <2>1. hits \subseteq 1 .. 5
      BY <1>1
    <2> HIDE DEF hits
    <2>2. CASE 1 \in hits
      BY <2>1, <2>2
    <2>3. CASE 1 \notin hits /\ 2 \in hits
      BY <2>1, <2>3
    <2>4. CASE 1 \notin hits /\ 2 \notin hits /\ 3 \in hits
      BY <2>1, <2>4
    <2>5. CASE 1 \notin hits /\ 2 \notin hits /\ 3 \notin hits /\ 4 \in hits
      BY <2>1, <2>5
    <2>6. CASE 1 \notin hits /\ 2 \notin hits /\ 3 \notin hits /\ 4 \notin hits
      <3>1. \A j \in hits : j = 5
        BY <2>1, <2>6
      <3> QED
        BY <1>2, <3>1
    <2> QED
      BY <2>2, <2>3, <2>4, <2>5, <2>6
  <1>3. hits = {} <=> ~\E p \in Origin!Header : Origin!Usable(p)
    BY DEF Origin!Header
  <1>4. CASE hits = {}
    <2>1. Origin!Origin = Nowhere
      BY <1>4 DEF Origin!Origin
    <2> QED
      BY <1>3, <1>4, <2>1 DEF Somewhere
  <1>5. CASE hits # {}
    <2> DEFINE best == CHOOSE i \in hits : least(i)
    <2>1. best \in hits
      BY <1>2, <1>5
    <2>2. Origin!Origin = named[Origin!Hierarchy[best]]
      BY <1>5 DEF Origin!Origin
    <2>3. Origin!Hierarchy[best] \in Origin!Header /\ Origin!Usable(Origin!Hierarchy[best])
      BY <2>1 DEF Origin!Header
    <2> HIDE DEF best
    <2>4. Origin!Origin \in Address
      BY <2>2, <2>3 DEF Origin!Usable, Origin!Public
    <2> QED
      BY <2>2, <2>3, <2>4, AppAssumption DEF Somewhere
  <1> QED
    BY <1>4, <1>5

LEMMA OriginInit == AppInit => OriginInv
  <1> SUFFICES ASSUME AppInit PROVE OriginInv
    OBVIOUS
  <1>1. Origin!Init
    BY DEF AppInit
  <1>2. Origin!NoGeo \in Found
    BY DEF Found
  <1>3. Origin!Unidentified \in Senders /\ Origin!NoInfra \in Infras
    BY <1>2 DEF Origin!Unidentified, Origin!NoInfra, Senders, Infras, Somewhere
  <1>4. Origin!NoCase \in Cases
    BY <1>3 DEF Origin!NoCase, Cases
  <1>5. DOMAIN entries = {}
    BY <1>1 DEF Origin!Init
  <1>6. OriginType
    BY <1>1, <1>2, <1>3, <1>4, <1>5 DEF Origin!Init, Origin!Naming, OriginType, Somewhere
  <1>7. EntriesInv
    BY <1>1, <1>5 DEF Origin!Init, EntriesInv
  <1>8. FoundInv
    BY <1>1 DEF Origin!Init, FoundInv
  <1> QED
    BY <1>6, <1>7, <1>8 DEF OriginInv

LEMMA GeolocateStep == OriginInv /\ Origin!Geolocate => OriginInv'
  <1> SUFFICES ASSUME OriginInv, Origin!Geolocate PROVE OriginInv'
    OBVIOUS
  <1> USE DEF OriginInv
  <1>1. PICK found \in Origin!LookUps(Origin!Extracted) : entries' = found /\ Origin!Remember(found)
    BY DEF Origin!Geolocate
  <1>2. /\ step = "text" /\ step' = "sender"
        /\ UNCHANGED <<named, sender, infra, stored, report, crossed>>
    BY DEF Origin!Geolocate
  <1>3. Origin!Extracted \in SUBSET Address
    BY ExtractedAre
  <1>4. /\ places' \in [Address -> Found]
        /\ \A a \in Address : places'[a] \in Origin!Answers(a) \cup {Origin!NoGeo}
        /\ DOMAIN found = Origin!Extracted
        /\ \A a \in Origin!Extracted : found[a] \in Origin!Answers(a) /\ places'[a] = found[a]
    BY <1>1, <1>3, LookedUp
  <1>5. Origin!Extracted' = Origin!Extracted
    BY <1>2 DEF Origin!Extracted
  <1>6. OriginType'
    BY <1>1, <1>2, <1>3, <1>4 DEF OriginType
  <1>7. EntriesInv'
    BY <1>1, <1>2, <1>4, <1>5 DEF EntriesInv, Origin!Answers
  <1>8. FoundInv'
    BY <1>2 DEF FoundInv
  <1> QED
    BY <1>6, <1>7, <1>8

LEMMA LocateSenderStep == OriginInv /\ Origin!LocateSender => OriginInv'
  <1> SUFFICES ASSUME OriginInv, Origin!LocateSender PROVE OriginInv'
    OBVIOUS
  <1> USE DEF OriginInv
  <1>1. /\ step = "sender" /\ step' = "trace"
        /\ UNCHANGED <<named, infra, stored, report, crossed>>
    BY DEF Origin!LocateSender
  <1>2. Origin!Extracted' = Origin!Extracted /\ Origin!Origin' = Origin!Origin
    BY <1>1 DEF Origin!Extracted, Origin!Origin, Origin!Usable
  <1>3. \A a : Origin!Answers(a)' = Origin!Answers(a)
    BY DEF Origin!Answers
  <1>4. CASE Origin!Origin = Nowhere
    <2>1. sender' = Origin!Unidentified /\ UNCHANGED <<entries, places>>
      BY <1>4 DEF Origin!LocateSender
    <2>2. Origin!Unidentified \in Senders /\ ~Origin!Unidentified.identified
      BY DEF Origin!Unidentified, Senders, Found, Somewhere
    <2>3. OriginType'
      BY <1>1, <2>1, <2>2 DEF OriginType
    <2>4. EntriesInv'
      BY <1>1, <1>2, <2>1 DEF EntriesInv, Origin!Answers
    <2>5. FoundInv'
      BY <1>1, <1>2, <1>4, <2>1, <2>2 DEF FoundInv
    <2> QED
      BY <2>3, <2>4, <2>5
  <1>5. CASE Origin!Origin # Nowhere
    <2> DEFINE o == Origin!Origin
    <2>1. PICK found \in Origin!LookUps({o}) :
             /\ sender' = [identified |-> TRUE, ip |-> o, geo |-> found[o],
                           client |-> Origin!IsClientIp(o)]
             /\ Origin!Remember(found)
             /\ entries' = [a \in DOMAIN entries \cup {o} |->
                               IF a \in DOMAIN entries THEN entries[a] ELSE found[a]]
      BY <1>5 DEF Origin!LocateSender
    <2>2. o \in Address
      BY <1>5, OriginIs DEF Somewhere
    <2> HIDE DEF o
    <2>3. /\ places' \in [Address -> Found]
          /\ \A a \in Address : places'[a] \in Origin!Answers(a) \cup {Origin!NoGeo}
          /\ \A a \in Address : places[a] # Origin!NoGeo => places'[a] = places[a]
          /\ found[o] \in Origin!Answers(o) /\ places'[o] = found[o]
      BY <2>1, <2>2, LookedUp
    <2>4. /\ DOMAIN entries' = DOMAIN entries \cup {o}
          /\ \A a \in DOMAIN entries : entries'[a] = entries[a]
          /\ o \notin DOMAIN entries => entries'[o] = found[o]
      BY <2>1
    <2>5. sender' \in Senders
      <3>1. found[o] \in Found
        BY <2>2, <2>3, AnswersAre DEF Found
      <3>2. Origin!IsClientIp(o) \in BOOLEAN
        BY DEF Origin!IsClientIp
      <3> QED
        BY <2>1, <2>2, <3>1, <3>2 DEF Senders, Somewhere
    <2>6. sender'.identified /\ sender'.ip = o /\ sender'.geo = found[o]
      BY <2>1
    <2>7. OriginType'
      BY <1>1, <2>2, <2>3, <2>4, <2>5 DEF OriginType
    <2>8. \A a \in DOMAIN entries : entries[a] # Origin!NoGeo
      BY AnswersAre DEF OriginType, EntriesInv
    <2>9. ~crossed => \A a \in DOMAIN entries : places'[a] = entries[a]
      BY <2>3, <2>8 DEF OriginType, EntriesInv
    <2>10. EntriesInv'
      <3>1. ASSUME NEW a \in DOMAIN entries' PROVE entries'[a] \in Origin!Answers(a)
        <4>1. CASE a \in DOMAIN entries
          BY <2>4, <4>1 DEF EntriesInv
        <4>2. CASE a = o /\ o \notin DOMAIN entries
          BY <2>3, <2>4, <4>2
        <4> QED
          BY <2>4, <4>1, <4>2
      <3>2. ASSUME ~crossed, NEW a \in DOMAIN entries' PROVE places'[a] = entries'[a]
        <4>1. CASE a \in DOMAIN entries
          BY <2>4, <2>9, <3>2, <4>1
        <4>2. CASE a = o /\ o \notin DOMAIN entries
          BY <2>3, <2>4, <4>2
        <4> QED
          BY <2>4, <4>1, <4>2
      <3> QED
        BY <1>1, <1>2, <1>3, <2>3, <2>4, <3>1, <3>2 DEF EntriesInv
    <2>11. FoundInv'
      <3>1. ASSUME ~crossed PROVE entries'[o] = found[o]
        <4>1. CASE o \in DOMAIN entries
          BY <2>3, <2>4, <2>9, <3>1, <4>1
        <4>2. CASE o \notin DOMAIN entries
          BY <2>4, <4>2
        <4> QED
          BY <4>1, <4>2
      <3> QED
        BY <1>1, <1>2, <1>5, <2>4, <2>6, <3>1 DEF FoundInv, o
    <2> QED
      BY <2>7, <2>10, <2>11
  <1> QED
    BY <1>4, <1>5

LEMMA TraceStep == OriginInv /\ Origin!Trace => OriginInv'
  <1> SUFFICES ASSUME OriginInv, Origin!Trace PROVE OriginInv'
    OBVIOUS
  <1> USE DEF OriginInv
  <1>1. /\ step = "trace" /\ step' = "file"
        /\ UNCHANGED <<named, entries, sender, stored, report, crossed>>
    BY DEF Origin!Trace
  <1>2. Origin!Extracted' = Origin!Extracted /\ Origin!Origin' = Origin!Origin
    BY <1>1 DEF Origin!Extracted, Origin!Origin, Origin!Usable
  <1>3. \A a : Origin!Answers(a)' = Origin!Answers(a)
    BY DEF Origin!Answers
  <1>4. CASE Origin!Extracted = {}
    <2>1. infra' = Origin!NoInfra /\ UNCHANGED places
      BY <1>4 DEF Origin!Trace
    <2>2. Origin!NoInfra \in Infras /\ Origin!NoInfra.ip = Nowhere
      BY DEF Origin!NoInfra, Infras, Found, Somewhere
    <2>3. OriginType'
      BY <1>1, <2>1, <2>2 DEF OriginType
    <2>4. EntriesInv'
      BY <1>1, <1>2, <1>3, <2>1 DEF EntriesInv
    <2>5. FoundInv'
      BY <1>1, <1>2, <2>1, <2>2 DEF FoundInv
    <2> QED
      BY <2>3, <2>4, <2>5
  <1>5. CASE Origin!Extracted # {}
    <2>1. PICK a \in Origin!Extracted : \E found \in Origin!LookUps({a}) :
             infra' = Origin!Assess(a, found[a]) /\ Origin!Remember(found)
      BY <1>5 DEF Origin!Trace
    <2>14. PICK found \in Origin!LookUps({a}) :
             infra' = Origin!Assess(a, found[a]) /\ Origin!Remember(found)
      BY <2>1
    <2>2. a \in Address
      BY ExtractedAre
    <2>3. a \in DOMAIN entries
      BY <1>1 DEF EntriesInv
    <2>4. /\ places' \in [Address -> Found]
          /\ \A b \in Address : places'[b] \in Origin!Answers(b) \cup {Origin!NoGeo}
          /\ \A b \in Address : places[b] # Origin!NoGeo => places'[b] = places[b]
          /\ found[a] \in Origin!Answers(a) /\ places'[a] = found[a]
      BY <2>14, <2>2, LookedUp
    <2>5. \A b \in DOMAIN entries : entries[b] # Origin!NoGeo
      BY AnswersAre DEF OriginType, EntriesInv
    <2>6. ~crossed => \A b \in DOMAIN entries : places'[b] = entries[b]
      BY <2>4, <2>5 DEF OriginType, EntriesInv
    <2>7. /\ found[a] \in Origin!Geo
          /\ a \in Origin!Public /\ (a \in Tor \/ (a \in Vpn /\ found[a].as))
                => found[a].network = "VPN / Proxy"
      BY <2>2, <2>4, AnswersAre
    <2>8. infra' \in Infras
      <3>1. (IF a \in Origin!Public
             THEN Origin!Hosting(a, found[a]) \cup Origin!Anonymizing(a, found[a])
                  \cup Origin!Abused(a, found[a])
             ELSE {}) \in SUBSET {"cloud", "vpn", "tor", "botnet", "feed"}
        BY DEF Origin!Hosting, Origin!Anonymizing, Origin!Abused
      <3>2. (IF a \in Origin!Public THEN a ELSE Nowhere) \in Somewhere
        BY <2>2 DEF Somewhere
      <3> QED
        BY <2>14, <2>7, <3>1, <3>2 DEF Infras, Found, Origin!Assess
    <2>9. infra'.geo = found[a] /\ infra'.ip = (IF a \in Origin!Public THEN a ELSE Nowhere)
      BY <2>14 DEF Origin!Assess
    <2>10. a \in Origin!Public /\ {"vpn", "tor"} \cap infra'.signs # {}
              => found[a].network = "VPN / Proxy"
      <3> SUFFICES ASSUME a \in Origin!Public, {"vpn", "tor"} \cap infra'.signs # {}
                   PROVE  a \in Tor \/ (a \in Vpn /\ found[a].as)
        BY <2>7
      <3>1. infra'.signs = Origin!Hosting(a, found[a]) \cup Origin!Anonymizing(a, found[a])
                           \cup Origin!Abused(a, found[a])
        BY <2>14 DEF Origin!Assess
      <3>2. Origin!Hosting(a, found[a]) \subseteq {"cloud"}
            /\ Origin!Abused(a, found[a]) \subseteq {"botnet", "feed"}
        BY DEF Origin!Hosting, Origin!Abused
      <3>3. Origin!Anonymizing(a, found[a]) # {}
        BY <3>1, <3>2
      <3> QED
        BY <3>3 DEF Origin!Anonymizing
    <2>11. OriginType'
      BY <1>1, <2>4, <2>8 DEF OriginType
    <2>12. EntriesInv'
      BY <1>1, <1>2, <1>3, <2>4, <2>6 DEF EntriesInv
    <2>13. FoundInv'
      <3>1. ~crossed => entries[a] = found[a]
        BY <2>3, <2>4, <2>6
      <3>2. infra'.ip # Nowhere =>
               /\ infra'.ip = a
               /\ {"vpn", "tor"} \cap infra'.signs # {} => infra'.geo.network = "VPN / Proxy"
        BY <2>9, <2>10
      <3>3. /\ sender.identified <=> Origin!Origin # Nowhere
            /\ sender.identified => /\ sender.ip = Origin!Origin /\ sender.ip \in DOMAIN entries
                                    /\ ~crossed => entries[sender.ip] = sender.geo
        BY <1>1 DEF FoundInv
      <3> QED
        BY <1>1, <1>2, <2>3, <2>9, <3>1, <3>2, <3>3 DEF FoundInv
    <2> QED
      BY <2>11, <2>12, <2>13
  <1> QED
    BY <1>4, <1>5

LEMMA FileStep == OriginInv /\ Origin!File => OriginInv'
  <1> SUFFICES ASSUME OriginInv, Origin!File PROVE OriginInv'
    OBVIOUS
  <1> USE DEF OriginInv
  <1>1. /\ step = "file" /\ step' = "show"
        /\ stored' = [sender |-> sender, infra |-> infra]
        /\ report' = [sender |-> sender, infra |-> infra]
        /\ UNCHANGED <<named, places, entries, sender, infra, crossed>>
    BY DEF Origin!File
  <1>2. Origin!Extracted' = Origin!Extracted /\ Origin!Origin' = Origin!Origin
    BY <1>1 DEF Origin!Extracted, Origin!Origin, Origin!Usable
  <1>3. \A a : Origin!Answers(a)' = Origin!Answers(a)
    BY DEF Origin!Answers
  <1>4. OriginType'
    BY <1>1 DEF OriginType, Cases
  <1>5. EntriesInv'
    BY <1>1, <1>2, <1>3 DEF EntriesInv
  <1>6. FoundInv'
    BY <1>1, <1>2 DEF FoundInv
  <1> QED
    BY <1>4, <1>5, <1>6

\* Deriving the location twice is deriving it once.
LEMMA DerivedIs ==
  ASSUME NEW case \in Cases
  PROVE  /\ Origin!Derived(case) \in Senders
         /\ Origin!Derived(case) = case.sender
            \/ (~case.sender.identified /\ Origin!Derived(case).identified)
         /\ Origin!Derived([case EXCEPT !.sender = Origin!Derived(case)]) = Origin!Derived(case)
  <1> DEFINE d == Origin!Derived(case)
             agent == [identified |-> TRUE, ip |-> case.infra.ip, geo |-> case.infra.geo,
                       client |-> FALSE]
             again == [case EXCEPT !.sender = d]
  <1>1. case.sender \in Senders /\ case.infra \in Infras
    BY DEF Cases
  <1>2. agent \in Senders /\ agent.identified
    BY <1>1 DEF Senders, Infras
  <1>3. d = IF case.sender.identified \/ case.infra.ip = Nowhere THEN case.sender ELSE agent
    BY DEF Origin!Derived
  <1> HIDE DEF agent, d
  <1>4. d \in Senders
    BY <1>1, <1>2, <1>3
  <1>5. d = case.sender \/ (~case.sender.identified /\ d.identified)
    BY <1>2, <1>3
  <1>6. again.sender = d /\ again.infra = case.infra
    BY DEF Cases
  <1>7. Origin!Derived(again) = IF d.identified \/ case.infra.ip = Nowhere THEN d
                                ELSE [identified |-> TRUE, ip |-> case.infra.ip,
                                      geo |-> case.infra.geo, client |-> FALSE]
    BY <1>6 DEF Origin!Derived
  <1>8. d.identified \/ case.infra.ip = Nowhere
    BY <1>2, <1>3
  <1>9. Origin!Derived(again) = d
    BY <1>7, <1>8
  <1> QED
    BY <1>4, <1>5, <1>9 DEF d

\* A page or a case with this mail's infrastructure and its sender, derived or not, derives the same.
LEMMA SameDerived ==
  ASSUME OriginInv, step = "show"
  PROVE  Origin!Derived(report) = Origin!Derived(stored)
  <1> DEFINE d == Origin!Derived(stored)
  <1>1. stored.sender = sender /\ stored.infra = infra /\ report.infra = infra
        /\ report.sender \in {sender, d}
    BY DEF OriginInv, FoundInv
  <1>2. CASE report.sender = sender
    BY <1>1, <1>2 DEF Origin!Derived
  <1>3. CASE report.sender = d
    <2> DEFINE again == [stored EXCEPT !.sender = d]
    <2>1. stored \in Cases
      BY DEF OriginInv, OriginType
    <2>2. again.sender = d /\ again.infra = infra
      BY <1>1, <2>1 DEF Cases
    <2>3. Origin!Derived(again) = d
      BY <2>1, DerivedIs
    <2> HIDE DEF again, d
    <2>4. Origin!Derived(report) = Origin!Derived(again)
      BY <1>1, <1>3, <2>2 DEF Origin!Derived
    <2> QED
      BY <2>3, <2>4 DEF d
  <1> QED
    BY <1>1, <1>2, <1>3

LEMMA ShowStep == OriginInv /\ Origin!Show => OriginInv'
  <1> SUFFICES ASSUME OriginInv, Origin!Show PROVE OriginInv'
    OBVIOUS
  <1> USE DEF OriginInv
  <1> DEFINE d == Origin!Derived(report)
  <1>1. /\ step = "show" /\ report' = [report EXCEPT !.sender = d]
        /\ UNCHANGED <<named, step, places, entries, sender, infra, stored, crossed>>
    BY DEF Origin!Show
  <1>2. d = Origin!Derived(stored) /\ report \in Cases
    BY <1>1, SameDerived DEF OriginType
  <1>3. d \in Senders
    BY <1>2, DerivedIs
  <1>4. Origin!Derived(stored)' = Origin!Derived(stored)
    BY <1>1 DEF Origin!Derived
  <1> HIDE DEF d
  <1>5. report' \in Cases /\ report'.sender = d /\ report'.infra = report.infra
    BY <1>1, <1>2, <1>3 DEF Cases
  <1>6. Origin!Extracted' = Origin!Extracted /\ Origin!Origin' = Origin!Origin
    BY <1>1 DEF Origin!Extracted, Origin!Origin, Origin!Usable
  <1>7. \A a : Origin!Answers(a)' = Origin!Answers(a)
    BY DEF Origin!Answers
  <1>8. OriginType'
    BY <1>1, <1>5 DEF OriginType
  <1>9. EntriesInv'
    BY <1>1, <1>6, <1>7 DEF EntriesInv
  <1>10. FoundInv'
    BY <1>1, <1>2, <1>4, <1>5, <1>6 DEF FoundInv
  <1> QED
    BY <1>8, <1>9, <1>10

\* Another session's answer is a first one, which no entry of this session rests on, or it is
\* recorded as having crossed.
LEMMA OtherLookUpStep ==
  ASSUME OriginInv, NEW a \in Address, Origin!OtherLookUp(a)
  PROVE  OriginInv'
  <1> USE DEF OriginInv
  <1>1. /\ ~crossed /\ crossed' = (places[a] # Origin!NoGeo)
        /\ UNCHANGED <<named, step, entries, sender, infra, stored, report>>
    BY DEF Origin!OtherLookUp
  <1>2. PICK geo \in Origin!Answers(a) : places' = [places EXCEPT ![a] = geo]
    BY DEF Origin!OtherLookUp
  <1>3. Origin!Extracted' = Origin!Extracted /\ Origin!Origin' = Origin!Origin
        /\ Origin!Derived(stored)' = Origin!Derived(stored)
    BY <1>1 DEF Origin!Extracted, Origin!Origin, Origin!Usable, Origin!Derived
  <1>4. \A b : Origin!Answers(b)' = Origin!Answers(b)
    BY DEF Origin!Answers
  <1>5. geo \in Found
    BY AnswersAre DEF Found
  <1>6. places' \in [Address -> Found] /\ places'[a] = geo
        /\ \A b \in Address : b # a => places'[b] = places[b]
    BY <1>2, <1>5 DEF OriginType
  <1>7. OriginType'
    BY <1>1, <1>6 DEF OriginType
  <1>8. EntriesInv'
    <2>1. ~crossed' => a \notin DOMAIN entries
      BY <1>1, AnswersAre DEF EntriesInv
    <2>2. ~crossed' => \A b \in DOMAIN entries : places'[b] = entries[b]
      BY <1>1, <1>6, <2>1 DEF EntriesInv, OriginType
    <2>3. \A b \in Address : places'[b] \in Origin!Answers(b) \cup {Origin!NoGeo}
      BY <1>6 DEF EntriesInv
    <2> QED
      BY <1>1, <1>3, <1>4, <2>2, <2>3 DEF EntriesInv
  <1>9. FoundInv'
    BY <1>1, <1>3 DEF FoundInv
  <1> QED
    BY <1>7, <1>8, <1>9

LEMMA OriginInvariant == AppSpec => []OriginInv
  <1>1. AppInit => OriginInv
    BY OriginInit
  <1>2. OriginInv /\ [AppNext]_appVars => OriginInv'
    <2> SUFFICES ASSUME OriginInv, [AppNext]_appVars PROVE OriginInv'
      OBVIOUS
    <2>1. ASSUME NEW p \in Origin!Place, named[p] # Nowhere, Origin!OtherLookUp(named[p])
          PROVE  OriginInv'
      <3>1. named[p] \in Address
        BY <2>1 DEF OriginInv, OriginType, Somewhere
      <3> QED
        BY <2>1, <3>1, OtherLookUpStep
    <2>2. CASE Origin!Next
      BY <2>1, <2>2, GeolocateStep, LocateSenderStep, TraceStep, FileStep, ShowStep
      DEF Origin!Next
    <2>3. CASE UNCHANGED originVars
      <3>1. Origin!Extracted' = Origin!Extracted /\ Origin!Origin' = Origin!Origin
            /\ Origin!Derived(stored)' = Origin!Derived(stored)
        BY <2>3 DEF originVars, Origin!Extracted, Origin!Origin, Origin!Usable, Origin!Derived
      <3>2. \A a : Origin!Answers(a)' = Origin!Answers(a)
        BY DEF Origin!Answers
      <3>3. OriginType'
        BY <2>3 DEF originVars, OriginInv, OriginType
      <3>4. EntriesInv'
        BY <2>3, <3>1, <3>2 DEF originVars, OriginInv, EntriesInv
      <3>5. FoundInv'
        BY <2>3, <3>1 DEF originVars, OriginInv, FoundInv
      <3> QED
        BY <3>3, <3>4, <3>5 DEF OriginInv
    <2> QED
      BY <2>2, <2>3, AppStep
  <1> QED
    BY <1>1, <1>2, PTL DEF AppSpec

\* An address in the text of a mail is shown as its sender's only if no header names a public one,
\* whatever the agent traced (extract_originating_sender_telemetry, derive_authoritative_location).
THEOREM HeadersAlwaysOutrankText == AppSpec => []HeadersOutrankText
  <1>1. OriginInv => HeadersOutrankText
    <2> SUFFICES ASSUME OriginInv, step = "show", \E p \in Origin!Header : Origin!Usable(p)
                 PROVE  \E p \in Origin!Header :
                           Origin!Usable(p) /\ Origin!Derived(stored).ip = named[p]
      BY DEF HeadersOutrankText, Origin!HeadersOutrankText
    <2>1. /\ Origin!Origin # Nowhere
          /\ \E p \in Origin!Header : Origin!Usable(p) /\ Origin!Origin = named[p]
      BY OriginIs DEF OriginInv
    <2>2. stored.sender = sender /\ sender.identified /\ sender.ip = Origin!Origin
      BY <2>1 DEF OriginInv, FoundInv
    <2>3. Origin!Derived(stored) = sender
      BY <2>2 DEF Origin!Derived
    <2> QED
      BY <2>1, <2>2, <2>3
  <1> QED
    BY <1>1, OriginInvariant, PTL

\* One story of one mail: the page shows what the evidence manifest records, and unless another
\* session's answer came between, GeoIP entries, sender and infrastructure agree, and so do the
\* two detectors of VPN and Tor addresses (get_geolocation, assess_infrastructure,
\* derive_authoritative_location, build_evidence_manifest).
THEOREM AlwaysOneStory == AppSpec => []OneStory
  <1>1. OriginInv => OneStory
    <2> SUFFICES ASSUME OriginInv, step = "show"
                 PROVE  /\ Origin!Shown = Origin!Manifest
                        /\ ~crossed =>
                             /\ sender.identified => entries[sender.ip] = sender.geo
                             /\ infra.ip # Nowhere =>
                                  /\ entries[infra.ip] = infra.geo
                                  /\ {"vpn", "tor"} \cap infra.signs # {} =>
                                        infra.geo.network = "VPN / Proxy"
      BY DEF OneStory, Origin!OneStory
    <2>1. Origin!Shown = Origin!Manifest
      BY SameDerived DEF Origin!Shown, Origin!Manifest
    <2> QED
      BY <2>1 DEF OriginInv, FoundInv
  <1> QED
    BY <1>1, OriginInvariant, PTL

-----------------------------------------------------------------------------
(* The analysis page. *)

\* Counted from the largest, the elements of a finite set of numbers have the places 1, 2, ...
LEMMA Ranked ==
  ASSUME NEW S, S \subseteq Nat, IsFiniteSet(S)
  PROVE  \A i \in 1 .. Cardinality(S) : \E c \in S : Cardinality({d \in S : c <= d}) = i
  <1> DEFINE n == Cardinality(S)
             above(c) == {d \in S : c <= d}
             r == [c \in S |-> Cardinality(above(c))]
  <1>1. n \in Nat
    BY FS_CardinalityType
  <1>2. ASSUME NEW c \in S
        PROVE  IsFiniteSet(above(c)) /\ Cardinality(above(c)) \in 1 .. n
    <2>1. above(c) \in SUBSET S /\ c \in above(c)
      OBVIOUS
    <2> HIDE DEF above
    <2>2. IsFiniteSet(above(c)) /\ Cardinality(above(c)) <= n
      BY <2>1, FS_Subset
    <2>3. Cardinality(above(c)) \in Nat /\ Cardinality(above(c)) # 0
      BY <2>1, <2>2, FS_CardinalityType, FS_EmptySet
    <2> QED
      BY <1>1, <2>2, <2>3
  <1>3. ASSUME NEW c \in S, NEW e \in S, c < e
        PROVE  Cardinality(above(e)) < Cardinality(above(c))
    <2>4. c \in Nat /\ e \in Nat /\ \A d \in S : d \in Nat
      OBVIOUS
    <2>1. above(e) \in SUBSET above(c) /\ c \in above(c) /\ c \notin above(e)
      <3>1. \A d \in S : e <= d => c <= d
        BY <1>3, <2>4
      <3>2. c <= c /\ ~(e <= c)
        BY <1>3, <2>4
      <3> QED
        BY <3>1, <3>2
    <2>2. IsFiniteSet(above(c)) /\ Cardinality(above(c)) \in 1 .. n
          /\ Cardinality(above(e)) \in 1 .. n
      BY <1>2
    <2> HIDE DEF above
    <2>3. Cardinality(above(e)) <= Cardinality(above(c))
          /\ (Cardinality(above(c)) = Cardinality(above(e)) => above(c) = above(e))
      BY <2>1, <2>2, FS_Subset
    <2> QED
      BY <1>1, <2>1, <2>2, <2>3
  <1>4. r \in Injection(S, 1 .. n)
    <2>1. r \in [S -> 1 .. n]
      BY <1>2
    <2>2. ASSUME NEW c \in S, NEW e \in S, r[c] = r[e] PROVE c = e
      <3> HIDE DEF above
      <3>1. Cardinality(above(c)) = Cardinality(above(e)) /\ Cardinality(above(c)) \in Nat
        BY <1>1, <1>2, <2>2
      <3>2. ~(c < e) /\ ~(e < c)
        BY <1>3, <3>1
      <3> QED
        BY <3>2
    <2> QED
      BY <2>1, <2>2 DEF Injection, IsInjective
  <1>5. IsFiniteSet(1 .. n) /\ Cardinality(1 .. n) = n
    BY <1>1, FS_Interval
  <1>6. r \in Surjection(S, 1 .. n)
    BY <1>4, <1>5, FS_Injection
  <1> QED
    BY <1>6 DEF Surjection

OwnedBy(cs, u) == {c \in 1 .. Len(cs) : cs[c].owner = u}

LEMMA OwnIs == \A u : Page!Own(u) = OwnedBy(cases, u)
  BY DEF Page!Own, OwnedBy

\* The list holds the user's cases, no more than there are.
LEMMA ListedAre ==
  ASSUME Len(cases) \in Nat, page.limit \in Limits
  PROVE  /\ \E n \in 0 .. Len(cases) : DOMAIN Page!Listed = 1 .. n /\ Len(Page!Listed) = n
         /\ \A i \in DOMAIN Page!Listed : Page!Listed[i] \in OwnedBy(cases, page.user)
  <1> DEFINE own == Page!Own(page.user)
             n == Cardinality(own)
             place(c) == Cardinality({d \in own : c <= d})
             listed == {j \in 1 .. n : j <= page.limit}
  <1>1. own \subseteq 1 .. Len(cases) /\ own \subseteq Nat
    BY DEF Page!Own
  <1>2. IsFiniteSet(1 .. Len(cases)) /\ Cardinality(1 .. Len(cases)) = Len(cases)
    BY FS_Interval, SMTT(40)
  <1>3. IsFiniteSet(own) /\ n \in Nat /\ n <= Len(cases)
    BY <1>1, <1>2, FS_Subset, FS_CardinalityType
  <1>4. page.limit \in Nat
    BY AppAssumption
  <1>5. Page!Listed = [i \in listed |-> CHOOSE c \in own : place(c) = i]
    BY DEF Page!Listed, Page!Recency, Page!Cardinality, Cardinality
  <1>6. \A i \in 1 .. n : \E c \in own : place(c) = i
    BY <1>1, <1>3, Ranked
  <1>7. \E k \in 0 .. Len(cases) : listed = 1 .. k
    <2> HIDE DEF n
    <2>1. CASE n <= page.limit
      BY <1>3, <1>4, <2>1
    <2>2. CASE page.limit <= n
      BY <1>3, <1>4, <2>2
    <2> QED
      BY <1>3, <1>4, <2>1, <2>2
  <1> HIDE DEF place, own, n
  <1>8. ASSUME NEW i \in listed PROVE Page!Listed[i] \in own
    BY <1>5, <1>6
  <1>9. DOMAIN Page!Listed = listed
    BY <1>5
  <1>10. \A k \in Nat : listed = 1 .. k => Len(Page!Listed) = k
    BY <1>5
  <1> QED
    BY <1>7, <1>8, <1>9, <1>10, OwnIs DEF own

Filings == [owner : User, of : Page!Bytes]
Caches == [of : Page!Bytes, case : 0 .. MaxCases]
Sessions == [user : User \cup {None}, bytes : Page!Bytes \cup {None}, cache : Caches \cup {None},
             uid : Nat, idx : 0 .. MaxCases, badge : [1 .. MaxCases -> Email \cup {None}],
             inv : Nat, limit : Limits]

ConsoleType ==
    /\ cases \in Seq(Filings) /\ Len(cases) <= MaxCases
    /\ page \in Sessions
    /\ filed \in Nat

\* Every case a session holds is its user's; what it has analysed is what it has loaded, filed
\* under a case of these bytes unless the store refused it.
OwnHeld(o, cs) ==
    /\ o.uid \in {0} \cup OwnedBy(cs, o.user)
    /\ o.inv \in {0} \cup OwnedBy(cs, o.user)
    /\ \A c \in 1 .. MaxCases : o.badge[c] # None => c \in OwnedBy(cs, o.user)
    /\ o.bytes # None => o.bytes[2] \in {0} \cup OwnedBy(cs, o.user)
    /\ o.cache # None =>
          /\ o.bytes # None /\ o.cache.of = o.bytes
          /\ o.cache.case # 0 => /\ o.cache.case \in 1 .. Len(cs)
                                 /\ cs[o.cache.case] = [owner |-> o.user, of |-> o.bytes]

\* A list on the screen shows the user's cases and has the selected mail at its place.
OwnShown(sh, o, cs) ==
    sh = Page!NoList \/ (/\ sh.at \in DOMAIN sh.list /\ sh.list[sh.at] = o.uid
                         /\ \A i \in DOMAIN sh.list : sh.list[i] \in OwnedBy(cs, o.user))

\* An email not analysed yet has filed nothing.
FiledOnce(o, n) == n <= 1 /\ (o.bytes # None /\ o.cache = None => n = 0)

ConsoleInv ==
    ConsoleType /\ OwnHeld(page, cases) /\ OwnShown(shown, page, cases) /\ FiledOnce(page, filed)

\* Nobody owns nothing, so a session nobody is signed in to holds no case.
LEMMA NobodyOwns == ConsoleType => OwnedBy(cases, None) = {}
  <1> SUFFICES ASSUME ConsoleType, NEW c \in 1 .. Len(cases) PROVE cases[c].owner # None
    BY DEF OwnedBy
  <1>1. cases[c] \in Filings
    BY DEF ConsoleType
  <1> QED
    BY <1>1, AppAssumption DEF Filings

\* A new case changes nothing of the others.
LEMMA OneMore ==
  ASSUME ConsoleType, NEW r \in Filings, cases' = Append(cases, r), Len(cases) < MaxCases
  PROVE  /\ cases' \in Seq(Filings) /\ Len(cases') = Len(cases) + 1 /\ Len(cases') <= MaxCases
         /\ cases'[Len(cases) + 1] = r
         /\ \A c \in 1 .. Len(cases) : c \in 1 .. Len(cases') /\ cases'[c] = cases[c]
         /\ \A u : OwnedBy(cases, u) \subseteq OwnedBy(cases', u)
  <1>0. cases \in Seq(Filings) /\ Len(cases) \in Nat
    BY DEF ConsoleType
  <1>1. cases' \in Seq(Filings) /\ Len(cases') = Len(cases) + 1
    BY <1>0
  <1>2. cases'[Len(cases) + 1] = r
    BY <1>0
  <1>3. \A c \in 1 .. Len(cases) : c \in 1 .. Len(cases') /\ cases'[c] = cases[c]
    BY <1>0, <1>1
  <1>4. \A u : OwnedBy(cases, u) \subseteq OwnedBy(cases', u)
    BY <1>3 DEF OwnedBy
  <1>5. Len(cases') <= MaxCases
    BY <1>0, <1>1, AppAssumption
  <1> QED
    BY <1>1, <1>2, <1>3, <1>4, <1>5

LEMMA ConsoleInit == Page!Init => ConsoleInv
  <1> SUFFICES ASSUME Page!Init PROVE ConsoleInv
    OBVIOUS
  <1>1. cases = <<>> /\ page = Page!Fresh /\ shown = Page!NoList /\ filed = 0
    BY DEF Page!Init
  <1>2. Page!DefaultLimit \in Limits
    BY AppAssumption DEF Page!DefaultLimit
  <1>3. Page!Fresh \in Sessions
    BY <1>2, AppAssumption DEF Page!Fresh, Sessions
  <1>4. ConsoleType
    BY <1>1, <1>3, AppAssumption DEF ConsoleType
  <1>5. OwnHeld(page, cases) /\ OwnShown(shown, page, cases) /\ FiledOnce(page, filed)
    BY <1>1 DEF OwnHeld, OwnShown, FiledOnce, Page!Fresh
  <1> QED
    BY <1>4, <1>5 DEF ConsoleInv

LEMMA WorkerFilesStep ==
  ASSUME ConsoleInv, NEW u \in User, NEW e \in Email, Page!WorkerFiles(u, e)
  PROVE  ConsoleInv'
  <1> DEFINE r == [owner |-> u, of |-> <<e, 0>>]
  <1>1. /\ Len(cases) < MaxCases /\ cases' = Append(cases, r)
        /\ UNCHANGED <<page, shown, filed>>
    BY DEF Page!WorkerFiles
  <1>2. r \in Filings
    BY AppAssumption DEF Filings, Page!Bytes
  <1> HIDE DEF r
  <1>3. /\ cases' \in Seq(Filings) /\ Len(cases') <= MaxCases
        /\ \A c \in 1 .. Len(cases) : c \in 1 .. Len(cases') /\ cases'[c] = cases[c]
        /\ \A v : OwnedBy(cases, v) \subseteq OwnedBy(cases', v)
    BY <1>1, <1>2, OneMore DEF ConsoleInv
  <1>4. ConsoleType'
    BY <1>1, <1>3 DEF ConsoleInv, ConsoleType
  <1>5. OwnHeld(page, cases')
    BY <1>3 DEF ConsoleInv, OwnHeld
  <1>6. OwnShown(shown, page, cases')
    BY <1>3 DEF ConsoleInv, OwnShown
  <1> QED
    BY <1>1, <1>4, <1>5, <1>6 DEF ConsoleInv

\* A step of the session that files nothing.
LEMMA SessionStep ==
  ASSUME ConsoleInv, cases' = cases, NEW o \in Sessions, page' = o, OwnHeld(o, cases),
         OwnShown(shown', o, cases), filed' \in Nat, FiledOnce(o, filed')
  PROVE  ConsoleInv'
  BY DEF ConsoleInv, ConsoleType

LEMMA SignInStep ==
  ASSUME ConsoleInv, NEW u \in User, Page!SignIn(u)
  PROVE  ConsoleInv'
  <1> DEFINE o == [page EXCEPT !.user = u]
  <1>1. /\ page.user = None /\ page' = o /\ shown' = Page!NoList
        /\ UNCHANGED <<cases, filed>>
    BY DEF Page!SignIn
  <1>2. page \in Sessions /\ filed \in Nat
    BY DEF ConsoleInv, ConsoleType
  <1>3. o \in Sessions
    BY <1>2 DEF Sessions
  <1>4. /\ o.user = u /\ o.uid = page.uid /\ o.inv = page.inv /\ o.badge = page.badge
        /\ o.bytes = page.bytes /\ o.cache = page.cache
    BY <1>2 DEF Sessions
  <1> HIDE DEF o
  <1>5. OwnedBy(cases, page.user) = {}
    BY <1>1, NobodyOwns DEF ConsoleInv
  <1>6. page.cache # None /\ page.cache.case \in 1 .. Len(cases) =>
           cases[page.cache.case] # [owner |-> page.user, of |-> page.bytes]
    BY <1>5 DEF OwnedBy
  <1>7. OwnHeld(o, cases)
    BY <1>4, <1>5, <1>6 DEF ConsoleInv, OwnHeld
  <1>8. OwnShown(shown', o, cases) /\ FiledOnce(o, filed)
    BY <1>1, <1>4 DEF ConsoleInv, OwnShown, FiledOnce
  <1> QED
    BY <1>1, <1>2, <1>3, <1>7, <1>8, SessionStep

LEMMA SignOutStep == ConsoleInv /\ Page!SignOut => ConsoleInv'
  <1> SUFFICES ASSUME ConsoleInv, Page!SignOut PROVE ConsoleInv'
    OBVIOUS
  <1>1. page' = Page!Fresh /\ shown' = Page!NoList /\ UNCHANGED <<cases, filed>>
    BY DEF Page!SignOut
  <1>2. Page!DefaultLimit \in Limits
    BY AppAssumption DEF Page!DefaultLimit
  <1>3. Page!Fresh \in Sessions
    BY <1>2, AppAssumption DEF Page!Fresh, Sessions
  <1>4. OwnHeld(Page!Fresh, cases) /\ OwnShown(shown', Page!Fresh, cases)
        /\ FiledOnce(Page!Fresh, filed)
    BY <1>1 DEF OwnHeld, OwnShown, FiledOnce, Page!Fresh, ConsoleInv
  <1> QED
    BY <1>1, <1>3, <1>4, SessionStep DEF ConsoleInv, ConsoleType

\* Loading an email of the user's, or none, into a session of his.
LEMMA LoadStep ==
  ASSUME ConsoleInv, NEW s \in Sessions, s.user = page.user, OwnHeld(s, cases),
         NEW b \in Page!Bytes \cup {None},
         b # None => b[2] \in {0} \cup OwnedBy(cases, page.user), Page!Load(s, b)
  PROVE  ConsoleInv'
  <1> DEFINE o == [s EXCEPT !.bytes = b, !.cache = None]
  <1>1. page' = o /\ shown' = Page!NoList /\ filed' = 0 /\ UNCHANGED cases
    BY DEF Page!Load
  <1>2. o \in Sessions
    BY DEF Sessions
  <1>3. /\ o.user = s.user /\ o.uid = s.uid /\ o.inv = s.inv /\ o.badge = s.badge
        /\ o.bytes = b /\ o.cache = None
    BY DEF Sessions
  <1> HIDE DEF o
  <1>4. OwnHeld(o, cases)
    BY <1>3 DEF OwnHeld
  <1>5. OwnShown(shown', o, cases) /\ FiledOnce(o, filed') /\ filed' \in Nat
    BY <1>1 DEF OwnShown, FiledOnce
  <1> QED
    BY <1>1, <1>2, <1>4, <1>5, SessionStep

\* The badge of the selected mail.
LEMMA StampedIs ==
  ASSUME NEW cs, Len(cs) \in Nat, Len(cs) <= MaxCases,
         NEW s \in Sessions, OwnHeld(s, cs), s.bytes # None
  PROVE  /\ Page!Stamped(s) \in Sessions
         /\ Page!Stamped(s).user = s.user /\ Page!Stamped(s).bytes = s.bytes
         /\ Page!Stamped(s).cache = s.cache
         /\ OwnHeld(Page!Stamped(s), cs)
  <1> DEFINE o == Page!Stamped(s)
             g == [s.badge EXCEPT ![s.uid] = s.bytes[1]]
  <1>1. CASE s.uid = 0
    BY <1>1 DEF Page!Stamped
  <1>2. CASE s.uid # 0
    <2>1. s.uid \in OwnedBy(cs, s.user) /\ s.uid \in 1 .. MaxCases
      BY <1>2, AppAssumption DEF OwnHeld, OwnedBy
    <2>2. s.badge \in [1 .. MaxCases -> Email \cup {None}] /\ s.bytes[1] \in Email
      BY DEF Sessions, Page!Bytes
    <2>3. /\ g \in [1 .. MaxCases -> Email \cup {None}]
          /\ \A c \in 1 .. MaxCases : c # s.uid => g[c] = s.badge[c]
      BY <2>1, <2>2
    <2>4. o = [s EXCEPT !.badge = g]
      BY <1>2 DEF Page!Stamped
    <2> HIDE DEF g, o
    <2>5. o \in Sessions
      BY <2>3, <2>4 DEF Sessions
    <2>6. /\ o.user = s.user /\ o.uid = s.uid /\ o.inv = s.inv /\ o.badge = g
          /\ o.bytes = s.bytes /\ o.cache = s.cache
      BY <2>4 DEF Sessions
    <2>7. OwnHeld(o, cs)
      BY <2>1, <2>3, <2>6 DEF OwnHeld
    <2> QED
      BY <2>5, <2>6, <2>7 DEF o
  <1> QED
    BY <1>1, <1>2

LEMMA ShowCachedStep == ConsoleInv /\ Page!ShowCached => ConsoleInv'
  <1> SUFFICES ASSUME ConsoleInv, Page!ShowCached PROVE ConsoleInv'
    OBVIOUS
  <1>1. /\ page.bytes # None /\ page' = Page!Stamped(page) /\ shown' = Page!NoList
        /\ UNCHANGED <<cases, filed>>
    BY DEF Page!ShowCached
  <1> DEFINE o == Page!Stamped(page)
  <1>2. /\ o \in Sessions /\ o.bytes = page.bytes /\ o.cache = page.cache
        /\ OwnHeld(o, cases)
    BY <1>1, StampedIs DEF ConsoleInv, ConsoleType
  <1> HIDE DEF o
  <1>3. OwnShown(shown', o, cases) /\ FiledOnce(o, filed')
    BY <1>1, <1>2 DEF ConsoleInv, OwnShown, FiledOnce
  <1>4. page' = o /\ filed' \in Nat
    BY <1>1 DEF ConsoleInv, ConsoleType, o
  <1> QED
    BY <1>1, <1>2, <1>3, <1>4, SessionStep

LEMMA AnalyseStep == ConsoleInv /\ Page!Analyse => ConsoleInv'
  <1> SUFFICES ASSUME ConsoleInv, Page!Analyse PROVE ConsoleInv'
    OBVIOUS
  <1> DEFINE new == Len(cases) + 1
             filing == page.user # None
             a == [of |-> page.bytes, case |-> IF filing THEN new ELSE 0]
             s == [page EXCEPT !.cache = a]
             r == [owner |-> page.user, of |-> page.bytes]
  <1>0. /\ cases \in Seq(Filings) /\ Len(cases) \in Nat /\ Len(cases) <= MaxCases
        /\ page \in Sessions /\ filed \in Nat
    BY DEF ConsoleInv, ConsoleType
  <1>1. /\ page.bytes # None /\ ~Page!Hit /\ (filing => new <= MaxCases)
        /\ cases' = IF filing THEN Append(cases, r) ELSE cases
        /\ page' = Page!Stamped(s) /\ shown' = Page!NoList
        /\ filed' = IF filing THEN filed + 1 ELSE filed
    BY DEF Page!Analyse
  <1>2. page.cache = None /\ filed = 0
    BY <1>1 DEF ConsoleInv, OwnHeld, FiledOnce, Page!Hit
  <1>3. page.bytes \in Page!Bytes /\ page.user \in User \cup {None}
    BY <1>0, <1>1 DEF Sessions
  <1>4. a \in Caches /\ a # None
    BY <1>0, <1>1, <1>3, AppAssumption DEF Caches
  <1>5. a.of = page.bytes /\ a.case = IF filing THEN new ELSE 0
    OBVIOUS
  <1> HIDE DEF a
  <1>6. s \in Sessions
    BY <1>0, <1>4 DEF Sessions
  <1>7. /\ s.user = page.user /\ s.uid = page.uid /\ s.inv = page.inv /\ s.badge = page.badge
        /\ s.bytes = page.bytes /\ s.cache = a
    BY <1>0 DEF Sessions
  <1> HIDE DEF s
  <1>8. /\ cases' \in Seq(Filings) /\ Len(cases') \in Nat /\ Len(cases') <= MaxCases
        /\ OwnHeld(s, cases')
    <2>1. CASE filing
      <3>1. r \in Filings
        BY <1>3, <2>1 DEF Filings
      <3>2. Len(cases) < MaxCases /\ cases' = Append(cases, r)
        BY <1>0, <1>1, <2>1, AppAssumption
      <3> HIDE DEF r
      <3>3. /\ cases' \in Seq(Filings) /\ Len(cases') = new /\ Len(cases') <= MaxCases
            /\ cases'[new] = r
            /\ \A v : OwnedBy(cases, v) \subseteq OwnedBy(cases', v)
        BY <3>1, <3>2, OneMore DEF ConsoleInv
      <3>4. a.case \in 1 .. Len(cases') /\ cases'[a.case] = r
        BY <1>0, <1>5, <2>1, <3>3
      <3>5. OwnHeld(s, cases')
        BY <1>1, <1>4, <1>5, <1>7, <3>3, <3>4 DEF ConsoleInv, OwnHeld, r
      <3> QED
        BY <1>0, <3>3, <3>5
    <2>2. CASE ~filing
      <3>1. cases' = cases /\ a.case = 0
        BY <1>1, <1>5, <2>2
      <3>2. OwnHeld(s, cases)
        BY <1>1, <1>4, <1>5, <1>7, <3>1 DEF ConsoleInv, OwnHeld
      <3> QED
        BY <1>0, <3>1, <3>2
    <2> QED
      BY <2>1, <2>2
  <1> DEFINE o == Page!Stamped(s)
  <1>9. o \in Sessions /\ o.bytes = page.bytes /\ o.cache = a /\ OwnHeld(o, cases')
    BY <1>1, <1>6, <1>7, <1>8, StampedIs
  <1> HIDE DEF o
  <1>10. page' = o
    BY <1>1 DEF o
  <1>11. filed' \in Nat /\ FiledOnce(o, filed') /\ OwnShown(shown', o, cases')
    BY <1>1, <1>2, <1>4, <1>9 DEF FiledOnce, OwnShown
  <1>12. ConsoleType'
    BY <1>8, <1>9, <1>10, <1>11 DEF ConsoleType
  <1> QED
    BY <1>9, <1>10, <1>11, <1>12 DEF ConsoleInv

\* Where the list has the selected mail, and what choosing a place does.
LEMMA Selects ==
  ASSUME ConsoleInv, NEW i \in DOMAIN Page!Listed
  PROVE  LET s == Page!Selecting(i)
         IN  /\ s \in Sessions /\ s.user = page.user /\ OwnHeld(s, cases)
             /\ s.uid = Page!Listed[i] /\ s.bytes = page.bytes /\ s.cache = page.cache
  <1> DEFINE s == Page!Selecting(i)
             c == Page!Listed[i]
  <1>1. page \in Sessions /\ Len(cases) \in Nat /\ Len(cases) <= MaxCases /\ page.limit \in Limits
    BY DEF ConsoleInv, ConsoleType, Sessions
  <1>2. c \in OwnedBy(cases, page.user)
    BY <1>1, ListedAre
  <1>3. i \in 0 .. MaxCases
    <2>1. PICK n \in 0 .. Len(cases) : DOMAIN Page!Listed = 1 .. n
      BY <1>1, ListedAre
    <2> QED
      BY <1>1, <2>1, AppAssumption
  <1>4. c \in Nat
    BY <1>1, <1>2 DEF OwnedBy
  <1> HIDE DEF c
  <1>5. s = [page EXCEPT !.uid = c, !.idx = i]
    BY DEF Page!Selecting, c
  <1> HIDE DEF s
  <1>6. s \in Sessions
    BY <1>1, <1>3, <1>4, <1>5 DEF Sessions
  <1>7. /\ s.user = page.user /\ s.uid = c /\ s.inv = page.inv /\ s.badge = page.badge
        /\ s.bytes = page.bytes /\ s.cache = page.cache
    BY <1>1, <1>5 DEF Sessions
  <1>8. OwnHeld(s, cases)
    BY <1>2, <1>7 DEF ConsoleInv, OwnHeld
  <1> QED
    BY <1>6, <1>7, <1>8 DEF s, c

\* The selected mail's place is one of the list's, and its own as long as it is listed.
LEMMA PlaceIs ==
  ASSUME ConsoleInv, Page!Browsing
  PROVE  /\ Page!Place \in DOMAIN Page!Listed
         /\ page.uid \in Page!ToSet(Page!Listed) => Page!Listed[Page!Place] = page.uid
  <1>1. page \in Sessions /\ Len(cases) \in Nat /\ page.limit \in Limits
    BY DEF ConsoleInv, ConsoleType, Sessions
  <1>2. PICK n \in 0 .. Len(cases) : DOMAIN Page!Listed = 1 .. n /\ Len(Page!Listed) = n
    BY <1>1, ListedAre
  <1>3. n # 0
    <2>1. Page!Listed # <<>>
      BY DEF Page!Browsing
    <2>2. Page!Listed = [i \in DOMAIN Page!Listed |-> Page!Listed[i]]
      BY DEF Page!Listed
    <2> QED
      BY <1>2, <2>1, <2>2
  <1>4. CASE \E i \in DOMAIN Page!Listed : Page!Listed[i] = page.uid
    BY <1>4 DEF Page!Place
  <1>5. CASE ~\E i \in DOMAIN Page!Listed : Page!Listed[i] = page.uid
    <2>1. page.uid \notin Page!ToSet(Page!Listed)
      BY <1>5 DEF Page!ToSet
    <2>2. page.idx \in Nat
      BY <1>1, AppAssumption DEF Sessions
    <2>3. Page!Place \in 1 .. n
      BY <1>1, <1>2, <1>3, <1>5, <2>2 DEF Page!Place
    <2> QED
      BY <1>2, <2>1, <2>3
  <1> QED
    BY <1>4, <1>5

\* A run of the list with the selection at place i.
LEMMA ShowsAt ==
  ASSUME ConsoleInv, NEW i \in DOMAIN Page!Listed, page' = Page!Selecting(i),
         shown' = [list |-> Page!Listed, at |-> i], UNCHANGED <<cases, filed>>
  PROVE  ConsoleInv'
  <1> DEFINE s == Page!Selecting(i)
  <1>1. /\ s \in Sessions /\ s.user = page.user /\ OwnHeld(s, cases)
        /\ s.uid = Page!Listed[i] /\ s.bytes = page.bytes /\ s.cache = page.cache
    BY Selects
  <1>2. \A j \in DOMAIN Page!Listed : Page!Listed[j] \in OwnedBy(cases, page.user)
    BY ListedAre DEF ConsoleInv, ConsoleType, Sessions
  <1>3. page' = s
    OBVIOUS
  <1> HIDE DEF s
  <1>4. OwnShown(shown', s, cases)
    BY <1>1, <1>2 DEF OwnShown
  <1>5. FiledOnce(s, filed) /\ filed \in Nat
    BY <1>1 DEF ConsoleInv, ConsoleType, FiledOnce
  <1> QED
    BY <1>1, <1>3, <1>4, <1>5, SessionStep

LEMMA BrowseLiveStep == ConsoleInv /\ Page!BrowseLive => ConsoleInv'
  BY PlaceIs, ShowsAt DEF Page!BrowseLive

LEMMA ClickSelectStep ==
  ASSUME ConsoleInv, NEW i, Page!ClickSelect(i)
  PROVE  ConsoleInv'
  BY ShowsAt DEF Page!ClickSelect

LEMMA ClickAnalyzeStep == ConsoleInv /\ Page!ClickAnalyze => ConsoleInv'
  <1> SUFFICES ASSUME ConsoleInv, Page!ClickAnalyze PROVE ConsoleInv'
    OBVIOUS
  <1> DEFINE c == Page!Listed[Page!Place]
             s == Page!Selecting(Page!Place)
             b == <<cases[c].of[1], c>>
  <1>1. Page!Browsing /\ Page!Load(s, b)
    BY DEF Page!ClickAnalyze
  <1>2. Page!Place \in DOMAIN Page!Listed
    BY <1>1, PlaceIs
  <1>3. s \in Sessions /\ s.user = page.user /\ OwnHeld(s, cases)
    BY <1>2, Selects
  <1>4. c \in OwnedBy(cases, page.user)
    BY <1>2, ListedAre DEF ConsoleInv, ConsoleType, Sessions
  <1> HIDE DEF c, s
  <1>5. c \in 1 .. Len(cases) /\ c \in 0 .. MaxCases /\ cases[c] \in Filings
    BY <1>4, AppAssumption DEF OwnedBy, ConsoleInv, ConsoleType
  <1>6. cases[c].of[1] \in Email
    BY <1>5 DEF Filings, Page!Bytes
  <1>7. b \in Page!Bytes /\ b[2] = c
    BY <1>5, <1>6 DEF Page!Bytes
  <1> HIDE DEF b
  <1> QED
    BY <1>1, <1>3, <1>4, <1>7, LoadStep

\* Steps that only move the selection, the limit or the workspace.
LEMMA MovesOn ==
  ASSUME ConsoleInv, NEW o \in Sessions, page' = o, shown' = Page!NoList,
         UNCHANGED <<cases, filed>>,
         o.user = page.user, o.uid = page.uid, o.badge = page.badge, o.bytes = page.bytes,
         o.cache = page.cache, o.inv \in {0} \cup OwnedBy(cases, page.user)
  PROVE  ConsoleInv'
  <1>1. OwnHeld(o, cases)
    BY DEF ConsoleInv, OwnHeld
  <1>2. OwnShown(shown', o, cases) /\ FiledOnce(o, filed') /\ filed' \in Nat
    BY DEF ConsoleInv, ConsoleType, OwnShown, FiledOnce
  <1> QED
    BY <1>1, <1>2, SessionStep

LEMMA ChangeLimitStep ==
  ASSUME ConsoleInv, NEW l \in Limits, Page!ChangeLimit(l)
  PROVE  ConsoleInv'
  <1> DEFINE o == [page EXCEPT !.limit = l, !.idx = 1]
  <1>1. /\ Page!Browsing /\ page' = o /\ shown' = Page!NoList /\ UNCHANGED <<cases, filed>>
    BY DEF Page!ChangeLimit
  <1>2. page \in Sessions /\ Len(cases) \in Nat /\ Len(cases) <= MaxCases /\ page.limit \in Limits
    BY DEF ConsoleInv, ConsoleType, Sessions
  <1>3. 1 \in 0 .. MaxCases
    <2>1. PICK n \in 0 .. Len(cases) : DOMAIN Page!Listed = 1 .. n
      BY <1>2, ListedAre
    <2>2. Page!Place \in 1 .. n
      BY <1>1, <2>1, PlaceIs
    <2> QED
      BY <1>2, <2>2, AppAssumption
  <1>4. o \in Sessions
    BY <1>2, <1>3 DEF Sessions
  <1>5. /\ o.user = page.user /\ o.uid = page.uid /\ o.inv = page.inv /\ o.badge = page.badge
        /\ o.bytes = page.bytes /\ o.cache = page.cache
    BY <1>2 DEF Sessions
  <1> HIDE DEF o
  <1>6. page' = o
    BY <1>1 DEF o
  <1> QED
    BY <1>1, <1>4, <1>5, <1>6, MovesOn DEF ConsoleInv, OwnHeld

LEMMA OpenStep ==
  ASSUME ConsoleInv, NEW c \in {0} \cup OwnedBy(cases, page.user),
         page' = [page EXCEPT !.inv = c], shown' = Page!NoList, UNCHANGED <<cases, filed>>
  PROVE  ConsoleInv'
  <1> DEFINE o == [page EXCEPT !.inv = c]
  <1>1. page \in Sessions /\ c \in Nat
    BY DEF ConsoleInv, ConsoleType, OwnedBy
  <1>2. o \in Sessions
    BY <1>1 DEF Sessions
  <1>3. /\ o.user = page.user /\ o.uid = page.uid /\ o.inv = c /\ o.badge = page.badge
        /\ o.bytes = page.bytes /\ o.cache = page.cache
    BY <1>1 DEF Sessions
  <1>4. page' = o
    OBVIOUS
  <1> HIDE DEF o
  <1> QED
    BY <1>2, <1>3, <1>4, MovesOn

LEMMA OpenSteps ==
  ASSUME ConsoleInv,
         Page!OpenInvestigation \/ Page!OpenFromQueue \/ Page!BackToQueue
  PROVE  ConsoleInv'
  <1>1. CASE Page!OpenInvestigation
    <2> DEFINE c == page.cache.case
    <2>1. /\ page.cache # None /\ c # 0 /\ page' = [page EXCEPT !.inv = c]
          /\ shown' = Page!NoList /\ UNCHANGED <<cases, filed>>
      BY <1>1 DEF Page!OpenInvestigation, Page!Open, Page!Hit
    <2>2. c \in 1 .. Len(cases) /\ cases[c] = [owner |-> page.user, of |-> page.bytes]
      BY <2>1 DEF ConsoleInv, OwnHeld
    <2>3. c \in OwnedBy(cases, page.user)
      BY <2>2 DEF OwnedBy
    <2> QED
      BY <2>1, <2>3, OpenStep
  <1>2. CASE Page!OpenFromQueue
    BY <1>2, OwnIs, OpenStep DEF Page!OpenFromQueue, Page!Open
  <1>3. CASE Page!BackToQueue
    BY <1>3, OpenStep DEF Page!BackToQueue
  <1> QED
    BY <1>1, <1>2, <1>3

LEMMA ConsoleStep == ConsoleInv /\ Page!Next => ConsoleInv'
  <1> SUFFICES ASSUME ConsoleInv, Page!Next PROVE ConsoleInv'
    OBVIOUS
  <1>1. ASSUME NEW e \in Email, Page!Upload(e) PROVE ConsoleInv'
    <2>1. page \in Sessions /\ OwnHeld(page, cases)
      BY DEF ConsoleInv, ConsoleType
    <2>2. <<e, 0>> \in Page!Bytes
      BY AppAssumption DEF Page!Bytes
    <2> QED
      BY <1>1, <2>1, <2>2, LoadStep DEF Page!Upload
  <1>2. CASE Page!PutAway
    <2>1. page \in Sessions /\ OwnHeld(page, cases)
      BY DEF ConsoleInv, ConsoleType
    <2> QED
      BY <1>2, <2>1, LoadStep DEF Page!PutAway
  <1> QED
    BY <1>1, <1>2, SignInStep, WorkerFilesStep, SignOutStep, ShowCachedStep, AnalyseStep,
       BrowseLiveStep, ClickAnalyzeStep, ClickSelectStep, ChangeLimitStep, OpenSteps
    DEF Page!Next

LEMMA ConsoleInvariant == AppSpec => []ConsoleInv
  <1>1. AppInit => ConsoleInv
    BY ConsoleInit DEF AppInit
  <1>2. ConsoleInv /\ [AppNext]_appVars => ConsoleInv'
    <2> SUFFICES ASSUME ConsoleInv, [AppNext]_appVars PROVE ConsoleInv'
      OBVIOUS
    <2>1. CASE Page!Next
      BY <2>1, ConsoleStep
    <2>2. CASE UNCHANGED consoleVars
      BY <2>2 DEF consoleVars, ConsoleInv, ConsoleType, OwnHeld, OwnShown, FiledOnce
    <2> QED
      BY <2>1, <2>2, AppStep
  <1> QED
    BY <1>1, <1>2, PTL DEF AppSpec

\* Whoever used the browser before, no case a session holds or shows belongs to another user
\* (app.py's purge at sign-out, views/analyze.py, views/investigations.py).
THEOREM SessionsAreOwn == AppSpec => []SessionIsOwn
  <1>1. ConsoleInv => SessionIsOwn
    <2> DEFINE held == {page.uid, page.inv}
                       \cup {c \in DOMAIN page.badge : page.badge[c] # None}
                       \cup Page!ToSet(shown.list)
                       \cup (IF page.bytes = None THEN {} ELSE {page.bytes[2]})
                       \cup (IF page.cache = None THEN {} ELSE {page.cache.case})
    <2> SUFFICES ASSUME ConsoleInv, NEW c \in held \ {0} PROVE c \in OwnedBy(cases, page.user)
      BY DEF SessionIsOwn, Page!SessionIsOwn, OwnedBy
    <2>1. CASE c \in {page.uid, page.inv}
      BY <2>1 DEF ConsoleInv, OwnHeld
    <2>2. CASE c \in DOMAIN page.badge /\ page.badge[c] # None
      <3>1. DOMAIN page.badge = 1 .. MaxCases
        BY DEF ConsoleInv, ConsoleType, Sessions
      <3> QED
        BY <2>2, <3>1 DEF ConsoleInv, OwnHeld
    <2>3. CASE c \in Page!ToSet(shown.list)
      <3>1. PICK i \in DOMAIN shown.list : c = shown.list[i]
        BY <2>3 DEF Page!ToSet
      <3>2. shown # Page!NoList
        <4>1. Page!NoList.list = <<>> /\ DOMAIN <<>> = {}
          BY DEF Page!NoList
        <4> QED
          BY <3>1, <4>1
      <3> QED
        BY <3>1, <3>2 DEF ConsoleInv, OwnShown
    <2>4. CASE page.bytes # None /\ c = page.bytes[2]
      BY <2>4 DEF ConsoleInv, OwnHeld
    <2>5. CASE page.cache # None /\ c = page.cache.case
      <3>1. /\ c \in 1 .. Len(cases)
            /\ cases[c] = [owner |-> page.user, of |-> page.bytes]
        BY <2>5 DEF ConsoleInv, OwnHeld
      <3> QED
        BY <3>1 DEF OwnedBy
    <2> QED
      BY <2>1, <2>2, <2>3, <2>4, <2>5
  <1> QED
    BY <1>1, ConsoleInvariant, PTL

\* The report is about the loaded bytes and names the one case filed from exactly these, however
\* often the script is run (render_forensic_results, _cached_analysis_payload).
THEOREM ReportsAreFiled == AppSpec => []ReportIsFiled
  <1>1. ConsoleInv => ReportIsFiled
    BY DEF ConsoleInv, OwnHeld, FiledOnce, ReportIsFiled, Page!ReportIsFiled
  <1> QED
    BY <1>1, ConsoleInvariant, PTL

\* Only a click on another mail moves the selection while the selected mail is still listed, and
\* what is analysed then is the mail the screen showed as selected (views/live_mail.py).
THEOREM AlwaysActsOnTheShown == AppSpec => ActsOnTheShown
  <1> DEFINE Shows ==
        (page'.user = page.user /\ page.uid \in Page!ToSet(Page!Listed)) =>
          /\ page'.uid # page.uid => \E i \in DOMAIN shown.list :
                                        page'.uid = shown.list[i] /\ Page!ClickSelect(i)
          /\ (page.bytes = None /\ page'.bytes # None /\ page'.bytes[2] # 0) =>
                page'.bytes[2] = shown.list[shown.at]
  <1>1. ConsoleInv /\ [AppNext]_appVars => [Shows]_(Page!vars)
    <2> SUFFICES ASSUME ConsoleInv, [AppNext]_appVars, page'.user = page.user,
                        page.uid \in Page!ToSet(Page!Listed), Page!Next
                 PROVE  Shows
      BY AppStep DEF consoleVars, Page!vars
    <2>0. page \in Sessions
      BY DEF ConsoleInv, ConsoleType
    <2>1. ASSUME NEW u \in User, Page!SignIn(u) PROVE Shows
      <3>1. page.user = None /\ page' = [page EXCEPT !.user = u]
        BY <2>1 DEF Page!SignIn
      <3> QED
        BY <2>0, <3>1, AppAssumption DEF Sessions
    <2>2. ASSUME NEW u \in User, NEW e \in Email, Page!WorkerFiles(u, e) PROVE Shows
      BY <2>2 DEF Page!WorkerFiles
    <2>3. CASE Page!SignOut
      BY <2>3 DEF Page!SignOut, Page!Fresh
    <2>4. ASSUME NEW e \in Email, Page!Upload(e) PROVE Shows
      <3>1. page' = [page EXCEPT !.bytes = <<e, 0>>, !.cache = None]
        BY <2>4 DEF Page!Upload, Page!Load
      <3>2. page'.uid = page.uid /\ page'.bytes = <<e, 0>>
        BY <2>0, <3>1 DEF Sessions
      <3> QED
        BY <3>2
    <2>5. CASE Page!PutAway
      <3>1. page' = [page EXCEPT !.bytes = None, !.cache = None]
        BY <2>5 DEF Page!PutAway, Page!Load
      <3> QED
        BY <2>0, <3>1 DEF Sessions
    <2>6. ASSUME NEW s \in Sessions, s.uid = page.uid, s.bytes = page.bytes,
                 page' = Page!Stamped(s), page.bytes # None
          PROVE  Shows
      <3>1. Page!Stamped(s).uid = s.uid
        BY DEF Page!Stamped, Sessions
      <3> QED
        BY <2>6, <3>1
    <2>7. CASE Page!ShowCached
      BY <2>0, <2>6, <2>7 DEF Page!ShowCached
    <2>8. CASE Page!Analyse
      <3> DEFINE a == [of |-> page.bytes,
                       case |-> IF page.user # None THEN Len(cases) + 1 ELSE 0]
                 s == [page EXCEPT !.cache = a]
      <3>1. page' = Page!Stamped(s) /\ page.bytes # None
        BY <2>8 DEF Page!Analyse
      <3>2. /\ Len(cases) \in Nat /\ Len(cases) <= MaxCases
            /\ page.user # None => Len(cases) + 1 <= MaxCases
        BY <2>8 DEF Page!Analyse, ConsoleInv, ConsoleType
      <3>3. a \in Caches
        BY <2>0, <3>1, <3>2, AppAssumption DEF Sessions, Caches
      <3> HIDE DEF a
      <3>4. s \in Sessions /\ s.uid = page.uid /\ s.bytes = page.bytes
        BY <2>0, <3>3 DEF Sessions
      <3> HIDE DEF s
      <3> QED
        BY <2>6, <3>1, <3>4
    <2>9. CASE Page!BrowseLive
      <3>1. /\ Page!Browsing /\ page' = Page!Selecting(Page!Place)
        BY <2>9 DEF Page!BrowseLive
      <3>2. page'.uid = page.uid /\ page'.bytes = page.bytes
        BY <3>1, PlaceIs, Selects
      <3> QED
        BY <3>2
    <2>10. CASE Page!ClickAnalyze
      <3> DEFINE c == Page!Listed[Page!Place]
                 s == Page!Selecting(Page!Place)
                 b == <<cases[c].of[1], c>>
      <3>1. Page!Browsing /\ shown # Page!NoList
            /\ page' = [s EXCEPT !.bytes = b, !.cache = None]
        BY <2>10 DEF Page!ClickAnalyze, Page!Load
      <3>2. s \in Sessions /\ s.uid = page.uid /\ c = page.uid
        BY <3>1, PlaceIs, Selects
      <3>3. b[2] = c
        OBVIOUS
      <3> HIDE DEF s, b, c
      <3>4. page'.uid = page.uid /\ page'.bytes = b
        BY <3>1, <3>2 DEF Sessions
      <3>5. shown.list[shown.at] = page.uid
        BY <3>1 DEF ConsoleInv, OwnShown
      <3> QED
        BY <3>2, <3>3, <3>4, <3>5
    <2>11. ASSUME NEW i \in DOMAIN shown.list, Page!ClickSelect(i) PROVE Shows
      <3>1. /\ i \in DOMAIN Page!Listed /\ Page!Listed[i] = shown.list[i]
            /\ page' = Page!Selecting(i)
        BY <2>11 DEF Page!ClickSelect
      <3>2. page'.uid = shown.list[i] /\ page'.bytes = page.bytes
        BY <3>1, Selects
      <3> QED
        BY <2>11, <3>2
    <2>12. ASSUME NEW l \in Limits, Page!ChangeLimit(l) PROVE Shows
      <3>1. page' = [page EXCEPT !.limit = l, !.idx = 1]
        BY <2>12 DEF Page!ChangeLimit
      <3> QED
        BY <2>0, <3>1 DEF Sessions
    <2>13. ASSUME NEW c, page' = [page EXCEPT !.inv = c] PROVE Shows
      BY <2>0, <2>13 DEF Sessions
    <2>14. CASE Page!OpenInvestigation \/ Page!OpenFromQueue \/ Page!BackToQueue
      BY <2>13, <2>14
      DEF Page!OpenInvestigation, Page!OpenFromQueue, Page!BackToQueue, Page!Open
    <2> HIDE DEF Shows
    <2> QED
      BY <2>1, <2>2, <2>3, <2>4, <2>5, <2>7, <2>8, <2>9, <2>10, <2>11, <2>12, <2>14 DEF Page!Next
  <1>2. ActsOnTheShown <=> [][Shows]_(Page!vars)
    BY DEF ActsOnTheShown, Page!ActsOnTheShown
  <1> HIDE DEF Shows
  <1> QED
    BY <1>1, <1>2, ConsoleInvariant, PTL DEF AppSpec

-----------------------------------------------------------------------------
(* The types of all the parts, and the deployment as a part. *)

\* A behaviour of the application is one of the deployment, with the steps of the other
\* parts in between.
LEMMA AppIsDeployment == AppSpec => Spec
  <1>1. AppInit => Init
    BY DEF AppInit
  <1>2. [AppNext]_appVars => [Next]_vars
    BY DEF AppNext, appVars
  <1> QED
    BY <1>1, <1>2, PTL DEF AppSpec, Spec

LEMMA ScoreIs == Scoring!BecScore \in 0 .. 100
  <1> DEFINE p1 == Scoring!Points(Scoring!Has("ceo_name"), 35)
             p2 == Scoring!Points(Scoring!Has("ceo_text") /\ ~Scoring!Has("ceo_name")
                                  /\ ~Scoring!BecAuthOk, 15)
             p3 == IF Scoring!FreemailPersona THEN 35 ELSE IF Scoring!BrandPersona THEN 45
                   ELSE Scoring!Points(Scoring!ServicePersona, 35)
             p4 == IF Scoring!Has("wire") THEN 30 ELSE Scoring!Points(Scoring!FinancialLure, 20)
             p5 == Scoring!Points(Scoring!Has("secrecy"), 20)
             p6 == Scoring!Points(Scoring!Has("reply_other") /\ ~Scoring!Newsletter, 25)
  <1>1. p1 \in Nat /\ p2 \in Nat /\ p3 \in Nat /\ p4 \in Nat /\ p5 \in Nat /\ p6 \in Nat
    BY DEF Scoring!Points
  <1>2. Scoring!BecScore = IF p1 + p2 + p3 + p4 + p5 + p6 > 100 THEN 100
                           ELSE p1 + p2 + p3 + p4 + p5 + p6
    BY DEF Scoring!BecScore
  <1> HIDE DEF p1, p2, p3, p4, p5, p6
  <1> QED
    BY <1>1, <1>2

LEMMA FindingsAre == FindingsOf \subseteq [rule : 1 .. 27, severity : Scoring!Severity]
  <1> SUFFICES ASSUME NEW f \in FindingsOf PROVE f \in [rule : 1 .. 27, severity : Scoring!Severity]
    OBVIOUS
  <1>1. \A r \in 1 .. 27, s \in Scoring!Severity :
            At(r, s) \in [rule : 1 .. 27, severity : Scoring!Severity]
    BY DEF At
  <1>2. /\ "LOW" \in Scoring!Severity /\ "MEDIUM" \in Scoring!Severity
        /\ "HIGH" \in Scoring!Severity
    BY DEF Scoring!Severity
  <1>3. \A ok : Scoring!Unless(ok, "MEDIUM") \in Scoring!Severity
    BY <1>2 DEF Scoring!Unless
  <1>4. Scoring!Urgency \in Scoring!Severity
    BY <1>2 DEF Scoring!Unless, Scoring!Urgency
  <1>5. PICK r \in 1 .. 27, s \in Scoring!Severity : f = At(r, s)
    <2>1. CASE f \in Scoring!TextFindings(Scoring!Newsletter)
      BY <1>2, <1>3, <1>4, <2>1, InText
    <2>2. CASE f \in Scoring!EvidenceFindings
      BY <1>2, <1>3, <2>2, InEvidence
    <2>3. CASE f \in Scoring!AnchorFinding(First, Scoring!Newsletter)
      BY <1>2, <1>3, <2>3, InAnchor
    <2>4. CASE f \in Scoring!ObfuscationFindings(Second, TRUE)
      <3> DEFINE late == Scoring!LateAuthOk(TRUE)
                 quiet == ~Lured(Second) /\ 7 \notin Scoring!Rules(Second)
                 hard == Lured(Second) /\ ~late
                 soft == Scoring!Unless(late, "MEDIUM")
                 plain == Scoring!Unless(quiet, "MEDIUM")
      <3>1. f = At(26, soft) \/ f = At(27, IF hard THEN "HIGH" ELSE plain)
        BY <2>4, InObfuscation
      <3>2. soft \in Scoring!Severity /\ plain \in Scoring!Severity
        BY <1>2 DEF Scoring!Unless
      <3> HIDE DEF soft, hard, plain
      <3> QED
        BY <1>2, <3>1, <3>2
    <2> QED
      BY <2>1, <2>2, <2>3, <2>4, InFindings
  <1> QED
    BY <1>1, <1>5

LEMMA VerdictTyped == AppSpec => []Scoring!TypeOK
  <1>1. AppInit => Scoring!TypeOK
    <2>1. Scoring!Init => mail \subseteq Scoring!Sign
      <3> SUFFICES ASSUME Scoring!Init, mail # {} PROVE mail \subseteq Scoring!Sign
        OBVIOUS
      <3>1. PICK f \in [1 .. MaxSigns -> Scoring!Sign] : mail = {f[x] : x \in DOMAIN f}
        BY DEF Scoring!Init, Scoring!Range
      <3> QED
        BY <3>1
    <2>2. Scoring!NoBec.score = 0
      BY DEF Scoring!NoBec
    <2>3. Scoring!Init => findings = {} /\ bec = Scoring!NoBec /\ ml = 0 /\ risk = "LOW"
      BY DEF Scoring!Init
    <2> QED
      BY <2>1, <2>2, <2>3 DEF AppInit, Scoring!TypeOK, Scoring!Risk
  <1>2. Scoring!TypeOK /\ [AppNext]_appVars => Scoring!TypeOK'
    <2> SUFFICES ASSUME Scoring!TypeOK, [AppNext]_appVars PROVE Scoring!TypeOK'
      OBVIOUS
    <2> USE DEF Scoring!TypeOK
    <2>1. CASE Scoring!Authenticate
      BY <2>1 DEF Scoring!Authenticate
    <2>2. CASE Scoring!DetectBec
      <3>1. bec'.score = Scoring!BecScore
        BY <2>2 DEF Scoring!DetectBec
      <3> QED
        BY <2>2, <3>1, ScoreIs DEF Scoring!DetectBec
    <2>3. CASE Scoring!EvaluateRules
      <3>1. findings' = FindingsOf
        BY <2>3 DEF Scoring!EvaluateRules, FindingsOf, First
      <3> QED
        BY <2>3, <3>1, FindingsAre DEF Scoring!EvaluateRules
    <2>4. ASSUME NEW p \in Scoring!Probability, Scoring!Score(p) PROVE Scoring!TypeOK'
      <3>1. Scoring!HybridRisk(findings, p) \in Scoring!Risk
        BY DEF Scoring!HybridRisk, Scoring!Risk
      <3> QED
        BY <2>4, <3>1 DEF Scoring!Score
    <2>5. CASE UNCHANGED verdictVars
      BY <2>5 DEF verdictVars
    <2> QED
      BY <2>1, <2>2, <2>3, <2>4, <2>5, AppStep DEF Scoring!Next
  <1> QED
    BY <1>1, <1>2, PTL DEF AppSpec

\* Every variable of every part keeps its type.
THEOREM AppTypeCorrect == AppSpec => []AppTypeOK
  <1>1. ConsoleInv => Page!TypeOK
    <2> SUFFICES ASSUME ConsoleInv PROVE Page!TypeOK
      OBVIOUS
    <2>1. page \in Sessions /\ cases \in Seq(Filings)
      BY DEF ConsoleInv, ConsoleType
    <2>2. /\ page.bytes \in Page!Bytes \cup {None}
          /\ page.limit \in Limits /\ page.idx \in 0 .. MaxCases
      BY <2>1 DEF Sessions
    <2>3. \A c \in DOMAIN cases : cases[c] \in Filings
      BY <2>1
    <2>4. \A c \in DOMAIN cases : cases[c].owner \in User /\ cases[c].of \in Page!Bytes
      BY <2>3 DEF Filings
    <2> QED
      BY <2>2, <2>4 DEF Page!TypeOK
  <1>2. OriginInv => Origin!TypeOK
    BY AnswersAre DEF OriginInv, OriginType, EntriesInv, Origin!TypeOK, Found
  <1> QED
    BY <1>1, <1>2, AppIsDeployment, DeploymentTypeCorrect, ConsoleInvariant, VerdictTyped,
       OriginInvariant, PTL
    DEF AppTypeOK

\* What holds of the deployment's file holds of the application's behaviours.
THEOREM AppKeepsTheFile == AppSpec => [](LocalStateSound /\ RevocationHolds /\ LocalFollows)
  BY AppIsDeployment, LocalStateStaysSound, RevocationAlwaysHolds, FileAlwaysFollows, PTL
=============================================================================
