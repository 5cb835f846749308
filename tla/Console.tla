------------------------------- MODULE Console -------------------------------
(***************************************************************************)
(* One browser session at the analysis page (views/analyze.py, with the    *)
(* Live Mail list of core/live_mail_adapter.py) and the investigation      *)
(* workspace (views/investigations.py), on the hosted case store.  A click *)
(* is one run of the script, from the session's dictionary and a fresh     *)
(* list of cases; the worker files cases between two runs.                 *)
(***************************************************************************)
EXTENDS Naturals, Sequences, SequencesExt, FiniteSets

CONSTANTS
    User, Email,
    Quishing,   \* the emails with a QR code
    None,
    Limits,     \* fetch limits of the list, the smallest is the default
    MaxCases    \* bound: cases in the store

VARIABLES
    cases,      \* the store: each case's owner and the bytes it was filed from
    session,    \* st.session_state
    shown,      \* the Live Mail list on the screen and the place selected in it
    filed       \* cases filed from the loaded email since it was loaded

vars == <<cases, session, shown, filed>>

\* Bytes are an email as it was received (0), or as rebuilt from a case's row.
Bytes == Email \X (0 .. MaxCases)

DefaultLimit == CHOOSE l \in Limits : \A k \in Limits : l <= k
Fresh == [user |-> None,
          bytes |-> None,           \* current_email_bytes
          cache |-> None,           \* _cached_analysis_payload: bytes and case, 0 if it was refused
          uid |-> 0, idx |-> 0,     \* selected_live_mail_uid, selected_live_mail_index
          badge |-> [c \in 1 .. MaxCases |-> None],    \* live_mail_analysis_status
          inv |-> 0,                \* active_investigation_id
          limit |-> DefaultLimit]   \* live_mail_fetch_limit
NoList == [list |-> <<>>, at |-> 0]

Init ==
    /\ cases = <<>>
    /\ session = Fresh
    /\ shown = NoList
    /\ filed = 0

-----------------------------------------------------------------------------
(* The case store under row security. *)

Own(u) == {c \in 1 .. Len(cases) : cases[c].owner = u}
\* A case's place among those of its owner, the newest first.
Recency(c, u) == Cardinality({d \in Own(u) : c <= d})

\* get_authorized_live_mail_messages: the newest of the user's cases.
Listed ==
    LET own == Own(session.user)
    IN  [i \in {j \in 1 .. Cardinality(own) : j <= session.limit} |->
            CHOOSE c \in own : Recency(c, session.user) = i]

WorkerFiles(u, e) ==
    /\ Len(cases) < MaxCases
    /\ cases' = Append(cases, [owner |-> u, of |-> <<e, 0>>])
    /\ UNCHANGED <<session, shown, filed>>

-----------------------------------------------------------------------------
(* Signing in and out: app.py. *)

\* What was loaded and analysed before signing in stays.
SignIn(u) ==
    /\ session.user = None
    /\ session' = [session EXCEPT !.user = u]
    /\ shown' = NoList
    /\ UNCHANGED <<cases, filed>>

\* Variant: the list's selection and badges are not among the purged keys.
SignOutKeepsSelection ==
    /\ session.user # None
    /\ session' = [Fresh EXCEPT !.uid = session.uid, !.idx = session.idx, !.badge = session.badge]
    /\ shown' = NoList
    /\ UNCHANGED <<cases, filed>>

\* Logout, or a session that expired.
SignOut ==
    /\ session.user # None
    /\ session' = Fresh
    /\ shown' = NoList
    /\ UNCHANGED <<cases, filed>>

-----------------------------------------------------------------------------
(* An email is loaded, analysed and put away. *)

Load(s, b) == /\ session' = [s EXCEPT !.bytes = b, !.cache = None]
              /\ shown' = NoList
              /\ filed' = 0
              /\ UNCHANGED cases

Upload(e) == session.bytes = None /\ Load(session, <<e, 0>>)

\* "Choose Another Email", "Reset" and the dashboard's batch button: the selection stays.
PutAway == session.bytes # None /\ Load(session, None)

\* The badge of the list's selected mail is the verdict of the loaded email,
\* which may be another one.
Stamped(s) == IF s.uid = 0 THEN s ELSE [s EXCEPT !.badge[s.uid] = s.bytes[1]]

\* Variant: every run of the script analyses the email again.
NeverHit == FALSE
Hit == session.cache # None /\ session.cache.of = session.bytes

\* render_forensic_results with the analysis of these bytes in the session.
ShowCached ==
    /\ session.bytes # None /\ Hit
    /\ session' = Stamped(session)
    /\ shown' = NoList
    /\ UNCHANGED <<cases, filed>>

\* Without it the email is analysed and filed under a new case, unless nobody is
\* signed in, in which case the store refuses it.  The finding about a QR code
\* cannot be built, so an email with one is neither analysed nor filed, unless it
\* was rebuilt from a case, without its images.
Analyse ==
    LET new == Len(cases) + 1
        filing == session.user # None
    IN  /\ session.bytes # None /\ ~Hit
        /\ session.bytes[1] \in Quishing => session.bytes[2] # 0
        /\ filing => new <= MaxCases
        /\ cases' = IF filing THEN Append(cases, [owner |-> session.user, of |-> session.bytes])
                              ELSE cases
        /\ session' = Stamped([session EXCEPT
                         !.cache = [of |-> session.bytes, case |-> IF filing THEN new ELSE 0]])
        /\ shown' = NoList
        /\ filed' = IF filing THEN filed + 1 ELSE filed

-----------------------------------------------------------------------------
(* The Live Mail list. *)

Browsing == session.user # None /\ session.bytes = None /\ Listed # <<>>

\* Variant: the place comes first.
PlaceByIndex ==
    IF session.idx \in 1 .. Len(Listed) THEN session.idx ELSE 1

\* The selected mail where it is now; when it is no longer listed, its old place.
Place ==
    IF \E i \in DOMAIN Listed : Listed[i] = session.uid
    THEN CHOOSE i \in DOMAIN Listed : Listed[i] = session.uid
    ELSE IF session.idx = 0 THEN 1
    ELSE IF session.idx > Len(Listed) THEN Len(Listed) ELSE session.idx

Selecting(i) == [session EXCEPT !.uid = Listed[i], !.idx = i]

BrowseLive ==
    /\ Browsing
    /\ session' = Selecting(Place)
    /\ shown' = [list |-> Listed, at |-> Place]
    /\ UNCHANGED <<cases, filed>>

\* A button's key holds the mail and its place: after new mail has moved the list,
\* the click finds no button, and the run is a BrowseLive.
ClickSelect(i) ==
    /\ Browsing
    /\ i \in DOMAIN shown.list /\ i # shown.at
    /\ i \in DOMAIN Listed /\ Listed[i] = shown.list[i]
    /\ session' = Selecting(i)
    /\ shown' = [list |-> Listed, at |-> i]
    /\ UNCHANGED <<cases, filed>>

\* No original is kept: the email is rebuilt from the row of its case.
ClickAnalyze ==
    LET c == Listed[Place]
    IN  /\ Browsing /\ shown # NoList
        /\ Load(Selecting(Place), <<cases[c].of[1], c>>)

ChangeLimit(l) ==
    /\ Browsing
    /\ l \in Limits \ {session.limit}
    /\ session' = [session EXCEPT !.limit = l, !.idx = 1]
    /\ shown' = NoList
    /\ UNCHANGED <<cases, filed>>

-----------------------------------------------------------------------------
(* The investigation workspace, which verifies and packages the loaded bytes. *)

\* From the report, or from the queue; a case the store refused opens nothing.
Open(c) ==
    /\ c # 0
    /\ session' = [session EXCEPT !.inv = c]
    /\ shown' = NoList
    /\ UNCHANGED <<cases, filed>>

OpenInvestigation == session.bytes # None /\ Hit /\ Open(session.cache.case)

OpenFromQueue ==
    /\ session.user # None /\ session.inv = 0
    /\ \E c \in Own(session.user) : Open(c)

BackToQueue ==
    /\ session.inv # 0
    /\ session' = [session EXCEPT !.inv = 0]
    /\ shown' = NoList
    /\ UNCHANGED <<cases, filed>>

Next ==
    \/ \E u \in User : SignIn(u) \/ (\E e \in Email : WorkerFiles(u, e))
    \/ SignOut
    \/ \E e \in Email : Upload(e)
    \/ PutAway \/ ShowCached \/ Analyse
    \/ BrowseLive \/ ClickAnalyze
    \/ \E i \in DOMAIN shown.list : ClickSelect(i)
    \/ \E l \in Limits : ChangeLimit(l)
    \/ OpenInvestigation \/ OpenFromQueue \/ BackToQueue

Spec == Init /\ [][Next]_vars

-----------------------------------------------------------------------------
(* Properties. *)

TypeOK ==
    /\ session.bytes \in Bytes \cup {None}
    /\ session.limit \in Limits /\ session.idx \in 0 .. MaxCases
    /\ \A c \in DOMAIN cases : cases[c].owner \in User /\ cases[c].of \in Bytes

\* Whoever used the browser before, no case the session holds or shows - loaded,
\* selected, badged, listed or under investigation - belongs to another user.
SessionIsOwn ==
    LET held == {session.uid, session.inv}
                \cup {c \in DOMAIN session.badge : session.badge[c] # None}
                \cup ToSet(shown.list)
                \cup (IF session.bytes = None THEN {} ELSE {session.bytes[2]})
                \cup (IF session.cache = None THEN {} ELSE {session.cache.case})
    IN  \A c \in held \ {0} : cases[c].owner = session.user

\* The report on the screen is about the loaded bytes and names the one case that
\* was filed from exactly these: reruns of the script file nothing again, and the
\* workspace opened from the report packages the bytes of its own case.
ReportIsFiled ==
    /\ filed <= 1
    /\ (session.cache # None /\ session.bytes # None) =>
          /\ session.cache.of = session.bytes
          /\ session.cache.case # 0 =>
                cases[session.cache.case] = [owner |-> session.user, of |-> session.bytes]

\* Only a click on another mail moves the selection while the selected mail is still
\* listed, whatever mail arrives in between; and what is analysed then is the mail
\* the screen showed as selected.
ActsOnTheShown ==
    [][(session'.user = session.user /\ session.uid \in ToSet(Listed)) =>
          /\ session'.uid # session.uid => \E i \in DOMAIN shown.list :
                                              session'.uid = shown.list[i] /\ ClickSelect(i)
          /\ (session.bytes = None /\ session'.bytes # None /\ session'.bytes[2] # 0) =>
                session'.bytes[2] = shown.list[shown.at]]_vars
=============================================================================
