-------------------------------- MODULE MCApp --------------------------------
(***************************************************************************)
(* The web application's parts for TLC.  They share no variables, so a     *)
(* behaviour is one of the deployment or one of another part, as its first *)
(* state decides; the parts that do not move keep their first state.       *)
(***************************************************************************)
EXTENDS Deployment, TLC

CONSTANTS Email, Quishing, None, Limits, MaxCases, Torn, MaxUses, MaxRestarts,
          Channel, HasWorker, Recipient, MaxSigns,
          Address, Private, V6, Offline, Vpn, Cloud, Tor, Botnet, Feed, Nowhere, MaxNamed

VARIABLES
    cases, page, shown, filed,                  \* Console
    file, use, uses, reboots, due, raced,       \* SessionVault
    store, seat, row, restarts,                 \* AlertSession
    mail, stage, auth, bec, findings, ml, risk, \* Verdict
    named, step, places, entries, sender, infra, stored, report, crossed,   \* Attribution
    which       \* the part this behaviour is about

consoleVars == <<cases, page, shown, filed>>
vaultVars == <<file, use, uses, reboots, due, raced>>
alertVars == <<store, seat, row, restarts>>
verdictVars == <<mail, stage, auth, bec, findings, ml, risk>>
originVars == <<named, step, places, entries, sender, infra, stored, report, crossed>>
appVars == <<vars, consoleVars, vaultVars, alertVars, verdictVars, originVars, which>>

Page == INSTANCE Console WITH session <- page
Vault == INSTANCE SessionVault WITH Thread <- Process, restarts <- reboots
Alerts == INSTANCE AlertSession WITH User <- Recipient, Browser <- Process
Scoring == INSTANCE Verdict
Origin == INSTANCE Attribution WITH stage <- step, cache <- places, page <- report,
                                    raced <- crossed

\* No file is no payload and neither is a torn one; the users with a worker are users;
\* no address is none, and nobody no user; the smallest limit is the default;
\* no analysis is none.
ASSUME AppAssumption ==
    /\ None # Torn /\ Vault!Payload \cap {None, Torn} = {}
    /\ HasWorker \subseteq Recipient
    /\ Nowhere \notin Address
    /\ None \notin User
    /\ Limits \subseteq Nat \ {0} /\ \E l \in Limits : \A k \in Limits : l <= k
    /\ MaxCases \in Nat /\ None \notin [of : Page!Bytes, case : 0 .. MaxCases]

AppInit ==
    /\ which \in {"deployment", "console", "vault", "alerts", "verdict", "origin"}
    /\ Init /\ Page!Init /\ Vault!Init /\ Alerts!Init /\ Scoring!Init
    /\ which # "verdict" => mail = {}
    /\ named \in IF which = "origin" THEN Origin!Naming ELSE {[p \in Origin!Place |-> Nowhere]}
    /\ Origin!Init

AppNext ==
    \/ /\ which = "deployment" /\ Next
       /\ UNCHANGED <<consoleVars, vaultVars, alertVars, verdictVars, originVars, which>>
    \/ /\ which = "console" /\ Page!Next
       /\ UNCHANGED <<vars, vaultVars, alertVars, verdictVars, originVars, which>>
    \/ /\ which = "vault" /\ Vault!Next
       /\ UNCHANGED <<vars, consoleVars, alertVars, verdictVars, originVars, which>>
    \/ /\ which = "alerts" /\ Alerts!Next
       /\ UNCHANGED <<vars, consoleVars, vaultVars, verdictVars, originVars, which>>
    \/ /\ which = "verdict" /\ Scoring!Next
       /\ UNCHANGED <<vars, consoleVars, vaultVars, alertVars, originVars, which>>
    \/ /\ which = "origin" /\ Origin!Next
       /\ UNCHANGED <<vars, consoleVars, vaultVars, alertVars, verdictVars, which>>

AppSpec == AppInit /\ [][AppNext]_appVars

\* Users are interchangeable, and so are the daemons, which also stand for the
\* threads that use the vault and the browser sessions of the alert pages.
Interchangeable == Permutations(User) \cup Permutations(Process)

\* Bound: buttons, leases and faults together, and no third button once a save was lost.
Budget == ops + claims + faults <= 4 /\ (lost => ops <= 2)

(* The properties of the parts beside those of the deployment. *)
AppTypeOK == TypeOK /\ Page!TypeOK /\ Scoring!TypeOK /\ Origin!TypeOK
SessionIsOwn == which = "console" => Page!SessionIsOwn
ReportIsFiled == which = "console" => Page!ReportIsFiled
ActsOnTheShown == Page!ActsOnTheShown
VaultHolds == which = "vault" => Vault!VaultSound /\ Vault!VaultKeeps
AlertsHold == which = "alerts" => Alerts!OwnDestination /\ Alerts!ActiveIsConnected
AuthenticatedTextIsLow == which = "verdict" => Scoring!AuthenticatedTextIsLow
LowIsNoThreat == which = "verdict" => Scoring!LowIsNoThreat
BatchIsNoHarsher == which = "verdict" => Scoring!BatchIsNoHarsher
HeadersOutrankText == which = "origin" => Origin!HeadersOutrankText
OneStory == which = "origin" => Origin!OneStory
=============================================================================
