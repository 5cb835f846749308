----------------------------- MODULE Attribution -----------------------------
(***************************************************************************)
(* Where a mail comes from: which of the addresses in a mail is taken for  *)
(* its sender's, where GeoIP puts it and what is said of its network       *)
(* (core/geolocation.py, core/infrastructure_intel.py), in the order of    *)
(* views/analyze.py and core/agent.py, and what the report page and the    *)
(* evidence manifest then show.  Look-ups fill a cache which all sessions  *)
(* of the web application share.  Host names, DNS, the registrar and the   *)
(* open-relay heuristic, which name no place, are left out.                *)
(***************************************************************************)
EXTENDS Naturals, FiniteSets

CONSTANTS
    Address,        \* addresses a mail can name
    Private,        \* those that are not public
    V6,             \* IPv6 addresses, which only the client headers are searched for
    Offline,        \* addresses of which the local database knows the city
    Vpn, Cloud, Tor, Botnet, Feed,  \* addresses in the networks and lists of data/threat_intel
    Nowhere,        \* no address
    MaxNamed        \* bound: places in one mail that name an address

VARIABLES
    named,      \* the address each place in the mail names
    stage,      \* the next step of the analysis
    cache,      \* _GEO_CACHE
    entries,    \* the report's GeoIP entries: address to what was found
    sender,     \* get_sender_location
    infra,      \* assess_infrastructure
    stored,     \* the case as it was saved
    page,       \* the report the page keeps
    raced       \* another session looked an address up

vars == <<named, stage, cache, entries, sender, infra, stored, page, raced>>

\* Where a mail can name an address, the best evidence first: the client headers,
\* the client-ip of the authentication headers, the Received headers from the
\* earliest, any other header - and the text.
Hierarchy == <<"client", "client_ip", "first_hop", "last_hop", "other">>
Header == {Hierarchy[i] : i \in DOMAIN Hierarchy}
Place == Header \cup {"text"}

Public == Address \ Private
Network == {"VPN / Proxy", "Cloud / Hosting", "Residential / Enterprise", "Unknown"}
\* What a look-up yields; "as" tells whether the organisation and its AS are known.
Geo == [at : {"local", "offline", "live", "UNKNOWN"}, as : BOOLEAN, network : Network]
NoGeo == [at |-> "none", as |-> FALSE, network |-> "Unknown"]
Unidentified == [identified |-> FALSE, ip |-> Nowhere, geo |-> NoGeo, client |-> FALSE]
NoInfra == [ip |-> Nowhere, geo |-> NoGeo, signs |-> {}]
NoCase == [sender |-> Unidentified, infra |-> NoInfra]

Naming == {n \in [Place -> Address \cup {Nowhere}] :
              Cardinality({p \in Place : n[p] # Nowhere}) <= MaxNamed}

Init ==
    /\ named \in Naming
    /\ stage = "text"
    /\ cache = [a \in Address |-> NoGeo]
    /\ entries = [a \in {} |-> NoGeo]
    /\ sender = Unidentified /\ infra = NoInfra
    /\ stored = NoCase /\ page = NoCase
    /\ raced = FALSE

-----------------------------------------------------------------------------
(* The look-up of an address. *)

NetworkOf(a, as) ==
    IF a \in Tor \/ (a \in Vpn /\ as) THEN "VPN / Proxy"
    ELSE IF a \in Cloud /\ as THEN "Cloud / Hosting"
    ELSE "Residential / Enterprise"

\* The live service is asked only for what the local database does not place, and
\* may fail; only it names the organisation, which otherwise the host name may reveal.
Answers(a) ==
    IF a \in Private THEN {[at |-> "local", as |-> FALSE, network |-> "Unknown"]}
    ELSE {[at |-> p, as |-> p = "live", network |-> NetworkOf(a, p = "live" \/ revealed)] :
             p \in IF a \in Offline THEN {"offline"} ELSE {"live", "UNKNOWN"},
             revealed \in BOOLEAN}

\* Variant: an address that could not be placed is looked up again.
LookUpPlaced(a) == IF cache[a].at \notin {"none", "UNKNOWN"} THEN {cache[a]} ELSE Answers(a)
\* get_geolocation: whatever the first look-up yields is kept, a failure too.
LookUp(a) == IF cache[a] # NoGeo THEN {cache[a]} ELSE Answers(a)

Remember(found) ==
    cache' = [a \in Address |-> IF a \in DOMAIN found THEN found[a] ELSE cache[a]]

\* What all the look-ups of a set of addresses may yield together.
LookUps(S) == {f \in [S -> UNION {LookUp(a) : a \in S}] : \A a \in S : f[a] \in LookUp(a)}

-----------------------------------------------------------------------------
(* The analysis. *)

\* The addresses of the text and all headers, in the arbitrary order of a set.
Extracted == {named[p] : p \in Place} \ (V6 \cup {Nowhere})

\* Every address goes into the report.
Geolocate ==
    /\ stage = "text"
    /\ \E found \in LookUps(Extracted) : entries' = found /\ Remember(found)
    /\ stage' = "sender"
    /\ UNCHANGED <<named, sender, infra, stored, page, raced>>

\* A public address in a place where it is looked for.
Usable(p) == named[p] \in Public /\ (named[p] \in V6 => p = "client")

\* Variant: headers beyond the Received chain are not searched.
OriginOfKnown ==
    LET hits == {i \in 1 .. 4 : Usable(Hierarchy[i])}
    IN  IF hits = {} THEN Nowhere
        ELSE named[Hierarchy[CHOOSE i \in hits : \A j \in hits : i <= j]]
\* extract_originating_sender_telemetry: the best evidence with a public address.
Origin ==
    LET hits == {i \in DOMAIN Hierarchy : Usable(Hierarchy[i])}
    IN  IF hits = {} THEN Nowhere
        ELSE named[Hierarchy[CHOOSE i \in hits : \A j \in hits : i <= j]]

IsClientIp(ip) == \E p \in {"client", "client_ip"} : Usable(p) /\ named[p] = ip

LocateSender ==
    /\ stage = "sender"
    /\ IF Origin = Nowhere
       THEN sender' = Unidentified /\ UNCHANGED <<entries, cache>>
       ELSE \E found \in LookUps({Origin}) :
                /\ sender' = [identified |-> TRUE, ip |-> Origin, geo |-> found[Origin],
                              client |-> IsClientIp(Origin)]
                /\ Remember(found)
                /\ entries' = [a \in DOMAIN entries \cup {Origin} |->
                                  IF a \in DOMAIN entries THEN entries[a] ELSE found[a]]
    /\ stage' = "trace"
    /\ UNCHANGED <<named, infra, stored, page, raced>>

\* The detectors know a network by its organisation, and some addresses from lists.
Hosting(a, geo) == IF a \in Cloud /\ geo.as THEN {"cloud"} ELSE {}
Anonymizing(a, geo) ==
    (IF a \in Vpn /\ geo.as THEN {"vpn"} ELSE {}) \cup (IF a \in Tor THEN {"tor"} ELSE {})
Abused(a, geo) ==
    (IF a \in Botnet /\ (a \in Feed \/ geo.as) THEN {"botnet"} ELSE {})
    \cup (IF a \in Feed THEN {"feed"} ELSE {})

\* assess_infrastructure: nothing is said of the network of a private address.
Assess(a, geo) ==
    [ip |-> IF a \in Public THEN a ELSE Nowhere,
     geo |-> geo,
     signs |-> IF a \in Public THEN Hosting(a, geo) \cup Anonymizing(a, geo) \cup Abused(a, geo)
                               ELSE {}]

\* The agent traces the first of the extracted addresses, which is any of them, and
\* the loopback address, whose place is no news, when there is none.
Trace ==
    /\ stage = "trace"
    /\ IF Extracted = {}
       THEN infra' = NoInfra /\ UNCHANGED cache
       ELSE \E a \in Extracted : \E found \in LookUps({a}) :
                infra' = Assess(a, found[a]) /\ Remember(found)
    /\ stage' = "file"
    /\ UNCHANGED <<named, entries, sender, stored, page, raced>>

File ==
    /\ stage = "file"
    /\ stored' = [sender |-> sender, infra |-> infra]
    /\ page' = [sender |-> sender, infra |-> infra]
    /\ stage' = "show"
    /\ UNCHANGED <<named, cache, entries, sender, infra, raced>>

-----------------------------------------------------------------------------
(* What is shown. *)

\* derive_authoritative_location: without evidence in the headers, the address the
\* agent traced.
Derived(case) ==
    IF case.sender.identified \/ case.infra.ip = Nowhere THEN case.sender
    ELSE [identified |-> TRUE, ip |-> case.infra.ip, geo |-> case.infra.geo, client |-> FALSE]

\* Every run of the page replaces its report's location by the derived one.
Show ==
    /\ stage = "show"
    /\ page' = [page EXCEPT !.sender = Derived(page)]
    /\ UNCHANGED <<named, stage, cache, entries, sender, infra, stored, raced>>

\* Another session looks an address up; when it began before this one knew the
\* address, its answer replaces this one's.
OtherLookUp(a) ==
    /\ ~raced       \* bound: once
    /\ \E geo \in Answers(a) : cache' = [cache EXCEPT ![a] = geo]
    /\ raced' = (cache[a] # NoGeo)
    /\ UNCHANGED <<named, stage, entries, sender, infra, stored, page>>

Next ==
    \/ Geolocate \/ LocateSender \/ Trace \/ File \/ Show
    \/ \E p \in Place : named[p] # Nowhere /\ OtherLookUp(named[p])

Spec == Init /\ [][Next]_vars

-----------------------------------------------------------------------------
(* Properties. *)

\* build_evidence_manifest, section 5: the address and the place on record.
Manifest == LET of == Derived(stored) IN <<of.identified, of.ip, of.geo>>
\* The same of the page, however often it was run.
Shown == LET of == Derived(page) IN <<of.identified, of.ip, of.geo>>

TypeOK ==
    /\ cache \in [Address -> Geo \cup {NoGeo}]
    /\ DOMAIN entries \subseteq Address /\ \A a \in DOMAIN entries : entries[a] \in Geo
    /\ stage \in {"text", "sender", "trace", "file", "show"}
    /\ raced \in BOOLEAN

\* An address in the text of a mail, which anybody may write there, is shown as its
\* sender's only if no header names a public one; what the agent traced, which may be
\* any address of the mail, does not change that (derive_authoritative_location).
HeadersOutrankText ==
    (stage = "show" /\ \E p \in Header : Usable(p)) =>
        \E p \in Header : Usable(p) /\ Derived(stored).ip = named[p]

\* One story of one mail: the page shows what the evidence manifest records, and
\* unless another session's answer came between, GeoIP entries, sender and
\* infrastructure agree on every address - also one whose look-up failed at first -
\* and the two detectors of VPN and Tor addresses agree.
OneStory ==
    stage = "show" =>
        /\ Shown = Manifest
        /\ ~raced =>
             /\ sender.identified => entries[sender.ip] = sender.geo
             /\ infra.ip # Nowhere =>
                  /\ entries[infra.ip] = infra.geo
                  /\ {"vpn", "tor"} \cap infra.signs # {} => infra.geo.network = "VPN / Proxy"
=============================================================================
