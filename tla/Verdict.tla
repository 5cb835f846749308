------------------------------- MODULE Verdict -------------------------------
(***************************************************************************)
(* What the program makes of one mail: the authentication check, the       *)
(* impersonation detector, the rule matrix and the hybrid score            *)
(* (core/auth_claims.py, core/bec_detector.py, core/risk.py, in the order  *)
(* of core/agent.py), and what its three callers file of the result: the   *)
(* analysis page, the Sentinel poller and the batch scan.  A mail is the   *)
(* set of the signs the code looks for; the words that give a sign, and    *)
(* the look-ups behind it, are left out.                                   *)
(***************************************************************************)
EXTENDS Naturals, FiniteSets, Functions

CONSTANT MaxSigns   \* bound: signs of one mail

VARIABLES
    mail,       \* the signs of the mail
    stage,      \* the next step of the investigation
    auth,       \* evaluate_auth_and_alignment
    bec,        \* detect_bec_and_impersonation
    findings,   \* evaluate_rules: rule and severity
    ml,         \* the classifier's probability of phishing, in percent
    risk        \* calculate_hybrid_risk

vars == <<mail, stage, auth, bec, findings, ml, risk>>

Sign ==
    {"urgent", "suspend",                       \* urgency, threats to the account
     "password", "wire", "invoice", "secrecy",  \* lures in the text
     "ceo_text", "extortion",
     "spaced", "homoglyph",                     \* brand spelled with spaces, mixed scripts
     \* in the display name, the title before one in the text; a public webmail sender
     "ceo_name", "dept_name", "brand_name", "service_name", "freemail",
     "reply_other", "return_path",              \* other domains in the headers
     "list", "newsletter_words",                \* bulk mail by its headers, by its text
     "brand_domain",                            \* a brand inside another's domain
     "executable", "macro", "bad_link",
     "anchor",                                  \* a link's text names another host than its target,
                                                \* a bulk mailer's tracker
     "bad_infra",                               \* new domain, lookalike, feeds, Tor, a hop back in time
     "slow_relay", "vpn", "cloud"}

Risk == {"LOW", "SUSPICIOUS", "HIGH"}
Severity == {"LOW", "MEDIUM", "HIGH"}
Probability == {10, 62, 64, 70, 90}     \* one in each range the thresholds tell apart
NoAuth == [effective |-> "", recorded |-> FALSE]
NoBec == [verdict |-> "", spoof |-> FALSE, exec |-> FALSE, fin |-> FALSE, score |-> 0]

Has(s) == s \in mail
HasAny(S) == mail \cap S # {}
Newsletter == Has("list")

Init ==
    /\ mail \in {{}} \cup {Range(f) : f \in [1 .. MaxSigns -> Sign]}
    /\ stage = "auth"
    /\ auth = NoAuth /\ bec = NoBec
    /\ findings = {}
    /\ ml = 0 /\ risk = "LOW"

-----------------------------------------------------------------------------
(* Authentication. *)

Result == {"none", "pass", "fail"}
Alignment == {"ALIGNED", "UNALIGNED", "NOT_DETERMINABLE"}
Claims == [spf : Result, dkim : Result, dmarc : Result,
           spfAligned : Alignment, dkimAligned : Alignment, esp : BOOLEAN,
           inReceived : BOOLEAN]    \* the SPF result comes from Received-SPF

EffectiveDmarc(c) ==
    LET passed == c.spf = "pass" \/ c.dkim = "pass"
        passedAs(a) == \/ c.spf = "pass" /\ c.spfAligned = a
                       \/ c.dkim = "pass" /\ c.dkimAligned = a
    IN  IF c.dmarc = "pass" \/ passedAs("ALIGNED") THEN "PASS"
        ELSE IF c.dmarc = "fail" THEN "FAIL"
        ELSE IF passed /\ c.esp THEN "PASS (Delegated ESP)"
        ELSE IF passedAs("UNALIGNED") THEN "FAIL (Alignment Bypass)"
        ELSE IF passed THEN "PASS (Unverified Alignment)"
        ELSE IF c.spf = "fail" \/ c.dkim = "fail" THEN "FAIL"
        ELSE "NONE / UNCONFIGURED"

\* Later steps look at the verdict, and again for passes in Authentication-Results.
Recorded(c) == c.dmarc = "pass" \/ (c.spf = "pass" /\ ~c.inReceived /\ c.dkim = "pass")
Authenticated == {[effective |-> EffectiveDmarc(c), recorded |-> Recorded(c)] : c \in Claims}

Verified == {"PASS", "PASS (Delegated ESP)"}
ThreatDetected == auth.effective \in {"FAIL", "FAIL (Alignment Bypass)"}
IsAuthOk == auth.effective \in Verified \cup {"PASS (Unverified Alignment)"}
BecAuthOk == auth.effective \in Verified \/ auth.recorded
RuleAuthOk == IsAuthOk \/ auth.recorded

Authenticate ==
    /\ stage = "auth"
    /\ auth' \in Authenticated
    /\ stage' = "bec"
    /\ UNCHANGED <<mail, bec, findings, ml, risk>>

-----------------------------------------------------------------------------
(* Impersonation. *)

\* The three ways a display name is a spoof; the first that applies counts.
FreemailPersona == ~Newsletter /\ Has("freemail") /\ HasAny({"ceo_name", "dept_name"})
BrandPersona == Has("brand_name")
ServicePersona == Has("service_name") /\ ~Newsletter /\ ~BecAuthOk
Spoof == FreemailPersona \/ BrandPersona \/ ServicePersona
FinancialLure == Has("wire") \/ (Has("invoice") /\ (~BecAuthOk \/ Spoof))

Points(condition, n) == IF condition THEN n ELSE 0
BecScore ==
    LET sum == Points(Has("ceo_name"), 35)
               + Points(Has("ceo_text") /\ ~Has("ceo_name") /\ ~BecAuthOk, 15)
               + (IF FreemailPersona THEN 35 ELSE IF BrandPersona THEN 45
                  ELSE Points(ServicePersona, 35))
               + (IF Has("wire") THEN 30 ELSE Points(FinancialLure, 20))
               + Points(Has("secrecy"), 20)
               + Points(Has("reply_other") /\ ~Newsletter, 25)
    IN  IF sum > 100 THEN 100 ELSE sum

BecVerdict ==
    IF HasAny({"executable", "macro"}) THEN "Malware Delivery"
    ELSE IF FinancialLure /\ (BecScore >= 50 \/ Spoof) THEN "Business Email Compromise"
    ELSE IF Spoof THEN IF Has("ceo_name") THEN "Executive Impersonation"
                                         ELSE "Brand / Service Impersonation"
    ELSE IF Has("password") /\ HasAny({"urgent", "suspend"}) /\ ~Newsletter
         THEN IF BecAuthOk THEN "Security Alert (Authenticated)" ELSE "Credential Harvesting"
    ELSE IF BecScore >= 40 /\ FinancialLure /\ ~BecAuthOk THEN "Suspicious Financial"
    ELSE "Standard / Legitimate"

DetectBec ==
    /\ stage = "bec"
    /\ bec' = [verdict |-> BecVerdict, spoof |-> Spoof, exec |-> Has("ceo_name"),
               fin |-> FinancialLure, score |-> BecScore]
    /\ stage' = "rules"
    /\ UNCHANGED <<mail, auth, findings, ml, risk>>

-----------------------------------------------------------------------------
(* The rule matrix. *)

Finding(rule, condition, severity) ==
    IF condition THEN {[rule |-> rule, severity |-> severity]} ELSE {}
Unless(ok, severity) == IF ok THEN "LOW" ELSE severity

\* Variant: urgency is judged without the authentication.
UrgencyAlways == IF Has("suspend") THEN "HIGH" ELSE "MEDIUM"
Urgency == Unless(RuleAuthOk, IF Has("suspend") THEN "HIGH" ELSE "MEDIUM")

\* Of the headers and the text; "is_newsletter" also knows the content type the
\* batch passes.
TextFindings(is_newsletter) ==
    Finding(2, Has("return_path"), Unless(is_newsletter \/ IsAuthOk, "MEDIUM"))
    \cup Finding(7, HasAny({"urgent", "suspend"}), Urgency)
    \cup Finding(6, Has("password"), Unless(RuleAuthOk, "MEDIUM"))
    \cup Finding(20, Has("extortion"), "HIGH")
    \cup Finding(21, Has("brand_domain") /\ ~RuleAuthOk, "HIGH")
    \cup Finding(8, Has("executable"), "HIGH")
    \cup Finding(14, ThreatDetected, "HIGH")

\* Of the evidence only the investigation has.
EvidenceFindings ==
    Finding(1, Has("reply_other"), IF bec.fin \/ bec.spoof \/ bec.exec THEN "HIGH"
                                   ELSE Unless(Newsletter, "MEDIUM"))
    \cup Finding(9, Has("bad_infra"), "HIGH")
    \cup Finding(12, Has("bad_link"), "HIGH")
    \cup Finding(15, HasAny({"executable", "macro"}),
                 IF Has("executable") THEN "HIGH" ELSE "MEDIUM")
    \cup Finding(17, bec.spoof \/ (bec.fin /\ bec.score >= 40), "HIGH")
    \cup Finding(18, Has("slow_relay"), "MEDIUM")
    \cup Finding(24, Has("vpn"), Unless(IsAuthOk \/ Newsletter, "MEDIUM"))
    \cup Finding(25, Has("cloud") /\ ~IsAuthOk, "MEDIUM")

Rules(S) == {f.rule : f \in S}

\* The anchor rule looks at what was found before it.
AnchorFinding(found, is_newsletter) ==
    LET lure == \E f \in found : f.rule \in {20, 21} \/ (f.rule = 6 /\ f.severity = "MEDIUM")
    IN  Finding(19, Has("anchor"),
                IF lure \/ ~RuleAuthOk THEN "HIGH" ELSE Unless(is_newsletter, "MEDIUM"))

\* Variant: the VPN and cloud rules take the mail for authenticated.
LateAuthOkTrusting(infra) == IF infra /\ HasAny({"vpn", "cloud"}) THEN TRUE ELSE RuleAuthOk
\* The VPN and cloud rules assign auth_ok again, without the recorded passes.
LateAuthOk(infra) == IF infra /\ HasAny({"vpn", "cloud"}) THEN IsAuthOk ELSE RuleAuthOk

ObfuscationFindings(found, infra) ==
    LET lure == Rules(found) \cap {6, 20, 12, 19} # {}
    IN  Finding(26, Has("homoglyph"), Unless(LateAuthOk(infra), "MEDIUM"))
        \cup Finding(27, Has("spaced"),
                     IF lure /\ ~LateAuthOk(infra) THEN "HIGH"
                     ELSE Unless(~lure /\ 7 \notin Rules(found), "MEDIUM"))

Matrix(first, is_newsletter, infra) ==
    LET second == first \cup AnchorFinding(first, is_newsletter)
    IN  second \cup ObfuscationFindings(second, infra)

EvaluateRules ==
    /\ stage = "rules"
    /\ findings' = Matrix(TextFindings(Newsletter) \cup EvidenceFindings, Newsletter, TRUE)
    /\ stage' = "score"
    /\ UNCHANGED <<mail, auth, bec, ml, risk>>

-----------------------------------------------------------------------------
(* The hybrid score. *)

Count(S, severity) == Cardinality({f \in S : f.severity = severity})

HybridRisk(S, p) ==
    LET medium == Count(S, "MEDIUM")
        borderline == 38 <= p /\ p <= 62
    IN  IF Count(S, "HIGH") >= 1 THEN "HIGH"
        ELSE IF IsAuthOk THEN "LOW"
        ELSE IF ~borderline /\ (p > 85 \/ (medium >= 3 /\ p > 60)) THEN "HIGH"
        ELSE IF medium >= 2 \/ (~borderline /\ p > 65) THEN "SUSPICIOUS"
        ELSE "LOW"

Score(p) ==
    /\ stage = "score"
    /\ ml' = p
    /\ risk' = HybridRisk(findings, p)
    /\ stage' = "done"
    /\ UNCHANGED <<mail, auth, bec, findings>>

Next == Authenticate \/ DetectBec \/ EvaluateRules \/ \E p \in Probability : Score(p)

Spec == Init /\ [][Next]_vars

-----------------------------------------------------------------------------
(* What the callers make of it. *)

Demotable == {"Business Email Compromise", "Executive Impersonation",
              "Credential Harvesting", "Malware Delivery"}

\* derive_case_classification: a legitimate verdict comes first, then a threat.
\* The score has no say as long as there is a verdict.
Classification(verdict) ==
    CASE verdict \in {"Standard / Legitimate", "Security Alert (Authenticated)", "Safe"} -> "CLEAN"
      [] verdict = "Suspicious Financial" -> "SUSPICIOUS"
      [] OTHER -> "THREAT"

\* Variant: the detector's verdict is filed as it is.
PageVerdictAsFound == bec.verdict

\* The analysis page files the detector's verdict unless the score is LOW.
PageVerdict ==
    IF risk = "LOW" /\ bec.verdict \in Demotable THEN "Standard / Legitimate" ELSE bec.verdict
PageClass == Classification(PageVerdict)

\* The investigation has no "verdict": the poller takes the classifier's answer for
\* it, whose text names the assessment.
Assessment == IF ml > 50 THEN "Phishing" ELSE "Safe"
LiveClass == Classification(Assessment)

\* The batch looks at the text and the authentication only.
BatchNewsletter == HasAny({"list", "newsletter_words"})
BatchFindings ==
    Matrix(TextFindings(BatchNewsletter)
           \cup Finding(1, Has("reply_other"), Unless(BatchNewsletter, "MEDIUM")),
           BatchNewsletter, FALSE)
BatchRisk == HybridRisk(BatchFindings, ml)

-----------------------------------------------------------------------------
(* Properties. *)

Done == stage = "done"

TypeOK ==
    /\ mail \subseteq Sign
    /\ findings \subseteq [rule : 1 .. 27, severity : Severity]
    /\ bec.score \in 0 .. 100
    /\ risk \in Risk /\ ml \in Probability \cup {0}

\* An authenticated mail whose only signs are words - urgency, passwords, invoices,
\* brands spelled with spaces - is LOW whatever the classifier says of it, from
\* whatever network it comes.
AuthenticatedTextIsLow ==
    (/\ Done /\ auth.effective \in Verified
     /\ mail \subseteq {"urgent", "suspend", "password", "invoice", "ceo_text", "spaced",
                        "homoglyph", "list", "newsletter_words", "return_path", "vpn", "cloud"})
        => risk = "LOW"

\* The analysis page files no mail of LOW risk as a threat: the impersonation
\* verdicts it does not demote come with a HIGH finding of their own.
LowIsNoThreat == (Done /\ risk = "LOW") => PageClass # "THREAT"

\* The batch table, which looks at less, shows no mail as worse than its full analysis.
BatchIsNoHarsher ==
    LET rank == [LOW |-> 0, SUSPICIOUS |-> 1, HIGH |-> 2]
    IN  Done => rank[BatchRisk] <= rank[risk]

\* A score alone never makes a case a threat: a mail that the poller files and the
\* dashboard counts as one has a finding above LOW or a threat verdict.
NeverByScoreAlone ==
    (Done /\ LiveClass = "THREAT") =>
        \/ \E f \in findings : f.severity # "LOW"
        \/ Classification(bec.verdict) # "CLEAN"
=============================================================================
