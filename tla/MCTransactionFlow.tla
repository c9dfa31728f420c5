------------------------- MODULE MCTransactionFlow -------------------------
(* Instances of TransactionFlow for TLC. *)
EXTENDS TransactionFlow

CONSTANTS a1, a2

Rule(m, n) == [method |-> m, cond |-> "Always", next |-> n]
CvmListWith(rules) == [x |-> 0, y |-> 0, rules |-> rules, malformed |-> FALSE]

Core == {"CDOL1", "CDOL2", "EXPIRATION", "ACTION_CODES", "CVM_LIST"}

Personalised ==
    [aip |-> {"CV", "IA"}, records |-> Core, cvm |-> CvmListWith(<<Rule("NoCvm", FALSE)>>),
     dol |-> [CDOL1 |-> "plain", CDOL2 |-> "plain"],
     iac |-> [denial |-> {"expired_application"},
              online |-> {"transaction_exceeds_floor_limit", "cda_failed"},
              default |-> {"cda_failed"}, malformed |-> FALSE]]

Single == {{[slot |-> 1, app |-> a1, prio |-> 0, confirm |-> FALSE]}}

BaseTerminal ==
    [oda |-> {"SDA", "DDA", "CDA", "XDA"}, capability |-> "OnlineCapable",
     tacDenial |-> {}, tacOnline |-> {}, tacDefault |-> NoCode,
     selectionSupported |-> TRUE, defaultTdol |-> TRUE,
     cvm |-> [support |-> derive_cvm_support(
                 {"plaintext_pin_for_icc_verification", "enciphered_pin_for_online_verification",
                  "enciphered_pin_for_offline_verification_ecc_ode", "signature",
                  "no_cvm_required"}),
              amount |-> 3, appCurrency |-> FALSE, unattendedCash |-> FALSE,
              manualCash |-> FALSE, cashback |-> FALSE]]

Expiry == {{}, {"expired_application"}}
Floor == {{}, {"transaction_exceeds_floor_limit"}}

Reply(arc, iad, verdict, scr) == [arc |-> arc, iad |-> iad, outcome |-> verdict, scripts |-> scr]

Replies ==
    {Reply("00", "8..16", "Approved", Positions), Reply("05", "absent", "Declined", {}),
     Reply("00", "badLength", "Approved", {}),
     Reply("05", "8..16", "Declined", {"AfterFinalGenerateAc"})}

\* CDA and plain cards of every shape the GENERATE AC path distinguishes.
CdaCard == [Personalised EXCEPT !.aip = {"CDA", "CV", "IA"}]
CdaProfiles ==
    {CdaCard,
     [Personalised EXCEPT !.aip = {"CDA"}, !.records = Core \ {"CDOL2"}],
     [Personalised EXCEPT !.aip = {"SDA", "CV"}, !.dol = [CDOL1 |-> "tcHash", CDOL2 |-> "tcHash"]],
     [Personalised EXCEPT !.aip = {"DDA", "IA"}, !.records = Core \cup {"ICC_DYNAMIC_NUMBER", "TDOL"}],
     [Personalised EXCEPT !.dol = [CDOL1 |-> "malformed", CDOL2 |-> "plain"]],
     [Personalised EXCEPT !.records = Core \ {"EXPIRATION"}],
     [Personalised EXCEPT !.records = Core \ {"ACTION_CODES"}],
     [Personalised EXCEPT !.aip = {"CDA"}, !.records = Core \cup {"ARC"}],
     [Personalised EXCEPT !.records = Core \cup {"UN"}],
     [Personalised EXCEPT !.iac = [denial |-> {}, online |-> NoCode, default |-> {}, malformed |-> TRUE]]}

XdaCard == [Personalised EXCEPT !.aip = {"XDA"}, !.iac.online = {}]
XdaProfiles ==
    {[Personalised EXCEPT !.aip = {"XDA", "CDA", "IA"},
        !.iac = [denial |-> {"expired_application", bit}, online |-> {"xda_selected"},
                 default |-> {}, malformed |-> FALSE]] :
        bit \in {"ca_ecc_key_missing", "transaction_exceeds_floor_limit"}}
    \cup {XdaCard}

Entry(n, a, p, b8) == [slot |-> n, app |-> a, prio |-> p, confirm |-> b8]
Lists ==
    {{}, {Entry(1, a1, 0, TRUE)}, {Entry(1, a1, 2, FALSE), Entry(2, a2, 1, TRUE)},
     {Entry(1, a1, 0, FALSE), Entry(2, a2, 1, FALSE)},
     {Entry(1, a1, 1, TRUE), Entry(2, a2, 1, TRUE)}}

\* With cardholder selection and without, online-capable and offline-only.
AttendedTerminal == {BaseTerminal}
SelectingTerminals == {[BaseTerminal EXCEPT !.selectionSupported = s] : s \in BOOLEAN}
DecidingTerminals == {BaseTerminal, [BaseTerminal EXCEPT !.capability = "OfflineOnly"]}

\* Cards with PIN rules, with and without a PIN key of their own.
PinList(rules, keys) ==
    [Personalised EXCEPT !.cvm = CvmListWith(rules), !.records = Core \cup keys]
PinProfiles ==
    {PinList(<<Rule("PlaintextPin", TRUE), Rule("NoCvm", FALSE)>>, {}),
     PinList(<<Rule("EncipheredPin", TRUE), Rule("OnlinePin", FALSE)>>, {"PIN_KEY"}),
     PinList(<<Rule("EncipheredPin", FALSE)>>, {}),
     PinList(<<Rule("OnlinePin", TRUE), Rule("PlaintextPin", TRUE), Rule("Signature", FALSE)>>, {}),
     PinList(<<>>, {"CVM_RESULTS"}),
     [Personalised EXCEPT !.cvm.malformed = TRUE],
     [Personalised EXCEPT !.records = @ \ {"CVM_LIST"}]}

\* For hosts that call again: a card whose bad CDA signature makes the kernel
\* ask for a second cryptogram within the first call, and a PIN card.
RetryProfiles ==
    {[Personalised EXCEPT !.aip = {"CDA"}],
     [PinList(<<Rule("PlaintextPin", TRUE), Rule("NoCvm", FALSE)>>, {}) EXCEPT !.iac.online = {}]}
PlainReply == {Reply("00", "absent", "Approved", {})}

CardProfiles == CdaProfiles \cup XdaProfiles \cup PinProfiles

NoBits == {{}}

(* Two scenarios of one run.  In the one the card has a single application,  *)
(* of every profile, and the host calls again with the XDA card and the card *)
(* that has a CDA key; in the other it has two, of RetryProfiles, with every *)
(* list of candidates and a host that calls again.                           *)

Unlisted == [Personalised EXCEPT !.records = {}]
SomeProfiles == CardProfiles \cup RetryProfiles \cup {Unlisted}
AllTerminals == DecidingTerminals \cup SelectingTerminals
AllLists == Single \cup Lists
AllReplies == Replies \cup PlainReply

Alone == card[a2] = Unlisted

ScenarioInit ==
    /\ Init
    /\ Alone => card[a1] # Unlisted /\ terminal \in DecidingTerminals
    /\ ~Alone => /\ {card[a1], card[a2]} \subseteq RetryProfiles
                 /\ terminal \in SelectingTerminals

\* What start finds, what the checks find, what the issuer answers, and which
\* host calls again.
ScenarioNext ==
    /\ Next
    /\ pc = "Idle" /\ pc' # "Err" => cands' \in (IF Alone THEN Single ELSE Lists)
    /\ ~Alone => tvr' \cap {"expired_application", "transaction_exceeds_floor_limit"} = {}
    /\ response' \in {NoResponse} \cup (IF Alone THEN Replies ELSE PlainReply)
    /\ Alone /\ retries' > 0 => card[a1] \in {XdaCard, CdaCard}

ScenarioSpec == ScenarioInit /\ [][ScenarioNext]_vars /\ WF_vars(Kernel)
=============================================================================
