---------------------------- MODULE TerminalHistory ----------------------------
(***************************************************************************)
(* One terminal and one card over several transactions: configuration,     *)
(* the terminal's power cycles and its unpredictable numbers, processing   *)
(* restrictions, terminal risk management against the card's transaction   *)
(* counters, and terminal action analysis.                                 *)
(*                                                                         *)
(* The host around the library is external: it loads the files, persists   *)
(* the register Q, draws the random numbers, keeps the log of amounts, and *)
(* runs the functions in the order transaction_flow.rs has them.  So is    *)
(* the card: it counts its transactions, answers GET DATA or not, never    *)
(* answers a higher cryptogram than it is asked for, and stops at the last *)
(* value of its counter.                                                   *)
(***************************************************************************)
EXTENDS ProcessingRestrictions, TerminalRiskManagement, TerminalProfile, Sequences

CONSTANTS
    Files,            \* contents of the configuration files
    Card,             \* personalisations of the card's application
    Counters,         \* values <<ATC, last online ATC>> the card may start with
    AtcMax,           \* last value of the ATC, 2^16 - 1
    Transaction,      \* what a transaction may be
    RandomNumber,     \* random numbers the host may draw for risk management
    Malformed,        \* an element whose length is wrong
    Tvp, Rand,        \* time-varying parameters; options of a hardware random
    Ifdsn, Tid, Seed, \* identities of the terminal, its first Q
    PersistAtPowerUp, \* the host stores the rolled Q at power-up
    KeepsLog,         \* the host logs the amounts approved for this PAN
    MaxTransactions, MaxPowerUps   \* bounds

ASSUME CounterAssumption ==
    /\ AtcMax \in Nat
    /\ \A start \in Counters : start[1] \in 0..AtcMax /\ start[2] \in 0..AtcMax
ASSUME CardAssumption ==
    \A c \in Card : \A limit \in {c.lower, c.upper} : \A x, y \in limit : x = y /\ x \in Nat
\* A date of the right length is a number.
ASSUME DateAssumption ==
    /\ \A t \in Transaction : t.date \in Nat
    /\ \A c \in Card : \A date \in {c.effective, c.expiration} :
          \A d, e \in date : d = e /\ (d = Malformed \/ d \in Nat)
\* Amounts are u64: a floor limit never exceeds what a sum saturates at.
ASSUME AmountAssumption ==
    /\ \A t \in Transaction : t.amount \in Nat
    /\ \A f \in Files, c \in Card :
          Accepted(f) =>
            \A app \in find_application(assemble_terminal(f).applications, c.df_name) :
               app.terminal_floor_limit \in 0..AmountMax

(* Generation of the Unpredictable Number (core/un_generation.rs): the     *)
(* register P of a powered terminal and its non-volatile copy Q.  A byte   *)
(* string is a term: a tuple that begins with its kind.  SHA-256 and its   *)
(* four last bytes are injective, which is what they are used for; what    *)
(* goes in is concatenated as the code does, and an optional field that is *)
(* absent leaves nothing behind.                                           *)

Sha(fields) == <<"SHA">> \o fields
Field(option) == IF option = None THEN <<>> ELSE <<Unwrap(option)>>

\* Mutant: the non-volatile register is copied, not rolled.
PowerUpUnrolled(q, tvp, ifdsn, tid, rand) == q

\* What Q and P both become.
power_up(q, tvp, ifdsn, tid, rand) == Sha(<<q, tvp, ifdsn, tid>> \o Field(rand))

generate_un(p, rand) == <<"LS4B", Sha(<<p>> \o Field(rand))>>

refresh_after_transaction(p, tvp, rand, ac) == Sha(<<p, tvp>> \o Field(rand) \o Field(ac))

power_down(p) == p
-----------------------------------------------------------------------------
VARIABLES
    stage,      \* where the terminal is in its life and its transaction
    files,      \* the files it is started with (never change)
    terminal,   \* the application's configuration, None before start-up
    nv, p,      \* Q in non-volatile memory, P of the UN generator
    card,       \* the card (never changes)
    atc, last_online,  \* its counters
    trx,        \* the transaction in progress
    tvr,
    asked,      \* the cryptogram terminal action analysis asked for
    result,     \* how the last transaction ended
    issued,     \* unpredictable numbers generated so far
    offline,    \* cryptograms TC in a row without an answer of the issuer
    log,        \* amounts approved offline
    powered     \* power-ups so far

unVars == <<nv, p, issued>>
cardVars == <<card, atc, last_online>>
history == <<offline, log>>
vars == <<stage, files, terminal, unVars, cardVars, trx, tvr, asked, result, history, powered>>

Running == {"Restrictions", "Risk", "Analysis", "Online"}

Init ==
    /\ stage = "Off" /\ files \in Files /\ terminal = None
    /\ nv = Seed /\ p = Seed /\ issued = <<>>
    /\ card \in Card
    /\ \E start \in Counters : atc = start[1] /\ last_online = start[2]
    /\ trx \in Transaction /\ tvr = {} /\ asked = "AAC" /\ result = "None"
    /\ offline = 0 /\ log = 0 /\ powered = 0
-----------------------------------------------------------------------------
(* Power. *)

\* The files are read and the terminal assembled; select_application finds the
\* configuration of the card's application; UnGenerator::new and power_up.
PowerUp ==
    /\ stage = "Off" /\ powered < MaxPowerUps
    /\ powered' = powered + 1
    /\ IF /\ Accepted(files) /\ KeysAccepted(files)
          /\ find_application(assemble_terminal(files).applications, card.df_name) # None
       THEN /\ stage' = "Idle"
            /\ terminal' = find_application(assemble_terminal(files).applications, card.df_name)
            /\ \E tvp \in Tvp, rand \in Rand :
                  /\ p' = power_up(nv, tvp, Ifdsn, Tid, rand)
                  /\ nv' = IF PersistAtPowerUp THEN p' ELSE nv
       ELSE stage' = "Refused" /\ UNCHANGED <<terminal, nv, p>>
    /\ UNCHANGED <<files, issued, cardVars, trx, tvr, asked, result, history>>

PowerDown ==
    /\ stage = "Idle"
    /\ stage' = "Off" /\ nv' = power_down(p) /\ p' = Seed
    /\ UNCHANGED <<files, terminal, issued, cardVars, trx, tvr, asked, result, history, powered>>

\* Power goes: P and the transaction are lost.
PowerLoss ==
    /\ stage \in Running \cup {"Idle"}
    /\ stage' = "Off" /\ p' = Seed
    /\ result' = IF stage \in Running THEN "Lost" ELSE result
    /\ UNCHANGED <<files, terminal, nv, issued, cardVars, trx, tvr, asked, history, powered>>
-----------------------------------------------------------------------------
(* A transaction. *)

Config == Unwrap(terminal)
Profile == assemble_terminal(files)

\* TransactionContext::new with a fresh number; the card counts at GET
\* PROCESSING OPTIONS.
Begin ==
    /\ stage = "Idle" /\ Len(issued) < MaxTransactions /\ atc < AtcMax
    /\ stage' = "Restrictions"
    /\ trx' \in Transaction
    /\ tvr' = {} /\ asked' = "AAC" /\ result' = "None"
    /\ \E rand \in Rand : issued' = Append(issued, generate_un(p, rand))
    /\ atc' = atc + 1
    /\ UNCHANGED <<files, terminal, nv, p, card, last_online, history, powered>>

\* Mutant: the register is refreshed with the cryptogram, and without one not
\* at all.
RefreshAfterAc(ac, tvp, rand) ==
    IF ac = None THEN p ELSE refresh_after_transaction(p, tvp, rand, ac)

\* UnGenerator::refresh_after_transaction, which runs however the transaction
\* has ended, with the cryptogram if there is one.
Refreshed(ac, tvp, rand) == refresh_after_transaction(p, tvp, rand, ac)

End(how) ==
    /\ stage' = "Idle" /\ result' = how
    /\ \E tvp \in Tvp, rand \in Rand :
          p' = Refreshed(IF how \in {"TC", "Approved", "AAC"} THEN Some(<<"AC">>) ELSE None, tvp, rand)
    /\ UNCHANGED <<nv, issued>>

ApprovedOffline ==
    /\ End("TC")
    /\ offline' = offline + 1
    /\ log' = IF KeepsLog THEN log + trx.amount ELSE log

RestrictionsFail ==
    \/ card.expiration = None
    \/ Some(Malformed) \in {card.version, card.usage, card.issuer_country, card.effective,
                            card.expiration}

\* process_restrictions: an element of the wrong length is an error, and so is
\* a missing expiration date.
process_restrictions ==
    /\ stage = "Restrictions"
    /\ IF RestrictionsFail
       THEN End("RestrictionError") /\ UNCHANGED tvr
       ELSE /\ tvr' = tvr \cup Restrictions(card,
                        [version |-> Config.application_version_number,
                         atm |-> terminal_is_atm(Profile), country |-> Profile.country], trx)
            /\ stage' = "Risk"
            /\ UNCHANGED <<unVars, result>>
    /\ UNCHANGED <<files, terminal, cardVars, trx, asked, history, powered>>

\* GET DATA: the value, or None when the card answers another status.
GetData(value) == {None, Some(value)}

\* TerminalRiskManagementContext; random selection needs its three parameters.
RiskContext(counted, online, random) ==
    LET params == SelectionParameters(Config)
    IN  [amount |-> trx.amount, floor |-> Config.terminal_floor_limit,
         prior |-> IF KeepsLog THEN Some(log) ELSE None,
         params |-> params,
         random |-> IF params = None THEN None ELSE random,
         lower |-> card.lower, upper |-> card.upper,
         atc |-> counted, last_online |-> online]

\* run_terminal_risk_management: two GET DATA, which the reader or a wrong
\* answer may make fail, and the checks.
run_terminal_risk_management ==
    /\ stage = "Risk"
    /\ \/ End("GetDataError") /\ UNCHANGED tvr
       \/ \E counted \in GetData(atc), online \in GetData(last_online), random \in RandomNumber :
            IF EvaluationFails(RiskContext(counted, online, random))
            THEN End("RiskError") /\ UNCHANGED tvr
            ELSE /\ tvr' = tvr \cup RiskBits(RiskContext(counted, online, random))
                 /\ stage' = "Analysis"
                 /\ UNCHANGED <<unVars, result>>
    /\ UNCHANGED <<files, terminal, cardVars, trx, asked, history, powered>>

Codes ==
    [iacDenial |-> card.iac.denial, iacOnline |-> card.iac.online, iacDefault |-> card.iac.default,
     tacDenial |-> Config.tac_denial, tacOnline |-> Config.tac_online,
     tacDefault |-> Config.tac_default]

Capable == attendance_capability(Profile.terminal_type, trx.consulting)

Decision(bits) == first_generate_ac_decision(bits, Codes, Capable)

\* terminal_action_analysis and the card's answer to the first GENERATE AC.
terminal_action_analysis ==
    /\ stage = "Analysis"
    /\ IF card.iac.malformed
       THEN End("AnalysisError") /\ UNCHANGED <<asked, history>>
       ELSE /\ asked' = Decision(tvr)
            /\ \/ /\ Decision(tvr) = "TC" /\ ApprovedOffline
               \/ /\ Decision(tvr) \in {"TC", "ARQC"}
                  /\ stage' = "Online"
                  /\ UNCHANGED <<unVars, result, history>>
               \/ End("AAC") /\ UNCHANGED history
    /\ UNCHANGED <<files, terminal, cardVars, trx, tvr, powered>>

\* The issuer answers; the card may move its last online ATC register.
GoOnline ==
    /\ stage = "Online"
    /\ \E verdict \in {"Approved", "AAC"} : End(verdict)
    /\ last_online' \in {last_online, atc}
    /\ offline' = 0
    /\ UNCHANGED <<files, terminal, card, atc, trx, tvr, asked, log, powered>>

\* The issuer cannot be reached: the default codes decide.
UnableToGoOnline ==
    /\ stage = "Online"
    /\ \/ unable_to_go_online_decision(tvr, Codes) = "TC" /\ ApprovedOffline
       \/ End("AAC") /\ UNCHANGED history
    /\ UNCHANGED <<files, terminal, cardVars, trx, tvr, asked, powered>>

\* Nothing more to do: the bounds are reached.
Over ==
    /\ \/ stage = "Refused"
       \/ stage = "Off" /\ powered = MaxPowerUps
    /\ UNCHANGED vars

Next ==
    \/ PowerUp \/ PowerDown \/ PowerLoss \/ Begin
    \/ process_restrictions \/ run_terminal_risk_management \/ terminal_action_analysis
    \/ GoOnline \/ UnableToGoOnline \/ Over

Spec == Init /\ [][Next]_vars
-----------------------------------------------------------------------------
(* Properties *)

\* The action codes of this card and terminal send bit to the issuer and
\* refuse it when there is none.
Acted(bit) ==
    \/ bit \in DenialMask(Codes)
    \/ bit \in OnlineMask(Codes) /\ bit \in DefaultMask(Codes)

\* A card whose limits are there is approved offline no more often in a row
\* than its limits say, whatever the registers answer, however many
\* transactions are lost or fail and whenever power goes (check_velocity).
OfflineRunIsBounded ==
    (/\ terminal # None /\ card.lower # None /\ card.upper # None
     /\ Acted("upper_consecutive_offline_limit_exceeded")) =>
        \/ offline <= Unwrap(card.upper)
        \/ offline <= Unwrap(card.lower)

\* A purchase cannot be split to stay below the floor limit when the host
\* keeps a log: what is approved offline never adds up to it (check_floor_limit).
SplitStaysBelowFloor ==
    (/\ terminal # None /\ KeepsLog /\ log > 0
     /\ Acted("transaction_exceeds_floor_limit")) => log < Config.terminal_floor_limit

\* Book 3 Table 36, row by row: what the card needs for the service.
ServiceRows ==
    {<<"Cash", TRUE, {"valid_for_domestic_cash_transactions"}>>,
     <<"Cash", FALSE, {"valid_for_international_cash_transactions"}>>,
     <<"Purchase", TRUE, {"valid_for_domestic_goods", "valid_for_domestic_services"}>>,
     <<"Purchase", FALSE, {"valid_for_international_goods", "valid_for_international_services"}>>}

UsageRows(category, cashback, domestic) ==
    {row \in ServiceRows : row[1] = category /\ row[2] = domestic}
    \cup (IF cashback
          THEN {<<"Cashback", domestic, {IF domestic THEN "domestic_cashback_allowed"
                                         ELSE "international_cashback_allowed"}>>}
          ELSE {})

Usable ==
    /\ \A first \in card.effective : first <= trx.date
    /\ \A last \in card.expiration : trx.date <= last
    /\ \A version \in card.version : version = Config.application_version_number
    /\ \A bits \in card.usage :
          /\ (IF terminal_is_atm(Profile) THEN "valid_at_atms"
              ELSE "valid_at_terminals_other_than_atms") \in bits
          /\ \A home \in card.issuer_country :
                \A row \in UsageRows(trx.category, trx.cashback, home = Profile.country) :
                    row[3] \cap bits # {}

\* Codes that act on the restriction bits keep every application that may not
\* be used from being approved offline (process_restrictions to the decision).
UnusableIsNotApproved ==
    (result = "TC" /\ \A bit \in RestrictionBit : Acted(bit)) => Usable

\* No unpredictable number is given out twice, over transactions that fail and
\* power that goes, even by a generator without hardware random numbers and
\* with a clock that stands still, if the rolled Q is stored at power-up.
UnNeverRepeats ==
    PersistAtPowerUp =>
        \A i, j \in DOMAIN issued : issued[i] = issued[j] => i = j

Severity(cryptogram) == CASE cryptogram = "TC" -> 0 [] cryptogram = "ARQC" -> 1 [] OTHER -> 2

\* A bit set in the TVR in the course of a transaction never makes the decision
\* more favourable, from AAC to ARQC or TC or from ARQC to TC
\* (first_generate_ac_decision).  The offline-only terminal that consults the
\* online codes first is the exception: a bit of theirs turns the AAC its
\* default codes called for into an ARQC.
BitsNeverHelp ==
    [][(stage \in Running /\ stage' \in Running /\ Capable # "OfflineOnlyConsulting") =>
          Severity(Decision(tvr)) <= Severity(Decision(tvr)')]_vars

\* A terminal without the online codes decides at once what an online terminal
\* that could not reach the issuer decides in the end, a denial apart
\* (first_generate_ac_decision and unable_to_go_online_decision).
OfflineIsUnableToGoOnline ==
    (stage \in Running /\ ~denial_decision(tvr, Codes)) =>
        first_generate_ac_decision(tvr, Codes, "OfflineOnly")
            = unable_to_go_online_decision(tvr, Codes)
=============================================================================
