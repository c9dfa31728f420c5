------------------------ MODULE TerminalHistory_proofs ------------------------
(***************************************************************************)
(* Theorems of TerminalHistory, for every configuration, card and number   *)
(* of transactions: bits of the TVR never help, a run of offline approvals *)
(* is bounded by the card's limits, and no unpredictable number is given   *)
(* out twice.                                                              *)
(***************************************************************************)
EXTENDS TerminalHistory, TLAPS

\* The effective codes keep matching as the TVR fills up (any_bit_in_tvr_matched).
LEMMA MatchedGrows ==
    ASSUME NEW old, NEW new, NEW mask, old \subseteq new, Matched(old, mask)
    PROVE  Matched(new, mask)
BY DEF Matched

\* Which of the two branches of the first decision a TVR takes.
LEMMA SeverityOf ==
    ASSUME NEW bits, NEW c, NEW cap
    PROVE  /\ denial_decision(bits, c) => Severity(first_generate_ac_decision(bits, c, cap)) = 2
           /\ (~denial_decision(bits, c) /\ AsksOnline(bits, c, cap)) =>
                 Severity(first_generate_ac_decision(bits, c, cap)) = 1
           /\ (~denial_decision(bits, c) /\ ~AsksOnline(bits, c, cap)
                 /\ DefaultsToDecline(bits, c, cap)) =>
                 Severity(first_generate_ac_decision(bits, c, cap)) = 2
           /\ (~denial_decision(bits, c) /\ ~AsksOnline(bits, c, cap)
                 /\ ~DefaultsToDecline(bits, c, cap)) =>
                 Severity(first_generate_ac_decision(bits, c, cap)) = 0
BY DEF Severity, first_generate_ac_decision

\* Without the consulting option, more bits make no decision more favourable.
LEMMA MoreBitsMoreSevere ==
    ASSUME NEW old, NEW new, old \subseteq new, NEW c, NEW cap \in Capability,
           cap # "OfflineOnlyConsulting"
    PROVE  Severity(first_generate_ac_decision(old, c, cap))
             <= Severity(first_generate_ac_decision(new, c, cap))
<1> DEFINE Was == Severity(first_generate_ac_decision(old, c, cap))
           Is  == Severity(first_generate_ac_decision(new, c, cap))
<1>1. denial_decision(old, c) => denial_decision(new, c)
  BY MatchedGrows DEF denial_decision
<1>2. AsksOnline(old, c, cap) => AsksOnline(new, c, cap)
  BY MatchedGrows DEF AsksOnline
<1>3. DefaultsToDecline(old, c, cap) => DefaultsToDecline(new, c, cap)
  BY MatchedGrows DEF DefaultsToDecline
<1>4. ~(AsksOnline(new, c, cap) /\ DefaultsToDecline(old, c, cap))
  BY DEF AsksOnline, DefaultsToDecline, Capability
<1>5. Was \in {0, 1, 2} /\ Is \in {0, 1, 2}
  BY SeverityOf
<1>6. CASE denial_decision(new, c)
  <2>1. Is = 2
    BY <1>6, SeverityOf
  <2> QED BY <2>1, <1>5
<1>7. CASE ~denial_decision(new, c) /\ AsksOnline(new, c, cap)
  <2>1. Is = 1
    BY <1>7, SeverityOf
  <2>2. Was \in {0, 1}
    BY <1>1, <1>4, <1>7, SeverityOf
  <2> QED BY <2>1, <2>2
<1>8. CASE ~denial_decision(new, c) /\ ~AsksOnline(new, c, cap) /\ DefaultsToDecline(new, c, cap)
  <2>1. Is = 2
    BY <1>8, SeverityOf
  <2> QED BY <2>1, <1>5
<1>9. CASE ~denial_decision(new, c) /\ ~AsksOnline(new, c, cap) /\ ~DefaultsToDecline(new, c, cap)
  <2>1. Was = 0
    BY <1>1, <1>2, <1>3, <1>9, SeverityOf
  <2> QED BY <2>1, <1>5
<1> QED BY <1>6, <1>7, <1>8, <1>9

\* What a step within a transaction leaves alone.
LEMMA WithinTransaction ==
    ASSUME Next, stage \in Running, stage' \in Running
    PROVE  /\ tvr \subseteq tvr'
           /\ files' = files /\ terminal' = terminal /\ card' = card /\ trx' = trx
BY DEF Next, PowerUp, PowerDown, PowerLoss, Begin, process_restrictions,
       run_terminal_risk_management, terminal_action_analysis, GoOnline, UnableToGoOnline, Over,
       Running, End, ApprovedOffline, vars, cardVars, unVars, history

\* However the TVR fills up in a transaction, no bit makes the first decision
\* more favourable (first_generate_ac_decision).
THEOREM BitsNeverHelpAlways == Spec => BitsNeverHelp
<1> DEFINE Step == (stage \in Running /\ stage' \in Running /\ Capable # "OfflineOnlyConsulting")
                      => Severity(Decision(tvr)) <= Severity(Decision(tvr)')
<1>1. Next => Step
  <2> SUFFICES ASSUME Next, stage \in Running, stage' \in Running,
                      Capable # "OfflineOnlyConsulting"
               PROVE  Severity(Decision(tvr)) <= Severity(Decision(tvr)')
    OBVIOUS
  <2>1. Capable \in Capability
    BY DEF Capable, attendance_capability, Capability
  <2>2. Codes' = Codes /\ Capable' = Capable
    BY WithinTransaction DEF Codes, Config, Capable, Profile
  <2>3. Decision(tvr)' = first_generate_ac_decision(tvr', Codes, Capable)
    BY <2>2 DEF Decision
  <2>4. Severity(first_generate_ac_decision(tvr, Codes, Capable))
          <= Severity(first_generate_ac_decision(tvr', Codes, Capable))
    BY <2>1, WithinTransaction, MoreBitsMoreSevere
  <2> QED BY <2>3, <2>4 DEF Decision
<1>2. [Next]_vars => [Step]_vars
  BY <1>1
<1> QED BY <1>2, PTL DEF Spec, BitsNeverHelp

\* An offline-only terminal and one that could not go online decide alike.
THEOREM OfflineIsUnableToGoOnlineAlways == Spec => []OfflineIsUnableToGoOnline
<1>1. OfflineIsUnableToGoOnline
  BY DEF OfflineIsUnableToGoOnline, first_generate_ac_decision, AsksOnline,
     DefaultsToDecline, unable_to_go_online_decision
<1> QED BY <1>1, PTL DEF Spec
-----------------------------------------------------------------------------
(* The run of offline approvals.  While the terminal's and the card's codes *)
(* act on the upper limit, every approval is of a transaction whose counter *)
(* is ahead of the last online one, and by no more than the larger limit.   *)

Found == find_application(assemble_terminal(files).applications, card.df_name)

UpperBit == "upper_consecutive_offline_limit_exceeded"

Limited ==
    /\ terminal # None /\ card.lower # None /\ card.upper # None
    /\ Acted(UpperBit)

\* The difference of the counters is within one of the limits.
Within(lower, upper) ==
    /\ atc > last_online
    /\ atc - last_online <= lower \/ atc - last_online <= upper

InProgress == IF stage \in Running THEN 1 ELSE 0

CounterInv == atc \in Nat /\ last_online \in Nat /\ offline \in Nat

ConfigInv ==
    /\ card \in Card
    /\ terminal = None => offline = 0 /\ stage \in {"Off", "Refused"}
    /\ terminal # None => terminal = Found

RunInv ==
    Limited =>
        /\ offline = 0 \/ offline + InProgress <= atc - last_online
        /\ offline <= Unwrap(card.lower) \/ offline <= Unwrap(card.upper)
        /\ stage \in {"Analysis", "Online"} =>
              UpperBit \in tvr \/ Within(Unwrap(card.lower), Unwrap(card.upper))
        /\ stage = "Online" => ~denial_decision(tvr, Codes)

RunIInv == CounterInv /\ ConfigInv /\ RunInv

\* A limit that is there is a number.
LEMMA LimitsAreNumbers ==
    ASSUME NEW c \in Card, c.lower # None, c.upper # None
    PROVE  Unwrap(c.lower) \in Nat /\ Unwrap(c.upper) \in Nat
BY CardAssumption DEF None, Unwrap

LEMMA UnwrapSome == ASSUME NEW x PROVE Unwrap(Some(x)) = x
BY DEF Some, Unwrap

LEMMA SomeIsNotNone == ASSUME NEW x PROVE Some(x) # None
BY DEF Some, None

\* Velocity checking sets the upper limit's bit unless both registers are
\* there and their difference is within one of the limits (check_velocity).
LEMMA VelocityBound ==
    ASSUME NEW lower, NEW upper, lower # None, upper # None,
           Unwrap(lower) \in Nat, Unwrap(upper) \in Nat,
           NEW a \in Nat, NEW l \in Nat,
           NEW counted \in GetData(a), NEW online \in GetData(l),
           UpperBit \notin check_velocity(lower, upper, counted, online)
    PROVE  a > l /\ (a - l <= Unwrap(lower) \/ a - l <= Unwrap(upper))
<1>1. UpperBit \in VelocityBits
  BY DEF UpperBit, VelocityBits
<1>2. ~Senseless(counted, online)
  BY <1>1 DEF check_velocity
<1>3. counted = Some(a) /\ online = Some(l)
  BY <1>2 DEF GetData, Senseless
<1>4. Unwrap(counted) = a /\ Unwrap(online) = l
  BY <1>3, UnwrapSome
<1>5. UpperBit \notin Exceeded(a - l, Unwrap(lower), Unwrap(upper))
  BY <1>2, <1>4 DEF check_velocity
<1>6. a - l <= Unwrap(lower) \/ a - l <= Unwrap(upper)
  BY <1>1, <1>5 DEF Exceeded
<1> QED BY <1>2, <1>4, <1>6 DEF Senseless

\* A TVR with the bit is never decided a TC while the codes act on it.
LEMMA ActedIsNotApproved ==
    ASSUME NEW bit, NEW bits, bit \in bits, Acted(bit)
    PROVE  /\ Decision(bits) # "TC"
           /\ ~denial_decision(bits, Codes) => unable_to_go_online_decision(bits, Codes) # "TC"
<1>1. CASE bit \in DenialMask(Codes)
  <2>1. denial_decision(bits, Codes)
    BY <1>1 DEF denial_decision, Matched
  <2> QED BY <2>1 DEF Decision, first_generate_ac_decision
<1>2. CASE bit \in OnlineMask(Codes) /\ bit \in DefaultMask(Codes)
  <2>1. Matched(bits, OnlineMask(Codes)) /\ Matched(bits, DefaultMask(Codes))
    BY <1>2 DEF Matched
  <2>2. Capable \in Capability
    BY DEF Capable, attendance_capability, Capability
  <2>3. AsksOnline(bits, Codes, Capable) \/ DefaultsToDecline(bits, Codes, Capable)
    BY <2>1, <2>2 DEF AsksOnline, DefaultsToDecline, Capability
  <2> QED BY <2>1, <2>3 DEF Decision, first_generate_ac_decision, unable_to_go_online_decision
<1> QED BY <1>1, <1>2 DEF Acted

\* What no step changes, and what every action does to the counters.
LEMMA Unchanging ==
    ASSUME ConfigInv, [Next]_vars
    PROVE  /\ ConfigInv'
           /\ card' = card /\ files' = files
           /\ terminal # None => terminal' = terminal /\ Codes' = Codes
           /\ Limited' /\ terminal # None => Limited
<1>1. card' = card /\ files' = files
  BY DEF Next, PowerUp, PowerDown, PowerLoss, Begin, process_restrictions,
     run_terminal_risk_management, terminal_action_analysis, GoOnline, UnableToGoOnline, Over,
     vars, cardVars
<1>2. Found' = Found
  BY <1>1 DEF Found
<1>3. terminal' = terminal \/ (PowerUp /\ terminal' = Found /\ Found # None /\ stage' = "Idle")
  BY DEF Next, PowerUp, PowerDown, PowerLoss, Begin, process_restrictions, Found,
     run_terminal_risk_management, terminal_action_analysis, GoOnline, UnableToGoOnline, Over, vars
<1>4. terminal # None => terminal' = terminal
  BY <1>3 DEF ConfigInv
<1>5. ConfigInv'
  <2>1. CASE terminal # None
    BY <2>1, <1>1, <1>2, <1>4 DEF ConfigInv
  <2>2. CASE terminal = None /\ terminal' = Found /\ Found # None
    BY <2>2, <1>1, <1>2 DEF ConfigInv
  <2>3. CASE terminal = None /\ terminal' = terminal
    <3>1. stage \in {"Off", "Refused"} /\ offline = 0
      BY <2>3 DEF ConfigInv
    <3>2. offline' = offline /\ (stage' = stage \/ PowerUp)
      BY <3>1 DEF Next, PowerUp, PowerDown, PowerLoss, Begin, process_restrictions, Running,
         run_terminal_risk_management, terminal_action_analysis, GoOnline, UnableToGoOnline,
         Over, vars, history
    <3>3. PowerUp => stage' = "Refused" \/ terminal' # None
      BY SomeIsNotNone DEF PowerUp, Found
    <3> QED BY <3>1, <3>2, <3>3, <2>3, <1>1 DEF ConfigInv
  <2> QED BY <2>1, <2>2, <2>3, <1>3
<1>6. terminal # None => Codes' = Codes
  BY <1>1, <1>4 DEF Codes, Config
<1>7. (Limited' /\ terminal # None) => Limited
  BY <1>1, <1>6 DEF Limited, Acted
<1> QED BY <1>1, <1>4, <1>5, <1>6, <1>7

\* The counters stay counters.
LEMMA CountersStep == CounterInv /\ [Next]_vars => CounterInv'
BY DEF CounterInv, Next, PowerUp, PowerDown, PowerLoss, Begin, process_restrictions,
   run_terminal_risk_management, terminal_action_analysis, ApprovedOffline, GoOnline,
   UnableToGoOnline, Over, vars, cardVars, history

\* The step of the run's invariant, action by action.
LEMMA RunStep ==
    ASSUME CounterInv, ConfigInv, RunInv, [Next]_vars, Limited', terminal # None
    PROVE  RunInv'
<1> DEFINE Lower == Unwrap(card.lower)
           Upper == Unwrap(card.upper)
<1>1. card' = card /\ terminal' = terminal /\ Codes' = Codes /\ Limited
  BY Unchanging
<1>2. Lower \in Nat /\ Upper \in Nat
  BY <1>1, LimitsAreNumbers DEF Limited, ConfigInv
<1>3. atc \in Nat /\ last_online \in Nat /\ offline \in Nat
  BY DEF CounterInv
<1>4. /\ offline = 0 \/ offline + InProgress <= atc - last_online
      /\ offline <= Lower \/ offline <= Upper
      /\ stage \in {"Analysis", "Online"} => UpperBit \in tvr \/ Within(Lower, Upper)
      /\ stage = "Online" => ~denial_decision(tvr, Codes)
  BY <1>1 DEF RunInv
<1>5. SUFFICES /\ offline' = 0 \/ offline' + InProgress' <= atc' - last_online'
               /\ offline' <= Lower \/ offline' <= Upper
               /\ stage' \in {"Analysis", "Online"} => UpperBit \in tvr' \/ Within(Lower, Upper)'
               /\ stage' = "Online" => ~denial_decision(tvr', Codes)
  BY <1>1 DEF RunInv
<1>6. CASE UNCHANGED <<atc, last_online, offline>> /\ stage' \in {"Off", "Idle"}
  BY <1>6, <1>3, <1>4 DEF InProgress, Running
<1>7. CASE Begin
  <2>1. stage = "Idle" /\ stage' = "Restrictions" /\ atc' = atc + 1
        /\ last_online' = last_online /\ offline' = offline
    BY <1>7 DEF Begin, history
  <2> QED BY <2>1, <1>3, <1>4 DEF InProgress, Running
<1>8. CASE process_restrictions
  <2>1. stage = "Restrictions" /\ stage' \in {"Idle", "Risk"}
        /\ UNCHANGED <<atc, last_online, offline>>
    BY <1>8 DEF process_restrictions, End, cardVars, history
  <2> QED BY <2>1, <1>3, <1>4 DEF InProgress, Running
<1>9. CASE run_terminal_risk_management
  <2>1. stage = "Risk" /\ stage' \in {"Idle", "Analysis"}
        /\ UNCHANGED <<atc, last_online, offline>>
    BY <1>9 DEF run_terminal_risk_management, End, cardVars, history
  <2>2. ASSUME stage' = "Analysis"
        PROVE  UpperBit \in tvr' \/ Within(Lower, Upper)
    <3>1. PICK counted \in GetData(atc), online \in GetData(last_online) :
            check_velocity(card.lower, card.upper, counted, online) \subseteq tvr'
      <4>1. PICK c \in GetData(atc), o \in GetData(last_online), random \in RandomNumber :
              tvr' = tvr \cup RiskBits(RiskContext(c, o, random))
        BY <1>9, <2>2 DEF run_terminal_risk_management, End
      <4>2. check_velocity(card.lower, card.upper, c, o) \subseteq RiskBits(RiskContext(c, o, random))
        BY DEF RiskBits, RiskContext
      <4> QED BY <4>1, <4>2
    <3>2. CASE UpperBit \notin check_velocity(card.lower, card.upper, counted, online)
      BY <3>2, <1>1, <1>2, <1>3, VelocityBound DEF Within, Limited
    <3> QED BY <3>1, <3>2
  <2>3. Within(Lower, Upper) => Within(Lower, Upper)'
    BY <2>1, <1>1 DEF Within
  <2> QED BY <2>1, <2>2, <2>3, <1>3, <1>4 DEF InProgress, Running
<1>10. ASSUME ApprovedOffline, stage \in {"Analysis", "Online"}, UNCHANGED <<atc, last_online>>,
              UpperBit \notin tvr
       PROVE  /\ offline' = 0 \/ offline' + InProgress' <= atc' - last_online'
              /\ offline' <= Lower \/ offline' <= Upper
              /\ stage' = "Idle"
  <2>1. offline' = offline + 1 /\ stage' = "Idle"
    BY <1>10 DEF ApprovedOffline, End
  <2>2. Within(Lower, Upper) /\ InProgress = 1
    BY <1>4, <1>10 DEF InProgress, Running
  <2>3. InProgress' = 0
    BY <2>1 DEF InProgress, Running
  <2> QED BY <2>1, <2>2, <2>3, <1>2, <1>3, <1>4, <1>10 DEF Within
<1>11. CASE terminal_action_analysis
  <2>1. stage = "Analysis" /\ UNCHANGED <<atc, last_online>> /\ tvr' = tvr
    BY <1>11 DEF terminal_action_analysis, cardVars
  <2>2. CASE Decision(tvr) = "TC" /\ ApprovedOffline
    <3>1. UpperBit \notin tvr
      BY <2>2, <1>1, ActedIsNotApproved DEF Limited
    <3> QED BY <1>10, <2>1, <2>2, <3>1
  <2>3. CASE Decision(tvr) \in {"TC", "ARQC"} /\ stage' = "Online" /\ UNCHANGED history
    <3>1. ~denial_decision(tvr, Codes)
      BY <2>3 DEF Decision, first_generate_ac_decision
    <3>2. Within(Lower, Upper) => Within(Lower, Upper)'
      BY <2>1, <1>1 DEF Within
    <3> QED BY <2>1, <2>3, <3>1, <3>2, <1>3, <1>4 DEF InProgress, Running, history
  <2>4. CASE stage' = "Idle" /\ UNCHANGED history
    BY <2>1, <2>4, <1>6 DEF history
  <2> QED BY <1>11, <2>2, <2>3, <2>4 DEF terminal_action_analysis, End
<1>12. CASE GoOnline
  BY <1>12, <1>2 DEF GoOnline, End
<1>13. CASE UnableToGoOnline
  <2>1. stage = "Online" /\ UNCHANGED <<atc, last_online>>
    BY <1>13 DEF UnableToGoOnline, cardVars
  <2>2. CASE unable_to_go_online_decision(tvr, Codes) = "TC" /\ ApprovedOffline
    <3>1. UpperBit \notin tvr
      BY <2>1, <2>2, <1>1, <1>4, ActedIsNotApproved DEF Limited
    <3> QED BY <1>10, <2>1, <2>2, <3>1
  <2>3. CASE stage' = "Idle" /\ UNCHANGED history
    BY <2>1, <2>3, <1>6 DEF history
  <2> QED BY <1>13, <2>2, <2>3 DEF UnableToGoOnline, End
<1>14. CASE PowerUp
  BY <1>14, <1>3, <1>4 DEF PowerUp, cardVars, history, InProgress, Running
<1>15. CASE PowerDown \/ PowerLoss
  BY <1>15, <1>6 DEF PowerDown, PowerLoss, cardVars, history
<1>16. CASE UNCHANGED vars
  <2>1. Within(Lower, Upper) => Within(Lower, Upper)'
    BY <1>16 DEF Within, vars, cardVars
  <2>2. InProgress' = InProgress
    BY <1>16 DEF InProgress, vars
  <2> QED BY <1>16, <1>4, <2>1, <2>2 DEF vars, cardVars, history
<1> QED BY <1>7, <1>8, <1>9, <1>11, <1>12, <1>13, <1>14, <1>15, <1>16 DEF Next, Over

\* However many transactions there are, whatever the registers answer and
\* whenever power goes, the run of offline approvals stays within the limits
\* (check_velocity).
THEOREM OfflineRunIsBoundedAlways == Spec => []OfflineRunIsBounded
<1>1. Init => RunIInv
  <2> SUFFICES ASSUME Init PROVE RunIInv
    OBVIOUS
  <2>1. CounterInv
    BY CounterAssumption DEF Init, CounterInv
  <2>2. ConfigInv /\ ~Limited
    BY DEF Init, ConfigInv, Limited
  <2> QED BY <2>1, <2>2 DEF RunIInv, RunInv
<1>2. RunIInv /\ [Next]_vars => RunIInv'
  <2> SUFFICES ASSUME RunIInv, [Next]_vars PROVE RunIInv'
    OBVIOUS
  <2>1. CounterInv' /\ ConfigInv'
    BY CountersStep, Unchanging DEF RunIInv
  <2>2. CASE terminal # None
    <3>1. CASE Limited'
      BY <2>1, <2>2, <3>1, RunStep DEF RunIInv
    <3>2. CASE ~Limited'
      BY <2>1, <3>2 DEF RunIInv, RunInv
    <3> QED BY <3>1, <3>2
  <2>3. CASE terminal = None
    <3>1. offline = 0 /\ stage \in {"Off", "Refused"}
      BY <2>3 DEF RunIInv, ConfigInv
    <3>2. offline' = 0 /\ stage' \in {"Off", "Refused", "Idle"}
      BY <3>1 DEF Next, PowerUp, PowerDown, PowerLoss, Begin, process_restrictions, Running,
         run_terminal_risk_management, terminal_action_analysis, GoOnline, UnableToGoOnline,
         Over, vars, history
    <3>3. Limited' => Unwrap(card'.lower) \in Nat
      BY <2>1, LimitsAreNumbers DEF ConfigInv, Limited
    <3> QED BY <2>1, <3>2, <3>3 DEF RunIInv, RunInv
  <2> QED BY <2>2, <2>3
<1>3. RunIInv => OfflineRunIsBounded
  BY DEF RunIInv, RunInv, Limited, OfflineRunIsBounded, UpperBit
<1> QED BY <1>1, <1>2, <1>3, PTL DEF Spec
-----------------------------------------------------------------------------
(* The amounts of a PAN.  What risk management found of the sum is still    *)
(* true when the decision falls, because only the decision adds to the log. *)

FloorBit == "transaction_exceeds_floor_limit"

Floor == Config.terminal_floor_limit

Watched == terminal # None /\ KeepsLog /\ Acted(FloorBit)

AmountsInv == log \in Nat /\ card \in Card /\ files \in Files /\ trx \in Transaction

FloorInv ==
    /\ terminal = None => log = 0
    /\ terminal # None => Floor \in 0..AmountMax

SplitInv ==
    Watched =>
        /\ log = 0 \/ log < Floor
        /\ stage \in {"Analysis", "Online"} => FloorBit \in tvr \/ log + trx.amount < Floor
        /\ stage = "Online" => ~denial_decision(tvr, Codes)

SplitIInv == ConfigInv /\ AmountsInv /\ FloorInv /\ SplitInv

\* A sum that does not reach the floor limit is what it seems: saturation
\* takes effect above every limit (check_floor_limit).
LEMMA FloorBound ==
    ASSUME NEW amount \in Nat, NEW prior \in Nat, NEW floor \in 0..AmountMax,
           ~check_floor_limit(amount, Some(prior), floor)
    PROVE  prior + amount < floor
<1>1. UnwrapOr(Some(prior), 0) = prior
  BY UnwrapSome, SomeIsNotNone DEF UnwrapOr
<1>2. saturating_add(amount, prior) < floor /\ AmountMax \in Nat
  BY <1>1, AmountMaxAssumption DEF check_floor_limit, saturating_add
<1> QED BY <1>2 DEF saturating_add

\* Amounts stay amounts.
LEMMA AmountsStep == AmountsInv /\ [Next]_vars => AmountsInv'
<1> SUFFICES ASSUME AmountsInv, [Next]_vars PROVE AmountsInv'
  OBVIOUS
<1>1. card' = card /\ files' = files /\ trx' \in Transaction
  BY DEF AmountsInv, Next, PowerUp, PowerDown, PowerLoss, Begin, process_restrictions,
     run_terminal_risk_management, terminal_action_analysis, GoOnline, UnableToGoOnline, Over,
     vars, cardVars
<1>2. trx.amount \in Nat
  BY AmountAssumption DEF AmountsInv
<1>3. log' = log \/ log' = log + trx.amount
  BY DEF Next, PowerUp, PowerDown, PowerLoss, Begin, process_restrictions, ApprovedOffline,
     run_terminal_risk_management, terminal_action_analysis, GoOnline, UnableToGoOnline, Over,
     vars, history
<1> QED BY <1>1, <1>2, <1>3 DEF AmountsInv

\* A terminal comes up with nothing logged and keeps its limit.
LEMMA FloorStep ==
    ASSUME ConfigInv, AmountsInv, FloorInv, [Next]_vars
    PROVE  FloorInv' /\ (terminal = None => log' = 0 /\ stage' \in {"Off", "Refused", "Idle"})
<1>1. CASE terminal # None
  <2>1. terminal' = terminal
    BY <1>1, Unchanging
  <2> QED BY <1>1, <2>1 DEF FloorInv, Floor, Config
<1>2. CASE terminal = None
  <2>1. stage \in {"Off", "Refused"} /\ log = 0
    BY <1>2 DEF ConfigInv, FloorInv
  <2>2. log' = 0 /\ stage' \in {"Off", "Refused", "Idle"} /\ (terminal' = terminal \/ PowerUp)
    BY <2>1 DEF Next, PowerUp, PowerDown, PowerLoss, Begin, process_restrictions, Running,
       run_terminal_risk_management, terminal_action_analysis, GoOnline, UnableToGoOnline,
       Over, vars, history
  <2>3. ASSUME PowerUp, terminal' # None
        PROVE  Floor' \in 0..AmountMax
    <3>1. terminal' = Found /\ Accepted(files)
      BY <1>2, <2>3 DEF PowerUp, Found
    <3>2. Unwrap(terminal') \in terminal'
      BY <2>3 DEF Unwrap, None
    <3> QED BY <3>1, <3>2, AmountAssumption DEF AmountsInv, Found, Floor, Config
  <2> QED BY <1>2, <2>2, <2>3 DEF FloorInv
<1> QED BY <1>1, <1>2

\* The step of the log's invariant, action by action.
LEMMA SplitStep ==
    ASSUME SplitIInv, [Next]_vars, Watched', terminal # None
    PROVE  SplitInv'
<1>1. /\ card' = card /\ terminal' = terminal /\ Codes' = Codes /\ Floor' = Floor
      /\ Watched
  BY Unchanging DEF SplitIInv, Watched, Acted, Floor, Config
<1>2. /\ log \in Nat /\ trx.amount \in Nat /\ Floor \in 0..AmountMax /\ AmountMax \in Nat
  BY <1>1, AmountAssumption, AmountMaxAssumption DEF SplitIInv, AmountsInv, FloorInv, Watched
<1>3. /\ log = 0 \/ log < Floor
      /\ stage \in {"Analysis", "Online"} => FloorBit \in tvr \/ log + trx.amount < Floor
      /\ stage = "Online" => ~denial_decision(tvr, Codes)
  BY <1>1 DEF SplitIInv, SplitInv
<1>4. SUFFICES /\ log' = 0 \/ log' < Floor
               /\ stage' \in {"Analysis", "Online"} =>
                     FloorBit \in tvr' \/ log' + trx'.amount < Floor
               /\ stage' = "Online" => ~denial_decision(tvr', Codes)
  BY <1>1 DEF SplitInv
<1>5. CASE log' = log /\ stage' \notin {"Analysis", "Online"}
  BY <1>3, <1>5
<1>6. ASSUME ApprovedOffline, stage \in {"Analysis", "Online"}, FloorBit \notin tvr
      PROVE  log' < Floor /\ stage' = "Idle"
  BY <1>1, <1>2, <1>3, <1>6 DEF ApprovedOffline, End, Watched
<1>7. CASE run_terminal_risk_management
  <2>1. log' = log /\ trx' = trx /\ stage' \in {"Idle", "Analysis"}
    BY <1>7 DEF run_terminal_risk_management, End, history
  <2>2. ASSUME stage' = "Analysis"
        PROVE  FloorBit \in tvr' \/ log + trx.amount < Floor
    <3>1. PICK c \in GetData(atc), o \in GetData(last_online), random \in RandomNumber :
            tvr' = tvr \cup RiskBits(RiskContext(c, o, random))
      BY <1>7, <2>2 DEF run_terminal_risk_management, End
    <3>2. CASE check_floor_limit(trx.amount, Some(log), Floor)
      BY <3>1, <3>2, <1>1 DEF RiskBits, RiskContext, FloorBit, Watched, Floor
    <3>3. CASE ~check_floor_limit(trx.amount, Some(log), Floor)
      BY <3>3, <1>2, FloorBound
    <3> QED BY <3>2, <3>3
  <2> QED BY <1>3, <2>1, <2>2
<1>8. CASE terminal_action_analysis
  <2>1. stage = "Analysis" /\ tvr' = tvr /\ trx' = trx
    BY <1>8 DEF terminal_action_analysis
  <2>2. CASE Decision(tvr) = "TC" /\ ApprovedOffline
    <3>1. FloorBit \notin tvr
      BY <2>2, <1>1, ActedIsNotApproved DEF Watched
    <3> QED BY <1>6, <2>1, <2>2, <3>1
  <2>3. CASE Decision(tvr) \in {"TC", "ARQC"} /\ stage' = "Online" /\ UNCHANGED history
    <3>1. ~denial_decision(tvr, Codes)
      BY <2>3 DEF Decision, first_generate_ac_decision
    <3> QED BY <2>1, <2>3, <3>1, <1>3 DEF history
  <2>4. CASE stage' = "Idle" /\ UNCHANGED history
    BY <2>4, <1>5 DEF history
  <2> QED BY <1>8, <2>2, <2>3, <2>4 DEF terminal_action_analysis, End
<1>9. CASE UnableToGoOnline
  <2>1. stage = "Online"
    BY <1>9 DEF UnableToGoOnline
  <2>2. CASE unable_to_go_online_decision(tvr, Codes) = "TC" /\ ApprovedOffline
    <3>1. FloorBit \notin tvr
      BY <2>1, <2>2, <1>1, <1>3, ActedIsNotApproved DEF Watched
    <3> QED BY <1>6, <2>1, <2>2, <3>1
  <2>3. CASE stage' = "Idle" /\ UNCHANGED history
    BY <2>3, <1>5 DEF history
  <2> QED BY <1>9, <2>2, <2>3 DEF UnableToGoOnline, End
<1>10. CASE UNCHANGED vars
  BY <1>10, <1>3 DEF vars, history
<1>11. CASE PowerUp \/ PowerDown \/ PowerLoss \/ Begin \/ process_restrictions \/ GoOnline
  <2>1. log' = log /\ stage' \notin {"Analysis", "Online"}
    BY <1>11 DEF PowerUp, PowerDown, PowerLoss, Begin, process_restrictions, GoOnline, End, history
  <2> QED BY <2>1, <1>5
<1> QED BY <1>7, <1>8, <1>9, <1>10, <1>11 DEF Next, Over

\* While the codes act on the floor limit and the host logs what a PAN was
\* approved for, no sequence of sales adds up to the limit offline
\* (check_floor_limit to the decision).
THEOREM SplitStaysBelowFloorAlways == Spec => []SplitStaysBelowFloor
<1>1. Init => SplitIInv
  <2> SUFFICES ASSUME Init PROVE SplitIInv
    OBVIOUS
  <2> QED BY DEF Init, SplitIInv, ConfigInv, AmountsInv, FloorInv, SplitInv, Watched
<1>2. SplitIInv /\ [Next]_vars => SplitIInv'
  <2> SUFFICES ASSUME SplitIInv, [Next]_vars PROVE SplitIInv'
    OBVIOUS
  <2>1. ConfigInv' /\ AmountsInv' /\ FloorInv'
    BY Unchanging, AmountsStep, FloorStep DEF SplitIInv
  <2>2. CASE terminal # None
    <3>1. ~Watched' => SplitInv'
      BY DEF SplitInv
    <3> QED BY <2>1, <2>2, <3>1, SplitStep DEF SplitIInv
  <2>3. CASE terminal = None
    <3>1. log' = 0 /\ stage' \in {"Off", "Refused", "Idle"}
      BY <2>3, FloorStep DEF SplitIInv
    <3> QED BY <2>1, <3>1 DEF SplitIInv, SplitInv
  <2> QED BY <2>2, <2>3
<1>3. SplitIInv => SplitStaysBelowFloor
  BY DEF SplitIInv, SplitInv, AmountsInv, SplitStaysBelowFloor, Watched, FloorBit, Floor
<1> QED BY <1>1, <1>2, <1>3, PTL DEF Spec
-----------------------------------------------------------------------------
(* Processing restrictions.  What they found stays in the TVR until the     *)
(* decision, and a decision for a TC over codes that act on all of it means *)
(* that they found nothing.                                                 *)

Here == [version |-> Config.application_version_number, atm |-> terminal_is_atm(Profile),
         country |-> Profile.country]

Restricted == Restrictions(card, Here, trx)

AllActed == \A bit \in RestrictionBit : Acted(bit)

Checked == {"Risk", "Analysis", "Online"}

GivenInv == card \in Card /\ trx \in Transaction

UseInv ==
    /\ terminal = None => result # "TC"
    /\ stage \in Checked => Restricted \subseteq tvr /\ ~RestrictionsFail
    /\ stage = "Online" => ~denial_decision(tvr, Codes)
    /\ result = "TC" /\ AllActed => Usable

UseIInv == ConfigInv /\ GivenInv /\ UseInv

\* Restrictions are restriction bits.
LEMMA RestrictionsAreBits == Restricted \subseteq RestrictionBit
BY DEF Restricted, Restrictions, If, RestrictionBit

\* A row asks for the bits the code looks at.
LEMMA ServiceRow ==
    ASSUME NEW category, NEW domestic \in BOOLEAN, NEW row \in ServiceRows,
           row[1] = category, row[2] = domestic
    PROVE  category # "Other" /\ row[3] = ServiceBits(category, domestic)
<1>1. CASE row = <<"Cash", TRUE, {"valid_for_domestic_cash_transactions"}>>
  <2>1. category = "Cash" /\ domestic = TRUE /\ row[3] = {"valid_for_domestic_cash_transactions"}
    BY <1>1
  <2> QED BY <2>1 DEF ServiceBits
<1>2. CASE row = <<"Cash", FALSE, {"valid_for_international_cash_transactions"}>>
  <2>1. /\ category = "Cash" /\ domestic = FALSE
        /\ row[3] = {"valid_for_international_cash_transactions"}
    BY <1>2
  <2> QED BY <2>1 DEF ServiceBits
<1>3. CASE row = <<"Purchase", TRUE, {"valid_for_domestic_goods", "valid_for_domestic_services"}>>
  <2>1. /\ category = "Purchase" /\ domestic = TRUE
        /\ row[3] = {"valid_for_domestic_goods", "valid_for_domestic_services"}
    BY <1>3
  <2> QED BY <2>1 DEF ServiceBits
<1>4. CASE row = <<"Purchase", FALSE,
                   {"valid_for_international_goods", "valid_for_international_services"}>>
  <2>1. /\ category = "Purchase" /\ domestic = FALSE
        /\ row[3] = {"valid_for_international_goods", "valid_for_international_services"}
    BY <1>4
  <2> QED BY <2>1 DEF ServiceBits
<1> QED BY <1>1, <1>2, <1>3, <1>4 DEF ServiceRows

\* Restrictions that find nothing found every row of Table 36 that concerns
\* the sale satisfied (check_application_usage_control, check_dates).
LEMMA NothingRestricted ==
    ASSUME GivenInv, ~RestrictionsFail, Restricted = {}
    PROVE  Usable
<1>1. /\ ~check_application_version(card.version, Here.version)
      /\ ~check_application_usage_control(card.usage, Here.atm, card.issuer_country, Here.country,
            trx.category, trx.cashback)
      /\ ~not_yet_effective(card.effective, trx.date)
      /\ ~expired(Unwrap(card.expiration), trx.date)
  BY DEF Restricted, Restrictions, If
<1>2. /\ trx.date \in Nat
      /\ \A d, e \in card.effective : d = e /\ (d = Malformed \/ d \in Nat)
      /\ \A d, e \in card.expiration : d = e /\ (d = Malformed \/ d \in Nat)
  BY DateAssumption DEF GivenInv
<1>3. card.effective # Some(Malformed) /\ card.expiration # Some(Malformed)
  BY DEF RestrictionsFail
<1>4. ASSUME NEW first \in card.effective PROVE first <= trx.date
  <2>1. first # Malformed
    BY <1>2, <1>3 DEF Some
  <2> QED BY <2>1, <1>1, <1>2 DEF not_yet_effective
<1>5. ASSUME NEW last \in card.expiration PROVE trx.date <= last
  <2>1. last # Malformed
    BY <1>2, <1>3 DEF Some
  <2>2. Unwrap(card.expiration) = last
    BY <1>2 DEF Unwrap
  <2> QED BY <2>1, <2>2, <1>1, <1>2 DEF expired
<1>6. \A version \in card.version : version = Config.application_version_number
  BY <1>1 DEF check_application_version, Here
<1>7. ASSUME NEW bits \in card.usage
      PROVE  (IF terminal_is_atm(Profile) THEN "valid_at_atms"
              ELSE "valid_at_terminals_other_than_atms") \in bits
  BY <1>1 DEF check_application_usage_control, PlaceBit, Here
<1>8. ASSUME NEW bits \in card.usage, NEW home \in card.issuer_country,
             NEW row \in UsageRows(trx.category, trx.cashback, home = Profile.country)
      PROVE  row[3] \cap bits # {}
  <2>1. /\ trx.category # "Other" =>
             ServiceBits(trx.category, home = Profile.country) \cap bits # {}
        /\ trx.cashback => CashbackBit(home = Profile.country) \in bits
    BY <1>1 DEF check_application_usage_control, Here
  <2>2. CASE trx.cashback /\ row = <<"Cashback", home = Profile.country,
               {IF home = Profile.country THEN "domestic_cashback_allowed"
                ELSE "international_cashback_allowed"}>>
    BY <2>1, <2>2 DEF CashbackBit
  <2>3. CASE row \in ServiceRows /\ row[1] = trx.category /\ row[2] = (home = Profile.country)
    <3>1. trx.category # "Other" /\ row[3] = ServiceBits(trx.category, home = Profile.country)
      BY <2>3, ServiceRow
    <3> QED BY <2>1, <3>1
  <2> QED BY <1>8, <2>2, <2>3 DEF UsageRows, ServiceRows
<1> QED BY <1>4, <1>5, <1>6, <1>7, <1>8 DEF Usable

\* The step of the invariant while the terminal is up.
LEMMA UseStep ==
    ASSUME UseIInv, [Next]_vars, terminal # None
    PROVE  UseInv'
<1>1. /\ card' = card /\ files' = files /\ terminal' = terminal /\ Codes' = Codes
  BY Unchanging DEF UseIInv
<1>2. AllActed' = AllActed /\ Here' = Here
  BY <1>1 DEF AllActed, Acted, Here, Config, Profile
<1>3. trx' = trx =>
        Restricted' = Restricted /\ RestrictionsFail' = RestrictionsFail /\ Usable' = Usable
  BY <1>1, <1>2 DEF Restricted, RestrictionsFail, Usable, Config, Profile
<1>4. /\ stage \in Checked => Restricted \subseteq tvr /\ ~RestrictionsFail
      /\ stage = "Online" => ~denial_decision(tvr, Codes)
      /\ result = "TC" /\ AllActed => Usable
  BY DEF UseIInv, UseInv
<1>5. SUFFICES /\ stage' \in Checked => Restricted' \subseteq tvr' /\ ~RestrictionsFail'
               /\ stage' = "Online" => ~denial_decision(tvr', Codes)
               /\ result' = "TC" /\ AllActed => Usable'
  BY <1>1, <1>2 DEF UseInv
<1>6. ASSUME stage \in {"Analysis", "Online"}, AllActed,
             \/ Decision(tvr) = "TC"
             \/ ~denial_decision(tvr, Codes) /\ unable_to_go_online_decision(tvr, Codes) = "TC"
      PROVE  Usable
  <2>1. \A bit \in RestrictionBit : bit \notin tvr
    <3> SUFFICES ASSUME NEW bit \in RestrictionBit PROVE bit \notin tvr
      OBVIOUS
    <3>1. Acted(bit)
      BY <1>6 DEF AllActed
    <3> QED BY <1>6, <3>1, ActedIsNotApproved
  <2>2. Restricted = {} /\ ~RestrictionsFail
    BY <2>1, <1>4, <1>6, RestrictionsAreBits DEF Checked
  <2> QED BY <2>2, NothingRestricted DEF UseIInv
<1>7. CASE process_restrictions
  <2>1. trx' = trx /\ (RestrictionsFail => stage' = "Idle" /\ result' = "RestrictionError")
        /\ (~RestrictionsFail => tvr' = tvr \cup Restricted /\ stage' = "Risk" /\ result' = result)
    BY <1>7 DEF process_restrictions, End, Restricted, Here
  <2> QED BY <2>1, <1>3, <1>4 DEF Checked
<1>8. CASE run_terminal_risk_management
  <2>1. /\ stage = "Risk" /\ trx' = trx /\ tvr \subseteq tvr'
        /\ \/ stage' = "Analysis" /\ result' = result
           \/ stage' = "Idle" /\ result' # "TC"
    <3>1. CASE End("GetDataError") /\ UNCHANGED tvr
      BY <1>8, <3>1 DEF run_terminal_risk_management, End
    <3>2. CASE \E counted \in GetData(atc), online \in GetData(last_online), random \in RandomNumber :
                  IF EvaluationFails(RiskContext(counted, online, random))
                  THEN End("RiskError") /\ UNCHANGED tvr
                  ELSE /\ tvr' = tvr \cup RiskBits(RiskContext(counted, online, random))
                       /\ stage' = "Analysis"
                       /\ UNCHANGED <<unVars, result>>
      <4>1. PICK context :
              IF EvaluationFails(context)
              THEN End("RiskError") /\ UNCHANGED tvr
              ELSE /\ tvr' = tvr \cup RiskBits(context)
                   /\ stage' = "Analysis"
                   /\ UNCHANGED <<unVars, result>>
        BY <3>2, Zenon
      <4>2. CASE EvaluationFails(context)
        BY <1>8, <4>1, <4>2 DEF run_terminal_risk_management, End
      <4>3. CASE ~EvaluationFails(context)
        BY <1>8, <4>1, <4>3 DEF run_terminal_risk_management
      <4> QED BY <4>2, <4>3
    <3> QED BY <1>8, <3>1, <3>2 DEF run_terminal_risk_management
  <2> QED BY <2>1, <1>3, <1>4 DEF Checked
<1>9. CASE terminal_action_analysis
  <2>1. stage = "Analysis" /\ trx' = trx /\ tvr' = tvr
    BY <1>9 DEF terminal_action_analysis
  <2>2. CASE Decision(tvr) = "TC" /\ stage' = "Idle"
    BY <2>1, <2>2, <1>3, <1>6 DEF Checked
  <2>3. CASE Decision(tvr) \in {"TC", "ARQC"} /\ stage' = "Online" /\ result' = result
    <3>1. ~denial_decision(tvr, Codes)
      BY <2>3 DEF Decision, first_generate_ac_decision
    <3> QED BY <2>1, <2>3, <3>1, <1>3, <1>4 DEF Checked
  <2>4. CASE stage' = "Idle" /\ result' # "TC"
    BY <2>4 DEF Checked
  <2> QED BY <1>9, <2>2, <2>3, <2>4 DEF terminal_action_analysis, ApprovedOffline, End
<1>10. CASE UnableToGoOnline
  <2>1. stage = "Online" /\ trx' = trx /\ stage' = "Idle"
    BY <1>10 DEF UnableToGoOnline, ApprovedOffline, End
  <2>2. result' = "TC" => unable_to_go_online_decision(tvr, Codes) = "TC"
    BY <1>10 DEF UnableToGoOnline, End
  <2> QED BY <2>1, <2>2, <1>3, <1>4, <1>6 DEF Checked
<1>11. CASE GoOnline \/ Begin
  <2>1. stage' \in {"Idle", "Restrictions"} /\ result' # "TC"
    BY <1>11 DEF GoOnline, Begin, End
  <2> QED BY <2>1 DEF Checked
<1>12. CASE PowerUp \/ PowerDown \/ PowerLoss
  <2>1. stage' \notin Checked /\ stage' # "Online" /\ trx' = trx /\ result' \in {result, "Lost"}
    BY <1>12 DEF PowerUp, PowerDown, PowerLoss, Checked
  <2> QED BY <2>1, <1>3, <1>4
<1>13. CASE UNCHANGED vars
  BY <1>13, <1>3, <1>4 DEF vars
<1> QED BY <1>7, <1>8, <1>9, <1>10, <1>11, <1>12, <1>13 DEF Next, Over

\* An application that may not be used is never approved offline while the
\* codes act on the restrictions (process_restrictions to the decision).
THEOREM UnusableIsNotApprovedAlways == Spec => []UnusableIsNotApproved
<1>1. Init => UseIInv
  <2> SUFFICES ASSUME Init PROVE UseIInv
    OBVIOUS
  <2> QED BY DEF Init, UseIInv, ConfigInv, GivenInv, UseInv, Checked
<1>2. UseIInv /\ [Next]_vars => UseIInv'
  <2> SUFFICES ASSUME UseIInv, [Next]_vars PROVE UseIInv'
    OBVIOUS
  <2>1. ConfigInv' /\ card' = card
    BY Unchanging DEF UseIInv
  <2>2. trx' \in Transaction
    BY DEF UseIInv, GivenInv, Next, PowerUp, PowerDown, PowerLoss, Begin, process_restrictions,
       run_terminal_risk_management, terminal_action_analysis, GoOnline, UnableToGoOnline, Over,
       vars
  <2>3. GivenInv'
    BY <2>1, <2>2 DEF UseIInv, GivenInv
  <2>4. CASE terminal = None
    <3>1. stage \in {"Off", "Refused"} /\ result # "TC"
      BY <2>4 DEF UseIInv, ConfigInv, UseInv
    <3>2. result' = result /\ stage' \in {"Off", "Refused", "Idle"}
      BY <3>1 DEF Next, PowerUp, PowerDown, PowerLoss, Begin, process_restrictions, Running,
         run_terminal_risk_management, terminal_action_analysis, GoOnline, UnableToGoOnline,
         Over, vars
    <3> QED BY <2>1, <2>3, <3>1, <3>2 DEF UseIInv, UseInv, Checked
  <2> QED BY <2>1, <2>3, <2>4, UseStep DEF UseIInv
<1>3. UseIInv => UnusableIsNotApproved
  BY DEF UseIInv, UseInv, UnusableIsNotApproved, AllActed
<1> QED BY <1>1, <1>2, <1>3, PTL DEF Spec
-----------------------------------------------------------------------------
(* Unpredictable numbers.  A hash is as good as what it is made of: from the *)
(* value of the register P can be told how often Q was rolled on the way to  *)
(* it and how often it was refreshed.                                        *)

\* No chain of hashes comes back to a value it has had: there are Values, closed
\* under the two hashes, for which Rolls and Refreshes count the links.
HashesTell(Values, Rolls, Refreshes) ==
    /\ Rolls \in [Values -> Nat] /\ Refreshes \in [Values -> Nat] /\ Seed \in Values
    /\ \A q \in Values, tvp \in Tvp, rand \in Rand :
          LET rolled == Sha(<<q, tvp, Ifdsn, Tid>> \o Field(rand))
          IN  rolled \in Values /\ Rolls[rolled] = Rolls[q] + 1
    /\ \A q \in Values, tvp \in Tvp, rand \in Rand, ac \in {None, Some(<<"AC">>)} :
          LET refreshed == Sha(<<q, tvp>> \o Field(rand) \o Field(ac))
          IN  /\ refreshed \in Values /\ Rolls[refreshed] = Rolls[q]
              /\ Refreshes[refreshed] = Refreshes[q] + 1

\* x is a value of the register from before y.
Before(Rolls, Refreshes, x, y) ==
    \/ Rolls[x] < Rolls[y]
    \/ Rolls[x] = Rolls[y] /\ Refreshes[x] < Refreshes[y]

\* With the register in use as it was when the last number was generated, or
\* later; without power only the stored one counts.
Since(Values, Rolls, Refreshes, x) ==
    CASE stage \in Running -> x = p \/ Before(Rolls, Refreshes, x, p)
      [] stage = "Idle" -> Before(Rolls, Refreshes, x, p)
      [] OTHER -> Rolls[x] <= Rolls[nv]

\* Each number comes from a value the register has had since, and no two are
\* the same; the stored register is as often rolled as the one in use.
UnInv(Values, Rolls, Refreshes) ==
    /\ nv \in Values /\ p \in Values
    /\ stage \in {"Off", "Idle", "Refused"} \cup Running
    /\ stage \in Running \cup {"Idle"} => Rolls[p] = Rolls[nv]
    /\ issued \in Seq({generate_un(x, rand) : x \in Values, rand \in Rand})
    /\ \A i \in DOMAIN issued : \E x \in Values, rand \in Rand :
          issued[i] = generate_un(x, rand) /\ Since(Values, Rolls, Refreshes, x)
    /\ \A i, j \in DOMAIN issued : issued[i] = issued[j] => i = j

\* A number tells the value of the register it was generated from.
LEMMA NumberTellsRegister ==
    ASSUME NEW x, NEW y, NEW r, NEW s, generate_un(x, r) = generate_un(y, s)
    PROVE  x = y
<1> DEFINE Hashed(z, o) == <<"SHA">> \o (<<z>> \o Field(o))
<1>1. ASSUME NEW z, NEW o PROVE Hashed(z, o)[2] = z
  <2>1. CASE o = None
    BY <2>1 DEF Field
  <2>2. CASE o # None
    BY <2>2 DEF Field
  <2> QED
    BY <2>1, <2>2
<1>2. generate_un(x, r)[2] = Hashed(x, r) /\ generate_un(y, s)[2] = Hashed(y, s)
  BY DEF generate_un, Sha
<1>3. Hashed(x, r) = Hashed(y, s)
  BY <1>2
<1>4. Hashed(x, r)[2] = x /\ Hashed(y, s)[2] = y
  BY <1>1
<1> HIDE DEF Hashed
<1> QED
  BY <1>3, <1>4

\* What a step does to the registers and the numbers.
Rolled == \E tvp \in Tvp, rand \in Rand : p' = power_up(nv, tvp, Ifdsn, Tid, rand)
Refresh ==
    \E tvp \in Tvp, rand \in Rand, ac \in {None, Some(<<"AC">>)} :
        p' = refresh_after_transaction(p, tvp, rand, ac)
Drawn == \E rand \in Rand : issued' = Append(issued, generate_un(p, rand))

LEMMA RegisterSteps ==
    ASSUME [Next]_vars
    PROVE  \/ stage = "Off" /\ stage' = "Idle" /\ Rolled /\ nv' = (IF PersistAtPowerUp THEN p' ELSE nv)
              /\ UNCHANGED issued
           \/ stage = "Idle" /\ stage' = "Off" /\ nv' = p /\ p' = Seed /\ UNCHANGED issued
           \/ stage \in Running \cup {"Idle"} /\ stage' = "Off" /\ p' = Seed /\ UNCHANGED <<nv, issued>>
           \/ stage = "Idle" /\ stage' \in Running /\ Drawn /\ UNCHANGED <<nv, p>>
           \/ stage \in Running /\ stage' = "Idle" /\ Refresh /\ UNCHANGED <<nv, issued>>
           \/ stage \in Running /\ stage' \in Running /\ UNCHANGED unVars
           \/ stage = "Off" /\ stage' = "Refused" /\ UNCHANGED unVars
           \/ stage' = stage /\ UNCHANGED unVars
<1>1. ASSUME NEW how, End(how) PROVE stage' = "Idle" /\ Refresh /\ UNCHANGED <<nv, issued>>
  BY <1>1 DEF End, Refreshed, Refresh
<1>2. CASE PowerUp
  BY <1>2 DEF PowerUp, Rolled, unVars
<1>3. CASE PowerDown \/ PowerLoss
  BY <1>3 DEF PowerDown, PowerLoss, power_down
<1>4. CASE Begin
  BY <1>4 DEF Begin, Drawn, Running
<1>5. CASE process_restrictions
  BY <1>1, <1>5 DEF process_restrictions, Running
<1>6. CASE run_terminal_risk_management
  BY <1>1, <1>6 DEF run_terminal_risk_management, Running
<1>7. CASE terminal_action_analysis
  BY <1>1, <1>7 DEF terminal_action_analysis, ApprovedOffline, Running
<1>8. CASE GoOnline
  BY <1>1, <1>8 DEF GoOnline, Running
<1>9. CASE UnableToGoOnline
  BY <1>1, <1>9 DEF UnableToGoOnline, ApprovedOffline, Running
<1>10. CASE Over \/ UNCHANGED vars
  BY <1>10 DEF Over, vars
<1> QED
  BY <1>2, <1>3, <1>4, <1>5, <1>6, <1>7, <1>8, <1>9, <1>10 DEF Next

\* Rolling and refreshing stay among the values, and each is one link more.
LEMMA Links ==
    ASSUME NEW Values, NEW Rolls, NEW Refreshes, HashesTell(Values, Rolls, Refreshes),
           NEW q \in Values
    PROVE  /\ Rolls[q] \in Nat /\ Refreshes[q] \in Nat
           /\ \A tvp \in Tvp, rand \in Rand :
                 /\ power_up(q, tvp, Ifdsn, Tid, rand) \in Values
                 /\ Rolls[power_up(q, tvp, Ifdsn, Tid, rand)] = Rolls[q] + 1
           /\ \A tvp \in Tvp, rand \in Rand, ac \in {None, Some(<<"AC">>)} :
                 /\ refresh_after_transaction(q, tvp, rand, ac) \in Values
                 /\ Rolls[refresh_after_transaction(q, tvp, rand, ac)] = Rolls[q]
                 /\ Refreshes[refresh_after_transaction(q, tvp, rand, ac)] = Refreshes[q] + 1
  BY DEF HashesTell, power_up, refresh_after_transaction

\* The registers of the next state are values, and the values there were stay
\* behind them.
LEMMA SinceGrows ==
    ASSUME NEW Values, NEW Rolls, NEW Refreshes, HashesTell(Values, Rolls, Refreshes),
           PersistAtPowerUp, UnInv(Values, Rolls, Refreshes), [Next]_vars
    PROVE  /\ nv' \in Values /\ p' \in Values
           /\ stage' \in {"Off", "Idle", "Refused"} \cup Running
           /\ stage' \in Running \cup {"Idle"} => Rolls[p'] = Rolls[nv']
           /\ \A x \in Values : Since(Values, Rolls, Refreshes, x) => Since(Values, Rolls, Refreshes, x)'
<1> USE DEF Since, Before, Running
<1>1. PICK q, n : q = p /\ n = nv
  OBVIOUS
<1>2. /\ q \in Values /\ n \in Values /\ Seed \in Values
      /\ stage \in Running \cup {"Idle"} => Rolls[q] = Rolls[n]
      /\ stage \in {"Off", "Idle", "Refused"} \cup Running
  BY <1>1 DEF UnInv, HashesTell
<1>3. Rolls[q] \in Nat /\ Refreshes[q] \in Nat /\ Rolls[n] \in Nat
  BY <1>2, Links
<1>4. \A x \in Values : Rolls[x] \in Nat /\ Refreshes[x] \in Nat
  BY Links
<1>5. CASE stage = "Off" /\ stage' = "Idle" /\ Rolled /\ nv' = p'
  <2>1. PICK r : r = p' /\ r \in Values /\ Rolls[r] = Rolls[n] + 1
    <3>1. PICK tvp \in Tvp, rand \in Rand : p' = power_up(n, tvp, Ifdsn, Tid, rand)
      BY <1>1, <1>5 DEF Rolled
    <3> QED
      BY <1>2, <3>1, Links
  <2>2. \A x \in Values : Rolls[x] <= Rolls[n] => Rolls[x] < Rolls[r]
    BY <1>3, <1>4, <2>1
  <2> QED
    BY <1>1, <1>5, <2>1, <2>2
<1>6. CASE stage = "Idle" /\ stage' = "Off" /\ nv' = p /\ p' = Seed
  <2>1. \A x \in Values : Before(Rolls, Refreshes, x, q) => Rolls[x] <= Rolls[q]
    BY <1>3, <1>4
  <2> QED
    BY <1>1, <1>2, <1>6, <2>1
<1>7. CASE stage \in Running \cup {"Idle"} /\ stage' = "Off" /\ p' = Seed /\ nv' = nv
  <2>1. \A x \in Values : x = q \/ Before(Rolls, Refreshes, x, q) => Rolls[x] <= Rolls[n]
    BY <1>2, <1>3, <1>4, <1>7
  <2> QED
    BY <1>1, <1>2, <1>7, <2>1
<1>8. CASE stage = "Idle" /\ stage' \in Running /\ UNCHANGED <<nv, p>>
  BY <1>1, <1>2, <1>8
<1>9. CASE stage \in Running /\ stage' = "Idle" /\ Refresh /\ nv' = nv
  <2>1. PICK r : r = p' /\ r \in Values /\ Rolls[r] = Rolls[q] /\ Refreshes[r] = Refreshes[q] + 1
    <3>1. PICK tvp \in Tvp, rand \in Rand, ac \in {None, Some(<<"AC">>)} :
             p' = refresh_after_transaction(q, tvp, rand, ac)
      BY <1>1, <1>9 DEF Refresh
    <3> QED
      BY <1>2, <3>1, Links
  <2>2. \A x \in Values : x = q \/ Before(Rolls, Refreshes, x, q) => Before(Rolls, Refreshes, x, r)
    BY <1>3, <1>4, <2>1
  <2> QED
    BY <1>1, <1>2, <1>9, <2>1, <2>2
<1>10. CASE /\ UNCHANGED <<nv, p>>
            /\ \/ stage \in Running /\ stage' \in Running
               \/ stage = "Off" /\ stage' = "Refused"
               \/ stage' = stage
  BY <1>1, <1>2, <1>10
<1> QED
  BY <1>5, <1>6, <1>7, <1>8, <1>9, <1>10, RegisterSteps DEF unVars

LEMMA UnInvStep ==
    ASSUME NEW Values, NEW Rolls, NEW Refreshes, HashesTell(Values, Rolls, Refreshes),
           PersistAtPowerUp, UnInv(Values, Rolls, Refreshes), [Next]_vars
    PROVE  UnInv(Values, Rolls, Refreshes)'
<1> DEFINE Number == {generate_un(x, rand) : x \in Values, rand \in Rand}
<1>1. /\ issued \in Seq(Number)
      /\ \A i \in DOMAIN issued : \E x \in Values, rand \in Rand :
            issued[i] = generate_un(x, rand) /\ Since(Values, Rolls, Refreshes, x)
      /\ \A i, j \in DOMAIN issued : issued[i] = issued[j] => i = j
  BY DEF UnInv
<1>2. \A x \in Values : Since(Values, Rolls, Refreshes, x) => Since(Values, Rolls, Refreshes, x)'
  BY SinceGrows
<1>3. SUFFICES /\ issued' \in Seq(Number)
               /\ \A i \in DOMAIN issued' : \E x \in Values, rand \in Rand :
                     issued'[i] = generate_un(x, rand) /\ Since(Values, Rolls, Refreshes, x)'
               /\ \A i, j \in DOMAIN issued' : issued'[i] = issued'[j] => i = j
  BY SinceGrows DEF UnInv
<1>4. CASE issued' = issued
  BY <1>1, <1>2, <1>4
<1>5. CASE stage = "Idle" /\ stage' \in Running /\ Drawn /\ UNCHANGED <<nv, p>>
  <2>1. PICK rand \in Rand : issued' = Append(issued, generate_un(p, rand))
    BY <1>5 DEF Drawn
  <2>2. PICK drawn, n, q : drawn = generate_un(p, rand) /\ n = Len(issued) /\ q = p
    OBVIOUS
  <2>3. q \in Values /\ drawn = generate_un(q, rand) /\ drawn \in Number
    BY <2>2 DEF UnInv
  <2>4. /\ n \in Nat /\ DOMAIN issued = 1..n /\ issued' = Append(issued, drawn)
        /\ issued' \in Seq(Number) /\ DOMAIN issued' = 1..(n + 1)
        /\ issued'[n + 1] = drawn /\ \A i \in 1..n : issued'[i] = issued[i]
    <3> HIDE DEF Number
    <3> QED
      BY <1>1, <2>1, <2>2, <2>3
  <2>5. \A i \in 1..(n + 1) : i = n + 1 \/ i \in 1..n
    BY <2>4
  <2>6. Since(Values, Rolls, Refreshes, q)'
    BY <1>5, <2>2 DEF Since, Running
  <2>7. \A i \in DOMAIN issued' : \E x \in Values, r \in Rand :
           issued'[i] = generate_un(x, r) /\ Since(Values, Rolls, Refreshes, x)'
    <3> SUFFICES ASSUME NEW i \in 1..(n + 1)
                 PROVE  \E x \in Values, r \in Rand :
                           issued'[i] = generate_un(x, r) /\ Since(Values, Rolls, Refreshes, x)'
      BY <2>4
    <3>1. CASE i = n + 1
      BY <2>3, <2>4, <2>6, <3>1
    <3>2. CASE i \in 1..n
      BY <1>1, <1>2, <2>4, <3>2
    <3> QED
      BY <2>5, <3>1, <3>2
  <2>8. \A i \in 1..n : issued[i] # drawn
    <3> SUFFICES ASSUME NEW i \in 1..n, issued[i] = drawn PROVE FALSE
      OBVIOUS
    <3>1. PICK x \in Values, r \in Rand :
             issued[i] = generate_un(x, r) /\ Since(Values, Rolls, Refreshes, x)
      BY <1>1, <2>4
    <3>2. x = q
      BY <2>3, <3>1, NumberTellsRegister
    <3>3. Before(Rolls, Refreshes, q, q)
      BY <1>5, <2>2, <3>1, <3>2 DEF Since, Running
    <3>4. Rolls[q] \in Nat /\ Refreshes[q] \in Nat
      BY <2>3, Links
    <3> QED
      BY <3>3, <3>4 DEF Before
  <2> QED
    BY <1>1, <2>4, <2>5, <2>7, <2>8
<1> QED
  BY <1>4, <1>5, RegisterSteps DEF unVars

\* No number is given out twice, however many transactions there are, in which way
\* they end, how often and when power goes, with or without random numbers of the
\* hardware and with a clock that stands still, if the rolled Q is stored at
\* power-up and no chain of hashes closes (power_up, generate_un,
\* refresh_after_transaction).
THEOREM UnNeverRepeatsAlways ==
    ASSUME NEW Values, NEW Rolls, NEW Refreshes, HashesTell(Values, Rolls, Refreshes)
    PROVE  Spec => []UnNeverRepeats
<1>1. CASE ~PersistAtPowerUp
  <2>1. UnNeverRepeats
    BY <1>1 DEF UnNeverRepeats
  <2> QED
    BY <2>1, PTL
<1>2. CASE PersistAtPowerUp
  <2>1. Init => UnInv(Values, Rolls, Refreshes)
    BY DEF Init, UnInv, HashesTell, Running
  <2>2. UnInv(Values, Rolls, Refreshes) /\ [Next]_vars => UnInv(Values, Rolls, Refreshes)'
    BY <1>2, UnInvStep
  <2>3. UnInv(Values, Rolls, Refreshes) => UnNeverRepeats
    BY DEF UnInv, UnNeverRepeats
  <2> QED
    BY <2>1, <2>2, <2>3, PTL DEF Spec
<1> QED
  BY <1>1, <1>2
=============================================================================
