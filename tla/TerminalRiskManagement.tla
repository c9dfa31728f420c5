------------------------ MODULE TerminalRiskManagement ------------------------
(***************************************************************************)
(* Terminal risk management (contact/terminal_risk_management.rs): floor   *)
(* limit, random transaction selection and velocity checking.              *)
(***************************************************************************)
EXTENDS VerificationResults, Optional, Integers

CONSTANT AmountMax   \* u64::MAX, where a sum of amounts saturates
ASSUME AmountMaxAssumption == AmountMax \in Nat

saturating_add(a, b) == IF a + b > AmountMax THEN AmountMax ELSE a + b

\* Mutant: what the log already holds for this PAN is left out.
FloorWithoutLog(amount, prior, floor) == amount >= floor

check_floor_limit(amount, prior, floor) ==
    saturating_add(amount, UnwrapOr(prior, 0)) >= floor

\* check_random_selection's three checks; otherwise it is an error.
SelectionValid(params, random, floor) ==
    /\ params.target <= 99 /\ params.maximum <= 99 /\ params.target <= params.maximum
    /\ random \in 1..99
    /\ params.threshold < floor

\* The percentage grows from target at the threshold to maximum at the floor.
TargetPercentage(params, amount, floor) ==
    IF amount < params.threshold
    THEN params.target
    ELSE ((params.maximum - params.target) * (amount - params.threshold))
             \div (floor - params.threshold) + params.target

check_random_selection(params, random, amount, floor) ==
    amount < floor /\ random <= TargetPercentage(params, amount, floor)

VelocityBits ==
    {"lower_consecutive_offline_limit_exceeded", "upper_consecutive_offline_limit_exceeded"}

\* Mutant: registers the card does not give up are taken for zero.
VelocityOfZero(lower, upper, atc, last_online) ==
    LET since == UnwrapOr(atc, 0) - UnwrapOr(last_online, 0)
    IN  IF lower = None \/ upper = None \/ since <= Unwrap(lower)
        THEN {}
        ELSE IF since <= Unwrap(upper)
        THEN {"lower_consecutive_offline_limit_exceeded"} ELSE VelocityBits

\* The upper limit is looked at when the lower one is exceeded.
Exceeded(since, lower, upper) ==
    IF since <= lower
    THEN {}
    ELSE IF since <= upper THEN {"lower_consecutive_offline_limit_exceeded"} ELSE VelocityBits

Senseless(atc, last_online) ==
    atc = None \/ last_online = None \/ Unwrap(atc) <= Unwrap(last_online)

\* check_velocity: both limits and both registers are optional.  Registers
\* that are missing or that make no sense count as both limits exceeded.
check_velocity(lower, upper, atc, last_online) ==
    IF lower = None \/ upper = None
    THEN {}
    ELSE (IF last_online = Some(0) THEN {"new_card"} ELSE {})
         \cup (IF Senseless(atc, last_online)
               THEN VelocityBits
               ELSE Exceeded(Unwrap(atc) - Unwrap(last_online), Unwrap(lower), Unwrap(upper)))

\* Random selection takes place only when a random number is passed.
EvaluationFails(ctx) ==
    ctx.random # None /\ ~SelectionValid(Unwrap(ctx.params), Unwrap(ctx.random), ctx.floor)

\* evaluate, when it does not fail: the bits risk management sets.
RiskBits(ctx) ==
    (IF check_floor_limit(ctx.amount, ctx.prior, ctx.floor)
     THEN {"transaction_exceeds_floor_limit"} ELSE {})
    \cup (IF /\ ctx.random # None
             /\ check_random_selection(Unwrap(ctx.params), Unwrap(ctx.random), ctx.amount,
                                       ctx.floor)
          THEN {"transaction_selected_randomly_for_online_processing"} ELSE {})
    \cup check_velocity(ctx.lower, ctx.upper, ctx.atc, ctx.last_online)
=============================================================================
