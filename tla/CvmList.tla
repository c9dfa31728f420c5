------------------------------- MODULE CvmList -------------------------------
(***************************************************************************)
(* What processing a CVM List comes to (process_cvm_list of                *)
(* contact/cardholder_verification.rs), stated over the whole list rather  *)
(* than rule by rule: the rules are tried in order, each rule either ends  *)
(* the processing or lets the next one be tried, and every rule that was   *)
(* tried leaves its TVR bits behind.                                       *)
(*                                                                         *)
(* A list is [x, y, rules]; a rule is [method, cond, next] with next the   *)
(* bit "apply succeeding CV Rule if this CVM is unsuccessful".  ctx is the *)
(* CvmContext; answers[i] is what performing rule i would return.          *)
(***************************************************************************)
EXTENDS Integers, Sequences, VerificationResults

OfflinePinMethod ==
    {"PlaintextPin", "PlaintextPinAndSignature",
     "EncipheredPin", "EncipheredPinAndSignature"}

EncipheredOfflineMethod == {"EncipheredPin", "EncipheredPinAndSignature"}

\* The ten biometric methods behave alike and are one here; Unrecognised is
\* every code that is RFU, reserved or not available for use.
Method ==
    OfflinePinMethod
      \cup {"OnlinePin", "Signature", "NoCvm", "FailCvm", "Biometric", "Unrecognised"}

Condition ==
    {"Always", "UnattendedCash", "NotCashNorCashback", "TerminalSupports",
     "ManualCash", "Cashback", "UnderX", "OverX", "UnderY", "OverY", "Rfu"}

PerformResult ==
    {"Successful", "Unknown", "Failed", "PinEntryBypassed",
     "PinPadNotWorkingOrAbsent", "PinTryLimitExceeded"}

\* The CVMs a terminal of these capabilities ('9F33') supports: a PIN with a
\* signature if it has both, and never a biometric.
derive_cvm_support(capabilities) ==
    {method \in Method :
        CASE method \in {"PlaintextPin", "PlaintextPinAndSignature"}
               -> "plaintext_pin_for_icc_verification" \in capabilities
          [] method \in EncipheredOfflineMethod
               -> {"enciphered_pin_for_offline_verification_rsa_ode",
                   "enciphered_pin_for_offline_verification_ecc_ode"} \cap capabilities # {}
          [] method = "OnlinePin" -> "enciphered_pin_for_online_verification" \in capabilities
          [] method = "Signature" -> "signature" \in capabilities
          [] method = "NoCvm" -> "no_cvm_required" \in capabilities
          [] OTHER -> FALSE}
      \ (IF "signature" \in capabilities THEN {}
         ELSE {"PlaintextPinAndSignature", "EncipheredPinAndSignature"})

recognised(method) == method # "Unrecognised"

supports(ctx, method) == method = "FailCvm" \/ method \in ctx.support

supports_any_offline_pin(ctx) == ctx.support \cap OfflinePinMethod # {}

evaluate_condition(cond, ctx, list, method) ==
    \/ cond = "Always"
    \/ cond = "UnattendedCash" /\ ctx.unattendedCash
    \/ cond = "NotCashNorCashback"
         /\ ~(ctx.unattendedCash \/ ctx.manualCash \/ ctx.cashback)
    \/ cond = "TerminalSupports" /\ recognised(method) /\ supports(ctx, method)
    \/ cond = "ManualCash" /\ ctx.manualCash
    \/ cond = "Cashback" /\ ctx.cashback
    \/ cond = "UnderX" /\ ctx.appCurrency /\ ctx.amount < list.x
    \/ cond = "OverX" /\ ctx.appCurrency /\ ctx.amount > list.x
    \/ cond = "UnderY" /\ ctx.appCurrency /\ ctx.amount < list.y
    \/ cond = "OverY" /\ ctx.appCurrency /\ ctx.amount > list.y

\* What becomes of one rule, given what performing it would return.
RuleResult(rule, ctx, list, answer) ==
    IF ~evaluate_condition(rule.cond, ctx, list, rule.method)
    THEN "NotSatisfied"
    ELSE IF ~recognised(rule.method)
    THEN "Unrecognised"
    ELSE IF rule.cond # "TerminalSupports" /\ ~supports(ctx, rule.method)
    THEN "Unsupported"
    ELSE IF rule.method = "FailCvm"
    THEN "FailCvm"
    ELSE answer

Final(result) == result \in {"FailCvm", "Successful", "Unknown"}

EndsProcessing(rule, result) ==
    result # "NotSatisfied" /\ (Final(result) \/ ~rule.next)

\* TVR bits a rule that was tried sets (apply_unsupported_tvr_bits included).
unsupported_tvr_bits(method, ctx) ==
    CASE method = "OnlinePin"
           -> {"pin_entry_required_and_pin_pad_not_present_or_not_working"}
      [] method \in OfflinePinMethod
           -> IF supports_any_offline_pin(ctx) THEN {}
              ELSE {"pin_entry_required_and_pin_pad_not_present_or_not_working"}
      [] method = "Biometric" -> {"a_selected_biometric_type_not_supported"}
      [] OTHER -> {}

RuleBits(rule, ctx, result) ==
    CASE result = "Unrecognised" -> {"unrecognised_cvm"}
      [] result = "Unsupported" -> unsupported_tvr_bits(rule.method, ctx)
      [] result = "PinEntryBypassed"
           -> {"pin_entry_required_pin_pad_present_but_pin_was_not_entered"}
      [] result = "PinPadNotWorkingOrAbsent"
           -> {"pin_entry_required_and_pin_pad_not_present_or_not_working"}
      [] result = "PinTryLimitExceeded" -> {"pin_try_limit_exceeded"}
      [] result = "Successful" /\ rule.method = "OnlinePin" -> {"online_cvm_captured"}
      [] OTHER -> {}

ResultOf(list, ctx, answers, i) == RuleResult(list.rules[i], ctx, list, answers[i])

Ends(list, ctx, answers, i) ==
    EndsProcessing(list.rules[i], ResultOf(list, ctx, answers, i))

\* The rules the loop comes to.
Reached(list, ctx, answers) ==
    {i \in DOMAIN list.rules : \A j \in 1..(i - 1) : ~Ends(list, ctx, answers, j)}

\* The rules whose CVM the terminal performs: a closure call in the code.
Performed(list, ctx, answers) ==
    {i \in Reached(list, ctx, answers) : ResultOf(list, ctx, answers, i) \in PerformResult}

Succeeds(list, ctx, answers) ==
    \E i \in Reached(list, ctx, answers) :
        ResultOf(list, ctx, answers, i) \in {"Successful", "Unknown"}

\* The TVR bits the whole list leaves behind; an empty or absent list none.
RulesTvr(list, ctx, answers) ==
    UNION {RuleBits(list.rules[i], ctx, ResultOf(list, ctx, answers, i)) :
              i \in Reached(list, ctx, answers)}

FailureTvr(list, ctx, answers) ==
    IF list.rules = <<>> \/ Succeeds(list, ctx, answers)
    THEN {}
    ELSE {"cardholder_verification_was_not_successful"}

CvmTvr(list, ctx, answers) == RulesTvr(list, ctx, answers) \cup FailureTvr(list, ctx, answers)

\* CVM Results ('9F34'): the rule they name and its result byte.  NoRule is the
\* method '3F'; <<NoRule, "NotPerformed">> is NO_CVM_PERFORMED.
NoRule == 0

result_byte(method, result) ==
    CASE result = "Successful" /\ method \notin {"Signature", "OnlinePin"} -> "Successful"
      [] result = "Successful" /\ method \in {"Signature", "OnlinePin"} -> "Unknown"
      [] result = "Unknown" -> "Unknown"
      [] OTHER -> "Failed"

SettledBy(i, rule, result) ==
    <<IF result = "Unrecognised" THEN NoRule ELSE i, result_byte(rule.method, result)>>

LastSatisfied(list, ctx, answers) ==
    LET tried == {i \in DOMAIN list.rules : ResultOf(list, ctx, answers, i) # "NotSatisfied"}
    IN  IF tried = {} THEN NoRule ELSE CHOOSE i \in tried : \A j \in tried : j <= i

CvmResults(list, ctx, answers) ==
    LET last == {i \in Reached(list, ctx, answers) : Ends(list, ctx, answers, i)}
    IN  IF list.rules = <<>>
        THEN <<NoRule, "NotPerformed">>
        ELSE IF last = {}
        THEN <<LastSatisfied(list, ctx, answers), "Failed">>
        ELSE LET i == CHOOSE i \in last : TRUE
             IN  SettledBy(i, list.rules[i], ResultOf(list, ctx, answers, i))
=============================================================================
