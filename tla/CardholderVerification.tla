------------------------ MODULE CardholderVerification ------------------------
(***************************************************************************)
(* Cardholder verification as it runs: run_cardholder_verification of      *)
(* contact/transaction_flow.rs, the loop of process_cvm_list, and the      *)
(* VERIFY exchanges of contact/cardholder_verification.rs.                 *)
(*                                                                         *)
(* The kernel first goes through the list with no PIN on hand, against a   *)
(* snapshot of the context.  If a rule demanded a PIN the context is rolled*)
(* back and the host is asked; it then submits a PIN or bypasses the entry *)
(* and the kernel goes through the list again, talking to the card.        *)
(***************************************************************************)
EXTENDS CvmList, FiniteSets

CONSTANTS
    CvmLists,    \* the CVM lists a card may carry
    Ctx,         \* the terminal's CvmContext
    PinTries     \* the value a correct PIN restores the card's counter to

ASSUME PinTriesAssumption == PinTries \in Nat \ {0}

CvRule == [method : Method, cond : Condition, next : BOOLEAN]
ASSUME CvmListsAssumption ==
    \A given \in CvmLists : given.rules \in Seq(CvRule) /\ given.malformed \in BOOLEAN

VARIABLES
    phase,    \* "Ready", "Rule", "Store", "Return", or what was returned:
              \* "Pin" (a requirement), "Done" (Ok(None)) or "Err"
    list,     \* the card's CVM list
    supported,\* AIP: cardholder verification is supported
    keyed,    \* a PIN encipherment key could be recovered
    pin,      \* PinEntry: "NotCollected", "Bypassed", or what was entered
    i,        \* the rule the loop is at
    answers,  \* the result each performed rule had (for checking only)
    bits,     \* CvmTvrUpdates gathered so far
    last,     \* last_satisfied
    settled,  \* the CVM Results the loop ended with
    required, \* the PinRequirement noted by the closure, or "None"
    asked,    \* the requirement last returned to the host (for checking only)
    failure,  \* pin_failure: VERIFY got no answer or one it does not define
    ctx,      \* the transaction context: CVM Results, TVR bits, TSI bit
    saved,    \* the snapshot
    tries,    \* the card's PIN try counter
    verified  \* the card has accepted a PIN

cardVars == <<tries, verified>>      \* what the card keeps
givenVars == <<list, supported, keyed>> \* what it was personalised with
loopVars == <<i, answers, bits, last, settled>>
vars == <<phase, givenVars, pin, loopVars, required, asked, failure, ctx, saved, cardVars>>

NotStored == <<"none">>
Fresh == [results |-> NotStored, tvr |-> {}, tsi |-> FALSE]

EnteredPin == {"right", "wrong", "malformed"}
PinEntry == EnteredPin \cup {"NotCollected", "Bypassed"}

Rule == list.rules[i]
Judge(answer) == RuleResult(Rule, Ctx, list, answer)

Init ==
    /\ list \in CvmLists
    /\ supported \in BOOLEAN /\ keyed \in BOOLEAN
    /\ tries \in 0..PinTries
    /\ phase = "Ready" /\ pin = "NotCollected"
    /\ i = 1 /\ bits = {} /\ last = NoRule /\ settled = NotStored
    /\ answers = [r \in DOMAIN list.rules |-> "Failed"]
    /\ required = "None" /\ asked = "None" /\ failure = FALSE
    /\ ctx = Fresh /\ saved = Fresh
    /\ verified = FALSE
-----------------------------------------------------------------------------
(* Entering the call. *)

\* The snapshot is taken, the CVM List is parsed and the loop starts at its
\* first rule.  A list that does not parse ends the call at once.
Enter(entry) ==
    /\ pin' = entry
    /\ saved' = ctx
    /\ required' = "None" /\ failure' = FALSE
    /\ i' = 1 /\ bits' = {} /\ last' = NoRule
    /\ answers' = [r \in DOMAIN list.rules |-> "Failed"]
    /\ settled' = IF list.rules = <<>> THEN <<NoRule, "NotPerformed">> ELSE NotStored
    /\ phase' = IF list.malformed THEN "Err"
                ELSE IF list.rules = <<>> THEN "Store" ELSE "Rule"
    /\ UNCHANGED <<givenVars, asked, ctx, cardVars>>

\* The card does not support cardholder verification: '9F34' says that none
\* was performed, and the TVR and the TSI are left alone.
NotSupported ==
    /\ phase = "Ready" /\ ~supported
    /\ ctx' = [ctx EXCEPT !.results = IF @ = NotStored THEN <<NoRule, "NotPerformed">> ELSE @]
    /\ phase' = "Done"
    /\ UNCHANGED <<givenVars, pin, loopVars, required, asked, failure, saved, cardVars>>

first_pass == phase = "Ready" /\ supported /\ Enter("NotCollected")
submit_pin == phase = "Pin" /\ \E entered \in EnteredPin : Enter(entered)
bypass_pin_entry == phase = "Pin" /\ Enter("Bypassed")
-----------------------------------------------------------------------------
(* The loop: one rule per step. *)

\* What the loop does with the result of the rule it is at.
Settle(result) ==
    /\ bits' = bits \cup RuleBits(Rule, Ctx, result)
                 \cup (IF EndsProcessing(Rule, result) /\ result \notin {"Successful", "Unknown"}
                       THEN {"cardholder_verification_was_not_successful"} ELSE {})
    /\ last' = IF result = "NotSatisfied" THEN last ELSE i
    /\ answers' = [answers EXCEPT ![i] = IF result \in PerformResult THEN result ELSE @]
    /\ IF EndsProcessing(Rule, result)
       THEN /\ settled' = SettledBy(i, Rule, result)
            /\ phase' = "Store"
            /\ i' = i
       ELSE /\ i' = i + 1
            /\ UNCHANGED <<settled, phase>>
    /\ UNCHANGED <<givenVars, pin, asked, ctx, saved>>

AtRule == phase = "Rule" /\ i \in DOMAIN list.rules

\* The closure is called for the rule the loop is at.
Performs(methods) == AtRule /\ Rule.method \in methods /\ Judge("Failed") \in PerformResult

PassOver ==
    /\ AtRule
    /\ Judge("Failed") \notin PerformResult
    /\ Settle(Judge("Failed"))
    /\ UNCHANGED <<required, failure, cardVars>>

WithoutPin ==
    /\ Performs(Method \ (OfflinePinMethod \cup {"OnlinePin", "FailCvm"}))
    /\ Settle(CASE Rule.method = "NoCvm" -> "Successful"
                [] Rule.method = "Signature" -> "Unknown"
                [] OTHER -> "PinPadNotWorkingOrAbsent")
    /\ UNCHANGED <<required, failure, cardVars>>

\* Enciphered PIN with no key has failed, unless the entry was bypassed.
Unkeyed == Rule.method \in EncipheredOfflineMethod /\ ~keyed

Bypass ==
    /\ Performs(OfflinePinMethod \cup {"OnlinePin"})
    /\ pin = "Bypassed"
    /\ Settle("PinEntryBypassed")
    /\ UNCHANGED <<required, failure, cardVars>>

DemandPin ==
    /\ Performs(OfflinePinMethod \cup {"OnlinePin"})
    /\ pin = "NotCollected" /\ ~Unkeyed
    /\ required' = IF Rule.method = "OnlinePin" THEN "OnlinePin" ELSE "OfflinePin"
    /\ Settle("Failed")
    /\ UNCHANGED <<failure, cardVars>>

NoEnciphermentKey ==
    /\ Performs(EncipheredOfflineMethod)
    /\ pin # "Bypassed" /\ Unkeyed
    /\ Settle("Failed")
    /\ UNCHANGED <<required, failure, cardVars>>

OnlinePin ==
    /\ Performs({"OnlinePin"})
    /\ pin \in EnteredPin
    /\ Settle("Successful")
    /\ UNCHANGED <<required, failure, cardVars>>

\* Mutant: the card is tried with a PIN nobody entered.
OfflineUncollected == Performs(OfflinePinMethod) /\ pin # "Bypassed" /\ ~Unkeyed

Offline == Performs(OfflinePinMethod) /\ pin \in EnteredPin /\ ~Unkeyed

\* No command can be built from the digits, or no randomness for the padding.
CannotVerify ==
    /\ Offline
    /\ pin = "malformed" \/ Rule.method \in EncipheredOfflineMethod
    /\ Settle("PinPadNotWorkingOrAbsent")
    /\ UNCHANGED <<required, failure, cardVars>>

\* GET CHALLENGE refused, or the key is too short for the PIN block.
CannotEncipher ==
    /\ Offline /\ pin # "malformed" /\ Rule.method \in EncipheredOfflineMethod
    /\ Settle("Failed")
    /\ UNCHANGED <<required, failure, cardVars>>

\* Mutant: '63Cx' with tries left is no refusal.
VerifyAnsweredLoosely ==
    /\ Offline /\ pin # "malformed"
    /\ tries' = IF pin = "right" /\ tries > 0 THEN PinTries
                ELSE IF tries > 0 THEN tries - 1 ELSE 0
    /\ Settle(IF tries' > 0 THEN "Successful" ELSE "PinTryLimitExceeded")
    /\ verified' = (pin = "right" /\ tries > 0)
    /\ UNCHANGED <<required, failure>>

\* The card answers VERIFY: '9000', '63Cx' with the tries left, '6983'/'6984'.
VerifyAnswered ==
    /\ Offline /\ pin # "malformed"
    /\ LET left == IF pin = "right" /\ tries > 0 THEN PinTries
                   ELSE IF tries > 0 THEN tries - 1 ELSE 0
       IN  /\ tries' = left
           /\ Settle(IF pin = "right" /\ tries > 0 THEN "Successful"
                     ELSE IF left = 0 THEN "PinTryLimitExceeded" ELSE "Failed")
    /\ verified' = (pin = "right" /\ tries > 0)
    /\ UNCHANGED <<required, failure>>

\* GET CHALLENGE or VERIFY is lost, or VERIFY's status word is not one the
\* kernel knows; the card may or may not have tried the PIN.
VerifyLost ==
    /\ Offline /\ pin # "malformed"
    /\ failure' = TRUE
    /\ Settle("Failed")
    /\ tries' \in {tries, IF tries > 0 THEN tries - 1 ELSE 0}
    /\ UNCHANGED <<required, verified>>

\* Mutant: a list that is exhausted names no rule.
ExhaustedNameless ==
    /\ phase = "Rule" /\ i > Len(list.rules)
    /\ bits' = bits \cup {"cardholder_verification_was_not_successful"}
    /\ settled' = <<NoRule, "Failed">>
    /\ phase' = "Store"
    /\ UNCHANGED <<givenVars, pin, i, answers, last, required, asked, failure, ctx, saved, cardVars>>

Exhausted ==
    /\ phase = "Rule" /\ i > Len(list.rules)
    /\ bits' = bits \cup {"cardholder_verification_was_not_successful"}
    /\ settled' = <<last, "Failed">>
    /\ phase' = "Store"
    /\ UNCHANGED <<givenVars, pin, i, answers, last, required, asked, failure, ctx, saved, cardVars>>
-----------------------------------------------------------------------------
(* Leaving the call. *)

\* TransactionContext::cardholder_verification: '9F34' is inserted, which fails
\* when it is already there, and then the TVR and the TSI follow.
Store ==
    /\ phase = "Store"
    /\ IF ctx.results = NotStored
       THEN /\ ctx' = [results |-> settled, tvr |-> ctx.tvr \cup bits,
                       tsi |-> ctx.tsi \/ list.rules # <<>>]
            /\ phase' = "Return"
       ELSE phase' = "Err" /\ ctx' = ctx
    /\ UNCHANGED <<givenVars, pin, loopVars, required, asked, failure, saved, cardVars>>

\* reported: the call ends in an error; rolled: the context a demanded PIN leaves.
Leave(reported, rolled) ==
    /\ phase = "Return"
    /\ phase' = IF reported THEN "Err" ELSE IF required # "None" THEN "Pin" ELSE "Done"
    /\ asked' = IF ~reported /\ required # "None" THEN required ELSE asked
    /\ ctx' = IF ~reported /\ required # "None" THEN rolled ELSE ctx
    /\ UNCHANGED <<givenVars, pin, loopVars, required, failure, saved, cardVars>>

\* Mutants: only the CVM Results are rolled back; a lost VERIFY is forgotten when
\* a later rule succeeded.
ReturnHalfway == Leave(failure, [ctx EXCEPT !.results = saved.results])
ReturnForgiving == Leave(failure /\ settled[2] = "Failed", saved)

\* A lost VERIFY is an error; else a demanded PIN rolls the context back.
Return == Leave(failure, saved)

\* The call is over; nothing more happens here.
Over == phase \in {"Done", "Err"} /\ UNCHANGED vars

Kernel ==
    \/ PassOver \/ WithoutPin \/ Bypass \/ DemandPin \/ NoEnciphermentKey
    \/ OnlinePin \/ CannotVerify \/ CannotEncipher \/ VerifyAnswered \/ VerifyLost
    \/ Exhausted \/ Store \/ Return

Next == NotSupported \/ first_pass \/ submit_pin \/ bypass_pin_entry \/ Kernel \/ Over

Spec == Init /\ [][Next]_vars /\ WF_vars(Kernel)
-----------------------------------------------------------------------------
(* Properties *)

\* The loop computes what CvmList says of the whole list: same CVM Results,
\* same TVR bits (process_cvm_list).
LoopMatchesList ==
    phase = "Store" =>
        /\ settled = CvmResults(list, Ctx, answers)
        /\ bits = CvmTvr(list, Ctx, answers)

\* While the host has not given a PIN (PinEntry::NotCollected), and when the
\* cardholder bypassed the entry, the card's try counter is not touched and no
\* PIN is presented, whatever the list.
NoPinSparesTheCard == [][pin' \notin EnteredPin => UNCHANGED cardVars]_vars

\* When a requirement is reported nothing of the first pass is left in the
\* context, so that the second pass can store its CVM Results.
RequirementLeavesNoTrace == phase = "Pin" => ctx = Fresh

\* A lost or unknown VERIFY answer ends the call in an error even when a later
\* rule of the list succeeded after it (pin_failure), and nothing else does: a
\* second pass never finds CVM Results left by the first (RedundantPrimitive).
LostVerifyIsReported ==
    /\ failure => phase \notin {"Done", "Pin"}
    /\ phase = "Err" => failure \/ list.malformed

\* CVM Results that call an offline PIN rule successful rest on the card's own
\* acceptance of the PIN in this call.
OfflineSuccessIsTheCards ==
    (phase = "Done" /\ ctx.results[2] = "Successful"
       /\ list.rules[ctx.results[1]].method \in OfflinePinMethod)
      => verified
=============================================================================
