-------------------- MODULE CardholderVerification_proofs --------------------
(***************************************************************************)
(* Proofs about CardholderVerification, for every CVM list, terminal       *)
(* context and PIN try limit.                                              *)
(*                                                                         *)
(* The invariant has four parts: LoopInv, what the rules passed so far left*)
(* behind; LoopMatchesList, which turns it into what CvmList says of the   *)
(* whole list once the loop is over; CallInv, what the snapshot and the    *)
(* context hold in each phase of a call; and SuccessInv, that only the     *)
(* card makes an offline PIN rule successful.                              *)
(***************************************************************************)
EXTENDS CardholderVerification, TLAPS


\* What becomes of a rule is what performing it returns, if it is performed.
LEMMA JudgeDecides ==
    ASSUME NEW rule, NEW context, NEW given, NEW answer
    PROVE  /\ RuleResult(rule, context, given, "Failed") \in PerformResult
                => RuleResult(rule, context, given, answer) = answer
           /\ RuleResult(rule, context, given, "Failed") \notin PerformResult
                => /\ RuleResult(rule, context, given, answer)
                        = RuleResult(rule, context, given, "Failed")
                   /\ RuleResult(rule, context, given, answer) \notin PerformResult
<1>1. \/ \A a : RuleResult(rule, context, given, a) = a
      \/ \A a : RuleResult(rule, context, given, a) = "NotSatisfied"
      \/ \A a : RuleResult(rule, context, given, a) = "Unrecognised"
      \/ \A a : RuleResult(rule, context, given, a) = "Unsupported"
      \/ \A a : RuleResult(rule, context, given, a) = "FailCvm"
  BY Zenon DEF RuleResult
<1> QED  BY <1>1 DEF PerformResult

\* The types the proofs need.
TypeInv ==
    /\ list \in CvmLists /\ list.rules \in Seq(CvRule) /\ list.malformed \in BOOLEAN
    /\ tries \in 0..PinTries /\ verified \in BOOLEAN
    /\ phase \in {"Ready", "Rule", "Store", "Return", "Pin", "Done", "Err"}
    /\ answers \in [DOMAIN list.rules -> PerformResult]
    /\ i \in Nat \ {0} /\ failure \in BOOLEAN
    /\ required \in {"None", "OnlinePin", "OfflinePin"}
    /\ pin \in PinEntry

\* The result rule j had, and the TVR bits it left.
Res(j) == ResultOf(list, Ctx, answers, j)
Bit(j) == RuleBits(list.rules[j], Ctx, Res(j))

\* last is the last rule so far whose condition was satisfied.
LastSoFar ==
    \/ last = NoRule /\ \A j \in 1..(i - 1) : Res(j) = "NotSatisfied"
    \/ /\ last \in 1..(i - 1) /\ Res(last) # "NotSatisfied"
       /\ \A j \in 1..(i - 1) : j > last => Res(j) = "NotSatisfied"

\* Before rule i none of the rules passed has ended the loop, and bits and last
\* are what those rules left behind.
LoopInv ==
    phase = "Rule" =>
        /\ i <= Len(list.rules) + 1 /\ list.rules # <<>> /\ settled = NotStored
        /\ \A j \in 1..(i - 1) : ~Ends(list, Ctx, answers, j)
        /\ bits = UNION {Bit(j) : j \in 1..(i - 1)}
        /\ LastSoFar

\* A pass starts from a context with no trace of an earlier one, the snapshot is
\* that context, and an error is a lost VERIFY or a list that does not parse.
CallInv ==
    /\ phase \in {"Ready", "Pin", "Rule", "Store"} => ctx = Fresh
    /\ phase \in {"Rule", "Store", "Return"} => saved = Fresh
    /\ phase = "Return" => ctx.results = settled
    /\ phase = "Err" => failure \/ list.malformed
    /\ failure => phase \notin {"Ready", "Done", "Pin"}

\* CVM Results that call an offline PIN rule successful are the card's doing
\* from the moment the loop settles them.
SuccessInv ==
    /\ phase \in {"Store", "Return"} /\ settled[2] = "Successful"
         /\ list.rules[settled[1]].method \in OfflinePinMethod => verified
    /\ OfflineSuccessIsTheCards

\* The inductive invariant.
CvmInv == TypeInv /\ LoopInv /\ LoopMatchesList /\ CallInv /\ SuccessInv

\* The invariant holds before the call.
LEMMA InitCvm == Init => CvmInv
<1> SUFFICES ASSUME Init PROVE CvmInv
  OBVIOUS
<1>1. list \in CvmLists /\ list.rules \in Seq(CvRule) /\ list.malformed \in BOOLEAN
  BY CvmListsAssumption DEF Init
<1>2. answers \in [DOMAIN list.rules -> PerformResult]
  BY DEF Init, PerformResult
<1>3. TypeInv
  <2>1. /\ phase = "Ready" /\ i = 1 /\ failure = FALSE /\ required = "None"
        /\ pin = "NotCollected" /\ tries \in 0..PinTries /\ verified = FALSE
    BY DEF Init
  <2>2. i \in Nat \ {0} /\ pin \in PinEntry
    BY <2>1 DEF PinEntry
  <2> QED  BY <1>1, <1>2, <2>1, <2>2 DEF TypeInv
<1>4. phase = "Ready" /\ ctx = Fresh /\ failure = FALSE
  BY DEF Init
<1>5. LoopInv /\ LoopMatchesList /\ SuccessInv
  BY <1>4 DEF LoopInv, LoopMatchesList, SuccessInv, OfflineSuccessIsTheCards
<1> QED  BY <1>3, <1>4, <1>5 DEF CvmInv, CallInv

\* An answer is remembered at its own rule and at no other.
Judged(result) == IF result \in PerformResult THEN result ELSE answers[i]

\* What a rule that has been tried leaves in the loop has the right type.
LEMMA SettleTypes ==
    ASSUME TypeInv, AtRule, NEW result, Settle(result)
    PROVE  /\ answers' \in [DOMAIN list.rules -> PerformResult]
           /\ i' \in Nat \ {0} /\ phase' \in {"Rule", "Store"}
           /\ UNCHANGED <<list, supported, keyed, pin, asked, ctx, saved>>
<1>1. answers' \in [DOMAIN list.rules -> PerformResult]
  BY DEF Settle, TypeInv, AtRule
<1>2. phase' \in {"Rule", "Store"} /\ i' \in Nat \ {0}
  BY DEF Settle, TypeInv, AtRule
<1> QED  BY <1>1, <1>2 DEF Settle, givenVars


\* The rule the loop is at has the result the loop acted on.
RightResult(result) ==
    RuleResult(Rule, Ctx, list, Judged(result)) = result

\* Judged by their answers the rules passed before have not changed.
LEMMA SettleResults ==
    ASSUME TypeInv, AtRule, NEW result, RightResult(result), Settle(result)
    PROVE  /\ ResultOf(list, Ctx, answers', i) = result
           /\ \A j \in 1..(i - 1) : ResultOf(list, Ctx, answers', j) = Res(j)
<1>1. answers' = [answers EXCEPT ![i] = Judged(result)] /\ i \in DOMAIN list.rules
  BY DEF Settle, Judged, AtRule
<1>2. i \in DOMAIN answers /\ i \in Nat
  BY <1>1 DEF TypeInv
<1>3. answers'[i] = Judged(result) /\ \A j \in 1..(i - 1) : answers'[j] = answers[j]
  BY <1>1, <1>2 DEF TypeInv
<1> QED  BY <1>3 DEF Res, ResultOf, RightResult, Rule


\* A rule that lets the next one be tried.
LEMMA GoOn ==
    ASSUME TypeInv, LoopInv, AtRule, NEW result, RightResult(result), Settle(result),
           ~EndsProcessing(Rule, result)
    PROVE  LoopInv' /\ phase' = "Rule"
<1> DEFINE R(j) == ResultOf(list, Ctx, answers', j)
<1>1. /\ i' = i + 1 /\ i \in Nat \ {0} /\ phase = "Rule" /\ phase' = "Rule"
      /\ list' = list /\ settled' = settled
      /\ i \in DOMAIN list.rules /\ i <= Len(list.rules)
  BY DEF Settle, AtRule, TypeInv, givenVars
<1>2. R(i) = result /\ \A j \in 1..(i - 1) : R(j) = Res(j)
  BY SettleResults
<1>3. \A j \in 1..i : j = i \/ j \in 1..(i - 1)
  BY <1>1
<1>4. \A j \in 1..i : ~Ends(list, Ctx, answers', j)
  <2>1. ~Ends(list, Ctx, answers', i)
    BY <1>2 DEF Ends, Rule
  <2>2. \A j \in 1..(i - 1) : ~Ends(list, Ctx, answers', j)
    BY <1>1, <1>2 DEF Ends, LoopInv, Res
  <2> QED  BY <2>1, <2>2, <1>3
<1>5. bits' = UNION {RuleBits(list.rules[j], Ctx, R(j)) : j \in 1..i}
  <2>1. bits' = bits \cup RuleBits(Rule, Ctx, result)
    BY DEF Settle
  <2>2. bits = UNION {RuleBits(list.rules[j], Ctx, R(j)) : j \in 1..(i - 1)}
    BY <1>1, <1>2, Zenon DEF LoopInv, Bit
  <2>3. 1..i = (1..(i - 1)) \cup {i}
    BY <1>1
  <2> HIDE DEF R
  <2> QED  BY <2>1, <2>2, <2>3, <1>2, Zenon DEF Rule
<1>6. LastSoFar'
  <2>1. CASE result = "NotSatisfied"
    <3>1. last' = last
      BY <2>1 DEF Settle
    <3>2. LastSoFar
      BY <1>1 DEF LoopInv
    <3> HIDE DEF R
    <3>3. /\ \/ last' = NoRule /\ \A j \in 1..i : R(j) = "NotSatisfied"
             \/ /\ last' \in 1..i /\ R(last') # "NotSatisfied"
                /\ \A j \in 1..i : j > last' => R(j) = "NotSatisfied"
      BY <3>1, <3>2, <1>1, <1>2, <1>3, <2>1 DEF LastSoFar
    <3> QED  BY <3>3, <1>1 DEF LastSoFar, R, Res
  <2>2. CASE result # "NotSatisfied"
    <3>1. last' = i
      BY <2>2 DEF Settle
    <3>2. /\ last' \in 1..i /\ R(last') # "NotSatisfied"
          /\ \A j \in 1..i : j > last' => R(j) = "NotSatisfied"
      BY <3>1, <1>1, <1>2, <2>2
    <3> QED  BY <3>2, <1>1 DEF LastSoFar, Res
  <2> QED  BY <2>1, <2>2
<1>7. i' - 1 = i /\ i' <= Len(list.rules) + 1
  BY <1>1, CvmListsAssumption DEF TypeInv
<1> QED  BY <1>1, <1>4, <1>5, <1>6, <1>7 DEF LoopInv, Bit, Res


\* Before rule i nothing ended the list, and no rule before it was successful.
LEMMA ReachedSoFar ==
    ASSUME TypeInv, LoopInv, phase = "Rule", NEW given,
           given \in [DOMAIN list.rules -> PerformResult],
           \A j \in 1..(i - 1) : ResultOf(list, Ctx, given, j) = Res(j)
    PROVE  /\ \A j \in 1..(i - 1) : ~Ends(list, Ctx, given, j)
           /\ \A j \in 1..(i - 1) : Res(j) \notin {"Successful", "Unknown"}
<1>1. \A j \in 1..(i - 1) : ~Ends(list, Ctx, given, j)
  BY DEF LoopInv, Ends, Res
<1>2. \A j \in 1..(i - 1) : Res(j) \notin {"Successful", "Unknown"}
  BY <1>1 DEF Ends, EndsProcessing, Final
<1> QED  BY <1>1, <1>2

\* A rule that ends the list.
LEMMA EndHere ==
    ASSUME TypeInv, LoopInv, AtRule, NEW result, RightResult(result), Settle(result),
           EndsProcessing(Rule, result)
    PROVE  LoopMatchesList' /\ phase' = "Store"
<1> DEFINE R(j) == ResultOf(list, Ctx, answers', j)
           Reach == Reached(list, Ctx, answers')
<1>1. /\ i' = i /\ i \in Nat \ {0} /\ phase = "Rule" /\ phase' = "Store"
      /\ list' = list /\ list.rules # <<>> /\ list.rules \in Seq(CvRule)
      /\ settled' = SettledBy(i, Rule, result)
      /\ i \in DOMAIN list.rules /\ DOMAIN list.rules = 1..Len(list.rules)
  BY DEF Settle, AtRule, TypeInv, givenVars, LoopInv
<1>2. R(i) = result /\ \A j \in 1..(i - 1) : R(j) = Res(j)
  BY SettleResults
<1>3. /\ \A j \in 1..(i - 1) : ~Ends(list, Ctx, answers', j)
      /\ \A j \in 1..(i - 1) : R(j) \notin {"Successful", "Unknown"}
  BY <1>1, <1>2, SettleTypes, ReachedSoFar
<1>4. Ends(list, Ctx, answers', i)
  BY <1>2 DEF Ends, Rule
<1>5. Reach = 1..i
  <2>1. \A j \in 1..i : j \in Reach
    BY <1>1, <1>3 DEF Reached
  <2>2. \A j \in Reach : j <= i
    BY <1>1, <1>4 DEF Reached
  <2> QED  BY <2>1, <2>2, <1>1 DEF Reached
<1>6. settled' = CvmResults(list, Ctx, answers')
  <2>1. {j \in Reach : Ends(list, Ctx, answers', j)} = {i}
    BY <1>1, <1>3, <1>4, <1>5
  <2> QED  BY <2>1, <1>1, <1>2 DEF CvmResults, Rule
<1>7. bits' = CvmTvr(list, Ctx, answers')
  <2>1. bits = UNION {RuleBits(list.rules[j], Ctx, R(j)) : j \in 1..(i - 1)}
    BY <1>1, <1>2, Zenon DEF LoopInv, Bit
  <2>2. 1..i = (1..(i - 1)) \cup {i}
    BY <1>1
  <2>3. RulesTvr(list, Ctx, answers') = UNION {RuleBits(list.rules[j], Ctx, R(j)) : j \in 1..i}
    BY <1>5 DEF RulesTvr
  <2>4. RulesTvr(list, Ctx, answers') = bits \cup RuleBits(Rule, Ctx, result)
    <3> HIDE DEF R, Reach
    <3> QED  BY <2>1, <2>2, <2>3, <1>2, Zenon DEF Rule
  <2>5. Succeeds(list, Ctx, answers') <=> result \in {"Successful", "Unknown"}
    <3>1. Succeeds(list, Ctx, answers') <=> \E j \in 1..i : R(j) \in {"Successful", "Unknown"}
      BY <1>5 DEF Succeeds
    <3> HIDE DEF R, Reach
    <3> QED  BY <3>1, <1>2, <1>3, <2>2
  <2> QED  BY <2>4, <2>5, <1>1 DEF CvmTvr, FailureTvr, Settle
<1> QED  BY <1>1, <1>6, <1>7 DEF LoopMatchesList

\* The list is exhausted.
LEMMA ExhaustedMatches ==
    ASSUME TypeInv, LoopInv, Exhausted
    PROVE  LoopMatchesList' /\ settled'[2] = "Failed"
<1> DEFINE Reach == Reached(list, Ctx, answers)
<1>1. /\ phase = "Rule" /\ i \in Nat /\ list.rules # <<>> /\ list.rules \in Seq(CvRule)
      /\ i = Len(list.rules) + 1 /\ DOMAIN list.rules = 1..(i - 1)
      /\ list' = list /\ answers' = answers /\ settled' = <<last, "Failed">>
      /\ bits' = bits \cup {"cardholder_verification_was_not_successful"}
  <2>1. list.rules \in Seq(CvRule) /\ i \in Nat /\ phase = "Rule" /\ i > Len(list.rules)
        /\ i <= Len(list.rules) + 1 /\ list.rules # <<>>
    BY DEF TypeInv, LoopInv, Exhausted
  <2>2. Len(list.rules) \in Nat /\ DOMAIN list.rules = 1..Len(list.rules)
    BY <2>1
  <2>3. i = Len(list.rules) + 1
    BY <2>1, <2>2
  <2> QED  BY <2>1, <2>2, <2>3 DEF Exhausted, givenVars
<1>2. /\ \A j \in 1..(i - 1) : ~Ends(list, Ctx, answers, j)
      /\ \A j \in 1..(i - 1) : Res(j) \notin {"Successful", "Unknown"}
  BY <1>1, ReachedSoFar DEF TypeInv, Res
<1>3. Reach = 1..(i - 1)
  BY <1>1, <1>2 DEF Reached
<1>4. LastSatisfied(list, Ctx, answers) = last
  <2> DEFINE Tried == {j \in DOMAIN list.rules : Res(j) # "NotSatisfied"}
  <2>1. LastSatisfied(list, Ctx, answers) =
          IF Tried = {} THEN NoRule ELSE CHOOSE j \in Tried : \A k \in Tried : k <= j
    BY DEF LastSatisfied, Res
  <2>2. LastSoFar
    BY <1>1 DEF LoopInv
  <2>3. CASE last = NoRule /\ Tried = {}
    BY <2>1, <2>3
  <2>4. CASE last \in Tried /\ \A k \in Tried : k <= last
    <3>1. PICK j \in Tried : /\ \A k \in Tried : k <= j
                             /\ j = CHOOSE n \in Tried : \A k \in Tried : k <= n
      BY <2>4
    <3>2. j <= last /\ last <= j /\ j \in Nat /\ last \in Nat
      BY <3>1, <2>4, <1>1
    <3> QED  BY <3>1, <3>2, <2>1
  <2> QED  BY <1>1, <2>2, <2>3, <2>4 DEF LastSoFar
<1>5. settled' = CvmResults(list, Ctx, answers)
  <2>1. {j \in Reach : Ends(list, Ctx, answers, j)} = {}
    BY <1>2, <1>3
  <2> QED  BY <2>1, <1>1, <1>4 DEF CvmResults
<1>6. bits' = CvmTvr(list, Ctx, answers)
  <2>1. RulesTvr(list, Ctx, answers) = bits
    BY <1>1, <1>3, Zenon DEF RulesTvr, LoopInv, Bit, Res
  <2>2. ~Succeeds(list, Ctx, answers)
    BY <1>2, <1>3 DEF Succeeds, Res
  <2> QED  BY <2>1, <2>2, <1>1 DEF CvmTvr, FailureTvr
<1> QED  BY <1>1, <1>5, <1>6 DEF LoopMatchesList


\* One rule of the loop: what holds before it holds after it, and CVM Results
\* that say "successful" name a rule that was performed with success.
LEMMA OneRuleOn ==
    ASSUME CvmInv, AtRule, NEW result, RightResult(result), Settle(result)
    PROVE  /\ LoopInv' /\ LoopMatchesList'
           /\ phase' \in {"Rule", "Store"} /\ i' \in Nat \ {0}
           /\ answers' \in [DOMAIN list.rules -> PerformResult]
           /\ UNCHANGED <<list, supported, keyed, pin, ctx, saved>>
           /\ ctx = Fresh /\ saved = Fresh
           /\ phase' = "Store" /\ settled'[2] = "Successful" =>
                result = "Successful" /\ list.rules[settled'[1]].method = Rule.method
<1>1. TypeInv /\ LoopInv /\ phase = "Rule" /\ ctx = Fresh /\ saved = Fresh
  BY DEF CvmInv, CallInv, AtRule
<1>2. /\ i' \in Nat \ {0} /\ answers' \in [DOMAIN list.rules -> PerformResult]
      /\ UNCHANGED <<list, supported, keyed, pin, ctx, saved>>
  BY <1>1, SettleTypes
<1>3. CASE EndsProcessing(Rule, result)
  <2>1. LoopMatchesList' /\ phase' = "Store"
    BY <1>1, <1>3, EndHere
  <2>2. settled' = SettledBy(i, Rule, result)
    BY <1>3 DEF Settle
  <2>3. settled'[2] = "Successful" => result = "Successful" /\ settled'[1] = i
    BY <2>2 DEF SettledBy, result_byte
  <2> QED  BY <1>1, <1>2, <2>1, <2>3 DEF LoopInv, Rule
<1>4. CASE ~EndsProcessing(Rule, result)
  <2>1. LoopInv' /\ phase' = "Rule"
    BY <1>1, <1>4, GoOn
  <2> QED  BY <1>1, <1>2, <2>1 DEF LoopMatchesList
<1> QED  BY <1>3, <1>4

\* The result a performed rule is settled with is the right one.
LEMMA PerformedRight ==
    ASSUME NEW methods, Performs(methods), NEW result \in PerformResult
    PROVE  AtRule /\ RightResult(result) /\ Rule.method \in methods
BY JudgeDecides DEF Performs, RightResult, Judged, Judge

\* A step of the loop that leaves the card's acceptance as it was.
LEMMA RuleKeeps ==
    ASSUME CvmInv, AtRule, NEW result, RightResult(result), Settle(result),
           tries' \in 0..PinTries, verified' \in BOOLEAN,
           required' \in {"None", "OnlinePin", "OfflinePin"}, failure' \in BOOLEAN,
           result = "Successful" /\ Rule.method \in OfflinePinMethod => verified'
    PROVE  CvmInv'
<1>1. /\ LoopInv' /\ LoopMatchesList'
      /\ phase' \in {"Rule", "Store"} /\ i' \in Nat \ {0}
      /\ answers' \in [DOMAIN list.rules -> PerformResult]
      /\ UNCHANGED <<list, supported, keyed, pin, ctx, saved>>
      /\ ctx = Fresh /\ saved = Fresh
      /\ phase' = "Store" /\ settled'[2] = "Successful" =>
           result = "Successful" /\ list.rules[settled'[1]].method = Rule.method
  BY OneRuleOn
<1>2. TypeInv'
  BY <1>1 DEF CvmInv, TypeInv
<1>3. CallInv'
  BY <1>1 DEF CallInv
<1>4. SuccessInv'
  BY <1>1 DEF SuccessInv, OfflineSuccessIsTheCards
<1> QED  BY <1>1, <1>2, <1>3, <1>4 DEF CvmInv

\* A rule that is passed over keeps the invariant.
LEMMA PassOverKeeps == ASSUME CvmInv, PassOver PROVE CvmInv'
<1> DEFINE result == Judge("Failed")
<1>1. AtRule /\ Settle(result) /\ result \notin PerformResult
      /\ UNCHANGED <<required, failure, tries, verified>>
  BY DEF PassOver, cardVars
<1>2. RightResult(result)
  BY <1>1, JudgeDecides DEF RightResult, Judge
<1>3. result # "Successful"
  BY <1>1 DEF PerformResult
<1> HIDE DEF result
<1> QED  BY <1>1, <1>2, <1>3, RuleKeeps DEF CvmInv, TypeInv

\* So does a rule that is performed without the card deciding on a PIN.
LEMMA CardlessKeeps ==
    ASSUME CvmInv,
           WithoutPin \/ Bypass \/ DemandPin \/ NoEnciphermentKey \/ OnlinePin
             \/ CannotVerify \/ CannotEncipher
    PROVE  CvmInv'
<1> SUFFICES ASSUME NEW methods, NEW result \in PerformResult, Performs(methods), Settle(result),
                    methods \cap OfflinePinMethod = {} \/ result # "Successful",
                    required' \in {"None", "OnlinePin", "OfflinePin"},
                    UNCHANGED <<failure, tries, verified>>
             PROVE  CvmInv'
  <2>1. required \in {"None", "OnlinePin", "OfflinePin"}
    BY DEF CvmInv, TypeInv
  <2>2. CASE WithoutPin
    <3> DEFINE result == CASE Rule.method = "NoCvm" -> "Successful"
                           [] Rule.method = "Signature" -> "Unknown"
                           [] OTHER -> "PinPadNotWorkingOrAbsent"
    <3>1. result \in PerformResult
      BY DEF PerformResult
    <3> HIDE DEF result
    <3>2. Settle(result) /\ Performs(Method \ (OfflinePinMethod \cup {"OnlinePin", "FailCvm"}))
          /\ UNCHANGED <<required, failure, tries, verified>>
      BY <2>2 DEF WithoutPin, cardVars, result
    <3> QED  BY <2>1, <3>1, <3>2
  <2>3. CASE Bypass
    BY <2>1, <2>3 DEF Bypass, cardVars, PerformResult
  <2>4. CASE DemandPin
    BY <2>1, <2>4 DEF DemandPin, cardVars, PerformResult
  <2>5. CASE NoEnciphermentKey
    BY <2>1, <2>5 DEF NoEnciphermentKey, cardVars, PerformResult
  <2>6. CASE OnlinePin
    BY <2>1, <2>6 DEF OnlinePin, cardVars, PerformResult, OfflinePinMethod
  <2>7. CASE CannotVerify
    BY <2>1, <2>7 DEF CannotVerify, Offline, cardVars, PerformResult
  <2>8. CASE CannotEncipher
    BY <2>1, <2>8 DEF CannotEncipher, Offline, cardVars, PerformResult
  <2> QED  BY <2>2, <2>3, <2>4, <2>5, <2>6, <2>7, <2>8
<1>1. AtRule /\ RightResult(result) /\ Rule.method \in methods
  BY PerformedRight
<1>2. result = "Successful" /\ Rule.method \in OfflinePinMethod => verified'
  BY <1>1
<1> QED  BY <1>1, <1>2, RuleKeeps DEF CvmInv, TypeInv

\* So does VERIFY, answered or lost.
LEMMA VerifyKeeps == ASSUME CvmInv, VerifyAnswered \/ VerifyLost PROVE CvmInv'
<1>1. tries \in 0..PinTries /\ PinTries \in Nat /\ verified \in BOOLEAN /\ failure \in BOOLEAN
      /\ required \in {"None", "OnlinePin", "OfflinePin"}
  BY PinTriesAssumption DEF CvmInv, TypeInv
<1>2. CASE VerifyAnswered
  <2> DEFINE accepted == pin = "right" /\ tries > 0
             left == IF accepted THEN PinTries ELSE IF tries > 0 THEN tries - 1 ELSE 0
             result == IF accepted THEN "Successful"
                       ELSE IF left = 0 THEN "PinTryLimitExceeded" ELSE "Failed"
  <2>1. Performs(OfflinePinMethod) /\ Settle(result) /\ tries' = left /\ verified' = accepted
        /\ required' = required /\ failure' = failure
    BY <1>2 DEF VerifyAnswered, Offline
  <2>2. result \in PerformResult /\ (result = "Successful" => verified') /\ verified' \in BOOLEAN
    BY <2>1 DEF PerformResult
  <2>3. tries' \in 0..PinTries
    BY <1>1, <2>1
  <2> HIDE DEF result
  <2>4. AtRule /\ RightResult(result)
    BY <2>1, <2>2, PerformedRight
  <2> QED  BY <1>1, <2>1, <2>2, <2>3, <2>4, RuleKeeps
<1>3. CASE VerifyLost
  <2>1. Performs(OfflinePinMethod) /\ Settle("Failed") /\ failure' = TRUE
        /\ required' = required /\ verified' = verified
        /\ tries' \in {tries, IF tries > 0 THEN tries - 1 ELSE 0}
    BY <1>3 DEF VerifyLost, Offline
  <2>2. tries' \in 0..PinTries
    BY <1>1, <2>1
  <2>3. AtRule /\ RightResult("Failed")
    BY <2>1, PerformedRight DEF PerformResult
  <2> QED  BY <1>1, <2>1, <2>2, <2>3, RuleKeeps
<1> QED  BY <1>2, <1>3

\* So does coming to the end of the list.
LEMMA ExhaustedKeeps == ASSUME CvmInv, Exhausted PROVE CvmInv'
<1>1. LoopMatchesList' /\ settled'[2] = "Failed"
  BY ExhaustedMatches DEF CvmInv
<1>2. /\ phase = "Rule" /\ phase' = "Store"
      /\ UNCHANGED <<list, pin, i, answers, required, failure, ctx, saved, tries, verified>>
  BY DEF Exhausted, givenVars, cardVars
<1>3. TypeInv'
  BY <1>2 DEF CvmInv, TypeInv
<1>4. CallInv' /\ LoopInv' /\ SuccessInv'
  BY <1>1, <1>2 DEF CvmInv, CallInv, LoopInv, SuccessInv, OfflineSuccessIsTheCards
<1> QED  BY <1>1, <1>3, <1>4 DEF CvmInv


\* A call, the first or one with the host's answer, starts in the invariant.
LEMMA EnterKeeps ==
    ASSUME CvmInv, NEW entry \in PinEntry, Enter(entry), phase \in {"Ready", "Pin"}
    PROVE  CvmInv'
<1>1. /\ pin' = entry /\ saved' = Fresh /\ ctx' = ctx /\ ctx = Fresh
      /\ required' = "None" /\ failure' = FALSE /\ i' = 1 /\ bits' = {} /\ last' = NoRule
      /\ list' = list /\ verified' = verified /\ tries' = tries
      /\ answers' = [r \in DOMAIN list.rules |-> "Failed"]
      /\ list.rules \in Seq(CvRule)
  BY DEF Enter, CvmInv, CallInv, givenVars, cardVars, TypeInv
<1>2. answers' \in [DOMAIN list.rules -> PerformResult]
  BY <1>1 DEF PerformResult
<1>3. \/ phase' = "Err" /\ list.malformed
      \/ phase' = "Store" /\ list.rules = <<>> /\ settled' = <<NoRule, "NotPerformed">>
      \/ phase' = "Rule" /\ list.rules # <<>> /\ settled' = NotStored
  BY DEF Enter
<1>4. i' \in Nat \ {0} /\ phase' \in {"Err", "Store", "Rule"}
  BY <1>1, <1>3
<1>5. TypeInv'
  BY <1>1, <1>2, <1>4 DEF CvmInv, TypeInv
<1>6. CallInv'
  BY <1>1, <1>3 DEF CallInv
<1>7. LoopInv'
  <2>1. i' - 1 = 0 /\ 1..(i' - 1) = {} /\ i' <= Len(list.rules) + 1
    BY <1>1
  <2>2. bits' = UNION {Bit(j)' : j \in 1..(i' - 1)}
    BY <1>1, <2>1
  <2>3. LastSoFar'
    BY <1>1, <2>1 DEF LastSoFar
  <2> QED  BY <1>1, <1>3, <2>1, <2>2, <2>3 DEF LoopInv
<1>8. LoopMatchesList'
  <2> SUFFICES ASSUME phase' = "Store", list.rules = <<>>, settled' = <<NoRule, "NotPerformed">>
               PROVE  LoopMatchesList'
    BY <1>3 DEF LoopMatchesList
  <2>1. Reached(list, Ctx, answers') = {}
    BY DEF Reached
  <2>2. CvmTvr(list, Ctx, answers') = {}
    BY <2>1 DEF CvmTvr, RulesTvr, FailureTvr
  <2>3. CvmResults(list, Ctx, answers') = <<NoRule, "NotPerformed">>
    BY DEF CvmResults
  <2> QED  BY <1>1, <2>2, <2>3 DEF LoopMatchesList
<1>9. SuccessInv'
  <2>1. phase' = "Store" => settled'[2] # "Successful"
    BY <1>3
  <2> QED  BY <1>4, <2>1 DEF SuccessInv, OfflineSuccessIsTheCards
<1> QED  BY <1>5, <1>6, <1>7, <1>8, <1>9 DEF CvmInv

\* So does a call the card does not support.
LEMMA NotSupportedKeeps == ASSUME CvmInv, NotSupported PROVE CvmInv'
<1>1. /\ phase = "Ready" /\ phase' = "Done" /\ ctx = Fresh
      /\ ctx'.results = <<NoRule, "NotPerformed">>
      /\ UNCHANGED <<list, pin, i, answers, required, failure, tries, verified>>
  BY DEF NotSupported, CvmInv, CallInv, Fresh, givenVars, loopVars, cardVars
<1>2. TypeInv'
  BY <1>1 DEF CvmInv, TypeInv
<1>3. CallInv' /\ LoopInv' /\ LoopMatchesList' /\ SuccessInv'
  BY <1>1 DEF CvmInv, CallInv, LoopInv, LoopMatchesList, SuccessInv, OfflineSuccessIsTheCards
<1> QED  BY <1>2, <1>3 DEF CvmInv

\* Storing the CVM Results keeps the invariant: there are none to replace.
LEMMA StoreKeeps == ASSUME CvmInv, Store PROVE CvmInv'
<1>1. /\ phase = "Store" /\ phase' = "Return" /\ ctx'.results = settled
      /\ UNCHANGED <<list, pin, i, answers, settled, required, failure, saved, tries, verified>>
  BY DEF Store, CvmInv, CallInv, Fresh, givenVars, loopVars, cardVars
<1>2. TypeInv'
  BY <1>1 DEF CvmInv, TypeInv
<1>3. CallInv' /\ LoopInv' /\ LoopMatchesList' /\ SuccessInv'
  BY <1>1 DEF CvmInv, CallInv, LoopInv, LoopMatchesList, SuccessInv, OfflineSuccessIsTheCards
<1> QED  BY <1>2, <1>3 DEF CvmInv

\* Returning keeps it: a demanded PIN restores the empty context.
LEMMA ReturnKeeps == ASSUME CvmInv, Return PROVE CvmInv'
<1>1. /\ phase = "Return" /\ saved = Fresh /\ ctx.results = settled
      /\ UNCHANGED <<list, pin, i, answers, settled, required, failure, saved, tries, verified>>
      /\ \/ phase' = "Err" /\ failure
         \/ phase' = "Pin" /\ ~failure /\ ctx' = Fresh
         \/ phase' = "Done" /\ ~failure /\ ctx' = ctx
  BY DEF Return, Leave, CvmInv, CallInv, givenVars, loopVars, cardVars
<1>2. TypeInv'
  BY <1>1 DEF CvmInv, TypeInv
<1>3. CallInv' /\ LoopInv' /\ LoopMatchesList'
  BY <1>1 DEF CvmInv, CallInv, LoopInv, LoopMatchesList
<1>4. SuccessInv'
  BY <1>1 DEF CvmInv, SuccessInv, OfflineSuccessIsTheCards
<1> QED  BY <1>2, <1>3, <1>4 DEF CvmInv

\* Every step keeps the invariant.
LEMMA NextKeeps == ASSUME CvmInv, [Next]_vars PROVE CvmInv'
<1>1. CASE NotSupported
  BY <1>1, NotSupportedKeeps
<1>2. CASE first_pass \/ submit_pin \/ bypass_pin_entry
  <2>1. PICK entry \in PinEntry : Enter(entry) /\ phase \in {"Ready", "Pin"}
    BY <1>2 DEF first_pass, submit_pin, bypass_pin_entry, PinEntry
  <2> QED  BY <2>1, EnterKeeps
<1>3. CASE Kernel
  BY <1>3, PassOverKeeps, CardlessKeeps, VerifyKeeps, ExhaustedKeeps, StoreKeeps, ReturnKeeps
     DEF Kernel
<1>4. CASE UNCHANGED vars
  BY <1>4 DEF vars, givenVars, loopVars, cardVars, CvmInv, TypeInv, LoopInv, LoopMatchesList,
             CallInv, SuccessInv, OfflineSuccessIsTheCards, LastSoFar, Bit, Res
<1> QED  BY <1>1, <1>2, <1>3, <1>4 DEF Next, Over

\* The invariant of a call to run_cardholder_verification, for every list.
THEOREM CvmInvariant == Spec => []CvmInv
BY InitCvm, NextKeeps, PTL DEF Spec

\* The loop of process_cvm_list computes, for every list and whatever each rule
\* is answered, the CVM Results and the TVR bits CvmList states over the whole list.
THEOREM LoopMatchesListAlways == Spec => []LoopMatchesList
<1>1. CvmInv => LoopMatchesList
  BY DEF CvmInv
<1> QED  BY <1>1, CvmInvariant, PTL

\* A call that asks the host for a PIN has left the context as it found it
\* (the snapshot of run_cardholder_verification is restored in full).
THEOREM RequirementLeavesNoTraceAlways == Spec => []RequirementLeavesNoTrace
<1>1. CvmInv => RequirementLeavesNoTrace
  BY DEF CvmInv, CallInv, RequirementLeavesNoTrace
<1> QED  BY <1>1, CvmInvariant, PTL

\* A VERIFY with no known answer makes the call an error whatever the rules
\* after it say, and no other call of a list that parses is one: in particular the
\* second pass never finds the first pass's CVM Results in its way.
THEOREM LostVerifyIsReportedAlways == Spec => []LostVerifyIsReported
<1>1. CvmInv => LostVerifyIsReported
  BY DEF CvmInv, CallInv, LostVerifyIsReported
<1> QED  BY <1>1, CvmInvariant, PTL

\* CVM Results that report an offline PIN rule successful rest on the card's
\* own acceptance of the PIN, for every list.
THEOREM OfflineSuccessIsTheCardsAlways == Spec => []OfflineSuccessIsTheCards
<1>1. CvmInv => OfflineSuccessIsTheCards
  BY DEF CvmInv, SuccessInv
<1> QED  BY <1>1, CvmInvariant, PTL

\* The card's try counter is touched only by a PIN the host handed over.
THEOREM NoPinSparesTheCardAlways == Spec => NoPinSparesTheCard
<1>1. [Next]_vars => [pin' \notin EnteredPin => UNCHANGED cardVars]_vars
  <2> SUFFICES ASSUME Next, pin' \notin EnteredPin PROVE UNCHANGED cardVars
    OBVIOUS
  <2>1. ~VerifyAnswered /\ ~VerifyLost
    BY DEF VerifyAnswered, VerifyLost, Offline, Settle
  <2>2. Kernel => UNCHANGED cardVars
    BY <2>1 DEF Kernel, PassOver, WithoutPin, Bypass, DemandPin, NoEnciphermentKey, OnlinePin,
               CannotVerify, CannotEncipher, Exhausted, Store, Return, Leave
  <2> QED  BY <2>2 DEF Next, NotSupported, first_pass, submit_pin, bypass_pin_entry, Enter, Over, vars
<1> QED  BY <1>1, PTL DEF Spec, NoPinSparesTheCard
=============================================================================
