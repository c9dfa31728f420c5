------------------------ MODULE TransactionFlow_proofs ------------------------
(***************************************************************************)
(* Theorems about TransactionFlow and about TestTransaction, which is made *)
(* of the same functions, for every card, terminal, issuer, host and       *)
(* command line that the constants allow.                                  *)
(***************************************************************************)
EXTENDS TestTransaction, TLAPS
-----------------------------------------------------------------------------
(* Lemmas about the operators. *)

OtherBit == TvrBit \ XdaFailureBit

\* Adding bits other than the XDA failures does not make XDA fail.
LEMMA XdaFailedUnion ==
    ASSUME NEW bits, NEW more
    PROVE  /\ XdaFailed(bits) => XdaFailed(bits \cup more)
           /\ more \subseteq OtherBit => (XdaFailed(bits \cup more) <=> XdaFailed(bits))
BY DEF XdaFailed, OtherBit

\* The bits of the other kernel functions are none of the three XDA failures.
LEMMA OtherBits ==
    /\ OdaBit \subseteq OtherBit
    /\ RestrictionBit \subseteq OtherBit
    /\ CvmBit \subseteq OtherBit
    /\ RiskBit \subseteq OtherBit
    /\ CompletionBit \subseteq OtherBit
BY DEF OtherBit, TvrBit, OdaBit, RestrictionBit, CvmBit, RiskBit, CompletionBit, XdaFailureBit,
       UnsetBit

\* A CVM List leaves CVM bits and nothing else.
LEMMA CvmTvrBits ==
    ASSUME NEW list, NEW ctx, NEW answers
    PROVE  CvmTvr(list, ctx, answers) \subseteq CvmBit
<1>1. ASSUME NEW rule, NEW result PROVE RuleBits(rule, ctx, result) \subseteq CvmBit
    <2>1. unsupported_tvr_bits(rule.method, ctx) \subseteq CvmBit
        BY DEF unsupported_tvr_bits, CvmBit
    <2>2. QED BY <2>1 DEF RuleBits, CvmBit
<1>2. RulesTvr(list, ctx, answers) \subseteq CvmBit
    BY <1>1 DEF RulesTvr
<1>3. FailureTvr(list, ctx, answers) \subseteq CvmBit
    BY DEF FailureTvr, CvmBit
<1>4. QED BY <1>2, <1>3 DEF CvmTvr

\* What a GENERATE AC may come back with.
LEMMA Exchanged ==
    ASSUME NEW cryptogram, NEW ac \in Exchange(cryptogram)
    PROVE  /\ ac.asked = cryptogram
           /\ ac.request = signature_request(cryptogram)
           /\ ac.type \in Cid
           /\ ac.genuine \in BOOLEAN
           /\ Answered(ac) # NoAc
           /\ Answered(ac).type = ac.type
           /\ Answered(ac).asked = cryptogram
<1>1. /\ ac.asked = cryptogram
      /\ ac.request = signature_request(cryptogram)
      /\ ac.type \in Cid
      /\ ac.genuine \in BOOLEAN
    BY DEF Exchange
<1>2. Answered(ac).type = ac.type /\ Answered(ac).asked = ac.asked
    BY DEF Answered
<1>3. Answered(ac) # NoAc
    BY <1>1, <1>2 DEF NoAc, Cid
<1>4. QED BY <1>1, <1>2, <1>3
-----------------------------------------------------------------------------
(* The type invariant in parts, and what makes it inductive: a candidate is *)
(* being attempted, and an issuer's answer is at hand, where they are used. *)

HostOK ==
    /\ pc \in Running \cup Returned
    /\ call \in Calls
    /\ retries \in 0..MaxRetries
    /\ card \in [App -> Profile] /\ terminal \in Terminal
    /\ pin \in {"NotCollected", "Entered", "Bypassed"}
    /\ response \in HostResponse \cup {NoResponse}

SelectionOK ==
    /\ cands = {} \/ \E l \in CandidateList : cands \subseteq l
    /\ chosen = NoCandidate \/ \E l \in CandidateList : chosen \in l
    /\ selected \in AllSources /\ initiated \in AllSources
    /\ eliminated \subseteq App

ContextOK ==
    /\ store \in [Tag -> Source]
    /\ tvr \subseteq TvrBit /\ tsi \subseteq TsiBit
    /\ cda \in BOOLEAN /\ xda \in Arming
    /\ scripts \in Seq(Positions \X BOOLEAN)

CryptogramsOK ==
    /\ asking \in {"TC", "AAC"}
    /\ outcome \in {"None", "Approved", "Declined", "Terminated"}
    /\ first \in GenerateAc \cup {NoAc} /\ second \in GenerateAc \cup {NoAc}

Positioned ==
    /\ pc \in {"Select", "Initiate"} => chosen.app \in App
    /\ pc = "ReadData" => initiated \in App
    /\ pc \in {"ExternalAuthenticate", "ScriptsBefore"} => response \in HostResponse

TypeInv == HostOK /\ SelectionOK /\ ContextOK /\ CryptogramsOK /\ Positioned

LEMMA TypeInvImplies == TypeInv => TypeOK
BY DEF TypeInv, HostOK, SelectionOK, ContextOK, CryptogramsOK, TypeOK

LEMMA TypeInvInit == Init => TypeInv
<1> SUFFICES ASSUME Init PROVE TypeInv
    OBVIOUS
<1>1. HostOK
    BY EnvironmentAssumption DEF Init, HostOK, Returned, HostSteps, Calls
<1>2. SelectionOK
    BY DEF Init, SelectionOK, AllSources
<1>3. ContextOK
    <2>1. store \in [Tag -> Source]
        BY DEF Init, Source
    <2>2. scripts \in Seq(Positions \X BOOLEAN)
        BY DEF Init
    <2>3. QED
        BY <2>1, <2>2 DEF Init, ContextOK, Arming
<1>4. CryptogramsOK /\ Positioned
    BY DEF Init, CryptogramsOK, Positioned
<1>5. QED
    BY <1>1, <1>2, <1>3, <1>4 DEF TypeInv
-----------------------------------------------------------------------------
(* The tag store. *)

LEMMA Sources == /\ "terminal" \in Source /\ App \subseteq Source
                 /\ KernelArc \subseteq Source
                 /\ \A r \in HostResponse : r.arc \in Source
BY DEF Source, HostArc

LEMMA StoreInsert ==
    ASSUME NEW tags \in [Tag -> Source], NEW tag \in Tag, NEW source \in Source
    PROVE  /\ Insert(tags, tag, source) \in [Tag -> Source]
           /\ InsertIfAbsent(tags, tag, source) \in [Tag -> Source]
BY DEF Insert, InsertIfAbsent

LEMMA StoreLoad ==
    ASSUME NEW tags \in [Tag -> Source], NEW app \in App, NEW read
    PROVE  Load(tags, app, read) \in [Tag -> Source]
BY Sources DEF Load
-----------------------------------------------------------------------------
(* Host calls. *)

\* Candidates are of applications of the card.
LEMMA CandidateApps == \A l \in CandidateList : \A c \in l : c.app \in App
BY EnvironmentAssumption

LEMMA HostCallsKeepTypes ==
    ASSUME TypeInv,
           start \/ continue_with_application \/ submit_pin \/ bypass_pin_entry \/ call_again
    PROVE  TypeInv'
<1> USE DEF TypeInv, HostOK, SelectionOK, CryptogramsOK, Positioned, Running, Returned, HostSteps
<1>1. CASE start
    <2>1. store' \in [Tag -> Source]
        BY <1>1, StoreInsert, Sources DEF start, ContextOK, Tag
    <2>2. QED
        BY <1>1, <2>1 DEF start, ContextOK, Fail, Proceed, Calls, config
<1>2. CASE continue_with_application
    BY <1>2, CandidateApps DEF continue_with_application, ContextOK, contextVars, Proceed, Calls, config
<1>3. CASE submit_pin \/ bypass_pin_entry
    BY <1>3 DEF submit_pin, bypass_pin_entry, EnterPin, ContextOK, contextVars, selectionVars,
                Proceed, Calls, config
<1>4. CASE call_again
    <2>1. retries' \in 0..MaxRetries
        BY <1>4, EnvironmentAssumption DEF call_again
    <2>2. pc' \in HostSteps
        BY <1>4 DEF call_again, StepBefore
    <2>3. QED
        BY <1>4, <2>1, <2>2 DEF call_again, ContextOK, contextVars, selectionVars, acVars, config
<1>5. QED
    BY <1>1, <1>2, <1>3, <1>4

LEMMA OnlineCallsKeepTypes ==
    ASSUME TypeInv, submit_authorisation_response \/ submit_unable_to_go_online
    PROVE  TypeInv'
<1> USE DEF TypeInv, HostOK, SelectionOK, CryptogramsOK, Positioned, Running, Returned, HostSteps
<1>1. CASE submit_authorisation_response
    BY <1>1 DEF submit_authorisation_response, ContextOK, contextVars, selectionVars, Proceed, Calls,
                config
<1>2. CASE submit_unable_to_go_online
    <2>1. \A code \in KernelArc : InsertIfAbsent(store, "ARC", code) \in [Tag -> Source]
        BY StoreInsert, Sources DEF ContextOK, Tag
    <2>2. unable_to_go_online_decision(tvr, Codes) \in {"TC", "AAC"}
        BY DEF unable_to_go_online_decision
    <2>3. store' \in [Tag -> Source] /\ asking' \in {"TC", "AAC"}
        BY <1>2, <2>1, <2>2 DEF submit_unable_to_go_online, StoreArc, KernelArc, ContextOK
    <2>4. /\ pc' \in {"Done", "SecondGenerateAc", "Err"}
          /\ outcome' \in {"None", "Declined", outcome}
        BY <1>2 DEF submit_unable_to_go_online, DeclineAfterXda, Finish, Proceed, Fail
    <2>5. QED
        BY <1>2, <2>3, <2>4 DEF submit_unable_to_go_online, ContextOK, selectionVars, Calls, config
<1>3. QED
    BY <1>1, <1>2
-----------------------------------------------------------------------------
(* Selection, initiation and reading. *)

LEMMA SelectionKeepsTypes ==
    ASSUME TypeInv, FinalSelection \/ select_application \/ initiate \/ read_application_data
    PROVE  TypeInv'
<1> USE DEF TypeInv, HostOK, SelectionOK, CryptogramsOK, Positioned, Running, Returned, HostSteps
<1>1. CASE FinalSelection
    BY <1>1, CandidateApps DEF FinalSelection, ContextOK, contextVars, hostVars, config, Finish, Proceed
<1>2. ASSUME chosen.app \in App, Eliminate
      PROVE  /\ eliminated' \subseteq App
             /\ cands' \subseteq cands
             /\ pc' \in {"FinalSelection", "SelectApplication", "Done"}
             /\ outcome' \in {outcome, "Terminated"}
    BY <1>2 DEF Eliminate, Finish, Proceed
<1>3. CASE select_application
    <2>1. chosen.app \in App
        BY <1>3 DEF select_application
    <2>2. /\ eliminated' \subseteq App /\ cands' \subseteq cands
          /\ pc' \in {"Initiate", "FinalSelection", "SelectApplication", "Done", "Err"}
          /\ outcome' \in {outcome, "Terminated", "None"}
          /\ selected' \in {selected, chosen.app}
        BY <1>2, <1>3, <2>1 DEF select_application, Proceed, Fail
    <2>3. QED
        BY <1>3, <2>1, <2>2 DEF select_application, ContextOK, contextVars, hostVars, config, AllSources
<1>4. CASE initiate
    <2>1. chosen.app \in App
        BY <1>4 DEF initiate
    <2>2. /\ eliminated' \subseteq App /\ cands' \subseteq cands
          /\ pc' \in {"ReadData", "FinalSelection", "SelectApplication", "Done", "Err"}
          /\ outcome' \in {outcome, "Terminated", "None"}
          /\ initiated' \in {initiated, chosen.app}
          /\ pc' = "ReadData" => initiated' = chosen.app
        BY <1>2, <1>4, <2>1 DEF initiate, Proceed, Fail
    <2>3. QED
        BY <1>4, <2>1, <2>2 DEF initiate, ContextOK, contextVars, hostVars, config, AllSources
<1>5. CASE read_application_data
    <2>1. initiated \in App
        BY <1>5 DEF read_application_data
    <2>2. store' \in [Tag -> Source]
        BY <1>5, <2>1, StoreLoad DEF read_application_data, ContextOK
    <2>3. QED
        BY <1>5, <2>2 DEF read_application_data, ContextOK, selectionVars, hostVars, config, Proceed, Fail
<1>6. QED
    BY <1>1, <1>3, <1>4, <1>5
-----------------------------------------------------------------------------
(* Authentication, restrictions, cardholder verification, risk management. *)

LEMMA BitsAreTvrBits ==
    /\ OdaBit \subseteq TvrBit /\ RestrictionBit \subseteq TvrBit /\ CvmBit \subseteq TvrBit
    /\ RiskBit \subseteq TvrBit /\ XdaFailureBit \subseteq TvrBit /\ CompletionBit \subseteq TvrBit
BY DEF TvrBit

\* What a card function that runs between reading data and the first GENERATE AC
\* must leave for the types to hold.
Conducts ==
    /\ pc' \in {"Restrictions", "Cvm", "CardholderVerification", "RiskManagement",
               "FirstGenerateAc", "Err"}
    /\ outcome' \in {outcome, "None"}
    /\ store' \in [Tag -> Source]
    /\ tvr' \subseteq TvrBit /\ tsi' \subseteq TsiBit
    /\ cda' \in BOOLEAN /\ xda' \in Arming
    /\ pin' \in {pin, "NotCollected"}
    /\ UNCHANGED <<call, retries, card, terminal, response, cands, chosen, selected, initiated,
                   eliminated, scripts, asking, first, second>>

LEMMA ConductsKeepsTypes == TypeInv /\ Conducts => TypeInv'
BY DEF TypeInv, HostOK, SelectionOK, ContextOK, CryptogramsOK, Positioned, Running, Returned,
       HostSteps, Conducts

LEMMA OdaConducts ==
    ASSUME TypeInv, perform_offline_data_authentication PROVE Conducts
<1>1. /\ store \in [Tag -> Source] /\ tvr \subseteq TvrBit /\ tsi \subseteq TsiBit
      /\ cda \in BOOLEAN /\ xda \in Arming
    BY DEF TypeInv, ContextOK
<1>2. UNCHANGED <<call, retries, card, terminal, pin, response, cands, chosen, selected, initiated,
                 eliminated, scripts, asking, first, second>>
    BY DEF perform_offline_data_authentication, hostVars, config, selectionVars
<1>3. "offline_data_authentication_was_performed" \in TsiBit
    BY DEF TsiBit
<1>4. ASSUME NEW tag \in Tag, NEW failed \in OdaBit, NEW selectedBit \in SUBSET OdaBit,
             NEW canBeLost,
             AuthenticateNow(tag, failed, selectedBit)
               \/ AuthenticateFails(tag, canBeLost, selectedBit)
      PROVE  Conducts
    <2>1. Insert(store, tag, "terminal") \in [Tag -> Source]
        BY <1>1, StoreInsert, Sources
    <2>2. store' \in [Tag -> Source]
        BY <1>1, <1>4, <2>1 DEF AuthenticateNow, AuthenticateFails
    <2>3. tvr' \subseteq tvr \cup OdaBit
        BY <1>4 DEF AuthenticateNow, AuthenticateFails, OdaBit
    <2>4. QED
        BY <1>1, <1>2, <1>3, <1>4, <2>2, <2>3, BitsAreTvrBits
        DEF Conducts, AuthenticateNow, AuthenticateFails, Proceed, Fail
<1>5. CASE /\ tvr' = tvr \cup {"offline_data_authentication_was_not_performed"}
           /\ Proceed("Restrictions")
           /\ UNCHANGED <<store, tsi, cda, xda>>
    BY <1>1, <1>2, <1>5, BitsAreTvrBits DEF Conducts, Proceed, OdaBit
<1>6. CASE perform_sda
    BY <1>4, <1>6 DEF perform_sda, Tag, OdaBit
<1>7. CASE perform_dda
    BY <1>4, <1>7 DEF perform_dda, Tag, OdaBit
<1>8. CASE perform_cda_arm
    <2>1. tvr' \subseteq tvr \cup OdaBit /\ cda' \in BOOLEAN
        BY <1>1, <1>8 DEF perform_cda_arm, OdaBit
    <2>2. QED
        BY <1>1, <1>2, <1>8, <2>1, BitsAreTvrBits DEF perform_cda_arm, Conducts, Proceed
<1>9. CASE perform_xda_arm
    <2>1. tvr' \subseteq tvr \cup OdaBit /\ xda' \in Arming
        BY <1>9 DEF perform_xda_arm, OdaBit, Arming
    <2>2. QED
        BY <1>1, <1>2, <1>9, <2>1, BitsAreTvrBits DEF perform_xda_arm, Conducts, Proceed
<1>10. QED
    BY <1>5, <1>6, <1>7, <1>8, <1>9 DEF perform_offline_data_authentication

LEMMA RestrictionsConduct ==
    ASSUME TypeInv, process_restrictions PROVE Conducts
<1>1. \A found \in RestrictionResult : found \subseteq TvrBit
    BY EnvironmentAssumption, BitsAreTvrBits
<1>2. QED
    BY <1>1 DEF TypeInv, ContextOK, process_restrictions, Conducts, Proceed, Fail, selectionVars, config

LEMMA CvmConducts ==
    ASSUME TypeInv, run_cardholder_verification PROVE Conducts
<1>1. /\ store \in [Tag -> Source] /\ tvr \subseteq TvrBit /\ tsi \subseteq TsiBit
      /\ cda \in BOOLEAN /\ xda \in Arming
    BY DEF TypeInv, ContextOK
<1>2. /\ Insert(store, "CVM_RESULTS", "terminal") \in [Tag -> Source]
      /\ InsertIfAbsent(store, "CVM_RESULTS", "terminal") \in [Tag -> Source]
    BY <1>1, StoreInsert, Sources DEF Tag
<1>3. "cardholder_verification_was_performed" \in TsiBit
    BY DEF TsiBit
<1>4. /\ UNCHANGED <<call, retries, card, terminal, pin, response, cands, chosen, selected,
                     initiated, eliminated, cda, xda, scripts, asking, first, second>>
      /\ pc' \in {"CardholderVerification", "RiskManagement", "Err"}
      /\ outcome' \in {outcome, "None"}
    BY DEF run_cardholder_verification, NoCvmPerformed, Conclude, Proceed, Fail, hostVars, config,
           selectionVars
<1>5. store' \in [Tag -> Source]
    BY <1>1, <1>2 DEF run_cardholder_verification, NoCvmPerformed, Conclude
<1>6. tsi' \subseteq TsiBit
    BY <1>1, <1>3 DEF run_cardholder_verification, NoCvmPerformed, Conclude
<1>7. tvr' \subseteq TvrBit
    <2>1. UNCHANGED tvr \/ \E list, answers : tvr' = tvr \cup CvmTvr(list, CvmContext, answers)
        BY DEF run_cardholder_verification, NoCvmPerformed, Conclude
    <2>2. \A list, answers : CvmTvr(list, CvmContext, answers) \subseteq TvrBit
        BY CvmTvrBits, BitsAreTvrBits
    <2>3. QED
        BY <1>1, <2>1, <2>2
<1>8. QED
    BY <1>1, <1>4, <1>5, <1>6, <1>7 DEF Conducts

LEMMA RiskManagementConducts ==
    ASSUME TypeInv, run_terminal_risk_management PROVE Conducts
<1>1. /\ store \in [Tag -> Source] /\ tvr \subseteq TvrBit /\ tsi \subseteq TsiBit
      /\ cda \in BOOLEAN /\ xda \in Arming
    BY DEF TypeInv, ContextOK
<1>2. \A tags \in [Tag -> Source], tag \in Tag : \A answer :
         GetData(tags, tag, answer) \in [Tag -> Source]
    BY StoreInsert, Sources DEF GetData
<1>3. \A answer, more :
         /\ GetData(store, "ATC", answer) \in [Tag -> Source]
         /\ GetData(GetData(store, "ATC", answer), "LAST_ONLINE_ATC", more) \in [Tag -> Source]
    BY <1>1, <1>2 DEF Tag
<1>4. store' \in [Tag -> Source]
    BY <1>1, <1>3 DEF run_terminal_risk_management
<1>5. tvr' \subseteq TvrBit
    BY <1>1, EnvironmentAssumption, BitsAreTvrBits DEF run_terminal_risk_management
<1>6. tsi' \subseteq TsiBit
    BY <1>1 DEF run_terminal_risk_management, TsiBit
<1>7. /\ UNCHANGED <<call, retries, card, terminal, pin, response, cands, chosen, selected,
                     initiated, eliminated, cda, xda, scripts, asking, first, second>>
      /\ pc' \in {"FirstGenerateAc", "Err"}
      /\ outcome' \in {outcome, "None"}
    BY DEF run_terminal_risk_management, Proceed, Fail, hostVars, config, selectionVars
<1>8. QED
    BY <1>1, <1>4, <1>5, <1>6, <1>7 DEF Conducts
-----------------------------------------------------------------------------
(* The GENERATE ACs. *)

\* Whatever the card answers, the exchange recorded is one, and its signature
\* leaves bits and elements of the registers and the store.
LEMMA ExchangeTypes ==
    ASSUME TypeInv, NEW cryptogram \in {"TC", "ARQC", "AAC"}, NEW ac \in Exchange(cryptogram)
    PROVE  /\ Answered(ac) \in GenerateAc
           /\ SignatureTvr(ac) \subseteq TvrBit
           /\ SignatureTsi(ac) \subseteq TsiBit
           /\ SignatureStore(ac) \in [Tag -> Source]
<1>1. store \in [Tag -> Source]
    BY DEF TypeInv, ContextOK
<1>2. ac.asked = cryptogram /\ ac.type \in Cid /\ ac.genuine \in BOOLEAN
    BY Exchanged
<1>3. ac.request \in SignatureRequest
    BY Exchanged DEF signature_request, SignatureRequest
<1>4. SignatureVerified(ac) \in BOOLEAN
    <2>1. CASE ac.request = "Cda"
        BY <1>2, <2>1 DEF SignatureVerified, IsAac, CdaVerified
    <2>2. CASE ac.request = "Xda"
        BY <1>2, <2>2 DEF SignatureVerified, XdaSkipped, IsAac
    <2>3. CASE ac.request = "None"
        BY <2>3 DEF SignatureVerified
    <2>4. QED
        BY <1>3, <2>1, <2>2, <2>3 DEF SignatureRequest
<1>5. Answered(ac) \in GenerateAc
    BY <1>2, <1>3, <1>4 DEF Answered, GenerateAc
<1>6. SignatureTvr(ac) \subseteq {"cda_failed"} \cup XdaFailureBit
    BY DEF SignatureTvr, XdaFailureBit
<1>7. SignatureTvr(ac) \subseteq TvrBit
    BY <1>6, BitsAreTvrBits DEF OdaBit
<1>8. SignatureTsi(ac) \subseteq TsiBit
    BY DEF SignatureTsi, TsiBit
<1>9. SignatureStore(ac) \in [Tag -> Source]
    <2>1. Insert(store, "ICC_DYNAMIC_NUMBER", "terminal") \in [Tag -> Source]
        BY <1>1, StoreInsert, Sources DEF Tag
    <2>2. /\ InsertIfAbsent(store, "APPLICATION_CRYPTOGRAM", "terminal") \in [Tag -> Source]
          /\ InsertIfAbsent(Insert(store, "ICC_DYNAMIC_NUMBER", "terminal"),
                            "APPLICATION_CRYPTOGRAM", "terminal") \in [Tag -> Source]
        BY <1>1, <2>1, StoreInsert, Sources DEF Tag
    <2>3. QED
        BY <1>1, <2>2 DEF SignatureStore
<1>10. QED
    BY <1>5, <1>7, <1>8, <1>9

LEMMA FirstDecision ==
    ASSUME NEW bits, NEW codes, NEW capability
    PROVE  first_generate_ac_decision(bits, codes, capability) \in {"TC", "ARQC", "AAC"}
BY DEF first_generate_ac_decision

LEMMA VerdictTypes ==
    ASSUME NEW ac, NEW bits
    PROVE  FirstVerdict(ac, bits) \in {"GoOnline", "Complete", "Approved", "Declined", "Terminated"}
BY DEF FirstVerdict

LEMMA FirstGenerateAcKeepsTypes == ASSUME TypeInv, first_generate_ac PROVE TypeInv'
<1>1. /\ store \in [Tag -> Source] /\ tvr \subseteq TvrBit /\ tsi \subseteq TsiBit
      /\ asking \in {"TC", "AAC"} /\ first \in GenerateAc \cup {NoAc}
    BY DEF TypeInv, ContextOK, CryptogramsOK
<1>2. TdolBits("CDOL1") \subseteq TvrBit
    BY BitsAreTvrBits DEF TdolBits, CompletionBit
<1>3. UNCHANGED <<call, retries, card, terminal, pin, response, cands, chosen, selected,
                 initiated, eliminated, cda, xda, scripts, second>>
    BY DEF first_generate_ac, hostVars, config, selectionVars
<1>4. SUFFICES /\ pc' \in {"OnlineRequest", "SecondGenerateAc", "Done", "Err"}
               /\ outcome' \in {outcome, "None", "Approved", "Declined", "Terminated"}
               /\ store' \in [Tag -> Source] /\ tvr' \subseteq TvrBit /\ tsi' \subseteq TsiBit
               /\ asking' \in {"TC", "AAC"} /\ first' \in GenerateAc \cup {NoAc}
    BY <1>3 DEF TypeInv, HostOK, SelectionOK, ContextOK, CryptogramsOK, Positioned, Running,
                Returned, HostSteps
<1>5. CASE /\ Fail /\ UNCHANGED <<store, tsi, asking, first>>
           /\ tvr' \in {tvr, tvr \cup TdolBits("CDOL1")}
    BY <1>1, <1>2, <1>5 DEF Fail
<1>6. ASSUME NEW cryptogram \in {"TC", "ARQC", "AAC"}, NEW ac \in Exchange(cryptogram),
             NEW bits, bits = tvr \cup TdolBits("CDOL1") \cup SignatureTvr(ac), tvr' = bits,
             NEW verdict, verdict = FirstVerdict(ac, bits),
             tsi' = tsi \cup SignatureTsi(ac) \cup {"card_risk_management_was_performed"},
             first' = Answered(ac), asking' = "AAC",
             store' = (IF verdict = "Complete"
                       THEN InsertIfAbsent(SignatureStore(ac), "ARC", "OFFLINE_DECLINED")
                       ELSE SignatureStore(ac)),
             CASE verdict = "GoOnline" -> Proceed("OnlineRequest")
               [] verdict = "Complete" -> Proceed("SecondGenerateAc")
               [] OTHER -> Finish(verdict)
      PROVE  /\ pc' \in {"OnlineRequest", "SecondGenerateAc", "Done", "Err"}
             /\ outcome' \in {outcome, "None", "Approved", "Declined", "Terminated"}
             /\ store' \in [Tag -> Source] /\ tvr' \subseteq TvrBit /\ tsi' \subseteq TsiBit
             /\ asking' \in {"TC", "AAC"} /\ first' \in GenerateAc \cup {NoAc}
    <2>1. InsertIfAbsent(SignatureStore(ac), "ARC", "OFFLINE_DECLINED") \in [Tag -> Source]
        BY <1>6, ExchangeTypes, StoreInsert, Sources DEF Tag, KernelArc
    <2>2. store' \in [Tag -> Source] /\ tvr' \subseteq TvrBit /\ tsi' \subseteq TsiBit
        BY <1>1, <1>2, <1>6, <2>1, ExchangeTypes DEF TsiBit
    <2>3. verdict \in {"GoOnline", "Complete", "Approved", "Declined", "Terminated"}
        BY <1>6, VerdictTypes
    <2>4. /\ pc' \in {"OnlineRequest", "SecondGenerateAc", "Done"}
          /\ outcome' \in {outcome, "Approved", "Declined", "Terminated"}
        BY <1>6, <2>3 DEF Proceed, Finish
    <2>5. QED
        BY <1>6, <2>2, <2>4, ExchangeTypes
<1>7. QED
    <2>1. CASE \E ac \in Exchange(first_generate_ac_decision(tvr, Codes, terminal.capability)) :
                LET bits    == tvr \cup TdolBits("CDOL1") \cup SignatureTvr(ac)
                    verdict == FirstVerdict(ac, bits)
                IN  /\ tvr' = bits
                    /\ tsi' = tsi \cup SignatureTsi(ac) \cup {"card_risk_management_was_performed"}
                    /\ first' = Answered(ac)
                    /\ asking' = "AAC"
                    /\ store' = IF verdict = "Complete"
                                THEN InsertIfAbsent(SignatureStore(ac), "ARC", "OFFLINE_DECLINED")
                                ELSE SignatureStore(ac)
                    /\ CASE verdict = "GoOnline" -> Proceed("OnlineRequest")
                         [] verdict = "Complete" -> Proceed("SecondGenerateAc")
                         [] OTHER -> Finish(verdict)
        BY <2>1, <1>6, FirstDecision
    <2>2. CASE /\ Fail /\ UNCHANGED <<store, tsi, asking, first>>
               /\ tvr' \in {tvr, tvr \cup TdolBits("CDOL1")}
        BY <1>5, <2>2
    <2>3. QED
        BY <2>1, <2>2 DEF first_generate_ac

LEMMA SecondGenerateAcKeepsTypes == ASSUME TypeInv, second_generate_ac PROVE TypeInv'
<1>1. /\ store \in [Tag -> Source] /\ tvr \subseteq TvrBit /\ tsi \subseteq TsiBit
      /\ asking \in {"TC", "ARQC", "AAC"} /\ second \in GenerateAc \cup {NoAc}
    BY DEF TypeInv, ContextOK, CryptogramsOK
<1>2. TdolBits("CDOL2") \subseteq TvrBit
    BY BitsAreTvrBits DEF TdolBits, CompletionBit
<1>3. UNCHANGED <<call, retries, card, terminal, pin, response, cands, chosen, selected,
                 initiated, eliminated, cda, xda, scripts, asking, first>>
    BY DEF second_generate_ac, hostVars, config, selectionVars
<1>4. /\ pc' \in {"ScriptsAfter", "Done", "Err"}
      /\ outcome' \in {"None", "Approved", "Declined"}
    BY DEF second_generate_ac, Fail, Completed
<1>5. /\ store' \in [Tag -> Source] /\ tvr' \subseteq TvrBit /\ tsi' \subseteq TsiBit
      /\ second' \in GenerateAc \cup {NoAc}
    <2>1. CASE UNCHANGED <<store, tsi, second>> /\ tvr' \in {tvr, tvr \cup TdolBits("CDOL2")}
        BY <1>1, <1>2, <2>1
    <2>2. ASSUME NEW ac \in Exchange(asking),
                 tvr' = tvr \cup TdolBits("CDOL2") \cup SignatureTvr(ac),
                 tsi' = tsi \cup SignatureTsi(ac),
                 store' = SignatureStore(ac), second' = Answered(ac)
          PROVE  /\ store' \in [Tag -> Source] /\ tvr' \subseteq TvrBit /\ tsi' \subseteq TsiBit
                 /\ second' \in GenerateAc \cup {NoAc}
        BY <1>1, <1>2, <2>2, ExchangeTypes
    <2>3. QED
        BY <2>1, <2>2 DEF second_generate_ac
<1>6. QED
    BY <1>3, <1>4, <1>5 DEF TypeInv, HostOK, SelectionOK, ContextOK, CryptogramsOK, Positioned,
                            Running, Returned, HostSteps
-----------------------------------------------------------------------------
(* Online processing. *)

LEMMA OnlineProcessingKeepsTypes ==
    ASSUME TypeInv, online_card_authentication \/ process_scripts_before \/ process_scripts_after
    PROVE  TypeInv'
<1>1. /\ store \in [Tag -> Source] /\ tvr \subseteq TvrBit /\ tsi \subseteq TsiBit
      /\ scripts \in Seq(Positions \X BOOLEAN)
      /\ outcome \in {"None", "Approved", "Declined", "Terminated"}
    BY DEF TypeInv, ContextOK, CryptogramsOK
<1>2. UNCHANGED <<call, retries, card, terminal, pin, response, cands, chosen, selected,
                 initiated, eliminated, cda, xda, first, second>>
    BY DEF online_card_authentication, process_scripts_before, process_scripts_after, hostVars, config,
           selectionVars
<1>3. SUFFICES /\ pc' \in {"ScriptsBefore", "SecondGenerateAc", "ScriptsAfter", "Done", "Err"}
               /\ pc' = "ScriptsBefore" => response \in HostResponse
               /\ outcome' \in {"None", "Approved", "Declined", "Terminated"}
               /\ store' \in [Tag -> Source] /\ tvr' \subseteq TvrBit /\ tsi' \subseteq TsiBit
               /\ scripts' \in Seq(Positions \X BOOLEAN)
               /\ asking' \in {"TC", "AAC"}
    BY <1>2 DEF TypeInv, HostOK, SelectionOK, ContextOK, CryptogramsOK, Positioned, Running,
                Returned, HostSteps
<1>4. ASSUME NEW position \in Positions, ProcessScripts(position)
      PROVE  /\ scripts' \in Seq(Positions \X BOOLEAN)
             /\ tvr' \subseteq TvrBit /\ tsi' \subseteq TsiBit
    <2>1. ScriptFailureBit(position) \in TvrBit
        BY BitsAreTvrBits DEF ScriptFailureBit, CompletionBit
    <2>2. "script_processing_was_performed" \in TsiBit
        BY DEF TsiBit
    <2>3. \A ok \in BOOLEAN : Append(scripts, <<position, ok>>) \in Seq(Positions \X BOOLEAN)
        BY <1>1
    <2>4. QED
        BY <1>1, <1>4, <2>1, <2>2, <2>3 DEF ProcessScripts
<1>5. CASE online_card_authentication
    <2>1. response \in HostResponse /\ asking \in {"TC", "AAC"}
        BY <1>5 DEF TypeInv, Positioned, CryptogramsOK, online_card_authentication
    <2>2. /\ "issuer_authentication_failed" \in TvrBit
          /\ "issuer_authentication_was_performed" \in TsiBit
        BY BitsAreTvrBits DEF CompletionBit, TsiBit
    <2>3. tvr' \subseteq TvrBit /\ tsi' \subseteq TsiBit
        BY <1>1, <1>5, <2>2 DEF online_card_authentication
    <2>4. QED
        BY <1>1, <1>5, <2>1, <2>3 DEF online_card_authentication, Proceed, Fail
<1>6. CASE process_scripts_before
    <2>1. response \in HostResponse /\ asking \in {"TC", "AAC"}
        BY <1>6 DEF TypeInv, Positioned, CryptogramsOK, process_scripts_before
    <2>2. response.outcome \in {"Approved", "Declined"} /\ response.arc \in Source
        BY <2>1, EnvironmentAssumption, Sources
    <2>3. CASE ScriptsLost("BeforeFinalGenerateAc")
        BY <1>1, <2>1, <2>3 DEF ScriptsLost, Fail
    <2>4. CASE /\ ProcessScripts("BeforeFinalGenerateAc")
               /\ StoreArc(response.arc)
               /\ \/ pc' = "ScriptsAfter" /\ outcome' = response.outcome /\ UNCHANGED asking
                  \/ /\ asking' = second_generate_ac_after_online(response.outcome)
                     /\ Proceed("SecondGenerateAc")
        <3>1. store' \in [Tag -> Source]
            BY <1>1, <2>2, <2>4, StoreInsert DEF StoreArc, Tag
        <3>2. /\ scripts' \in Seq(Positions \X BOOLEAN)
              /\ tvr' \subseteq TvrBit /\ tsi' \subseteq TsiBit
            BY <1>4, <2>4 DEF Positions
        <3>3. QED
            BY <1>1, <2>1, <2>2, <2>4, <3>1, <3>2 DEF Proceed, second_generate_ac_after_online
    <2>5. QED
        BY <1>6, <2>3, <2>4 DEF process_scripts_before
<1>7. CASE process_scripts_after
    <2>1. asking \in {"TC", "AAC"}
        BY DEF TypeInv, CryptogramsOK
    <2>2. CASE ScriptsLost("AfterFinalGenerateAc")
        BY <1>1, <2>1, <2>2 DEF ScriptsLost, Fail
    <2>3. CASE ProcessScripts("AfterFinalGenerateAc") /\ Finish(outcome) /\ UNCHANGED <<store, asking>>
        <3>1. /\ scripts' \in Seq(Positions \X BOOLEAN)
              /\ tvr' \subseteq TvrBit /\ tsi' \subseteq TsiBit
            BY <1>4, <2>3 DEF Positions
        <3>2. QED
            BY <1>1, <2>1, <2>3, <3>1 DEF Finish
    <2>4. QED
        BY <1>7, <2>2, <2>3 DEF process_scripts_after
<1>8. QED
    BY <1>5, <1>6, <1>7
-----------------------------------------------------------------------------
LEMMA TypeInvStep == TypeInv /\ [Next]_vars => TypeInv'
<1> SUFFICES ASSUME TypeInv, [Next]_vars PROVE TypeInv'
    OBVIOUS
<1>1. CASE UNCHANGED vars
    BY <1>1 DEF vars, selectionVars, contextVars, acVars, hostVars, config, TypeInv, HostOK,
                SelectionOK, ContextOK, CryptogramsOK, Positioned
<1>2. QED
    BY <1>1, HostCallsKeepTypes, OnlineCallsKeepTypes, SelectionKeepsTypes, OdaConducts,
       RestrictionsConduct, CvmConducts, RiskManagementConducts, ConductsKeepsTypes,
       FirstGenerateAcKeepsTypes, SecondGenerateAcKeepsTypes, OnlineProcessingKeepsTypes
    DEF Next, HostCall, Kernel, Over

\* Every register, the store, the cryptograms and the host's arguments keep their
\* types: the flow never keeps a bit, an element or a verdict that is none.
THEOREM FlowTypesAlways == Spec => []TypeOK
<1>1. Spec => []TypeInv
    BY TypeInvInit, TypeInvStep, PTL DEF Spec
<1>2. QED
    BY <1>1, TypeInvImplies, PTL
-----------------------------------------------------------------------------
(* The entry points and where their calls may be.  From here on the host may *)
(* call again after errors as often as MaxRetries lets it.                   *)

\* Before the first GENERATE AC, and the entry points that lead there.
PreFirst ==
    {"Idle", "FinalSelection", "SelectApplication", "Select", "Initiate", "ReadData", "Oda",
     "Restrictions", "Cvm", "CardholderVerification", "RiskManagement", "FirstGenerateAc"}

OfflineCalls ==
    {"None", "start", "continue_with_application", "submit_pin", "bypass_pin_entry"}
PinCalls == {"submit_pin", "bypass_pin_entry"}
SelectionCalls == {"start", "continue_with_application"}
OnlineCalls == {"submit_authorisation_response", "submit_unable_to_go_online"}

\* Which entry point may be at which point of the flow; an earlier try has
\* asked for a cryptogram only if the host called again.
CallPoints ==
    /\ pc = "FinalSelection" => call = "start"
    /\ pc \in {"Select", "Initiate", "ReadData", "Oda", "Restrictions"} => call \in SelectionCalls
    /\ pc \in PreFirst => call \in OfflineCalls
    /\ pc # "Idle" => call # "None"
    /\ pc \in {"ExternalAuthenticate", "ScriptsBefore", "ScriptsAfter"} =>
         call = "submit_authorisation_response"
    /\ pc \in PreFirst /\ first # NoAc => retries > 0

LEMMA CallPointsInit == Init => CallPoints
BY DEF Init, CallPoints, PreFirst, OfflineCalls

LEMMA CallPointsStep ==
    ASSUME TypeInv, CallPoints, [Next]_vars
    PROVE  CallPoints'
<1> USE DEF CallPoints, PreFirst, OfflineCalls, SelectionCalls, Proceed, Finish, Fail, NoAc
<1>1. CASE start \/ continue_with_application \/ submit_pin \/ bypass_pin_entry
    BY <1>1 DEF start, continue_with_application, submit_pin, bypass_pin_entry, EnterPin
<1>2. CASE submit_authorisation_response \/ submit_unable_to_go_online
    BY <1>2 DEF submit_authorisation_response, submit_unable_to_go_online, DeclineAfterXda
<1>3. CASE call_again
    <2>1. retries' > 0
        BY <1>3, EnvironmentAssumption DEF call_again, TypeInv, HostOK
    <2>2. QED
        BY <1>3, <2>1 DEF call_again, StepBefore, acVars, TypeInv, HostOK, Calls
<1>4. CASE FinalSelection \/ select_application \/ initiate \/ read_application_data
    BY <1>4 DEF FinalSelection, select_application, initiate, Eliminate, read_application_data, hostVars,
                selectionVars
<1>5. CASE perform_offline_data_authentication
    <2>1. pc' \in {"Restrictions", "Err"}
        BY <1>5 DEF perform_offline_data_authentication, perform_sda, perform_dda, perform_cda_arm,
                    perform_xda_arm, AuthenticateNow, AuthenticateFails
    <2>2. QED
        BY <1>5, <2>1 DEF perform_offline_data_authentication, hostVars
<1>6. CASE process_restrictions
    BY <1>6 DEF process_restrictions
<1>7. CASE run_cardholder_verification
    <2>1. /\ pc = "Cvm" /\ pc' \in {"RiskManagement", "CardholderVerification", "Err"}
          /\ UNCHANGED <<call, retries, first>>
        BY <1>7 DEF run_cardholder_verification, NoCvmPerformed, Conclude, hostVars
    <2>2. QED
        BY <2>1
<1>8. CASE run_terminal_risk_management
    <2>1. /\ pc = "RiskManagement" /\ pc' \in {"FirstGenerateAc", "Err"}
          /\ UNCHANGED <<call, retries, first>>
        BY <1>8 DEF run_terminal_risk_management, hostVars
    <2>2. QED
        BY <2>1
<1>9. CASE first_generate_ac
    <2>1. /\ pc = "FirstGenerateAc" /\ pc' \in {"OnlineRequest", "SecondGenerateAc", "Done", "Err"}
          /\ UNCHANGED <<call, retries>>
        BY <1>9, VerdictTypes DEF first_generate_ac, hostVars
    <2>2. QED
        BY <2>1
<1>10. CASE second_generate_ac \/ online_card_authentication \/ process_scripts_before
              \/ process_scripts_after
    <2>1. /\ pc \in {"SecondGenerateAc", "ExternalAuthenticate", "ScriptsBefore", "ScriptsAfter"}
          /\ pc' \in {"ScriptsAfter", "Done", "Err", "ScriptsBefore", "SecondGenerateAc"}
          /\ pc' = "ScriptsBefore" => pc = "ExternalAuthenticate"
          /\ pc' = "ScriptsAfter" /\ pc # "ScriptsBefore" => call = "submit_authorisation_response"
          /\ UNCHANGED <<call, retries, first>>
        BY <1>10 DEF second_generate_ac, online_card_authentication, process_scripts_before,
                     ScriptsLost, process_scripts_after, hostVars
    <2>2. QED
        BY <2>1
<1>11. CASE UNCHANGED vars
    BY <1>11 DEF vars, hostVars, acVars
<1>12. QED
    BY <1>1, <1>2, <1>3, <1>4, <1>5, <1>6, <1>7, <1>8, <1>9, <1>10, <1>11
    DEF Next, HostCall, Kernel, Over
-----------------------------------------------------------------------------
(* The invariant of the cryptograms.  Each part says what holds at some of   *)
(* the points a call may be.                                                 *)

Negotiating == pc \in {"OnlineRequest", "SecondGenerateAc"} \/ call \in OnlineCalls

\* What the first cryptogram is once the issuer is asked or a second one is:
\* never one whose CDA signature is bad, and a TC only after an XDA failure.
FirstAnswered ==
    /\ pc = "OnlineRequest" \/ call \in OnlineCalls =>
         /\ first.type \in {"TC", "ARQC"}
         /\ first.type = "TC" => first.request = "Xda" /\ XdaFailed(tvr)
         /\ first.request = "Cda" => first.verified
    /\ pc = "SecondGenerateAc" => first.type = "ARQC"
    /\ second # NoAc => first.type = "ARQC" /\ (call \in OnlineCalls \/ pc = "Done")

\* A TC is asked for at last only with the issuer's approval or, the issuer
\* being unreachable, without an XDA failure.
AskedFor ==
    pc = "SecondGenerateAc" /\ asking = "TC" =>
        \/ call = "submit_authorisation_response" /\ response.outcome = "Approved"
        \/ call = "submit_unable_to_go_online" /\ ~XdaFailed(tvr)

\* The outcome found stays justified while the last scripts run, and after.
ApprovalHeld ==
    pc \in {"ScriptsAfter", "Done"} /\ outcome = "Approved" =>
        /\ Last.type = "TC"
        /\ Last.verified \/ response.outcome = "Approved"
        /\ Last.request = "Cda" => Last.genuine

\* XDA failure bits come from an armed XDA and with a first cryptogram, and an
\* arming failure is among them from then on.
XdaFailures ==
    /\ XdaFailed(tvr) => first # NoAc /\ xda # "None"
    /\ Negotiating /\ xda \in {"CaMissing", "RecoveryFailed"} => XdaFailed(tvr)

CryptogramInv == CallPoints /\ FirstAnswered /\ AskedFor /\ ApprovalHeld /\ XdaFailures

LEMMA CryptogramInvInit == Init => CryptogramInv
BY CallPointsInit DEF Init, CryptogramInv, FirstAnswered, AskedFor, ApprovalHeld, XdaFailures,
   Negotiating, OnlineCalls, XdaFailed, NoAc
-----------------------------------------------------------------------------
(* Steps before the first GENERATE AC. *)

\* What those steps have in common.
Early ==
    /\ pc \in PreFirst
    /\ pc' \in PreFirst \cup {"Err", "Done"}
    /\ call' \in OfflineCalls
    /\ pc' = "Done" => outcome' = "Terminated"
    /\ XdaFailed(tvr') => XdaFailed(tvr)
    /\ xda # "None" => xda' # "None"
    /\ UNCHANGED <<first, second, retries>>

LEMMA EarlyKeepsCryptograms ==
    ASSUME CryptogramInv, CallPoints', Early
    PROVE  CryptogramInv'
<1>1. /\ call \in OfflineCalls /\ call' \in OfflineCalls /\ pc # "Done" /\ second = NoAc
      /\ call \notin OnlineCalls /\ call' \notin OnlineCalls
    BY DEF CryptogramInv, CallPoints, FirstAnswered, Early, PreFirst, OfflineCalls, OnlineCalls
<1>2. FirstAnswered' /\ AskedFor' /\ ApprovalHeld'
    BY <1>1 DEF FirstAnswered, AskedFor, ApprovalHeld, Early, PreFirst, NoAc
<1>3. XdaFailures'
    BY <1>1 DEF CryptogramInv, XdaFailures, Negotiating, Early, PreFirst
<1>4. QED
    BY <1>2, <1>3 DEF CryptogramInv

LEMMA SelectionIsEarly ==
    ASSUME CallPoints,
           \/ start \/ continue_with_application \/ submit_pin \/ bypass_pin_entry
           \/ FinalSelection \/ select_application \/ initiate \/ read_application_data
    PROVE  Early
<1>1. pc \in PreFirst => call \in OfflineCalls
    BY DEF CallPoints
<1>2. CASE start
    BY <1>1, <1>2 DEF start, Proceed, Fail, Early, PreFirst, OfflineCalls
<1>3. CASE continue_with_application
    BY <1>1, <1>3 DEF continue_with_application, Proceed, Early, PreFirst, OfflineCalls, contextVars
<1>4. CASE submit_pin \/ bypass_pin_entry
    BY <1>1, <1>4 DEF submit_pin, bypass_pin_entry, EnterPin, Proceed, Early, PreFirst, OfflineCalls,
                      contextVars
<1>5. CASE FinalSelection
    BY <1>1, <1>5 DEF FinalSelection, Finish, Proceed, Early, PreFirst, contextVars, hostVars
<1>6. CASE select_application
    BY <1>1, <1>6 DEF select_application, Eliminate, Finish, Proceed, Fail, Early, PreFirst,
                      contextVars, hostVars
<1>7. CASE initiate
    BY <1>1, <1>7 DEF initiate, Eliminate, Finish, Proceed, Fail, Early, PreFirst,
                      contextVars, hostVars
<1>8. CASE read_application_data
    BY <1>1, <1>8 DEF read_application_data, Proceed, Fail, Early, PreFirst, hostVars
<1>9. QED
    BY <1>2, <1>3, <1>4, <1>5, <1>6, <1>7, <1>8

LEMMA ConductIsEarly ==
    ASSUME CallPoints,
           \/ perform_offline_data_authentication \/ process_restrictions
           \/ run_cardholder_verification \/ run_terminal_risk_management
    PROVE  Early
<1>1. pc \in PreFirst => call \in OfflineCalls
    BY DEF CallPoints
<1>2. \A more : more \subseteq OtherBit => (XdaFailed(tvr \cup more) <=> XdaFailed(tvr))
    BY XdaFailedUnion
<1>3. CASE perform_offline_data_authentication
    <2>1. tvr' \subseteq tvr \cup OdaBit => (XdaFailed(tvr') => XdaFailed(tvr))
        BY <1>2, OtherBits DEF XdaFailed, OtherBit
    <2>2. pc = "Oda" /\ UNCHANGED <<call, retries, first, second>>
        BY <1>3 DEF perform_offline_data_authentication, hostVars
    <2>3. /\ pc' \in {"Restrictions", "Err"}
          /\ tvr' \subseteq tvr \cup OdaBit
          /\ xda # "None" => xda' # "None"
        <3>1. CASE /\ tvr' = tvr \cup {"offline_data_authentication_was_not_performed"}
                   /\ Proceed("Restrictions") /\ xda' = xda
            BY <1>1, <3>1 DEF Proceed, OdaBit
        <3>2. CASE perform_sda
            BY <1>1, <3>2 DEF perform_sda, AuthenticateNow, AuthenticateFails, Proceed, Fail, OdaBit
        <3>3. CASE perform_dda
            BY <1>1, <3>3 DEF perform_dda, AuthenticateNow, AuthenticateFails, Proceed, Fail, OdaBit
        <3>4. CASE perform_cda_arm
            BY <1>1, <3>4 DEF perform_cda_arm, Proceed, OdaBit
        <3>5. CASE perform_xda_arm
            BY <3>5 DEF perform_xda_arm, Proceed, OdaBit, Arming
        <3>6. QED
            BY <1>3, <3>1, <3>2, <3>3, <3>4, <3>5 DEF perform_offline_data_authentication
    <2>4. QED
        BY <1>1, <2>1, <2>2, <2>3 DEF Early, PreFirst
<1>4. CASE process_restrictions
    <2>1. \A found \in RestrictionResult : XdaFailed(tvr \cup found) <=> XdaFailed(tvr)
        BY <1>2, OtherBits, EnvironmentAssumption
    <2>2. QED
        BY <1>1, <1>4, <2>1 DEF process_restrictions, Proceed, Fail, Early, PreFirst
<1>5. CASE run_cardholder_verification
    <2>1. \A list, answers :
             XdaFailed(tvr \cup CvmTvr(list, CvmContext, answers)) <=> XdaFailed(tvr)
        BY <1>2, OtherBits, CvmTvrBits
    <2>2. \/ UNCHANGED tvr
          \/ \E list, answers : tvr' = tvr \cup CvmTvr(list, CvmContext, answers)
        BY <1>5 DEF run_cardholder_verification, NoCvmPerformed, Conclude
    <2>3. /\ pc = "Cvm"
          /\ pc' \in {"RiskManagement", "CardholderVerification", "Err"}
          /\ UNCHANGED <<call, retries, xda, first, second>>
        BY <1>5 DEF run_cardholder_verification, NoCvmPerformed, Conclude, Proceed, Fail, hostVars
    <2>4. QED
        BY <1>1, <2>1, <2>2, <2>3 DEF Early, PreFirst
<1>6. CASE run_terminal_risk_management
    <2>1. \A found \in RiskResult : XdaFailed(tvr \cup found) <=> XdaFailed(tvr)
        BY <1>2, OtherBits, EnvironmentAssumption
    <2>2. /\ pc = "RiskManagement"
          /\ UNCHANGED tvr \/ \E found \in RiskResult : tvr' = tvr \cup found
          /\ pc' \in {"FirstGenerateAc", "Err"}
          /\ UNCHANGED <<call, retries, xda, first, second>>
        BY <1>6 DEF run_terminal_risk_management, Proceed, Fail, hostVars
    <2>3. QED
        BY <1>1, <2>1, <2>2 DEF Early, PreFirst
<1>7. QED
    BY <1>3, <1>4, <1>5, <1>6
-----------------------------------------------------------------------------
(* The first GENERATE AC. *)

\* The XDA failure bits a signature verification adds, by the state of XDA.
LEMMA SignatureBits ==
    ASSUME NEW cryptogram, NEW ac \in Exchange(cryptogram)
    PROVE  /\ ac.request = "Xda" <=> xda # "None"
           /\ XdaFailed(SignatureTvr(ac)) => ac.request = "Xda" /\ xda # "None"
           /\ xda \in {"CaMissing", "RecoveryFailed"} => XdaFailed(SignatureTvr(ac))
           /\ XdaFailed(SignatureTvr(ac)) /\ xda = "Armed" => ~SignatureVerified(ac)
<1>1. ac.request = signature_request(cryptogram)
    BY Exchanged
<1>2. ac.request = "Xda" <=> xda # "None"
    BY <1>1 DEF signature_request
<1>3. XdaFailed(SignatureTvr(ac)) => ac.request = "Xda"
    BY DEF XdaFailed, SignatureTvr, XdaFailureBit
<1>4. xda = "CaMissing" => "ca_ecc_key_missing" \in SignatureTvr(ac)
    BY <1>2 DEF SignatureTvr, XdaSkipped
<1>5. xda = "RecoveryFailed" => "ecc_key_recovery_failed" \in SignatureTvr(ac)
    BY <1>2 DEF SignatureTvr, XdaSkipped
<1>6. XdaFailed(SignatureTvr(ac)) /\ xda = "Armed" => ~XdaSkipped(ac) /\ ~ac.genuine
    BY <1>2, <1>3 DEF XdaFailed, SignatureTvr, XdaFailureBit
<1>7. ac.request = "Xda" /\ ~XdaSkipped(ac) /\ ~ac.genuine => ~SignatureVerified(ac)
    BY DEF SignatureVerified
<1>8. QED
    BY <1>2, <1>3, <1>4, <1>5, <1>6, <1>7 DEF XdaFailed, XdaFailureBit

\* A CDA signature that verified with a TC or an ARQC is genuine, and what the host
\* holds of an answer is what verification found.
LEMMA SignatureFound ==
    ASSUME NEW cryptogram, NEW ac \in Exchange(cryptogram)
    PROVE  /\ Answered(ac).request = ac.request
           /\ Answered(ac).genuine = ac.genuine
           /\ Answered(ac).verified = SignatureVerified(ac)
           /\ ac.request = "Cda" /\ ac.type \in {"TC", "ARQC"} /\ SignatureVerified(ac) => ac.genuine
BY DEF Answered, SignatureVerified, IsAac, CdaVerified

LEMMA TdolBitsOther == ASSUME NEW tag PROVE TdolBits(tag) \subseteq OtherBit
BY OtherBits DEF TdolBits, CompletionBit

LEMMA FirstGenerateAcKeepsCryptograms ==
    ASSUME TypeInv, CryptogramInv, CallPoints', first_generate_ac
    PROVE  CryptogramInv'
<1>1. /\ pc = "FirstGenerateAc" /\ second = NoAc /\ second' = NoAc
      /\ call \in OfflineCalls /\ call \notin OnlineCalls
      /\ UNCHANGED <<call, retries, xda, response>>
      /\ xda \in Arming
    BY DEF CryptogramInv, CallPoints, FirstAnswered, PreFirst, OfflineCalls, OnlineCalls,
           first_generate_ac, hostVars, TypeInv, ContextOK
<1>2. CASE Fail /\ UNCHANGED first /\ tvr' \in {tvr, tvr \cup TdolBits("CDOL1")}
    <2>1. XdaFailed(tvr') <=> XdaFailed(tvr)
        BY <1>2, TdolBitsOther, XdaFailedUnion
    <2>2. QED
        BY <1>1, <1>2, <2>1 DEF Fail, CryptogramInv, FirstAnswered, AskedFor, ApprovalHeld,
                                XdaFailures, Negotiating, NoAc
<1>3. ASSUME NEW cryptogram, NEW ac \in Exchange(cryptogram),
             first' = Answered(ac), asking' = "AAC",
             NEW bits, bits = tvr \cup TdolBits("CDOL1") \cup SignatureTvr(ac), tvr' = bits,
             NEW verdict, verdict = FirstVerdict(ac, bits),
             CASE verdict = "GoOnline" -> Proceed("OnlineRequest")
               [] verdict = "Complete" -> Proceed("SecondGenerateAc")
               [] OTHER -> Finish(verdict)
      PROVE  CryptogramInv'
    <2>1. XdaFailed(bits) <=> XdaFailed(tvr) \/ XdaFailed(SignatureTvr(ac))
        BY <1>3, TdolBitsOther DEF XdaFailed, OtherBit
    <2>2. /\ ac.request = "Xda" <=> xda # "None"
          /\ XdaFailed(bits) => xda # "None"
          /\ xda \in {"CaMissing", "RecoveryFailed"} => XdaFailed(bits)
        BY <1>3, <2>1, SignatureBits DEF CryptogramInv, XdaFailures
    <2>3. /\ first' # NoAc /\ first'.type = ac.type /\ ac.type \in Cid
          /\ first'.request = ac.request /\ first'.genuine = ac.genuine
          /\ first'.verified = SignatureVerified(ac)
          /\ ac.request = "Cda" /\ ac.type \in {"TC", "ARQC"} /\ SignatureVerified(ac) => ac.genuine
        BY <1>3, Exchanged, SignatureFound
    <2>4. \/ verdict = "GoOnline" /\ ac.type = "TC" /\ ac.request = "Xda" /\ XdaFailed(bits)
          \/ verdict = "GoOnline" /\ ac.type = "ARQC" /\ (ac.request = "Cda" => SignatureVerified(ac))
          \/ verdict = "Complete" /\ ac.type = "ARQC"
          \/ verdict = "Approved" /\ ac.type = "TC" /\ SignatureVerified(ac)
          \/ verdict = "Declined"
          \/ verdict = "Terminated"
        BY <1>3 DEF FirstVerdict
    <2>5. /\ pc' \in {"OnlineRequest", "SecondGenerateAc", "Done"}
          /\ pc' = "OnlineRequest" => verdict = "GoOnline"
          /\ pc' = "SecondGenerateAc" => verdict = "Complete"
          /\ pc' = "Done" => outcome' = verdict
        BY <1>3 DEF Proceed, Finish
    <2>6. FirstAnswered'
        BY <1>1, <1>3, <2>3, <2>4, <2>5 DEF FirstAnswered, NoAc
    <2>7. AskedFor'
        BY <1>3 DEF AskedFor
    <2>8. ApprovalHeld'
        <3>1. Last' = first'
            BY <1>1 DEF Last, NoAc
        <3>2. QED
            BY <2>3, <2>4, <2>5, <3>1 DEF ApprovalHeld
    <2>9. XdaFailures'
        BY <1>1, <1>3, <2>2, <2>3 DEF XdaFailures, NoAc
    <2>10. QED
        BY <2>6, <2>7, <2>8, <2>9 DEF CryptogramInv
<1>4. QED
    BY <1>2, <1>3 DEF first_generate_ac
-----------------------------------------------------------------------------
(* The second GENERATE AC. *)

LEMMA SecondGenerateAcKeepsCryptograms ==
    ASSUME TypeInv, CryptogramInv, CallPoints', second_generate_ac
    PROVE  CryptogramInv'
<1>1. /\ pc = "SecondGenerateAc" /\ first.type = "ARQC" /\ xda \in Arming
      /\ UNCHANGED <<call, response, retries, xda, first, asking>>
    BY DEF CryptogramInv, FirstAnswered, second_generate_ac, hostVars, TypeInv, ContextOK
<1>2. first # NoAc /\ (xda \in {"CaMissing", "RecoveryFailed"} => XdaFailed(tvr))
    BY <1>1 DEF NoAc, CryptogramInv, XdaFailures, Negotiating
<1>3. CASE Fail /\ UNCHANGED second /\ tvr' \in {tvr, tvr \cup TdolBits("CDOL2")}
    <2>1. XdaFailed(tvr') <=> XdaFailed(tvr)
        BY <1>3, TdolBitsOther, XdaFailedUnion
    <2>2. QED
        BY <1>1, <1>2, <1>3, <2>1 DEF Fail, CryptogramInv, FirstAnswered, AskedFor, ApprovalHeld,
            XdaFailures, Negotiating, NoAc
<1>4. ASSUME NEW ac \in Exchange(asking),
             tvr' = tvr \cup TdolBits("CDOL2") \cup SignatureTvr(ac),
             second' = Answered(ac), outcome' = Completed(ac),
             pc' = IF call = "submit_authorisation_response" THEN "ScriptsAfter" ELSE "Done"
      PROVE  CryptogramInv'
    <2>1. XdaFailed(tvr') <=> XdaFailed(tvr) \/ XdaFailed(SignatureTvr(ac))
        BY <1>4, TdolBitsOther DEF XdaFailed, OtherBit
    <2>2. /\ second' # NoAc /\ second'.type = ac.type /\ ac.type \in Cid
          /\ second'.request = ac.request /\ second'.genuine = ac.genuine
          /\ second'.verified = SignatureVerified(ac)
          /\ ac.request = "Cda" /\ ac.type \in {"TC", "ARQC"} /\ SignatureVerified(ac) => ac.genuine
        BY <1>4, Exchanged, SignatureFound
    <2>3. FirstAnswered'
        BY <1>1, <1>4, <2>1, <2>2 DEF FirstAnswered, CryptogramInv, OnlineCalls
    <2>4. AskedFor'
        BY <1>4 DEF AskedFor
    <2>5. ApprovalHeld'
        <3>1. Last' = second'
            BY <2>2 DEF Last, NoAc
        <3>2. QED
            BY <1>4, <2>2, <3>1 DEF ApprovalHeld, Completed
    <2>6. XdaFailures'
        BY <1>1, <1>2, <1>4, <2>1, SignatureBits DEF CryptogramInv, XdaFailures, NoAc
    <2>7. QED
        BY <2>3, <2>4, <2>5, <2>6 DEF CryptogramInv
<1>5. QED
    BY <1>3, <1>4 DEF second_generate_ac
-----------------------------------------------------------------------------
(* The issuer's answer, and a host that calls again. *)

LEMMA OnlineCallsKeepCryptograms ==
    ASSUME CryptogramInv, CallPoints', submit_authorisation_response \/ submit_unable_to_go_online
    PROVE  CryptogramInv'
<1>1. /\ pc = "OnlineRequest" /\ UNCHANGED <<first, second, tvr, xda, retries>>
      /\ call' \in OnlineCalls
    BY DEF submit_authorisation_response, submit_unable_to_go_online, contextVars, OnlineCalls
<1>2. FirstAnswered' /\ XdaFailures'
    <2>1. pc' = "SecondGenerateAc" => first.type # "TC"
        BY DEF submit_authorisation_response, submit_unable_to_go_online, DeclineAfterXda, Proceed,
               Finish, Fail, CryptogramInv, FirstAnswered
    <2>2. QED
        BY <1>1, <2>1 DEF CryptogramInv, FirstAnswered, XdaFailures, Negotiating, NoAc
<1>3. \/ pc' \in {"ExternalAuthenticate", "Err"}
      \/ pc' = "Done" /\ outcome' = "Declined"
      \/ /\ pc' = "SecondGenerateAc" /\ call' = "submit_unable_to_go_online"
         /\ asking' = "TC" => ~XdaFailed(tvr)
    BY DEF submit_authorisation_response, submit_unable_to_go_online, DeclineAfterXda, Proceed,
           Finish, Fail
<1>4. AskedFor' /\ ApprovalHeld'
    BY <1>1, <1>3 DEF AskedFor, ApprovalHeld
<1>5. QED
    BY <1>2, <1>4 DEF CryptogramInv

LEMMA CallAgainKeepsCryptograms ==
    ASSUME TypeInv, CryptogramInv, CallPoints', call_again
    PROVE  CryptogramInv'
<1>1. /\ pc = "Err" /\ UNCHANGED <<call, first, second, tvr, xda>>
      /\ call # "None" /\ call \in Calls
      /\ pc' \in {"Idle", "SelectApplication", "CardholderVerification", "OnlineRequest"}
      /\ pc' = "OnlineRequest" => call \in OnlineCalls
    BY DEF call_again, StepBefore, acVars, contextVars, CryptogramInv, CallPoints, TypeInv, HostOK,
           Calls, OnlineCalls
<1>2. QED
    BY <1>1 DEF CryptogramInv, FirstAnswered, AskedFor, ApprovalHeld, XdaFailures, Negotiating, NoAc
-----------------------------------------------------------------------------
(* Online processing. *)

LEMMA OnlineProcessingKeepsCryptograms ==
    ASSUME TypeInv, CryptogramInv, CallPoints',
           online_card_authentication \/ process_scripts_before \/ process_scripts_after
    PROVE  CryptogramInv'
<1>1. /\ UNCHANGED <<call, response, first, second, xda, retries>>
      /\ call = "submit_authorisation_response"
      /\ first.type \in {"TC", "ARQC"}
      /\ first.type = "TC" => first.request = "Xda"
    BY DEF online_card_authentication, process_scripts_before, process_scripts_after, hostVars,
           CryptogramInv, CallPoints, FirstAnswered, OnlineCalls
<1>2. \A more : more \subseteq OtherBit => (XdaFailed(tvr \cup more) <=> XdaFailed(tvr))
    BY XdaFailedUnion
<1>3. ASSUME NEW position, ProcessScripts(position)
      PROVE  XdaFailed(tvr') <=> XdaFailed(tvr)
    <2>1. {ScriptFailureBit(position)} \subseteq OtherBit
        BY OtherBits DEF ScriptFailureBit, CompletionBit
    <2>2. tvr' = tvr \/ tvr' = tvr \cup {ScriptFailureBit(position)}
        BY <1>3 DEF ProcessScripts
    <2>3. QED
        BY <1>2, <2>1, <2>2
<1>4. XdaFailed(tvr') <=> XdaFailed(tvr)
    <2>1. CASE online_card_authentication
        <3>1. tvr' = tvr \/ tvr' = tvr \cup {"issuer_authentication_failed"}
            BY <2>1 DEF online_card_authentication
        <3>2. QED
            BY <1>2, <3>1, OtherBits DEF CompletionBit
    <2>2. CASE process_scripts_before \/ process_scripts_after
        BY <1>3, <2>2 DEF process_scripts_before, process_scripts_after, ScriptsLost
    <2>3. QED
        BY <2>1, <2>2
<1>5. \/ pc' \in {"ScriptsBefore", "Err"}
      \/ pc = "ScriptsBefore" /\ pc' = "ScriptsAfter" /\ first.type = "TC" /\ outcome' = response.outcome
      \/ /\ pc = "ScriptsBefore" /\ pc' = "SecondGenerateAc" /\ first.type = "ARQC"
         /\ asking' = second_generate_ac_after_online(response.outcome)
      \/ pc = "ScriptsAfter" /\ pc' = "Done" /\ outcome' = outcome
    BY <1>1 DEF online_card_authentication, process_scripts_before, process_scripts_after,
                ScriptsLost, Proceed, Fail, Finish
<1>6. FirstAnswered' /\ XdaFailures'
    BY <1>1, <1>4, <1>5 DEF CryptogramInv, FirstAnswered, XdaFailures, Negotiating, OnlineCalls, NoAc
<1>7. AskedFor'
    BY <1>1, <1>5 DEF AskedFor, second_generate_ac_after_online
<1>8. ApprovalHeld'
    <2>1. CASE pc' = "ScriptsAfter"
        <3>1. first.type = "TC" /\ outcome' = response.outcome
            BY <1>5, <2>1
        <3>2. second = NoAc
            BY <3>1 DEF CryptogramInv, FirstAnswered
        <3>3. Last' = first
            BY <1>1, <3>2 DEF Last, NoAc
        <3>4. QED
            BY <1>1, <3>1, <3>3 DEF ApprovalHeld
    <2>2. CASE pc' = "Done"
        <3>1. Last' = Last
            BY <1>1 DEF Last, NoAc
        <3>2. QED
            BY <1>1, <1>5, <2>2, <3>1 DEF CryptogramInv, ApprovalHeld
    <2>3. QED
        BY <2>1, <2>2 DEF ApprovalHeld
<1>9. QED
    BY <1>6, <1>7, <1>8 DEF CryptogramInv
-----------------------------------------------------------------------------
(* The invariant holds, and what follows from it. *)

LEMMA CryptogramInvStep == TypeInv /\ CryptogramInv /\ [Next]_vars => CryptogramInv'
<1> SUFFICES ASSUME TypeInv, CryptogramInv, [Next]_vars PROVE CryptogramInv'
    OBVIOUS
<1>1. CallPoints /\ CallPoints'
    BY CallPointsStep DEF CryptogramInv
<1>2. CASE UNCHANGED vars
    BY <1>1, <1>2 DEF vars, contextVars, acVars, hostVars, CryptogramInv, FirstAnswered, AskedFor,
                ApprovalHeld, Last, XdaFailures, Negotiating, NoAc
<1>3. QED
    BY <1>1, <1>2, SelectionIsEarly, ConductIsEarly, EarlyKeepsCryptograms,
       FirstGenerateAcKeepsCryptograms, SecondGenerateAcKeepsCryptograms, OnlineCallsKeepCryptograms,
       CallAgainKeepsCryptograms, OnlineProcessingKeepsCryptograms
    DEF Next, HostCall, Kernel, Over

\* The types and the invariant of the cryptograms hold throughout.
THEOREM CryptogramInvariant == Spec => [](TypeInv /\ CryptogramInv)
BY TypeInvInit, TypeInvStep, CryptogramInvInit, CryptogramInvStep, PTL DEF Spec

\* Approval rests on the transaction's last cryptogram being a TC, whose signature
\* verified or that the issuer approved, and a CDA signature found good is genuine:
\* for every card, also one that answers above the request, and every host, also
\* one that calls again (first_generate_ac, complete_with_second_generate_ac).
THEOREM ApprovalRestsOnTcAlways == Spec => []ApprovalRestsOnTc
<1>1. CryptogramInv => ApprovalRestsOnTc
    BY DEF CryptogramInv, ApprovalHeld, ApprovalRestsOnTc
<1>2. QED
    BY <1>1, CryptogramInvariant, PTL

\* A cryptogram whose CDA signature is bad is never taken to the issuer, whatever
\* the host calls and the card answers (first_generate_ac).
THEOREM BadCdaStaysOfflineAlways == Spec => []BadCdaStaysOffline
<1>1. CryptogramInv => BadCdaStaysOffline
    BY DEF CryptogramInv, FirstAnswered, OnlineCalls, BadCdaStaysOffline
<1>2. QED
    BY <1>1, CryptogramInvariant, PTL

\* A second cryptogram is asked for only after an ARQC, whatever the card, the
\* terminal, the issuer and the host do (submit_unable_to_go_online).
THEOREM SecondFollowsArqcAlways == Spec => []SecondFollowsArqc
<1>1. CryptogramInv => SecondFollowsArqc
    BY DEF CryptogramInv, FirstAnswered, SecondFollowsArqc
<1>2. QED
    BY <1>1, CryptogramInvariant, PTL
-----------------------------------------------------------------------------
(* After an XDA failure. *)

\* No step concludes with an approval then but the issuer's, or that of a card
\* which answers a TC to the AAC it is asked for.
LEMMA IssuerNeededStep ==
    ASSUME TypeInv, CryptogramInv, CryptogramInv', XdaFailureNeedsIssuer, [Next]_vars
    PROVE  XdaFailureNeedsIssuer'
<1> SUFFICES ASSUME pc' = "Done", outcome' = "Approved", call' # "submit_authorisation_response",
                    XdaFailed(tvr')
             PROVE  second'.asked = "AAC" /\ second'.type = "TC"
    BY DEF XdaFailureNeedsIssuer, CompletedOffline
<1>1. CASE Early
    BY <1>1 DEF Early
<1>2. CASE first_generate_ac
    <2>1. PICK ac \in Exchange(first_generate_ac_decision(tvr, Codes, terminal.capability)) :
              /\ tvr' = tvr \cup TdolBits("CDOL1") \cup SignatureTvr(ac)
              /\ FirstVerdict(ac, tvr \cup TdolBits("CDOL1") \cup SignatureTvr(ac)) = "Approved"
        BY <1>2, VerdictTypes DEF first_generate_ac, Fail, Proceed, Finish
    <2>2. ~(ac.request = "Xda" /\ XdaFailed(tvr'))
        BY <2>1 DEF FirstVerdict
    <2>3. XdaFailed(tvr') => ac.request = "Xda"
        <3>1. XdaFailed(tvr') <=> XdaFailed(tvr) \/ XdaFailed(SignatureTvr(ac))
            BY <2>1, TdolBitsOther DEF XdaFailed, OtherBit
        <3>2. QED
            BY <3>1, SignatureBits DEF CryptogramInv, XdaFailures
    <2>4. QED
        BY <2>2, <2>3
<1>3. CASE second_generate_ac
    <2>1. PICK ac \in Exchange(asking) :
              /\ tvr' = tvr \cup TdolBits("CDOL2") \cup SignatureTvr(ac)
              /\ second' = Answered(ac)
              /\ Completed(ac) = "Approved"
        BY <1>3 DEF second_generate_ac, Fail
    <2>2. /\ ac.type = "TC" /\ SignatureVerified(ac)
          /\ second'.type = "TC" /\ second'.asked = asking /\ asking \in {"TC", "AAC"}
        BY <2>1, Exchanged DEF Completed, TypeInv, CryptogramsOK
    <2>3. SUFFICES ASSUME asking = "TC" PROVE ~XdaFailed(tvr')
        BY <2>2
    <2>4. ~XdaFailed(tvr)
        BY <1>3, <2>3 DEF second_generate_ac, hostVars, CryptogramInv, AskedFor
    <2>5. XdaFailed(SignatureTvr(ac)) => xda \notin {"None", "Armed", "CaMissing", "RecoveryFailed"}
        <3>1. xda \notin {"CaMissing", "RecoveryFailed"}
            BY <1>3, <2>4 DEF second_generate_ac, CryptogramInv, XdaFailures, Negotiating
        <3>2. QED
            BY <2>2, <3>1, SignatureBits
    <2>6. xda \in Arming
        BY DEF TypeInv, ContextOK
    <2>7. QED
        BY <2>1, <2>5, <2>6, <2>4, TdolBitsOther DEF XdaFailed, OtherBit, Arming
<1>4. CASE submit_authorisation_response \/ call_again \/ online_card_authentication
           \/ process_scripts_before \/ process_scripts_after
    BY <1>4 DEF submit_authorisation_response, Proceed, call_again, StepBefore,
                online_card_authentication, Fail, process_scripts_before, process_scripts_after,
                hostVars, CryptogramInv, CallPoints
<1>5. CASE submit_unable_to_go_online
    BY <1>5 DEF submit_unable_to_go_online, DeclineAfterXda, Proceed, Finish, Fail
<1>6. CASE UNCHANGED vars
    BY <1>6 DEF vars, contextVars, acVars, hostVars, XdaFailureNeedsIssuer, CompletedOffline
<1>7. QED
    BY <1>1, <1>2, <1>3, <1>4, <1>5, <1>6, SelectionIsEarly, ConductIsEarly
    DEF Next, HostCall, Kernel, Over, CryptogramInv

\* For every card and however often the host calls again, terminal action analysis
\* never sees an XDA failure, and after one the kernel asks for no approval but the
\* issuer's: without an answer, a card that is approved has answered a TC to the AAC
\* it was asked for (perform_xda_arm, xda_failure_denial_decision).
THEOREM XdaFailureIsHonouredAlways == Spec => []XdaFailureIsHonoured
<1>1. CryptogramInv => XdaBitsDeferred
    BY DEF CryptogramInv, XdaFailures, XdaBitsDeferred
<1>2. Init => XdaFailureNeedsIssuer
    BY DEF Init, XdaFailureNeedsIssuer, CompletedOffline
<1>3. TypeInv /\ CryptogramInv /\ CryptogramInv' /\ XdaFailureNeedsIssuer /\ [Next]_vars
        => XdaFailureNeedsIssuer'
    BY IssuerNeededStep
<1>4. QED
    BY <1>1, <1>2, <1>3, CryptogramInvariant, PTL DEF Spec, XdaFailureIsHonoured
-----------------------------------------------------------------------------
(* What steps do to the store: an element of it is never replaced.           *)

Fills(tags, more, written, sources) ==
    \A t \in Tag : \/ more[t] = tags[t]
                   \/ tags[t] = "absent" /\ t \in written /\ more[t] \in sources

Filled(written, sources) == Fills(store, store', written, sources)

KernelTag == {"UN", "CVM_RESULTS", "ATC", "LAST_ONLINE_ATC", "DAC", "ICC_DYNAMIC_NUMBER",
              "APPLICATION_CRYPTOGRAM"}

LEMMA InsertFills ==
    ASSUME NEW tags \in [Tag -> Source], NEW tag \in Tag, NEW source \in Source
    PROVE  /\ Fills(tags, InsertIfAbsent(tags, tag, source), {tag}, {source})
           /\ ~Present(tags, tag) => Fills(tags, Insert(tags, tag, source), {tag}, {source})
BY DEF Fills, InsertIfAbsent, Insert, Present

LEMMA FillsTwice ==
    ASSUME NEW a, NEW b, NEW c, NEW S, NEW T, NEW U, "absent" \notin U,
           Fills(a, b, S, U), Fills(b, c, T, U)
    PROVE  Fills(a, c, S \cup T, U)
BY DEF Fills

LEMMA FillsMore ==
    ASSUME NEW a, NEW b, NEW S, NEW T, NEW U, NEW V, S \subseteq T, U \subseteq V,
           Fills(a, b, S, U)
    PROVE  Fills(a, b, T, V)
BY DEF Fills

\* What the verification of a signature stores.
LEMMA SignatureFills ==
    ASSUME TypeInv, NEW ac
    PROVE  /\ SignatureStore(ac) \in [Tag -> Source]
           /\ Fills(store, SignatureStore(ac), KernelTag, {"terminal"})
<1> DEFINE one == Insert(store, "ICC_DYNAMIC_NUMBER", "terminal")
<1>1. /\ store \in [Tag -> Source] /\ "terminal" \in Source /\ "terminal" # "absent"
      /\ {"ICC_DYNAMIC_NUMBER", "APPLICATION_CRYPTOGRAM"} \subseteq Tag
    BY Sources DEF TypeInv, ContextOK, Tag
<1>2. /\ one \in [Tag -> Source]
      /\ InsertIfAbsent(one, "APPLICATION_CRYPTOGRAM", "terminal") \in [Tag -> Source]
      /\ InsertIfAbsent(store, "APPLICATION_CRYPTOGRAM", "terminal") \in [Tag -> Source]
    BY <1>1, StoreInsert
<1>3. Fills(one, InsertIfAbsent(one, "APPLICATION_CRYPTOGRAM", "terminal"),
            {"APPLICATION_CRYPTOGRAM"}, {"terminal"})
    BY <1>1, <1>2, InsertFills
<1>4. ~Present(store, "ICC_DYNAMIC_NUMBER") =>
        Fills(store, one, {"ICC_DYNAMIC_NUMBER"}, {"terminal"})
    BY <1>1, InsertFills
<1>5. Fills(store, InsertIfAbsent(store, "APPLICATION_CRYPTOGRAM", "terminal"),
            {"APPLICATION_CRYPTOGRAM"}, {"terminal"})
    BY <1>1, InsertFills
<1>6. /\ {"ICC_DYNAMIC_NUMBER"} \cup {"APPLICATION_CRYPTOGRAM"} \subseteq KernelTag
      /\ {"APPLICATION_CRYPTOGRAM"} \subseteq KernelTag
    BY DEF KernelTag
<1>7. ~Present(store, "ICC_DYNAMIC_NUMBER") =>
        Fills(store, InsertIfAbsent(one, "APPLICATION_CRYPTOGRAM", "terminal"),
              KernelTag, {"terminal"})
    <2>1. SUFFICES ASSUME ~Present(store, "ICC_DYNAMIC_NUMBER")
                   PROVE  Fills(store, InsertIfAbsent(one, "APPLICATION_CRYPTOGRAM", "terminal"),
                                KernelTag, {"terminal"})
        OBVIOUS
    <2>2. Fills(store, InsertIfAbsent(one, "APPLICATION_CRYPTOGRAM", "terminal"),
                {"ICC_DYNAMIC_NUMBER"} \cup {"APPLICATION_CRYPTOGRAM"}, {"terminal"})
        BY <1>1, <1>3, <1>4, <2>1, FillsTwice
    <2>3. QED
        BY <1>6, <2>2, FillsMore
<1>8. Fills(store, InsertIfAbsent(store, "APPLICATION_CRYPTOGRAM", "terminal"),
            KernelTag, {"terminal"})
    BY <1>5, <1>6, FillsMore
<1>9. Fills(store, store, KernelTag, {"terminal"})
    BY DEF Fills
<1>10. QED
    BY <1>1, <1>2, <1>7, <1>8, <1>9 DEF SignatureStore

LEMMA ReadFills ==
    ASSUME TypeInv, read_application_data
    PROVE  Filled(Tag, {initiated})
<1>1. initiated \in App /\ card[initiated] \in Profile
    BY DEF read_application_data, TypeInv, Positioned, HostOK
<1>2. card[initiated].records \subseteq Tag
    BY <1>1, EnvironmentAssumption
<1>3. PICK read \in SUBSET NotYetStored(card[initiated].records) : store' = Load(store, initiated, read)
    BY DEF read_application_data
<1>4. QED
    BY <1>2, <1>3 DEF Filled, Fills, Load, NotYetStored, Present

\* The kernel functions that store what the terminal made or the card answered.
LEMMA KernelFills ==
    ASSUME TypeInv,
           \/ start \/ perform_offline_data_authentication \/ run_cardholder_verification
           \/ run_terminal_risk_management \/ second_generate_ac
    PROVE  Filled(KernelTag, {"terminal"})
<1>1. /\ store \in [Tag -> Source] /\ "terminal" \in Source /\ "terminal" # "absent"
      /\ KernelTag \subseteq Tag
    BY Sources DEF TypeInv, ContextOK, Tag, KernelTag
<1>2. /\ \A t \in KernelTag : Fills(store, InsertIfAbsent(store, t, "terminal"), KernelTag, {"terminal"})
      /\ \A t \in KernelTag : ~Present(store, t)
           => Fills(store, Insert(store, t, "terminal"), KernelTag, {"terminal"})
      /\ Fills(store, store, KernelTag, {"terminal"})
    BY <1>1 DEF Fills, InsertIfAbsent, Insert, Present
<1>3. CASE start
    BY <1>2, <1>3 DEF start, Filled, KernelTag
<1>4. CASE perform_offline_data_authentication
    <2>1. \/ UNCHANGED store
          \/ \E t \in {"DAC", "ICC_DYNAMIC_NUMBER"} :
                ~Present(store, t) /\ store' = Insert(store, t, "terminal")
        BY <1>4 DEF perform_offline_data_authentication, perform_sda, perform_dda, perform_cda_arm,
                    perform_xda_arm, AuthenticateNow, AuthenticateFails
    <2>2. QED
        BY <1>2, <2>1 DEF Filled, KernelTag
<1>5. CASE run_cardholder_verification
    <2>1. \/ UNCHANGED store
          \/ store' = InsertIfAbsent(store, "CVM_RESULTS", "terminal")
          \/ ~Present(store, "CVM_RESULTS") /\ store' = Insert(store, "CVM_RESULTS", "terminal")
        BY <1>5 DEF run_cardholder_verification, NoCvmPerformed, Conclude
    <2>2. QED
        BY <1>2, <2>1 DEF Filled, KernelTag
<1>6. CASE run_terminal_risk_management
    <2>1. ASSUME NEW tags \in [Tag -> Source], NEW t \in KernelTag, NEW answer,
                 ~GetDataFails(tags, t, answer)
          PROVE  /\ GetData(tags, t, answer) \in [Tag -> Source]
                 /\ Fills(tags, GetData(tags, t, answer), KernelTag, {"terminal"})
        <3>1. CASE answer = "value"
            <4>1. ~Present(tags, t)
                BY <2>1, <3>1 DEF GetDataFails
            <4>2. QED
                BY <1>1, <3>1, <4>1 DEF GetData, Insert, Fills, Present
        <3>2. CASE answer # "value"
            BY <3>2 DEF GetData, Fills
        <3>3. QED
            BY <3>1, <3>2
    <2>2. \A tags \in [Tag -> Source] : \A t \in KernelTag, answer \in GetDataAnswer :
            ~GetDataFails(tags, t, answer) =>
                /\ GetData(tags, t, answer) \in [Tag -> Source]
                /\ Fills(tags, GetData(tags, t, answer), KernelTag, {"terminal"})
        BY <2>1
    <2>3. "ATC" \in KernelTag /\ "LAST_ONLINE_ATC" \in KernelTag
        BY DEF KernelTag
    <2>4. PICK atc \in GetDataAnswer, last \in GetDataAnswer :
            \/ UNCHANGED store
            \/ /\ ~GetDataFails(store, "ATC", atc)
               /\ store' = GetData(store, "ATC", atc)
            \/ /\ ~GetDataFails(store, "ATC", atc)
               /\ ~GetDataFails(GetData(store, "ATC", atc), "LAST_ONLINE_ATC", last)
               /\ store' = GetData(GetData(store, "ATC", atc), "LAST_ONLINE_ATC", last)
        BY <1>6 DEF run_terminal_risk_management
    <2>5. ~GetDataFails(store, "ATC", atc) =>
            /\ GetData(store, "ATC", atc) \in [Tag -> Source]
            /\ Fills(store, GetData(store, "ATC", atc), KernelTag, {"terminal"})
        BY <1>1, <2>2, <2>3
    <2>6. CASE UNCHANGED store
        BY <1>2, <2>6 DEF Filled
    <2>7. CASE ~GetDataFails(store, "ATC", atc) /\ store' = GetData(store, "ATC", atc)
        BY <2>5, <2>7 DEF Filled
    <2>8. CASE /\ ~GetDataFails(store, "ATC", atc)
               /\ ~GetDataFails(GetData(store, "ATC", atc), "LAST_ONLINE_ATC", last)
               /\ store' = GetData(GetData(store, "ATC", atc), "LAST_ONLINE_ATC", last)
        <3>1. Fills(GetData(store, "ATC", atc), store', KernelTag, {"terminal"})
            BY <2>2, <2>3, <2>5, <2>8
        <3>2. Fills(store, store', KernelTag \cup KernelTag, {"terminal"})
            BY <1>1, <2>5, <2>8, <3>1, FillsTwice
        <3>3. QED
            BY <3>2 DEF Filled
    <2>9. QED
        BY <2>4, <2>6, <2>7, <2>8
<1>7. CASE second_generate_ac
    BY <1>2, <1>7, SignatureFills DEF second_generate_ac, Filled
<1>8. QED
    BY <1>3, <1>4, <1>5, <1>6, <1>7

\* The steps that may stamp the response code.
LEMMA ArcFills ==
    ASSUME TypeInv, first_generate_ac \/ submit_unable_to_go_online \/ process_scripts_before
    PROVE  Filled(KernelTag \cup {"ARC"}, {"terminal"} \cup KernelArc \cup HostArc)
<1> DEFINE tags == KernelTag \cup {"ARC"}
           sources == {"terminal"} \cup KernelArc \cup HostArc
<1>1. /\ store \in [Tag -> Source] /\ "ARC" \in Tag
      /\ KernelArc \subseteq Source /\ HostArc \subseteq Source
      /\ "absent" \notin sources
    BY AppAssumption DEF TypeInv, ContextOK, Tag, KernelArc, Source
<1>2. \A code \in KernelArc \cup HostArc :
         Fills(store, InsertIfAbsent(store, "ARC", code), tags, sources)
    BY <1>1 DEF Fills, InsertIfAbsent, Insert, Present
<1>3. Fills(store, store, tags, sources)
    BY DEF Fills
<1>4. CASE first_generate_ac
    <2>1. ASSUME NEW ac
          PROVE  /\ Fills(store, SignatureStore(ac), tags, sources)
                 /\ Fills(store, InsertIfAbsent(SignatureStore(ac), "ARC", "OFFLINE_DECLINED"), tags, sources)
        <3>1. /\ SignatureStore(ac) \in [Tag -> Source]
              /\ Fills(store, SignatureStore(ac), tags, sources)
            BY SignatureFills, FillsMore
        <3>2. "OFFLINE_DECLINED" \in KernelArc
            BY DEF KernelArc
        <3>3. Fills(SignatureStore(ac), InsertIfAbsent(SignatureStore(ac), "ARC", "OFFLINE_DECLINED"),
                    tags, sources)
            BY <1>1, <3>1, <3>2 DEF Fills, InsertIfAbsent, Insert, Present
        <3>4. Fills(store, InsertIfAbsent(SignatureStore(ac), "ARC", "OFFLINE_DECLINED"),
                    tags \cup tags, sources)
            BY <1>1, <3>1, <3>3, FillsTwice
        <3>5. QED
            BY <3>1, <3>4
    <2>2. QED
        BY <1>3, <1>4, <2>1 DEF first_generate_ac, Filled
<1>5. CASE submit_unable_to_go_online
    BY <1>2, <1>3, <1>5 DEF submit_unable_to_go_online, StoreArc, KernelArc, Filled
<1>6. CASE process_scripts_before
    <2>1. response \in HostResponse
        BY <1>6 DEF process_scripts_before, TypeInv, Positioned
    <2>2. response.arc \in HostArc
        BY <2>1 DEF HostArc
    <2>3. QED
        BY <1>2, <1>3, <1>6, <2>2 DEF process_scripts_before, ScriptsLost, StoreArc, Filled
<1>7. QED
    BY <1>4, <1>5, <1>6

\* The others leave the store as it is.
LEMMA StoreKept ==
    ASSUME \/ continue_with_application \/ submit_pin \/ bypass_pin_entry
           \/ submit_authorisation_response \/ call_again \/ FinalSelection \/ select_application
           \/ initiate \/ process_restrictions \/ online_card_authentication
           \/ process_scripts_after \/ UNCHANGED vars
    PROVE  store' = store
BY DEF continue_with_application, submit_pin, bypass_pin_entry, EnterPin,
       submit_authorisation_response, call_again, FinalSelection, select_application, initiate,
       process_restrictions, online_card_authentication, process_scripts_after, ScriptsLost, vars,
       contextVars

\* An element once stored stays what it is until the transaction is over, also
\* through calls made again (TagStore::insert_primitive).
StoreIsWriteOnce == [][\A t \in Tag : Present(store, t) => store'[t] = store[t]]_vars

LEMMA WriteOnceStep ==
    ASSUME TypeInv, [Next]_vars
    PROVE  \A t \in Tag : Present(store, t) => store'[t] = store[t]
<1>1. \A written, sources : Filled(written, sources) =>
        \A t \in Tag : Present(store, t) => store'[t] = store[t]
    BY DEF Filled, Fills, Present
<1>2. QED
    BY <1>1, ReadFills, KernelFills, ArcFills, StoreKept DEF Next, HostCall, Kernel, Over

THEOREM StoreIsWriteOnceAlways == Spec => StoreIsWriteOnce
<1>1. TypeInv /\ [Next]_vars => [\A t \in Tag : Present(store, t) => store'[t] = store[t]]_vars
    BY WriteOnceStep
<1>2. QED
    BY <1>1, CryptogramInvariant, PTL DEF Spec, StoreIsWriteOnce
-----------------------------------------------------------------------------
(* The first cryptogram is asked for once. *)

\* What the store holds once a cryptogram was asked for, and that a PIN is
\* submitted only to an application that verifies cardholders.
AskedWith ==
    /\ pc \in {"RiskManagement", "FirstGenerateAc"} => Present(store, "CVM_RESULTS")
    /\ first # NoAc => Present(store, "CDOL1") /\ Present(store, "CVM_RESULTS")
    /\ pc = "CardholderVerification" \/ call \in PinCalls => "CV" \in Aip

\* A call made again does not get past the reading of the application, nor past
\* its list of CVMs, once a cryptogram was asked for.
NoWayBack ==
    /\ pc \in {"Oda", "Restrictions", "RiskManagement", "FirstGenerateAc"} => first = NoAc
    /\ pc = "Cvm" /\ first # NoAc => call \in PinCalls

\* Every application has a CDOL1 among its records, which the specifications make
\* mandatory; a host that never calls again needs no such card.
CardsHaveCdol1 == MaxRetries = 0 \/ \A p \in Profile : "CDOL1" \in p.records

LEMMA PresenceKept ==
    ASSUME TypeInv, [Next]_vars, NEW t \in Tag, Present(store, t)
    PROVE  Present(store', t)
BY WriteOnceStep DEF Present

\* Only the first GENERATE AC changes the first cryptogram.
LEMMA OnlyFirstChangesFirst ==
    ASSUME CallPoints, [Next]_vars
    PROVE  first_generate_ac \/ first' = first
<1>1. CASE Early
    BY <1>1 DEF Early
<1>2. CASE \/ submit_authorisation_response \/ submit_unable_to_go_online \/ call_again
           \/ second_generate_ac \/ online_card_authentication
           \/ process_scripts_before \/ process_scripts_after \/ UNCHANGED vars
    BY <1>2 DEF submit_authorisation_response, submit_unable_to_go_online, call_again,
       second_generate_ac, online_card_authentication, process_scripts_before,
       process_scripts_after, vars, acVars
<1>3. QED
    BY <1>1, <1>2, SelectionIsEarly, ConductIsEarly DEF Next, HostCall, Kernel, Over

LEMMA AskedWithStep ==
    ASSUME TypeInv, CallPoints, CallPoints', AskedWith, [Next]_vars
    PROVE  AskedWith'
<1>1. /\ Present(store, "CVM_RESULTS") => Present(store', "CVM_RESULTS")
      /\ Present(store, "CDOL1") => Present(store', "CDOL1")
    BY PresenceKept DEF Tag
<1>2. ASSUME pc' \in {"RiskManagement", "FirstGenerateAc"} PROVE Present(store', "CVM_RESULTS")
    <2>1. CASE run_cardholder_verification
        <3>1. store \in [Tag -> Source] /\ "CVM_RESULTS" \in Tag
            BY DEF TypeInv, ContextOK, Tag
        <3>2. \/ store' = InsertIfAbsent(store, "CVM_RESULTS", "terminal")
              \/ store' = Insert(store, "CVM_RESULTS", "terminal")
            BY <1>2, <2>1 DEF run_cardholder_verification, NoCvmPerformed, Conclude, Fail, Proceed
        <3>3. QED
            BY <3>1, <3>2 DEF InsertIfAbsent, Insert, Present
    <2>2. CASE run_terminal_risk_management
        <3>1. pc = "RiskManagement"
            BY <2>2 DEF run_terminal_risk_management
        <3>2. QED
            BY <1>1, <3>1 DEF AskedWith
    <2>3. CASE UNCHANGED vars
        BY <1>1, <1>2, <2>3 DEF AskedWith, vars
    <2>4. CASE ~run_cardholder_verification /\ ~run_terminal_risk_management /\ Next
        <3>1. CASE HostCall \/ call_again
            BY <1>2, <3>1 DEF HostCall, start, continue_with_application, submit_pin, bypass_pin_entry,
               EnterPin, submit_authorisation_response, submit_unable_to_go_online, DeclineAfterXda,
               call_again, StepBefore, Proceed, Fail, Finish
        <3>2. CASE FinalSelection \/ select_application \/ initiate \/ read_application_data
                     \/ process_restrictions
            BY <1>2, <3>2 DEF FinalSelection, select_application, initiate, read_application_data,
               process_restrictions, Eliminate, Proceed, Fail, Finish
        <3>3. CASE perform_offline_data_authentication
            BY <1>2, <3>3 DEF perform_offline_data_authentication, perform_sda, perform_dda,
               perform_cda_arm, perform_xda_arm, AuthenticateNow, AuthenticateFails, Proceed, Fail
        <3>4. CASE first_generate_ac
            BY <1>2, <3>4, VerdictTypes DEF first_generate_ac, Proceed, Fail, Finish
        <3>5. CASE second_generate_ac \/ online_card_authentication \/ process_scripts_before
                     \/ process_scripts_after
            BY <1>2, <3>5 DEF second_generate_ac, online_card_authentication, process_scripts_before,
               process_scripts_after, ScriptsLost, Proceed, Fail, Finish
        <3>6. CASE Over
            BY <1>1, <1>2, <3>6 DEF Over, vars, AskedWith
        <3>7. QED
            BY <2>4, <3>1, <3>2, <3>3, <3>4, <3>5, <3>6 DEF Next, Kernel
    <2>5. QED
        BY <2>1, <2>2, <2>3, <2>4
<1>3. first' # NoAc => Present(store', "CDOL1") /\ Present(store', "CVM_RESULTS")
    <2>1. CASE first' = first
        BY <1>1, <2>1 DEF AskedWith
    <2>2. CASE first_generate_ac
        <3>1. first' # first => DolUsable("CDOL1")
            BY <2>2 DEF first_generate_ac
        <3>2. pc = "FirstGenerateAc"
            BY <2>2 DEF first_generate_ac
        <3>3. QED
            BY <1>1, <2>1, <3>1, <3>2 DEF AskedWith, DolUsable
    <2>3. first_generate_ac \/ first' = first
        BY OnlyFirstChangesFirst
    <2>4. QED
        BY <2>1, <2>2, <2>3
<1>4. (pc' = "CardholderVerification" \/ call' \in PinCalls) => "CV" \in Aip'
    <2>1. card' = card
        BY DEF Next, HostCall, Kernel, Over, start, continue_with_application, submit_pin,
           bypass_pin_entry, EnterPin, submit_authorisation_response, submit_unable_to_go_online,
           call_again, FinalSelection, select_application, initiate, read_application_data,
           perform_offline_data_authentication, process_restrictions, run_cardholder_verification,
           run_terminal_risk_management, first_generate_ac, second_generate_ac,
           online_card_authentication, process_scripts_before, process_scripts_after, vars, hostVars,
           config
    <2>2. CASE initiate
        BY <2>2 DEF initiate, Proceed, Fail, Eliminate, Finish, hostVars, CallPoints, SelectionCalls,
                    PinCalls
    <2>3. CASE initiated' = initiated /\ (call' \in PinCalls => call \in PinCalls)
               /\ (pc' = "CardholderVerification" => pc = "CardholderVerification" \/ call \in PinCalls)
        BY <2>1, <2>3 DEF AskedWith, Aip
    <2>4. CASE submit_pin \/ bypass_pin_entry
        <3>1. pc = "CardholderVerification" /\ initiated' = initiated
            BY <2>4 DEF submit_pin, bypass_pin_entry, EnterPin, selectionVars
        <3>2. QED
            BY <2>1, <3>1 DEF AskedWith, Aip
    <2>5. CASE run_cardholder_verification
        <3>1. initiated' = initiated /\ call' = call
            BY <2>5 DEF run_cardholder_verification, selectionVars, hostVars
        <3>2. pc' = "CardholderVerification" => "CV" \in Aip
            BY <2>5 DEF run_cardholder_verification, NoCvmPerformed, Proceed
        <3>3. QED
            BY <2>1, <3>1, <3>2 DEF AskedWith, Aip
    <2>6. CASE call_again
        <3>1. pc' = "CardholderVerification" => call \in PinCalls
            BY <2>6 DEF call_again, StepBefore, PinCalls
        <3>2. QED
            BY <2>3, <2>6, <3>1 DEF call_again, selectionVars
    <2>7. CASE start \/ continue_with_application
        BY <2>7 DEF start, continue_with_application, Proceed, Fail, PinCalls
    <2>8. CASE submit_authorisation_response \/ submit_unable_to_go_online
        BY <2>8 DEF submit_authorisation_response, submit_unable_to_go_online, DeclineAfterXda, Proceed,
                    Finish, Fail, PinCalls
    <2>9. CASE \/ FinalSelection \/ select_application \/ read_application_data
               \/ process_restrictions \/ run_terminal_risk_management
        BY <2>3, <2>9 DEF FinalSelection, select_application, Eliminate, read_application_data,
           process_restrictions, run_terminal_risk_management, Proceed, Fail, Finish, hostVars,
           selectionVars
    <2>10. CASE perform_offline_data_authentication
        <3>1. pc' \in {"Restrictions", "Err"}
            BY <2>10 DEF perform_offline_data_authentication, perform_sda, perform_dda,
               perform_cda_arm, perform_xda_arm, AuthenticateNow, AuthenticateFails, Proceed, Fail
        <3>2. QED
            BY <2>3, <2>10, <3>1 DEF perform_offline_data_authentication, hostVars, selectionVars
    <2>11. CASE first_generate_ac
        <3>1. pc' # "CardholderVerification"
            BY <2>11, VerdictTypes DEF first_generate_ac, Proceed, Fail, Finish
        <3>2. QED
            BY <2>3, <2>11, <3>1 DEF first_generate_ac, hostVars, selectionVars
    <2>12. CASE second_generate_ac \/ online_card_authentication \/ process_scripts_before
                 \/ process_scripts_after
        BY <2>3, <2>12 DEF second_generate_ac, online_card_authentication, process_scripts_before,
           process_scripts_after, ScriptsLost, Proceed, Fail, Finish, hostVars, selectionVars
    <2>13. CASE UNCHANGED vars
        BY <2>3, <2>13 DEF vars, hostVars, selectionVars
    <2>14. QED
        BY <2>2, <2>4, <2>5, <2>6, <2>7, <2>8, <2>9, <2>10, <2>11, <2>12, <2>13
        DEF Next, HostCall, Kernel, Over
<1>5. QED
    BY <1>2, <1>3, <1>4 DEF AskedWith

LEMMA NoWayBackStep ==
    ASSUME CardsHaveCdol1, TypeInv, TypeInv', CallPoints, CallPoints', AskedWith, AskedWith', NoWayBack,
           [Next]_vars
    PROVE  NoWayBack'
<1> USE DEF NoWayBack
<1>1. CASE first_generate_ac
    BY <1>1, VerdictTypes DEF first_generate_ac, Proceed, Finish, Fail
<1>2. CASE read_application_data
    <2>1. first # NoAc => pc' = "Err"
        <3>1. SUFFICES ASSUME first # NoAc, pc' # "Err" PROVE FALSE
            OBVIOUS
        <3>2. retries > 0 /\ retries \in 0..MaxRetries
            BY <1>2, <3>1 DEF read_application_data, CallPoints, PreFirst, TypeInv, HostOK
        <3>3. initiated \in App /\ card[initiated] \in Profile
            BY <1>2 DEF read_application_data, TypeInv, Positioned, HostOK
        <3>4. "CDOL1" \in card[initiated].records
            BY <3>2, <3>3, EnvironmentAssumption DEF CardsHaveCdol1
        <3>5. NotYetStored(card[initiated].records) = card[initiated].records
            BY <1>2, <3>1 DEF read_application_data, Fail
        <3>6. ~Present(store, "CDOL1")
            BY <3>4, <3>5 DEF NotYetStored
        <3>7. QED
            BY <3>1, <3>6 DEF AskedWith
    <2>2. pc' \in {"Oda", "Err"} /\ first' = first
        BY <1>2 DEF read_application_data, Proceed, Fail
    <2>3. QED
        BY <2>1, <2>2 DEF NoAc
<1>3. CASE run_cardholder_verification
    <2>1. first # NoAc => pc' = "Err"
        <3>1. SUFFICES ASSUME first # NoAc PROVE pc' = "Err"
            OBVIOUS
        <3>2. "CV" \in Aip /\ Present(store, "CVM_RESULTS")
            BY <1>3, <3>1 DEF run_cardholder_verification, AskedWith
        <3>3. QED
            BY <1>3, <3>2 DEF run_cardholder_verification, Conclude, Fail
    <2>2. /\ pc' \in {"RiskManagement", "CardholderVerification", "Err"} /\ first' = first
        BY <1>3 DEF run_cardholder_verification, NoCvmPerformed, Conclude, Proceed, Fail
    <2>3. QED
        BY <2>1, <2>2 DEF NoAc
<1>4. CASE submit_pin \/ bypass_pin_entry
    BY <1>4 DEF submit_pin, bypass_pin_entry, EnterPin, Proceed, PinCalls
<1>5. CASE start \/ continue_with_application \/ FinalSelection \/ select_application \/ initiate
    BY <1>5 DEF start, continue_with_application, FinalSelection, select_application, initiate,
                Eliminate, Proceed, Fail, Finish
<1>6. CASE perform_offline_data_authentication
    <2>1. pc = "Oda" /\ pc' \in {"Restrictions", "Err"} /\ first' = first
        BY <1>6 DEF perform_offline_data_authentication, perform_sda, perform_dda,
           perform_cda_arm, perform_xda_arm, AuthenticateNow, AuthenticateFails, Proceed, Fail
    <2>2. QED
        BY <2>1 DEF NoAc
<1>7. CASE process_restrictions
    BY <1>7 DEF process_restrictions, Proceed, Fail, NoAc
<1>8. CASE run_terminal_risk_management
    <2>1. pc = "RiskManagement" /\ pc' \in {"FirstGenerateAc", "Err"} /\ first' = first
        BY <1>8 DEF run_terminal_risk_management, Proceed, Fail
    <2>2. QED
        BY <2>1 DEF NoAc
<1>9. CASE submit_authorisation_response \/ submit_unable_to_go_online \/ call_again
    BY <1>9 DEF submit_authorisation_response, submit_unable_to_go_online, DeclineAfterXda,
                call_again, StepBefore, Proceed, Fail, Finish
<1>10. CASE second_generate_ac \/ online_card_authentication \/ process_scripts_before
              \/ process_scripts_after
    BY <1>10 DEF second_generate_ac, online_card_authentication, process_scripts_before,
                 process_scripts_after, ScriptsLost, Proceed, Fail, Finish
<1>11. CASE UNCHANGED vars
    BY <1>11 DEF vars, hostVars, acVars, NoAc
<1>12. QED
    BY <1>1, <1>2, <1>3, <1>4, <1>5, <1>6, <1>7, <1>8, <1>9, <1>10, <1>11
    DEF Next, HostCall, Kernel, Over

\* The first cryptogram is asked for once, even by a host that calls again after
\* errors: reading the application again fails on what the store holds, and so
\* does running its CVM List again (TagStore::insert_primitive).
THEOREM FirstAcOnceAlways ==
    ASSUME CardsHaveCdol1
    PROVE  Spec => FirstAcOnce
<1>1. Init => AskedWith /\ NoWayBack
    BY DEF Init, AskedWith, NoWayBack, PinCalls, NoAc
<1>2. TypeInv /\ TypeInv' /\ CryptogramInv /\ CryptogramInv' /\ AskedWith /\ NoWayBack /\ [Next]_vars
        => AskedWith' /\ NoWayBack'
    BY AskedWithStep, NoWayBackStep DEF CryptogramInv
<1>3. CryptogramInv /\ NoWayBack /\ [Next]_vars => [first # NoAc => first' = first]_vars
    <2>1. first_generate_ac => pc = "FirstGenerateAc"
        BY DEF first_generate_ac
    <2>2. QED
        BY <2>1, OnlyFirstChangesFirst DEF NoWayBack, CryptogramInv
<1>4. QED
    BY <1>1, <1>2, <1>3, CryptogramInvariant, PTL DEF Spec, FirstAcOnce
-----------------------------------------------------------------------------
(* The flow implements AcProtocol: each step is a step of it or a stutter.  *)

\* What the second GENERATE AC asks for is what the issuer's word allows.
Requested == pc = "SecondGenerateAc" => asking \in Protocol!Requests(Issuer)

\* The outcome found is justified while the last scripts run, and after.
Settled ==
    pc \in {"ScriptsAfter", "Done"} =>
        Protocol!Justified(outcome, first.type, second.type, Issuer)

AcInv == TypeInv /\ CryptogramInv /\ AskedWith /\ NoWayBack /\ Requested /\ Settled

\* Before the first GENERATE AC no issuer has been asked, and right before it
\* there is no cryptogram.
LEMMA NoCryptogramYet ==
    ASSUME AcInv, pc \in PreFirst
    PROVE  /\ second = NoAc /\ second.type = "None"
           /\ call \in OfflineCalls /\ Issuer = "Silent"
           /\ pc = "FirstGenerateAc" => first = NoAc /\ first.type = "None"
<1>1. call \in OfflineCalls /\ call \notin OnlineCalls /\ pc # "Done"
    BY DEF AcInv, CryptogramInv, CallPoints, PreFirst, OfflineCalls, OnlineCalls
<1>2. second = NoAc
    BY <1>1 DEF AcInv, CryptogramInv, FirstAnswered
<1>3. pc = "FirstGenerateAc" => first = NoAc
    BY DEF AcInv, NoWayBack
<1>4. QED
    BY <1>1, <1>2, <1>3 DEF NoAc, Issuer, OfflineCalls

LEMMA RequestedStep ==
    ASSUME AcInv, TypeInv', [Next]_vars
    PROVE  Requested'
<1>1. CASE Early
    BY <1>1 DEF Early, Requested, PreFirst
<1>2. CASE first_generate_ac
    <2>1. Issuer' = "Silent"
        BY <1>2, NoCryptogramYet DEF first_generate_ac, PreFirst, hostVars, Issuer, OfflineCalls
    <2>2. pc' = "SecondGenerateAc" => asking' = "AAC"
        BY <1>2 DEF first_generate_ac, Fail
    <2>3. QED
        BY <2>1, <2>2 DEF Requested, Protocol!Requests
<1>3. CASE submit_authorisation_response
    BY <1>3 DEF submit_authorisation_response, Proceed, Requested
<1>4. CASE submit_unable_to_go_online
    <2>1. Issuer' = "Unreachable"
        BY <1>4 DEF submit_unable_to_go_online, Issuer
    <2>2. asking' \in {"TC", "AAC"}
        BY DEF TypeInv, CryptogramsOK
    <2>3. QED
        BY <2>1, <2>2 DEF Requested, Protocol!Requests
<1>5. CASE second_generate_ac
    BY <1>5 DEF second_generate_ac, Fail, Requested
<1>6. CASE online_card_authentication \/ process_scripts_after
    BY <1>6 DEF online_card_authentication, process_scripts_after, ScriptsLost, Proceed, Fail,
                Finish, Requested
<1>7. CASE process_scripts_before
    <2>1. /\ pc = "ScriptsBefore" /\ response \in HostResponse
          /\ call = "submit_authorisation_response" /\ UNCHANGED <<call, response>>
        BY <1>7 DEF process_scripts_before, hostVars, AcInv, CryptogramInv, CallPoints, TypeInv,
                    Positioned
    <2>2. Issuer' = response.outcome /\ response.outcome \in {"Approved", "Declined"}
        BY <2>1, EnvironmentAssumption DEF Issuer
    <2>3. pc' = "SecondGenerateAc" => asking' = second_generate_ac_after_online(response.outcome)
        BY <1>7 DEF process_scripts_before, ScriptsLost, Fail
    <2>4. QED
        BY <2>2, <2>3 DEF Requested, Protocol!Requests, second_generate_ac_after_online
<1>8. CASE call_again
    BY <1>8 DEF call_again, StepBefore, Requested
<1>9. CASE UNCHANGED vars
    BY <1>9 DEF vars, acVars, hostVars, AcInv, Requested, Issuer
<1>10. QED
    BY <1>1, <1>2, <1>3, <1>4, <1>5, <1>6, <1>7, <1>8, <1>9, SelectionIsEarly, ConductIsEarly
    DEF Next, HostCall, Kernel, Over, AcInv, CryptogramInv

\* What the first and the second answer allow the flow to conclude.
LEMMA SettledStep ==
    ASSUME AcInv, TypeInv', [Next]_vars
    PROVE  Settled'
<1>1. CASE Early
    <2>1. second'.type = "None" /\ Issuer' = "Silent" /\ first' = first
        BY <1>1, NoCryptogramYet DEF Early, Issuer, OfflineCalls
    <2>2. first.type = "None" \/ retries' > 0
        BY <1>1 DEF Early, AcInv, CryptogramInv, CallPoints, NoAc
    <2>3. QED
        BY <1>1, <2>1, <2>2 DEF Early, PreFirst, Settled, Protocol!Justified
<1>2. CASE first_generate_ac
    <2>1. second'.type = "None" /\ Issuer' = "Silent"
        BY <1>2, NoCryptogramYet DEF first_generate_ac, PreFirst, hostVars, Issuer, OfflineCalls
    <2>2. CASE Fail
        BY <2>2 DEF Fail, Settled
    <2>3. ASSUME NEW cryptogram, NEW ac \in Exchange(cryptogram), NEW bits, NEW verdict,
                 first' = Answered(ac), verdict = FirstVerdict(ac, bits),
                 CASE verdict = "GoOnline" -> Proceed("OnlineRequest")
                   [] verdict = "Complete" -> Proceed("SecondGenerateAc")
                   [] OTHER -> Finish(verdict)
          PROVE  Settled'
        <3>1. first'.type = ac.type /\ ac.type \in Cid
            BY <2>3, Exchanged
        <3>2. \/ verdict \in {"GoOnline", "Complete", "Declined"}
              \/ verdict = "Approved" /\ ac.type = "TC"
              \/ verdict = "Terminated" /\ ac.type \notin {"TC", "ARQC", "AAC"}
            BY <2>3 DEF FirstVerdict
        <3>3. pc' \in {"ScriptsAfter", "Done"} =>
                outcome' = verdict /\ verdict \notin {"GoOnline", "Complete"}
            BY <2>3 DEF Proceed, Finish
        <3>4. QED
            BY <2>1, <3>1, <3>2, <3>3 DEF Settled, Protocol!Justified, Cid
    <2>4. QED
        BY <1>2, <2>2, <2>3 DEF first_generate_ac
<1>3. CASE submit_authorisation_response \/ submit_unable_to_go_online
    <2>1. pc' = "Done" => outcome' = "Declined"
        BY <1>3 DEF submit_authorisation_response, submit_unable_to_go_online, DeclineAfterXda,
                    Proceed, Finish, Fail
    <2>2. pc' # "ScriptsAfter" /\ first' = first /\ first.type # "None"
        BY <1>3 DEF submit_authorisation_response, submit_unable_to_go_online, DeclineAfterXda,
                    Proceed, Finish, Fail, AcInv, CryptogramInv, FirstAnswered
    <2>3. QED
        BY <2>1, <2>2 DEF Settled, Protocol!Justified
<1>4. CASE second_generate_ac
    <2>1. first' = first /\ first.type = "ARQC"
        BY <1>4 DEF second_generate_ac, AcInv, CryptogramInv, FirstAnswered
    <2>2. CASE Fail
        BY <2>2 DEF Fail, Settled
    <2>3. ASSUME NEW ac \in Exchange(asking), second' = Answered(ac), outcome' = Completed(ac)
          PROVE  Settled'
        <3>1. second'.type = ac.type
            BY <2>3, Exchanged
        <3>2. (outcome' = "Approved" /\ ac.type = "TC") \/ outcome' = "Declined"
            BY <2>3 DEF Completed
        <3>3. QED
            BY <2>1, <3>1, <3>2 DEF Settled, Protocol!Justified
    <2>4. QED
        BY <1>4, <2>2, <2>3 DEF second_generate_ac
<1>5. CASE online_card_authentication \/ process_scripts_before \/ process_scripts_after
    <2>1. /\ UNCHANGED <<first, second, call, response, retries>> /\ Issuer' = Issuer
          /\ call = "submit_authorisation_response"
        BY <1>5 DEF online_card_authentication, process_scripts_before, process_scripts_after,
                    hostVars, Issuer, AcInv, CryptogramInv, CallPoints
    <2>2. CASE pc = "ScriptsAfter" /\ pc' = "Done" /\ outcome' = outcome
        BY <2>1, <2>2 DEF AcInv, Settled, Protocol!Justified
    <2>3. CASE pc = "ScriptsBefore" /\ pc' = "ScriptsAfter" /\ outcome' = response.outcome
                 /\ first.type = "TC"
        <3>1. second.type = "None" /\ Issuer = response.outcome /\ response \in HostResponse
            BY <2>1, <2>3 DEF AcInv, CryptogramInv, FirstAnswered, NoAc, Issuer, TypeInv, Positioned
        <3>2. Issuer \in {"Approved", "Declined"}
            BY <3>1, EnvironmentAssumption
        <3>3. QED
            BY <2>1, <2>3, <3>1, <3>2 DEF Settled, Protocol!Justified
    <2>4. CASE pc' \notin {"ScriptsAfter", "Done"}
        BY <2>4 DEF Settled
    <2>5. QED
        BY <1>5, <2>2, <2>3, <2>4 DEF online_card_authentication, process_scripts_before,
           process_scripts_after, ScriptsLost, Proceed, Fail, Finish
<1>6. CASE call_again
    BY <1>6 DEF call_again, StepBefore, Settled
<1>7. CASE UNCHANGED vars
    BY <1>7 DEF vars, acVars, hostVars, AcInv, Settled, Issuer, Protocol!Justified
<1>8. QED
    BY <1>1, <1>2, <1>3, <1>4, <1>5, <1>6, <1>7, SelectionIsEarly, ConductIsEarly
    DEF Next, HostCall, Kernel, Over, AcInv, CryptogramInv

\* What is asked of the card is what the issuer's word allows, and every outcome is
\* justified, for every card and however often the host calls again.
THEOREM AcInvariant ==
    ASSUME CardsHaveCdol1
    PROVE  Spec => []AcInv
<1>1. Init => AskedWith /\ NoWayBack /\ Requested /\ Settled
    BY DEF Init, AskedWith, NoWayBack, PinCalls, NoAc, Requested, Settled
<1>2. AcInv /\ TypeInv' /\ CryptogramInv' /\ [Next]_vars => AcInv'
    <2> SUFFICES ASSUME AcInv, TypeInv', CryptogramInv', [Next]_vars PROVE AcInv'
        OBVIOUS
    <2>1. AskedWith' /\ NoWayBack'
        BY AskedWithStep, NoWayBackStep DEF AcInv, CryptogramInv
    <2>2. QED
        BY <2>1, RequestedStep, SettledStep DEF AcInv
<1>3. TypeInv /\ CryptogramInv /\ AskedWith /\ NoWayBack /\ Requested /\ Settled => AcInv
    BY DEF AcInv
<1>4. AcInv => TypeInv /\ CryptogramInv
    BY DEF AcInv
<1>5. QED
    BY <1>1, <1>2, <1>3, <1>4, CryptogramInvariant, PTL DEF Spec

\* The issuer's word as the protocol hears it.
Word == IF pc \in {"OnlineRequest", "Err"} THEN "Silent" ELSE Issuer

\* A step on which nothing the protocol speaks of changes but the verdict.
LEMMA QuietOrConclude ==
    ASSUME AcInv', pc \notin {"Done", "Err"}, pc' # "Err", retries' = retries,
           first'.type = first.type, Completion' = Completion, Word' = Word
    PROVE  Protocol!Conclude \/ UNCHANGED Protocol!vars
<1>1. CASE pc' # "Done"
    BY <1>1 DEF Protocol!vars, Word
<1>2. CASE pc' = "Done"
    <2>1. Protocol!Justified(outcome', first.type, Completion.type, Word)
        BY <1>2 DEF AcInv, Settled, Completion, Word, Protocol!Justified
    <2>2. QED
        BY <1>2, <2>1 DEF Protocol!Conclude, Protocol!Judge, Protocol!Justified, Word
<1>3. QED
    BY <1>1, <1>2

LEMMA ErrorFails ==
    ASSUME pc \notin {"Done", "Err"}, pc' = "Err", first' = first
    PROVE  Protocol!Fail
BY DEF Protocol!Fail, Completion, NoAc

LEMMA ProtocolStep ==
    ASSUME AcInv, AcInv', [Next]_vars
    PROVE  [Protocol!Next]_(Protocol!vars)
<1>1. CASE Early
    <2>1. /\ pc \notin {"Done", "Err", "OnlineRequest", "ScriptsAfter"} /\ second = NoAc
          /\ Issuer = "Silent" /\ Issuer' = "Silent"
        BY <1>1, NoCryptogramYet DEF Early, PreFirst, OfflineCalls, Issuer
    <2>2. CASE pc' = "Err"
        BY <1>1, <2>1, <2>2, ErrorFails DEF Early, Protocol!Next
    <2>3. CASE pc' # "Err"
        <3>1. Completion' = Completion /\ Word' = Word
            BY <1>1, <2>1 DEF Early, Completion, Word
        <3>2. QED
            BY <1>1, <2>1, <2>3, <3>1, QuietOrConclude DEF Early, Protocol!Next
    <2>4. QED
        BY <2>2, <2>3
<1>2. CASE first_generate_ac
    <2>1. /\ pc = "FirstGenerateAc" /\ first = NoAc /\ first.type = "None" /\ second = NoAc
          /\ second' = second /\ retries' = retries /\ Issuer = "Silent" /\ Issuer' = Issuer
        BY <1>2, NoCryptogramYet DEF first_generate_ac, hostVars, PreFirst, Issuer
    <2>2. CASE Fail /\ first' = first
        BY <2>1, <2>2, ErrorFails DEF Fail, Protocol!Next
    <2>3. CASE first'.type \in Cid /\ pc' \in {"OnlineRequest", "SecondGenerateAc", "Done"}
        <3>1. /\ Completion = NoAc /\ Completion' = NoAc /\ NoAc.type = "None"
              /\ Word = "Silent" /\ Word' = "Silent"
            BY <2>1, <2>3 DEF Completion, Word, NoAc
        <3>2. pc' = "Done" => Protocol!Justified(outcome', first'.type, "None", "Silent")
            BY <2>1, <2>3, <3>1 DEF AcInv, Settled, Protocol!Justified
        <3>3. QED
            BY <2>1, <2>3, <3>1, <3>2 DEF Protocol!Next, Protocol!GenerateFirst, Protocol!Judge,
               Protocol!Justified, Protocol!Cryptogram, Cid, Word
    <2>4. QED
        BY <1>2, <2>2, <2>3, Exchanged, VerdictTypes DEF first_generate_ac, Proceed, Finish
<1>3. CASE submit_authorisation_response \/ submit_unable_to_go_online
    <2>1. /\ pc = "OnlineRequest" /\ first' = first /\ second' = second /\ retries' = retries
          /\ first.type \in {"TC", "ARQC"}
          /\ first.type = "TC" => second = NoAc
        BY <1>3 DEF submit_authorisation_response, submit_unable_to_go_online, AcInv,
                    CryptogramInv, FirstAnswered
    <2>2. Issuer' \in {"Approved", "Declined", "Unreachable"}
        BY <1>3, EnvironmentAssumption DEF submit_authorisation_response, submit_unable_to_go_online,
                                           Issuer
    <2>3. CASE pc' = "Err"
        BY <2>1, <2>3, ErrorFails DEF Protocol!Next
    <2>4. CASE pc' # "Err"
        <3>1. \/ pc' \in {"ExternalAuthenticate", "SecondGenerateAc"}
              \/ pc' = "Done" /\ first.type = "TC"
            BY <1>3, <2>4 DEF submit_authorisation_response, submit_unable_to_go_online,
                              DeclineAfterXda, Proceed, Finish, Fail
        <3>2. /\ Completion = NoAc /\ Completion' = NoAc /\ NoAc.type = "None"
              /\ Word = "Silent" /\ Word' = Issuer'
            BY <2>1, <3>1 DEF Completion, Word, NoAc
        <3>3. pc' = "Done" => Protocol!Justified(outcome', first.type, "None", Word')
            BY <2>1, <3>1, <3>2 DEF AcInv, Settled, Protocol!Justified
        <3>4. Protocol!Consult
            BY <2>1, <2>2, <2>4, <3>1, <3>2, <3>3 DEF Protocol!Consult, Protocol!Judge,
               Protocol!Justified, Word
        <3>5. QED
            BY <3>4 DEF Protocol!Next
    <2>5. QED
        BY <2>3, <2>4
<1>4. CASE second_generate_ac
    <2>1. /\ pc = "SecondGenerateAc" /\ first' = first /\ Issuer' = Issuer /\ retries' = retries
          /\ first.type = "ARQC" /\ asking \in Protocol!Requests(Issuer)
        BY <1>4 DEF second_generate_ac, hostVars, AcInv, CryptogramInv, FirstAnswered, Requested,
                    Issuer
    <2>2. CASE Fail
        BY <2>1, <2>2, ErrorFails DEF Fail, Protocol!Next
    <2>3. ASSUME NEW ac \in Exchange(asking), second' = Answered(ac),
                 pc' \in {"ScriptsAfter", "Done"}
          PROVE  Protocol!Next
        <3>1. /\ second' # NoAc /\ second'.type \in Cid /\ second'.asked = asking
            BY <2>3, Exchanged
        <3>2. /\ Completion = NoAc /\ Completion' = second' /\ NoAc.type = "None"
              /\ Word = Issuer /\ Word' = Issuer
            BY <2>1, <2>3 DEF Completion, Word, NoAc
        <3>3. pc' = "Done" => Protocol!Justified(outcome', first.type, second'.type, Issuer)
            BY <2>1 DEF AcInv, Settled, Protocol!Justified
        <3>4. QED
            BY <2>1, <2>3, <3>1, <3>2, <3>3 DEF Protocol!Next, Protocol!GenerateSecond,
               Protocol!Judge, Protocol!Justified, Protocol!Cryptogram, Cid, Word
    <2>4. QED
        BY <1>4, <2>2, <2>3 DEF second_generate_ac
<1>5. CASE online_card_authentication \/ process_scripts_before \/ process_scripts_after
    <2>1. /\ UNCHANGED <<first, second, retries>> /\ Issuer' = Issuer
          /\ pc \in {"ExternalAuthenticate", "ScriptsBefore", "ScriptsAfter"}
        BY <1>5 DEF online_card_authentication, process_scripts_before, process_scripts_after,
                    hostVars, Issuer
    <2>2. \/ pc' = "Err"
          \/ pc # "ScriptsAfter" /\ pc' \in {"ScriptsBefore", "SecondGenerateAc"}
          \/ pc = "ScriptsBefore" /\ pc' = "ScriptsAfter" /\ first.type = "TC"
          \/ pc = "ScriptsAfter" /\ pc' = "Done"
        BY <1>5 DEF online_card_authentication, process_scripts_before, process_scripts_after,
                    ScriptsLost, Proceed, Fail, Finish
    <2>3. CASE pc' = "Err"
        BY <2>1, <2>3, ErrorFails DEF Protocol!Next
    <2>4. CASE pc' # "Err"
        <3>1. first.type = "TC" => second = NoAc
            BY DEF AcInv, CryptogramInv, FirstAnswered
        <3>2. Completion' = Completion /\ Word' = Word
            BY <2>1, <2>2, <2>4, <3>1 DEF Completion, Word
        <3>3. QED
            BY <2>1, <2>4, <3>2, QuietOrConclude DEF Protocol!Next
    <2>5. QED
        BY <2>3, <2>4
<1>6. CASE UNCHANGED vars
    BY <1>6 DEF vars, selectionVars, contextVars, acVars, hostVars, Issuer, Completion, Protocol!vars
<1>7. CASE call_again
    <2>1. /\ pc = "Err" /\ retries' > 0 /\ first' = first
          /\ pc' \in {"Idle", "SelectApplication", "CardholderVerification", "OnlineRequest"}
        BY <1>7, EnvironmentAssumption DEF call_again, StepBefore, acVars, AcInv, TypeInv, HostOK
    <2>2. pc' # "OnlineRequest" => Issuer' = "Silent"
        BY <1>7 DEF call_again, StepBefore, Issuer
    <2>3. QED
        BY <2>1, <2>2 DEF Completion, Protocol!vars
<1>8. QED
    BY <1>1, <1>2, <1>3, <1>4, <1>5, <1>6, <1>7, SelectionIsEarly, ConductIsEarly
    DEF Next, HostCall, Kernel, Over, AcInv, CryptogramInv

\* For every card, terminal and issuer, and however often the host calls again after
\* errors, the cryptograms, what is asked of the card, the issuer's word and the
\* verdict of the flow are those of AcProtocol: one first cryptogram, a TC asked for
\* at last only with the issuer's approval or where it cannot be reached, and no
\* approval without a TC of the card.
THEOREM FlowImplementsProtocol ==
    ASSUME CardsHaveCdol1
    PROVE  Spec => ImplementsProtocol
<1>1. Init => Protocol!Init
    BY DEF Init, Protocol!Init, NoAc, Issuer, Completion
<1>2. AcInv /\ AcInv' /\ [Next]_vars => [Protocol!Next]_(Protocol!vars)
    BY ProtocolStep
<1>3. QED
    BY <1>1, <1>2, AcInvariant, PTL DEF Spec, ImplementsProtocol, Protocol!Spec
-----------------------------------------------------------------------------
(* The cardholder's choice. *)

\* A candidate chosen by the cardholder is not replaced within the call: only
\* start goes on to another one by itself (continue_with_application).
THEOREM ChoiceIsTheCardholdersAlways == Spec => ChoiceIsTheCardholders
<1>1. CryptogramInv /\ [Next]_vars =>
        [call = "continue_with_application" /\ pc \in Running => chosen' = chosen]_vars
    <2>1. SUFFICES ASSUME CallPoints, Next, call = "continue_with_application", pc \in Running
                   PROVE  chosen' = chosen
        BY DEF CryptogramInv
    <2>2. CASE HostCall
        BY <2>1, <2>2 DEF HostCall, start, continue_with_application, submit_pin, bypass_pin_entry,
           EnterPin, submit_authorisation_response, submit_unable_to_go_online, Running
    <2>3. CASE call_again
        BY <2>3 DEF call_again, selectionVars
    <2>4. CASE FinalSelection
        BY <2>1, <2>4 DEF FinalSelection, CallPoints
    <2>5. CASE Kernel /\ ~FinalSelection
        BY <2>5 DEF Kernel, select_application, initiate, read_application_data,
           perform_offline_data_authentication, process_restrictions, run_cardholder_verification,
           run_terminal_risk_management, first_generate_ac, second_generate_ac,
           online_card_authentication, process_scripts_before, process_scripts_after, selectionVars
    <2>6. CASE Over
        BY <2>6 DEF Over, vars, selectionVars
    <2>7. QED
        BY <2>1, <2>2, <2>3, <2>4, <2>5, <2>6 DEF Next
<1>2. QED
    BY <1>1, CryptogramInvariant, PTL DEF Spec, ChoiceIsTheCardholders
-----------------------------------------------------------------------------
(* Whose data the store holds, in a first try. *)

Selecting == {"FinalSelection", "SelectApplication", "Select", "Initiate", "ReadData"}

\* Nothing is read before an application is initiated, and then only its own
\* records are.
OwnerInv ==
    retries = 0 =>
        /\ pc \in Selecting \cup {"Idle"} => \A t \in Tag : store[t] \notin App
        /\ \A t \in Tag : store[t] \in App => store[t] = initiated /\ initiated = selected
        /\ pc = "Initiate" => selected = chosen.app
        /\ pc = "ReadData" => selected = chosen.app /\ initiated = chosen.app

\* No application on the list, nor the one attempted, has been eliminated.
EliminatedInv ==
    retries = 0 =>
        /\ pc = "Idle" => eliminated = {}
        /\ pc \in Selecting => \A c \in cands : c.app \notin eliminated
        /\ pc \in {"Select", "Initiate", "ReadData"} => chosen \in cands
        /\ \A t \in Tag : store[t] \in App => store[t] \notin eliminated

\* No candidate list names an application twice.  Discovery by partial names may
\* build one that does.
ListsNameOnce == \A l \in CandidateList : \A c, d \in l : c.app = d.app => c = d

\* What the terminal stores belongs to no application.
LEMMA FilledByTerminal ==
    ASSUME \/ Filled(KernelTag, {"terminal"})
           \/ Filled(KernelTag \cup {"ARC"}, {"terminal"} \cup KernelArc \cup HostArc)
           \/ store' = store,
           NEW t \in Tag
    PROVE  store'[t] \in App => store'[t] = store[t]
BY AppAssumption DEF Filled, Fills

LEMMA RetriesGrow ==
    ASSUME TypeInv, [Next]_vars, retries' = 0
    PROVE  retries = 0 /\ ~call_again
<1>1. retries \in Nat
    BY EnvironmentAssumption DEF TypeInv, HostOK
<1>2. ~call_again
    BY <1>1 DEF call_again
<1>3. retries' = retries
    BY <1>2 DEF Next, HostCall, Kernel, Over, start, continue_with_application, submit_pin,
       bypass_pin_entry, EnterPin, submit_authorisation_response, submit_unable_to_go_online,
       FinalSelection, select_application, initiate, read_application_data,
       perform_offline_data_authentication, process_restrictions, run_cardholder_verification,
       run_terminal_risk_management, first_generate_ac, second_generate_ac,
       online_card_authentication, process_scripts_before, process_scripts_after, vars, hostVars
<1>4. QED
    BY <1>2, <1>3

\* Steps that attempt no application: they neither select, nor initiate, nor read,
\* nor eliminate one.
Conduct ==
    \/ submit_pin \/ bypass_pin_entry \/ submit_authorisation_response
    \/ submit_unable_to_go_online \/ perform_offline_data_authentication \/ process_restrictions
    \/ run_cardholder_verification \/ run_terminal_risk_management \/ first_generate_ac
    \/ second_generate_ac \/ online_card_authentication \/ process_scripts_before
    \/ process_scripts_after \/ UNCHANGED vars

LEMMA ConductAttemptsNothing ==
    ASSUME TypeInv, Conduct
    PROVE  /\ UNCHANGED <<selected, initiated, eliminated, cands, chosen>>
           /\ \A t \in Tag : store'[t] \in App => store'[t] = store[t]
           /\ pc' \in Selecting \cup {"Idle"} => pc' = pc /\ UNCHANGED vars
<1>1. UNCHANGED selectionVars
    BY DEF Conduct, submit_pin, bypass_pin_entry, EnterPin, submit_authorisation_response,
       submit_unable_to_go_online, perform_offline_data_authentication, process_restrictions,
       run_cardholder_verification, run_terminal_risk_management, first_generate_ac,
       second_generate_ac, online_card_authentication, process_scripts_before,
       process_scripts_after, vars
<1>2. ASSUME NEW t \in Tag PROVE store'[t] \in App => store'[t] = store[t]
    BY FilledByTerminal, KernelFills, ArcFills, StoreKept DEF Conduct
<1>3. pc' \in Selecting \cup {"Idle"} => UNCHANGED vars
    <2>1. CASE submit_pin \/ bypass_pin_entry \/ submit_authorisation_response
               \/ submit_unable_to_go_online
        BY <2>1 DEF submit_pin, bypass_pin_entry, EnterPin, submit_authorisation_response,
           submit_unable_to_go_online, DeclineAfterXda, Proceed, Fail, Finish, Selecting
    <2>2. CASE perform_offline_data_authentication
        BY <2>2 DEF perform_offline_data_authentication, perform_sda, perform_dda,
           perform_cda_arm, perform_xda_arm, AuthenticateNow, AuthenticateFails, Proceed, Fail,
           Selecting
    <2>3. CASE process_restrictions \/ run_terminal_risk_management
        BY <2>3 DEF process_restrictions, run_terminal_risk_management, Proceed, Fail, Selecting
    <2>4. CASE run_cardholder_verification
        BY <2>4 DEF run_cardholder_verification, NoCvmPerformed, Conclude, Proceed, Fail, Selecting
    <2>5. CASE first_generate_ac
        BY <2>5, VerdictTypes DEF first_generate_ac, Proceed, Fail, Finish, Selecting
    <2>6. CASE second_generate_ac \/ online_card_authentication \/ process_scripts_before
               \/ process_scripts_after
        BY <2>6 DEF second_generate_ac, online_card_authentication, process_scripts_before,
           process_scripts_after, ScriptsLost, Proceed, Fail, Finish, Selecting
    <2>7. QED
        BY <2>1, <2>2, <2>3, <2>4, <2>5, <2>6 DEF Conduct
<1>4. QED
    BY <1>1, <1>2, <1>3 DEF selectionVars, vars

LEMMA OwnerInvStep ==
    ASSUME TypeInv, OwnerInv, [Next]_vars
    PROVE  OwnerInv'
<1> SUFFICES ASSUME retries' = 0 PROVE OwnerInv'
    BY DEF OwnerInv
<1>1. retries = 0 /\ ~call_again
    BY RetriesGrow
<1>2. CASE Conduct
    BY <1>1, <1>2, ConductAttemptsNothing DEF OwnerInv, Selecting
<1>3. CASE start
    <2>1. \A t \in Tag : store'[t] \in App => store'[t] = store[t]
        BY <1>3, FilledByTerminal, KernelFills
    <2>2. /\ pc = "Idle" /\ pc' \in {"FinalSelection", "Err"}
          /\ UNCHANGED <<selected, initiated>>
        BY <1>3 DEF start, Proceed, Fail
    <2>3. QED
        BY <1>1, <2>1, <2>2 DEF OwnerInv, Selecting
<1>4. CASE continue_with_application
    BY <1>1, <1>4, StoreKept DEF continue_with_application, Proceed, OwnerInv, Selecting
<1>5. CASE FinalSelection
    BY <1>1, <1>5, StoreKept DEF FinalSelection, Proceed, Finish, OwnerInv, Selecting
<1>6. CASE select_application
    BY <1>1, <1>6, StoreKept DEF select_application, Eliminate, Proceed, Fail, Finish, OwnerInv, Selecting
<1>7. CASE initiate
    BY <1>1, <1>7, StoreKept DEF initiate, Eliminate, Proceed, Fail, Finish, OwnerInv, Selecting
<1>8. CASE read_application_data
    <2>1. /\ pc = "ReadData" /\ pc' \in {"Oda", "Err"}
          /\ UNCHANGED <<selected, initiated>>
          /\ \A t \in Tag : store'[t] = store[t] \/ store'[t] = initiated
        BY <1>8, ReadFills DEF read_application_data, Proceed, Fail, selectionVars, Filled, Fills
    <2>2. QED
        BY <1>1, <2>1 DEF OwnerInv, Selecting
<1>9. QED
    BY <1>1, <1>2, <1>3, <1>4, <1>5, <1>6, <1>7, <1>8 DEF Next, HostCall, Kernel, Over, Conduct

LEMMA EliminateDrops ==
    ASSUME ListsNameOnce, TypeInv, Eliminate, chosen \in cands, \A c \in cands : c.app \notin eliminated
    PROVE  \A c \in cands' : c.app \notin eliminated'
<1>1. PICK l \in CandidateList : cands \subseteq l
    BY DEF TypeInv, SelectionOK
<1>2. \A c \in cands' : c \in cands /\ c.app # chosen.app
    BY <1>1 DEF Eliminate, ListsNameOnce
<1>3. QED
    BY <1>2 DEF Eliminate

LEMMA EliminatedInvStep ==
    ASSUME ListsNameOnce, TypeInv, OwnerInv, EliminatedInv, [Next]_vars
    PROVE  EliminatedInv'
<1> SUFFICES ASSUME retries' = 0 PROVE EliminatedInv'
    BY DEF EliminatedInv
<1>1. retries = 0 /\ ~call_again
    BY RetriesGrow
<1>2. CASE Conduct
    BY <1>1, <1>2, ConductAttemptsNothing DEF EliminatedInv, Selecting
<1>3. CASE start
    <2>1. \A t \in Tag : store'[t] \in App => store'[t] = store[t]
        BY <1>3, FilledByTerminal, KernelFills
    <2>2. /\ pc = "Idle" /\ pc' \in {"FinalSelection", "Err"}
          /\ eliminated' = eliminated
        BY <1>3 DEF start, Proceed, Fail
    <2>3. QED
        BY <1>1, <2>1, <2>2 DEF EliminatedInv, Selecting
<1>4. CASE continue_with_application
    BY <1>1, <1>4, StoreKept DEF continue_with_application, Proceed, EliminatedInv, Selecting
<1>5. CASE FinalSelection
    BY <1>1, <1>5, StoreKept DEF FinalSelection, Selects, Proceed, Finish, EliminatedInv, Selecting
<1>6. CASE select_application \/ initiate
    <2>1. /\ pc \in {"Select", "Initiate"} /\ store' = store
          /\ \A t \in Tag : store[t] \notin App
          /\ chosen \in cands /\ \A c \in cands : c.app \notin eliminated
        BY <1>1, <1>6, StoreKept DEF select_application, initiate, OwnerInv, EliminatedInv, Selecting
    <2>2. CASE Eliminate
        <3>1. \A c \in cands' : c.app \notin eliminated'
            BY <2>1, <2>2, EliminateDrops
        <3>2. pc' \in {"FinalSelection", "SelectApplication", "Done"}
            BY <2>2 DEF Eliminate, Proceed, Finish
        <3>3. QED
            BY <2>1, <3>1, <3>2 DEF EliminatedInv
    <2>3. CASE UNCHANGED <<cands, eliminated, chosen>> /\ pc' \in {"Initiate", "ReadData", "Err"}
        BY <2>1, <2>3 DEF EliminatedInv
    <2>4. QED
        BY <1>6, <2>2, <2>3 DEF select_application, initiate, Proceed, Fail
<1>7. CASE read_application_data
    <2>1. /\ pc = "ReadData" /\ pc' \in {"Oda", "Err"}
          /\ UNCHANGED <<cands, chosen, initiated, eliminated>>
          /\ \A t \in Tag : store'[t] = store[t] \/ store'[t] = initiated
        BY <1>7, ReadFills DEF read_application_data, Proceed, Fail, selectionVars, Filled, Fills
    <2>2. initiated \notin eliminated
        BY <1>1, <2>1 DEF OwnerInv, EliminatedInv, Selecting
    <2>3. QED
        BY <1>1, <2>1, <2>2 DEF EliminatedInv, Selecting
<1>8. QED
    BY <1>1, <1>2, <1>3, <1>4, <1>5, <1>6, <1>7 DEF Next, HostCall, Kernel, Over, Conduct

\* Every element read from a card is of the application selected and initiated, and
\* of none that was eliminated, when no candidate list names an application twice.
THEOREM NoForeignDataAlways ==
    ASSUME ListsNameOnce
    PROVE  Spec => []NoForeignData
<1>1. Init => OwnerInv /\ EliminatedInv
    BY AppAssumption DEF Init, OwnerInv, EliminatedInv, Selecting
<1>2. TypeInv /\ OwnerInv /\ EliminatedInv /\ [Next]_vars => OwnerInv' /\ EliminatedInv'
    BY OwnerInvStep, EliminatedInvStep
<1>3. OwnerInv /\ EliminatedInv => NoForeignData
    BY DEF OwnerInv, EliminatedInv, NoForeignData
<1>4. QED
    BY <1>1, <1>2, <1>3, CryptogramInvariant, PTL DEF Spec
-----------------------------------------------------------------------------
(* The response code. *)

\* A step leaves the personalisation of the applications as it is.
LEMMA CardKept == [Next]_vars => card' = card
BY DEF Next, HostCall, Kernel, Over, start, continue_with_application, submit_pin,
   bypass_pin_entry, EnterPin, submit_authorisation_response, submit_unable_to_go_online,
   call_again, FinalSelection, select_application, initiate, read_application_data,
   perform_offline_data_authentication, process_restrictions, run_cardholder_verification,
   run_terminal_risk_management, first_generate_ac, second_generate_ac,
   online_card_authentication, process_scripts_before, process_scripts_after, vars, hostVars, config

\* The application has been read, and how the transaction goes on is not yet known.
Undecided ==
    {"Oda", "Restrictions", "Cvm", "CardholderVerification", "RiskManagement", "FirstGenerateAc",
     "OnlineRequest", "ExternalAuthenticate", "ScriptsBefore"}

\* A code the application brought, or another in its place.
OwnArcOr(code) == IF "ARC" \in card[initiated].records THEN initiated ELSE code

\* Before it is known how the transaction goes on there is no code but the one the
\* application brought, and from then on the right one.
ArcInv ==
    retries = 0 =>
        /\ pc \in PreFirst \cup Undecided => second = NoAc
        /\ pc \in Selecting \cup {"Idle"} => store["ARC"] = "absent"
        /\ pc \in Undecided => initiated \in App /\ store["ARC"] = OwnArcOr("absent")
        /\ pc = "SecondGenerateAc" \/ second # NoAc => store["ARC"] = OwnArcOr(DecidedArc)

\* store_authorisation_response_code does not replace the application's.
LEMMA StampArc ==
    ASSUME NEW tags \in [Tag -> Source], NEW code,
           initiated \in App, tags["ARC"] = OwnArcOr("absent")
    PROVE  InsertIfAbsent(tags, "ARC", code)["ARC"] = OwnArcOr(code)
<1>1. "ARC" \in Tag /\ initiated # "absent"
    BY AppAssumption DEF Tag
<1>2. QED
    BY <1>1 DEF InsertIfAbsent, Insert, Present, OwnArcOr

LEMMA ArcUntouched ==
    ASSUME TypeInv, Filled(KernelTag, {"terminal"}) \/ store' = store
    PROVE  store'["ARC"] = store["ARC"]
BY DEF Filled, Fills, KernelTag, Tag

LEMMA ArcInvStep ==
    ASSUME TypeInv, TypeInv', CryptogramInv, CryptogramInv', ArcInv, [Next]_vars
    PROVE  ArcInv'
<1> SUFFICES ASSUME retries' = 0 PROVE ArcInv'
    BY DEF ArcInv
<1>1. /\ store \in [Tag -> Source] /\ "ARC" \in Tag /\ retries = 0 /\ ~call_again
      /\ card' = card
    BY RetriesGrow, CardKept DEF TypeInv, ContextOK, Tag
<1>2. CASE \/ start \/ continue_with_application \/ FinalSelection \/ select_application \/ initiate
    <2>1. Early /\ store'["ARC"] = store["ARC"]
        BY <1>2, SelectionIsEarly, ArcUntouched, KernelFills, StoreKept DEF CryptogramInv
    <2>2. pc \in Selecting \cup {"Idle"} /\ pc' \in Selecting \cup {"Err", "Done"}
        BY <1>2 DEF start, continue_with_application, FinalSelection, select_application, initiate,
                    Eliminate, Proceed, Fail, Finish, Selecting
    <2>3. QED
        BY <1>1, <2>1, <2>2 DEF Early, ArcInv, Selecting, Undecided, NoAc
<1>3. CASE read_application_data
    <2>1. /\ Early /\ pc = "ReadData" /\ pc' \in {"Oda", "Err"} /\ initiated' = initiated
          /\ initiated \in App
        BY <1>3, SelectionIsEarly DEF read_application_data, Proceed, Fail, selectionVars,
           CryptogramInv, TypeInv, Positioned
    <2>2. second' = NoAc /\ store["ARC"] = "absent"
        BY <1>1, <2>1 DEF Early, ArcInv, PreFirst, Selecting, NoAc
    <2>3. pc' = "Oda" => store' = Load(store, initiated, card[initiated].records)
        BY <1>3 DEF read_application_data, Fail
    <2>4. pc' = "Oda" => store'["ARC"] = OwnArcOr("absent")'
        BY <1>1, <2>1, <2>2, <2>3 DEF Load, OwnArcOr
    <2>5. QED
        BY <1>1, <2>1, <2>2, <2>4 DEF ArcInv, Selecting, Undecided, NoAc
<1>4. CASE \/ submit_pin \/ bypass_pin_entry \/ perform_offline_data_authentication
           \/ process_restrictions \/ run_cardholder_verification \/ run_terminal_risk_management
    <2>1. Early /\ store'["ARC"] = store["ARC"] /\ initiated' = initiated
        BY <1>4, SelectionIsEarly, ConductIsEarly, ArcUntouched, KernelFills, StoreKept,
           ConductAttemptsNothing DEF CryptogramInv, Conduct
    <2>2. pc \in Undecided
        BY <1>4 DEF submit_pin, bypass_pin_entry, EnterPin, perform_offline_data_authentication,
           process_restrictions, run_cardholder_verification, run_terminal_risk_management, Undecided
    <2>3. pc' \notin Selecting \cup {"Idle"}
        BY <1>4, <2>2, ConductAttemptsNothing DEF Conduct, Selecting, Undecided
    <2>4. QED
        BY <1>1, <2>1, <2>2, <2>3 DEF Early, ArcInv, PreFirst, OwnArcOr, NoAc
<1>5. CASE first_generate_ac
    <2>1. /\ pc = "FirstGenerateAc" /\ call \in OfflineCalls /\ second' = NoAc /\ call' = call
          /\ initiated' = initiated /\ initiated \in App /\ store["ARC"] = OwnArcOr("absent")
        BY <1>1, <1>5 DEF first_generate_ac, PreFirst, Undecided, CryptogramInv, CallPoints, ArcInv,
           hostVars, selectionVars, NoAc
    <2>2. ASSUME NEW ac
          PROVE  /\ SignatureStore(ac) \in [Tag -> Source]
                 /\ SignatureStore(ac)["ARC"] = OwnArcOr("absent")
        BY <1>1, <2>1, SignatureFills DEF Fills, KernelTag
    <2>3. CASE pc' = "SecondGenerateAc"
        <3>1. PICK ac : store' = InsertIfAbsent(SignatureStore(ac), "ARC", "OFFLINE_DECLINED")
            BY <1>5, <2>3 DEF first_generate_ac, Proceed, Finish, Fail
        <3>2. store'["ARC"] = OwnArcOr("OFFLINE_DECLINED")
            BY <2>1, <2>2, <3>1, StampArc
        <3>3. DecidedArc' = "OFFLINE_DECLINED"
            BY <2>1 DEF DecidedArc, OfflineCalls
        <3>4. QED
            BY <1>1, <2>1, <2>3, <3>2, <3>3 DEF ArcInv, OwnArcOr, PreFirst, Undecided, Selecting
    <2>4. CASE pc' = "OnlineRequest"
        <3>1. PICK ac : store' = SignatureStore(ac)
            BY <1>5, <2>4 DEF first_generate_ac, Proceed, Finish, Fail
        <3>2. QED
            BY <1>1, <2>1, <2>2, <2>4, <3>1 DEF ArcInv, OwnArcOr, Selecting, NoAc
    <2>5. CASE pc' \in {"Done", "Err"}
        BY <2>1, <2>5 DEF ArcInv, PreFirst, Undecided, Selecting, NoAc
    <2>6. QED
        BY <1>5, <2>3, <2>4, <2>5, VerdictTypes DEF first_generate_ac, Proceed, Finish, Fail
<1>6. CASE submit_authorisation_response
    <2>1. /\ pc = "OnlineRequest" /\ pc' = "ExternalAuthenticate" /\ second' = second
          /\ store' = store /\ initiated' = initiated
        BY <1>6, StoreKept DEF submit_authorisation_response, Proceed, selectionVars
    <2>2. QED
        BY <1>1, <2>1 DEF ArcInv, Undecided, Selecting, OwnArcOr, NoAc
<1>7. CASE submit_unable_to_go_online
    <2>1. /\ pc = "OnlineRequest" /\ initiated \in App /\ store["ARC"] = OwnArcOr("absent")
          /\ second' = NoAc /\ initiated' = initiated
          /\ call' = "submit_unable_to_go_online" /\ pc' \in {"Done", "Err", "SecondGenerateAc"}
        BY <1>1, <1>7 DEF submit_unable_to_go_online, DeclineAfterXda, Proceed, Finish, Fail, ArcInv,
           Undecided, selectionVars, NoAc
    <2>2. \A code : StoreArc(code) => store'["ARC"] = OwnArcOr(code)
        BY <1>1, <2>1, StampArc DEF StoreArc
    <2>3. pc' = "SecondGenerateAc" => StoreArc(DecidedArc')
        BY <1>7, <2>1 DEF submit_unable_to_go_online, DeclineAfterXda, Proceed, Finish, Fail,
                          DecidedArc
    <2>4. QED
        BY <1>1, <2>1, <2>2, <2>3 DEF ArcInv, OwnArcOr, PreFirst, Undecided, Selecting, NoAc
<1>8. CASE second_generate_ac
    <2>1. /\ pc = "SecondGenerateAc" /\ UNCHANGED <<call, response, asking, initiated>>
          /\ pc' \in {"ScriptsAfter", "Done", "Err"}
        BY <1>8 DEF second_generate_ac, hostVars, selectionVars, Fail
    <2>2. store'["ARC"] = store["ARC"] /\ store["ARC"] = OwnArcOr(DecidedArc)
        BY <1>1, <1>8, <2>1, ArcUntouched, KernelFills DEF ArcInv
    <2>3. OwnArcOr(DecidedArc)' = OwnArcOr(DecidedArc)
        BY <1>1, <2>1 DEF OwnArcOr, DecidedArc
    <2>4. QED
        BY <2>1, <2>2, <2>3 DEF ArcInv, PreFirst, Undecided, Selecting
<1>9. CASE online_card_authentication
    <2>1. /\ pc = "ExternalAuthenticate" /\ pc' \in {"ScriptsBefore", "Err"}
          /\ second' = second /\ store' = store /\ initiated' = initiated
        BY <1>9, StoreKept DEF online_card_authentication, Proceed, Fail, selectionVars
    <2>2. QED
        BY <1>1, <2>1 DEF ArcInv, PreFirst, Undecided, Selecting, OwnArcOr, NoAc
<1>10. CASE process_scripts_before
    <2>1. /\ pc = "ScriptsBefore" /\ initiated \in App /\ store["ARC"] = OwnArcOr("absent")
          /\ second' = NoAc /\ initiated' = initiated
          /\ call' = "submit_authorisation_response" /\ response' = response
          /\ pc' \in {"ScriptsAfter", "SecondGenerateAc", "Err"}
        BY <1>1, <1>10 DEF process_scripts_before, ScriptsLost, Proceed, Fail, ArcInv, Undecided,
           hostVars, selectionVars, CryptogramInv, CallPoints, NoAc
    <2>2. pc' = "SecondGenerateAc" => StoreArc(response.arc)
        BY <1>10 DEF process_scripts_before, ScriptsLost, Fail
    <2>3. pc' = "SecondGenerateAc" => store'["ARC"] = OwnArcOr(response.arc)
        BY <1>1, <2>1, <2>2, StampArc DEF StoreArc
    <2>4. DecidedArc' = response.arc
        BY <2>1 DEF DecidedArc
    <2>5. QED
        BY <1>1, <2>1, <2>3, <2>4 DEF ArcInv, OwnArcOr, PreFirst, Undecided, Selecting, NoAc
<1>11. CASE process_scripts_after
    <2>1. /\ pc = "ScriptsAfter" /\ pc' \in {"Done", "Err"}
          /\ UNCHANGED <<second, call, response, asking, store, initiated>>
        BY <1>11, StoreKept DEF process_scripts_after, ScriptsLost, Finish, Fail, hostVars,
                                selectionVars
    <2>2. OwnArcOr(DecidedArc)' = OwnArcOr(DecidedArc)
        BY <1>1, <2>1 DEF OwnArcOr, DecidedArc
    <2>3. QED
        BY <1>1, <2>1, <2>2 DEF ArcInv, PreFirst, Undecided, Selecting, NoAc
<1>12. CASE UNCHANGED vars
    BY <1>12 DEF vars, selectionVars, contextVars, acVars, hostVars, config, ArcInv, OwnArcOr,
                 DecidedArc, NoAc
<1>13. QED
    BY <1>1, <1>2, <1>3, <1>4, <1>5, <1>6, <1>7, <1>8, <1>9, <1>10, <1>11, <1>12
    DEF Next, HostCall, Kernel, Over

\* When the final cryptogram is asked for the store holds the response code of
\* what happened, or the '8A' that a record of the application brought, which
\* stays; a host that calls again after an error keeps the code of its first call
\* (store_authorisation_response_code).
THEOREM ArcMatchesDecisionAlways == Spec => []ArcMatchesDecision
<1>1. Init => ArcInv
    BY DEF Init, ArcInv, Tag, PreFirst, Undecided, Selecting
<1>2. TypeInv /\ TypeInv' /\ CryptogramInv /\ CryptogramInv' /\ ArcInv /\ [Next]_vars => ArcInv'
    BY ArcInvStep
<1>3. ArcInv => ArcMatchesDecision
    BY DEF ArcInv, OwnArcOr, ArcMatchesDecision
<1>4. QED
    BY <1>1, <1>2, <1>3, CryptogramInvariant, PTL DEF Spec
-----------------------------------------------------------------------------
(* The command line terminal. *)

\* What a GENERATE AC may come back with.
LEMMA TestExchanged ==
    ASSUME NEW cryptogram, NEW ac \in Exchange(cryptogram)
    PROVE  /\ ac.type \in Cid
           /\ Answered(ac).type = ac.type /\ Answered(ac).asked = cryptogram
           /\ Answered(ac).verified = SignatureVerified(ac)
BY DEF Exchange, Answered

\* Where the transaction stands, as far as the protocol is concerned.
Unanswered ==
    {"Idle", "Configuration", "Connect", "FinalSelection", "Select", "Initiate", "ReadData",
     "Oda", "Restrictions", "Cvm", "RiskManagement", "FirstGenerateAc"}

Authorised == {"ExternalAuthenticate", "ScriptsBefore", "SecondGenerateAc"}

TestInv ==
    /\ pc \in Unanswered \cup {"OnlineRequest"} => response = NoResponse /\ second = NoAc
    /\ pc \in Unanswered => first.type = "None"
    /\ pc \in Authorised \cup {"OnlineRequest"} => first.type = "ARQC" /\ second = NoAc
    /\ pc \in Authorised => (response.outcome = "Approved" <=> IssuerWord = "Approved")
    /\ pc = "SecondGenerateAc" => asking \in TestProtocol!Requests(IssuerWord)
    /\ pc = "ScriptsAfter" =>
          /\ first.type = "ARQC" /\ second.type \in Cid
          /\ outcome = "Approved" => second.type = "TC"
    /\ pc = "Done" => TestProtocol!Justified(Verdict, first.type, second.type, IssuerWord)

\* A run that ends with an error.
LEMMA TestErrorFails ==
    ASSUME pc \notin {"Done", "Err"}, pc' = "Err", first' = first
    PROVE  TestInv' /\ TestProtocol!Fail
<1>1. TestInv'
    BY DEF TestInv, Unanswered, Authorised
<1>2. TestProtocol!Fail
    BY DEF TestProtocol!Fail, Announced, NoAc, Verdict
<1>3. QED
    BY <1>1, <1>2

\* What the phases before the first GENERATE AC have in common.
BeforeAc ==
    /\ pc \in Unanswered /\ pc' \in Unanswered \cup {"Err"}
    /\ UNCHANGED <<first, second, response>>

LEMMA PhasesBeforeAc ==
    ASSUME \/ parse_args \/ load_configuration \/ connect \/ choose_application
           \/ select_chosen \/ get_processing_options \/ read_records \/ authenticate_data
           \/ restrict_processing \/ verify_cardholder \/ manage_risk
    PROVE  BeforeAc
<1> USE DEF BeforeAc, Unanswered, Proceed, Fail, hostVars
<1>1. CASE parse_args \/ load_configuration \/ connect
    BY <1>1 DEF parse_args, load_configuration, connect
<1>2. CASE choose_application \/ select_chosen \/ get_processing_options
    BY <1>2 DEF choose_application, select_chosen, get_processing_options
<1>3. CASE read_records
    BY <1>3 DEF read_records, read_application_data
<1>4. CASE authenticate_data
    <2>1. pc = "Oda" /\ UNCHANGED <<first, second, response>>
        BY <1>4 DEF authenticate_data, perform_offline_data_authentication
    <2>2. \/ Proceed("Restrictions") \/ Fail
        BY <1>4 DEF authenticate_data, perform_offline_data_authentication, perform_sda,
                    perform_dda, perform_cda_arm, perform_xda_arm, AuthenticateNow, AuthenticateFails
    <2>3. QED
        BY <2>1, <2>2
<1>5. CASE restrict_processing
    BY <1>5 DEF restrict_processing, process_restrictions
<1>6. CASE verify_cardholder
    BY <1>6 DEF verify_cardholder
<1>7. CASE manage_risk
    BY <1>7 DEF manage_risk, run_terminal_risk_management
<1>8. QED
    BY <1>1, <1>2, <1>3, <1>4, <1>5, <1>6, <1>7

LEMMA BeforeAcSafe ==
    ASSUME TestInv, BeforeAc
    PROVE  TestInv' /\ [TestProtocol!Next]_(TestProtocol!vars)
<1>1. /\ pc \notin {"Done", "Err"} /\ pc' # "Done" /\ Verdict = "None" /\ Verdict' = "None"
      /\ IssuerWord' = IssuerWord
    BY DEF BeforeAc, Unanswered, Verdict, IssuerWord
<1>2. CASE pc' = "Err"
    BY <1>1, <1>2, TestErrorFails DEF BeforeAc, TestProtocol!Next
<1>3. CASE pc' # "Err"
    BY <1>1, <1>3 DEF TestInv, BeforeAc, Unanswered, Authorised, Announced, TestProtocol!vars
<1>4. QED
    BY <1>2, <1>3

\* The first answer is the last word, or the issuer is asked.
LEMMA FirstAnswerSafe ==
    ASSUME TestInv, analyse_and_generate_ac
    PROVE  TestInv' /\ [TestProtocol!Next]_(TestProtocol!vars)
<1>1. /\ pc = "FirstGenerateAc" /\ response' = response /\ second' = second
      /\ response = NoResponse /\ second = NoAc /\ first.type = "None"
    BY DEF analyse_and_generate_ac, hostVars, TestInv, Unanswered
<1>2. /\ Verdict = "None" /\ IssuerWord = "Silent" /\ IssuerWord' = "Silent"
    BY <1>1 DEF Verdict, IssuerWord
<1>3. CASE Fail /\ first' = first
    BY <1>1, <1>3, TestErrorFails DEF Fail, TestProtocol!Next
<1>4. ASSUME NEW cryptogram, NEW ac \in Exchange(cryptogram), first' = Answered(ac),
             IF CardAction(ac) = "GoOnline" THEN Proceed("OnlineRequest")
             ELSE Finish(CardAction(ac))
      PROVE  TestInv' /\ [TestProtocol!Next]_(TestProtocol!vars)
    <2>1. first'.type = ac.type /\ ac.type \in Cid
        BY <1>4, TestExchanged
    <2>2. pc' # "Err" => Announced = NoAc /\ Announced' = NoAc /\ NoAc.type = "None"
        BY <1>1 DEF Announced, NoAc
    <2>3. CASE ac.type = "ARQC"
        <3>1. pc' = "OnlineRequest" /\ Verdict' = "None"
            BY <1>4, <2>3 DEF CardAction, Proceed, Verdict
        <3>2. QED
            BY <1>1, <1>2, <2>1, <2>3, <2>2, <3>1 DEF TestInv, Unanswered, Authorised, TestProtocol!Next,
               TestProtocol!GenerateFirst, TestProtocol!Judge, TestProtocol!Cryptogram, Cid
    <2>4. CASE ac.type # "ARQC"
        <3>1. pc' = "Done" /\ Verdict' = CardAction(ac)
            BY <1>1, <1>4, <2>4 DEF CardAction, Finish, Verdict, NoAc
        <3>2. TestProtocol!Justified(Verdict, first.type, second.type, IssuerWord)'
            BY <1>1, <1>2, <2>1, <2>4, <2>2, <3>1 DEF CardAction, TestProtocol!Justified, Cid
        <3>3. TestProtocol!Judge(first'.type, "None", "Silent")
            BY <1>1, <1>2, <2>1, <2>4, <3>1 DEF CardAction, TestProtocol!Judge,
               TestProtocol!Justified, Cid
        <3>4. TestInv'
            BY <3>1, <3>2 DEF TestInv, Unanswered, Authorised
        <3>5. TestProtocol!GenerateFirst
            <4>1. Announced.type = "None" /\ (IF pc = "Err" THEN "Silent" ELSE IssuerWord) = "Silent"
                BY <1>1, <1>2, <2>2, <3>1
            <4>2. TestProtocol!Judge(first'.type, Announced.type,
                                     IF pc = "Err" THEN "Silent" ELSE IssuerWord)
                BY <3>3, <4>1
            <4>3. QED
                BY <1>1, <1>2, <2>1, <2>2, <3>1, <4>1, <4>2 DEF TestProtocol!GenerateFirst,
                   TestProtocol!Cryptogram, Cid
        <3>6. QED
            BY <3>4, <3>5 DEF TestProtocol!Next
    <2>5. QED
        BY <2>3, <2>4
<1>5. QED
    BY <1>3, <1>4 DEF analyse_and_generate_ac

\* What is typed becomes the issuer's word; a line not understood ends the run.
LEMMA AuthoriseSafe ==
    ASSUME TestInv, authorise
    PROVE  TestInv' /\ [TestProtocol!Next]_(TestProtocol!vars)
<1>1. /\ pc = "OnlineRequest" /\ UNCHANGED <<first, second>>
      /\ response = NoResponse /\ second = NoAc /\ first.type = "ARQC"
    BY DEF authorise, TestInv
<1>2. Verdict = "None" /\ IssuerWord = "Silent"
    BY <1>1 DEF Verdict, IssuerWord
<1>3. CASE Fail /\ response' = response
    BY <1>1, <1>3, TestErrorFails DEF Fail, TestProtocol!Next
<1>4. ASSUME NEW line,
             response' = [arc |-> ResponseCode(line), iad |-> line.iad, scripts |-> line.scripts,
                          outcome |-> OnlineOutcome(ResponseCode(line))],
             Proceed("ExternalAuthenticate")
      PROVE  TestInv' /\ [TestProtocol!Next]_(TestProtocol!vars)
    <2>1. response'.outcome = OnlineOutcome(response'.arc)
        BY <1>4
    <2>2. response'.outcome = "Approved" <=> IssuerWord' = "Approved"
        <3>1. NoResponse.arc # "00"
            BY DEF NoResponse
        <3>2. QED
            BY <2>1, <3>1 DEF OnlineOutcome, IssuerWord
    <2>3. pc' = "ExternalAuthenticate" /\ Verdict' = "None"
        BY <1>4 DEF Proceed, Verdict
    <2>4. IssuerWord' \in {"Silent", "Approved", "Declined"}
        BY DEF IssuerWord
    <2>5. Announced = NoAc /\ Announced' = NoAc /\ NoAc.type = "None"
        BY <1>1, <2>3 DEF Announced, NoAc
    <2>6. QED
        BY <1>1, <1>2, <2>2, <2>3, <2>4, <2>5 DEF TestInv, Unanswered, Authorised, TestProtocol!Next,
           TestProtocol!Consult, TestProtocol!Judge, TestProtocol!vars
<1>5. QED
    BY <1>3, <1>4 DEF authorise

\* Authentication of the issuer and the scripts leave cryptograms alone.
LEMMA CompletionSafe ==
    ASSUME TestInv, authenticate_issuer \/ scripts_71 \/ scripts_72
    PROVE  TestInv' /\ [TestProtocol!Next]_(TestProtocol!vars)
<1>1. /\ UNCHANGED <<first, second, response>> /\ IssuerWord' = IssuerWord
      /\ pc \notin {"Done", "Err"} /\ Verdict = "None"
    BY DEF authenticate_issuer, online_card_authentication, scripts_71, scripts_72,
           process_scripts_after, hostVars, IssuerWord, Verdict
<1>2. CASE authenticate_issuer
    <2>1. pc = "ExternalAuthenticate" /\ pc' \in {"ScriptsBefore", "Err"}
        BY <1>2 DEF authenticate_issuer, online_card_authentication, Proceed, Fail
    <2>2. CASE pc' = "Err"
        BY <1>1, <2>2, TestErrorFails DEF TestProtocol!Next
    <2>3. CASE pc' # "Err"
        BY <1>1, <2>1, <2>3 DEF TestInv, Unanswered, Authorised, Verdict, Announced, TestProtocol!vars
    <2>4. QED
        BY <2>2, <2>3
<1>3. CASE scripts_71
    <2>1. /\ pc = "ScriptsBefore"
          /\ \/ pc' = "Err"
             \/ /\ pc' = "SecondGenerateAc"
                /\ asking' = second_generate_ac_after_online(response.outcome)
        BY <1>3 DEF scripts_71, ScriptsLost, Proceed, Fail
    <2>2. CASE pc' = "Err"
        BY <1>1, <2>2, TestErrorFails DEF TestProtocol!Next
    <2>3. CASE pc' # "Err"
        <3>1. asking' \in TestProtocol!Requests(IssuerWord)
            BY <2>1, <2>3 DEF TestInv, Authorised, IssuerWord, second_generate_ac_after_online,
                              TestProtocol!Requests
        <3>2. QED
            BY <1>1, <2>1, <2>3, <3>1 DEF TestInv, Unanswered, Authorised, Verdict, Announced,
                                          TestProtocol!vars
    <2>4. QED
        BY <2>2, <2>3
<1>4. CASE scripts_72
    <2>1. /\ pc = "ScriptsAfter"
          /\ pc' = "Err" \/ (pc' = "Done" /\ outcome' = outcome)
        BY <1>4 DEF scripts_72, process_scripts_after, ScriptsLost, Finish, Fail
    <2>2. CASE pc' = "Err"
        BY <1>1, <2>2, TestErrorFails DEF TestProtocol!Next
    <2>3. CASE pc' = "Done" /\ outcome' = outcome
        <3>1. /\ first.type = "ARQC" /\ second.type \in Cid
              /\ outcome = "Approved" => second.type = "TC"
            BY <2>1 DEF TestInv
        <3>2. Verdict' = IF outcome = "Approved" THEN "Approved" ELSE "Declined"
            BY <1>1, <2>3, <3>1 DEF Verdict, Cid
        <3>3. TestProtocol!Justified(Verdict', first.type, second.type, IssuerWord)
            BY <3>1, <3>2 DEF TestProtocol!Justified
        <3>4. TestProtocol!Justified(Verdict, first.type, second.type, IssuerWord)'
            BY <1>1, <3>1, <3>2 DEF TestProtocol!Justified
        <3>5. Announced = second /\ Announced' = second
            BY <1>1, <2>3 DEF Announced
        <3>6. QED
            BY <1>1, <2>3, <3>2, <3>3, <3>4, <3>5 DEF TestInv, Unanswered, Authorised,
               TestProtocol!Next, TestProtocol!Conclude, TestProtocol!Judge
    <2>4. QED
        BY <2>1, <2>2, <2>3
<1>5. QED
    BY <1>2, <1>3, <1>4

LEMMA SecondAnswerSafe ==
    ASSUME TestInv, complete_with_generate_ac
    PROVE  TestInv' /\ [TestProtocol!Next]_(TestProtocol!vars)
<1>1. /\ pc = "SecondGenerateAc" /\ first' = first /\ response' = response
      /\ first.type = "ARQC" /\ second = NoAc
      /\ asking \in TestProtocol!Requests(IssuerWord)
    BY DEF complete_with_generate_ac, hostVars, TestInv, Authorised
<1>2. Verdict = "None" /\ IssuerWord' = IssuerWord
    BY <1>1 DEF Verdict, IssuerWord
<1>3. CASE Fail /\ second' = second
    BY <1>1, <1>3, TestErrorFails DEF Fail, TestProtocol!Next
<1>4. ASSUME NEW ac \in Exchange(asking), second' = Answered(ac), outcome' = FinalLabel(ac),
             pc' = "ScriptsAfter"
      PROVE  TestInv' /\ [TestProtocol!Next]_(TestProtocol!vars)
    <2>1. /\ second'.type = ac.type /\ ac.type \in Cid /\ second'.asked = asking
          /\ second' # NoAc
        BY <1>4, TestExchanged DEF NoAc, Cid
    <2>2. outcome' = "Approved" => ac.type = "TC"
        BY <1>4 DEF FinalLabel
    <2>3. /\ Verdict' = "None" /\ Announced = NoAc /\ Announced' = second' /\ NoAc.type = "None"
        BY <1>1, <1>4 DEF Verdict, Announced, NoAc
    <2>4. TestInv'
        BY <1>1, <1>4, <2>1, <2>2 DEF TestInv, Unanswered, Authorised
    <2>5. TestProtocol!GenerateSecond
        BY <1>1, <1>2, <1>4, <2>1, <2>3 DEF TestProtocol!GenerateSecond, TestProtocol!Judge,
           TestProtocol!Cryptogram, Cid
    <2>6. QED
        BY <2>4, <2>5 DEF TestProtocol!Next
<1>5. QED
    BY <1>3, <1>4 DEF complete_with_generate_ac

LEMMA TestStep ==
    ASSUME TestInv, [TestNext]_testVars
    PROVE  TestInv' /\ [TestProtocol!Next]_(TestProtocol!vars)
<1>1. CASE UNCHANGED vars
    BY <1>1 DEF vars, selectionVars, contextVars, acVars, hostVars, TestInv, Verdict, IssuerWord,
                Announced, TestProtocol!vars, TestProtocol!Justified
<1>2. CASE analyse_and_generate_ac
    BY <1>2, FirstAnswerSafe
<1>3. CASE authorise
    BY <1>3, AuthoriseSafe
<1>4. CASE authenticate_issuer \/ scripts_71 \/ scripts_72
    BY <1>4, CompletionSafe
<1>5. CASE complete_with_generate_ac
    BY <1>5, SecondAnswerSafe
<1>6. QED
    BY <1>1, <1>2, <1>3, <1>4, <1>5, PhasesBeforeAc, BeforeAcSafe DEF TestNext, Over, testVars

\* The command line keeps the protocol of cryptograms with every card, terminal
\* and line typed: one second cryptogram, asked for as the issuer's word has it, and
\* no approval without a TC (run, run_online_completion).
THEOREM TestImplementsProtocolAlways == TestSpec => TestImplementsProtocol
<1>1. TestInit => TestInv /\ TestProtocol!Init
    BY DEF TestInit, Init, TestInv, TestProtocol!Init, Unanswered, Authorised, Verdict, IssuerWord,
           Announced, NoAc
<1>2. TestInv /\ [TestNext]_testVars => TestInv' /\ [TestProtocol!Next]_(TestProtocol!vars)
    BY TestStep
<1>3. QED
    BY <1>1, <1>2, PTL DEF TestSpec, TestImplementsProtocol, TestProtocol!Spec

\* Verification looks only at what an answer records.
LEMMA SameVerification ==
    ASSUME NEW ac
    PROVE  SignatureVerified(Answered(ac)) = SignatureVerified(ac)
<1>1. /\ Answered(ac).request = ac.request /\ Answered(ac).type = ac.type
      /\ Answered(ac).genuine = ac.genuine
    BY DEF Answered
<1>2. QED
    BY <1>1 DEF SignatureVerified, CdaVerified, XdaSkipped

LEMMA QuietSteps ==
    ASSUME [TestNext]_testVars, ~analyse_and_generate_ac, ~complete_with_generate_ac
    PROVE  first' = first /\ second' = second
<1>1. CASE UNCHANGED vars
    BY <1>1 DEF vars, acVars
<1>2. CASE authorise
    BY <1>2 DEF authorise
<1>3. CASE authenticate_issuer \/ scripts_71 \/ scripts_72
    BY <1>3 DEF authenticate_issuer, online_card_authentication, scripts_71, scripts_72,
                process_scripts_after
<1>4. QED
    BY <1>1, <1>2, <1>3, PhasesBeforeAc DEF TestNext, Over, testVars, BeforeAc

\* Where the signatures are good the command line and the host-mediated flow
\* announce the same (run's match on the card action, run_online_completion).
THEOREM AgreesWithFlowAlways == TestSpec => AgreesWithFlow
<1> DEFINE Agrees ==
        SignaturesGood /\ ~XdaFailed(tvr') =>
          /\ first' # first =>
                \/ FirstVerdict(first', tvr') = outcome'
                \/ FirstVerdict(first', tvr') = "GoOnline" /\ pc' = "OnlineRequest"
          /\ second' # second =>
                (outcome' = "Approved") = (Completed(second') = "Approved")
<1>1. [TestNext]_testVars => Agrees
    <2> SUFFICES ASSUME [TestNext]_testVars, SignaturesGood, ~XdaFailed(tvr') PROVE Agrees
        OBVIOUS
    <2>1. CASE analyse_and_generate_ac
        <3>1. second' = second
            BY <2>1 DEF analyse_and_generate_ac
        <3>2. ASSUME NEW cryptogram, NEW ac \in Exchange(cryptogram), first' = Answered(ac),
                     IF CardAction(ac) = "GoOnline" THEN Proceed("OnlineRequest")
                     ELSE Finish(CardAction(ac))
              PROVE  \/ FirstVerdict(first', tvr') = outcome'
                     \/ FirstVerdict(first', tvr') = "GoOnline" /\ pc' = "OnlineRequest"
            <4>1. /\ first'.type = ac.type /\ ac.type \in Cid
                  /\ first'.verified = SignatureVerified(ac)
                BY <3>2, TestExchanged
            <4>2. first' # NoAc
                BY <4>1 DEF NoAc, Cid
            <4>3. SignatureVerified(first')
                BY <3>2, <4>1, <4>2, SameVerification DEF SignaturesGood
            <4>4. FirstVerdict(first', tvr') = CardAction(ac)
                BY <4>1, <4>3 DEF FirstVerdict, CardAction, Cid
            <4>5. QED
                BY <3>2, <4>4 DEF Proceed, Finish
        <3>3. QED
            BY <2>1, <3>1, <3>2 DEF analyse_and_generate_ac
    <2>2. CASE complete_with_generate_ac
        <3>1. first' = first
            BY <2>2 DEF complete_with_generate_ac
        <3>2. ASSUME NEW ac \in Exchange(asking), second' = Answered(ac), outcome' = FinalLabel(ac)
              PROVE  (outcome' = "Approved") = (Completed(second') = "Approved")
            <4>1. /\ second'.type = ac.type /\ ac.type \in Cid
                  /\ second'.verified = SignatureVerified(ac)
                BY <3>2, TestExchanged
            <4>2. second' # NoAc
                BY <4>1 DEF NoAc, Cid
            <4>3. SignatureVerified(second')
                BY <3>2, <4>1, <4>2, SameVerification DEF SignaturesGood
            <4>4. Completed(second') = "Approved" <=> ac.type = "TC"
                BY <4>1, <4>3 DEF Completed
            <4>5. FinalLabel(ac) = "Approved" <=> ac.type = "TC"
                BY <4>1 DEF FinalLabel, IsAac, Cid
            <4>6. QED
                BY <3>2, <4>4, <4>5
        <3>3. QED
            BY <2>2, <3>1, <3>2 DEF complete_with_generate_ac
    <2>3. QED
        BY <2>1, <2>2, QuietSteps
<1>2. QED
    BY <1>1, PTL DEF TestSpec, AgreesWithFlow
=============================================================================
