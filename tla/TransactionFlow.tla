--------------------------- MODULE TransactionFlow ---------------------------
(***************************************************************************)
(* The host-mediated contact transaction: contact/transaction_flow.rs over *)
(* the card functions of contact/transaction_driver.rs and the context of  *)
(* contact/transaction.rs.                                                 *)
(*                                                                         *)
(* The host calls an entry point (start, continue_with_application,        *)
(* submit_pin, bypass_pin_entry, submit_authorisation_response or          *)
(* submit_unable_to_go_online); the call drives the card as far as it can  *)
(* and returns the step the host must provide next, a final outcome, or an *)
(* error.  Each action below is a host call or one card function of the    *)
(* flow, taken whole; what the card, the reader, the issuer and the        *)
(* cardholder do is chosen nondeterministically.                           *)
(***************************************************************************)
EXTENDS CvmList, FinalSelection, TerminalActionAnalysis

CONSTANTS
    App,               \* applications (DF names) on the card
    NoApp,             \* no application
    Profile,           \* what an application may be personalised with
    CandidateList,     \* candidate lists discovery may produce
    Terminal,          \* terminals, see TerminalAssumption
    RestrictionResult, \* sets of TVR bits processing restrictions may set
    RiskResult,        \* sets of TVR bits terminal risk management may set
    HostResponse,      \* answers of the issuer as the host submits them
    MaxRetries         \* how often the host calls again after an error

Tag ==
    {"UN", "CVM_LIST", "CDOL1", "CDOL2", "TDOL", "EXPIRATION", "ACTION_CODES",
     "PIN_KEY", "CVM_RESULTS", "ATC", "LAST_ONLINE_ATC", "DAC",
     "ICC_DYNAMIC_NUMBER", "APPLICATION_CRYPTOGRAM", "ARC"}

\* Response codes the kernel stamps itself ('Z1', 'Y3', 'Z3').
KernelArc ==
    {"OFFLINE_DECLINED", "UNABLE_TO_GO_ONLINE_OFFLINE_APPROVED",
     "UNABLE_TO_GO_ONLINE_OFFLINE_DECLINED"}

HostArc == {r.arc : r \in HostResponse}

\* Where an element of the tag store comes from; for '8A' the code itself.
Source == App \cup {"absent", "terminal"} \cup KernelArc \cup HostArc

Arming == {"None", "Armed", "CaMissing", "RecoveryFailed"}
Cid == {"TC", "ARQC", "AAC", "AAC_SERVICE_NOT_ALLOWED", "RFU"}
SignatureRequest == {"None", "Cda", "Xda"}

\* A GENERATE AC exchange: the cryptogram asked for and the signature
\* requested with it, the type the card answered, whether the signature in
\* the answer is genuine, and what verify_generate_ac_signature returned.
GenerateAc ==
    [asked : {"TC", "ARQC", "AAC"}, request : SignatureRequest, type : Cid,
     genuine : BOOLEAN, verified : BOOLEAN]
NoAc == [asked |-> "AAC", request |-> "None", type |-> "None",
         genuine |-> FALSE, verified |-> FALSE]

NoCandidate == [slot |-> 0, app |-> NoApp, prio |-> 0, confirm |-> FALSE]

Positions == {"BeforeFinalGenerateAc", "AfterFinalGenerateAc"}
NoResponse == [arc |-> "None", iad |-> "absent", outcome |-> "Declined", scripts |-> {}]

ASSUME AppAssumption ==
    /\ NoApp \notin App
    /\ App \cap ({"absent", "terminal"} \cup KernelArc \cup HostArc) = {}
    /\ HostArc \cap {"absent", "terminal"} = {}

ASSUME TerminalAssumption ==
    \A t \in Terminal :
        /\ t.oda \subseteq {"SDA", "DDA", "CDA", "XDA"}
        /\ t.capability \in Capability
        /\ {t.tacDenial, t.tacOnline, t.tacDefault} \subseteq ActionCode
        /\ {t.selectionSupported, t.defaultTdol} \subseteq BOOLEAN

ASSUME EnvironmentAssumption ==
    /\ \A p \in Profile :
          /\ p.records \subseteq Tag
          /\ {p.iac.denial, p.iac.online, p.iac.default} \subseteq ActionCode
    /\ \A cands \in CandidateList :
          \A c \in cands : c.app \in App /\ c.confirm \in BOOLEAN /\ c.prio \in 0..15
    /\ \A bits \in RestrictionResult : bits \subseteq RestrictionBit
    /\ \A bits \in RiskResult : bits \subseteq RiskBit
    /\ \A r \in HostResponse :
          /\ r.iad \in {"absent", "8..16", "badLength"}
          /\ r.outcome \in {"Approved", "Declined"}
          /\ r.scripts \subseteq Positions
    /\ MaxRetries \in Nat

VARIABLES
    pc,          \* the card function to run next, or what was returned
    call,        \* the entry point in progress, or the last one
    retries,     \* calls made again after an error
    card,        \* personalisation of every application (never changes)
    terminal,    \* ctx.terminal, its data and settings (never change)
    cands,       \* the candidate list: local to start, then the host's
    chosen,      \* the candidate being attempted
    selected,    \* ctx.selected
    initiated,   \* whose AIP and AFL the context holds
    store,       \* ctx.tag_store
    tvr, tsi,    \* ctx.tvr, ctx.tsi
    cda, xda,    \* ctx.cda, ctx.xda: armed keys
    scripts,     \* ctx.issuer_script_results
    pin,         \* PinEntry of the call
    response,    \* the OnlineAuthorisationResponse of the call
    asking,      \* cryptogram the second GENERATE AC will ask for
    outcome,     \* the final step being returned, "None" before
    first,       \* the first GENERATE AC, as the host holds it
    second,      \* the second GENERATE AC
    eliminated   \* applications eliminated so far (for checking only)

selectionVars == <<cands, chosen, selected, initiated, eliminated>>
contextVars == <<store, tvr, tsi, cda, xda, scripts>>
acVars == <<asking, outcome, first, second>>
config == <<card, terminal>>
hostVars == <<call, retries, config, pin, response>>
vars == <<pc, selectionVars, contextVars, acVars, hostVars>>

HostSteps == {"Idle", "SelectApplication", "CardholderVerification", "OnlineRequest"}
Returned == HostSteps \cup {"Done", "Err"}
Running ==
    {"FinalSelection", "Select", "Initiate", "ReadData", "Oda", "Restrictions",
     "Cvm", "RiskManagement", "FirstGenerateAc", "ExternalAuthenticate",
     "ScriptsBefore", "SecondGenerateAc", "ScriptsAfter"}

Calls ==
    {"None", "start", "continue_with_application", "submit_pin", "bypass_pin_entry",
     "submit_authorisation_response", "submit_unable_to_go_online"}

AllSources == App \cup {NoApp}

TypeOK ==
    /\ pc \in Running \cup Returned
    /\ call \in Calls
    /\ retries \in 0..MaxRetries
    /\ card \in [App -> Profile] /\ terminal \in Terminal
    /\ cands = {} \/ \E l \in CandidateList : cands \subseteq l
    /\ chosen = NoCandidate \/ \E l \in CandidateList : chosen \in l
    /\ selected \in AllSources /\ initiated \in AllSources
    /\ eliminated \subseteq App
    /\ store \in [Tag -> Source]
    /\ tvr \subseteq TvrBit /\ tsi \subseteq TsiBit
    /\ cda \in BOOLEAN /\ xda \in Arming
    /\ scripts \in Seq(Positions \X BOOLEAN)
    /\ pin \in {"NotCollected", "Entered", "Bypassed"}
    /\ response \in HostResponse \cup {NoResponse}
    /\ asking \in {"TC", "AAC"}
    /\ outcome \in {"None", "Approved", "Declined", "Terminated"}
    /\ first \in GenerateAc \cup {NoAc} /\ second \in GenerateAc \cup {NoAc}

Init ==
    /\ pc = "Idle" /\ call = "None" /\ retries = 0
    /\ card \in [App -> Profile] /\ terminal \in Terminal
    /\ cands = {} /\ chosen = NoCandidate
    /\ selected = NoApp /\ initiated = NoApp /\ eliminated = {}
    /\ store = [t \in Tag |-> "absent"]
    /\ tvr = {} /\ tsi = {} /\ cda = FALSE /\ xda = "None" /\ scripts = <<>>
    /\ pin = "NotCollected" /\ response = NoResponse
    /\ asking = "AAC" /\ outcome = "None" /\ first = NoAc /\ second = NoAc
-----------------------------------------------------------------------------
(* The tag store and what is read from it. *)

Present(tags, tag) == tags[tag] # "absent"

\* TagStore::insert_primitive succeeds only for a tag that is not there yet.
Insert(tags, tag, source) == [tags EXCEPT ![tag] = source]
InsertIfAbsent(tags, tag, source) ==
    IF Present(tags, tag) THEN tags ELSE Insert(tags, tag, source)

\* The records of application app, added to the store.
Load(tags, app, read) == [t \in Tag |-> IF t \in read THEN app ELSE tags[t]]

Aip == card[initiated].aip

\* action_codes: the IACs of the store, the TACs of the terminal.
Codes ==
    LET iac == IF Present(store, "ACTION_CODES")
               THEN card[store["ACTION_CODES"]].iac
               ELSE [denial |-> NoCode, online |-> NoCode, default |-> NoCode]
    IN  [iacDenial |-> iac.denial, iacOnline |-> iac.online, iacDefault |-> iac.default,
         tacDenial |-> terminal.tacDenial, tacOnline |-> terminal.tacOnline,
         tacDefault |-> terminal.tacDefault]

CodesMalformed ==
    Present(store, "ACTION_CODES") /\ card[store["ACTION_CODES"]].iac.malformed

DolUsable(tag) == Present(store, tag) /\ card[store[tag]].dol[tag] # "malformed"

\* prepare_tc_hash_for_dol: '98' in the DOL, no TDOL from the card.
TdolBits(tag) ==
    IF card[store[tag]].dol[tag] = "tcHash" /\ ~Present(store, "TDOL") /\ terminal.defaultTdol
    THEN {"default_tdol_used"} ELSE {}

CvmListOf ==
    IF Present(store, "CVM_LIST")
    THEN card[store["CVM_LIST"]].cvm
    ELSE [x |-> 0, y |-> 0, rules |-> <<>>, malformed |-> FALSE]
-----------------------------------------------------------------------------
(* Leaving a call. *)

\* The call returns an error.  What it has changed so far stays changed.
Fail == pc' = "Err" /\ outcome' = "None"

Finish(result) == pc' = "Done" /\ outcome' = result

Proceed(next) == pc' = next /\ UNCHANGED outcome
-----------------------------------------------------------------------------
(* Host calls. *)

\* start: the UN is stamped and the candidate list built.  Discovery only
\* talks to the card; its failures end the call.
start ==
    /\ pc = "Idle"
    /\ call' = "start"
    /\ store' = InsertIfAbsent(store, "UN", "terminal")
    /\ \/ /\ cands' \in CandidateList
          /\ Proceed("FinalSelection")
       \/ /\ Fail
          /\ UNCHANGED cands
    /\ UNCHANGED <<retries, config, chosen, selected, initiated, eliminated, tvr, tsi, cda, xda,
                   scripts, pin, response, asking, first, second>>

continue_with_application ==
    /\ pc = "SelectApplication"
    /\ call' = "continue_with_application"
    /\ chosen' \in cands
    /\ Proceed("Select")
    /\ UNCHANGED <<retries, config, cands, selected, initiated, eliminated, contextVars, pin,
                   response, asking, first, second>>

EnterPin(entry, name) ==
    /\ pc = "CardholderVerification"
    /\ call' = name
    /\ pin' = entry
    /\ Proceed("Cvm")
    /\ UNCHANGED <<retries, config, selectionVars, contextVars, response, asking, first, second>>

submit_pin == EnterPin("Entered", "submit_pin")
bypass_pin_entry == EnterPin("Bypassed", "bypass_pin_entry")

submit_authorisation_response ==
    /\ pc = "OnlineRequest"
    /\ call' = "submit_authorisation_response"
    /\ response' \in HostResponse
    /\ Proceed("ExternalAuthenticate")
    /\ UNCHANGED <<retries, config, selectionVars, contextVars, pin, asking, first, second>>

\* Mutant: the response code is not stamped.
StoreArcForgotten(code) == UNCHANGED store

\* store_authorisation_response_code
StoreArc(code) == store' = InsertIfAbsent(store, "ARC", code)

\* After an XDA failure a TC is final; an ARQC is completed with an AAC.
DeclineAfterXda ==
    IF first.type = "TC" THEN Finish("Declined") ELSE Proceed("SecondGenerateAc")

\* submit_unable_to_go_online: an XDA failure declines; otherwise the default
\* action codes decide what the second GENERATE AC asks for.
submit_unable_to_go_online ==
    /\ pc = "OnlineRequest"
    /\ call' = "submit_unable_to_go_online"
    /\ IF XdaFailed(tvr)
       THEN /\ StoreArc("UNABLE_TO_GO_ONLINE_OFFLINE_DECLINED")
            /\ asking' = "AAC"
            /\ DeclineAfterXda
       ELSE IF CodesMalformed
       THEN Fail /\ UNCHANGED <<store, asking>>
       ELSE LET decision == unable_to_go_online_decision(tvr, Codes)
            IN  /\ asking' = decision
                /\ StoreArc(IF decision = "TC" THEN "UNABLE_TO_GO_ONLINE_OFFLINE_APPROVED"
                            ELSE "UNABLE_TO_GO_ONLINE_OFFLINE_DECLINED")
                /\ Proceed("SecondGenerateAc")
    /\ UNCHANGED <<retries, config, selectionVars, tvr, tsi, cda, xda, scripts, pin, response,
                   first, second>>

\* After an error the host may call again from the step it last held.
StepBefore ==
    CASE call = "start" -> "Idle"
      [] call = "continue_with_application" -> "SelectApplication"
      [] call \in {"submit_pin", "bypass_pin_entry"} -> "CardholderVerification"
      [] OTHER -> "OnlineRequest"

call_again ==
    /\ pc = "Err" /\ retries < MaxRetries
    /\ retries' = retries + 1
    /\ pc' = StepBefore
    /\ UNCHANGED <<call, config, pin, response, selectionVars, contextVars, acVars>>
-----------------------------------------------------------------------------
(* Selecting and initiating an application. *)

\* final_selection, in start's loop.
FinalSelection ==
    /\ pc = "FinalSelection"
    /\ \/ /\ Terminates(cands, terminal.selectionSupported)
          /\ Finish("Terminated")
          /\ UNCHANGED chosen
       \/ \E c \in cands :
             /\ Selects(cands, terminal.selectionSupported, c)
             /\ chosen' = c
             /\ Proceed("Select")
       \/ /\ \/ Offers(cands, terminal.selectionSupported)
             \/ \E c \in cands : Confirms(cands, terminal.selectionSupported, c)
          /\ Proceed("SelectApplication")
          /\ UNCHANGED chosen
    /\ UNCHANGED <<hostVars, cands, selected, initiated, eliminated, contextVars, asking,
                   first, second>>

\* Mutant: the entry stays in start's list.
EliminateNothing ==
    /\ eliminated' = eliminated \cup {chosen.app}
    /\ UNCHANGED cands
    /\ Proceed(IF call = "start" THEN "FinalSelection" ELSE "SelectApplication")

\* Mutant: continue_with_application goes on with the next best entry.
EliminateAndGoOn ==
    /\ eliminated' = eliminated \cup {chosen.app}
    /\ cands' = {c \in cands : c.app # chosen.app}
    /\ Proceed("FinalSelection")

\* ApplicationAttempt::Eliminated: start drops the entry and selects again;
\* continue_with_application drops every entry of that name and asks again.
Eliminate ==
    /\ eliminated' = eliminated \cup {chosen.app}
    /\ IF call = "start"
       THEN /\ cands' = cands \ {chosen}
            /\ Proceed("FinalSelection")
       ELSE /\ cands' = {c \in cands : c.app # chosen.app}
            /\ IF \A c \in cands : c.app = chosen.app
               THEN Finish("Terminated")
               ELSE Proceed("SelectApplication")

\* The final SELECT: accepted, refused or malformed, or the reader fails.
select_application ==
    /\ pc = "Select"
    /\ \/ /\ selected' = chosen.app
          /\ Proceed("Initiate")
          /\ UNCHANGED <<cands, eliminated>>
       \/ Eliminate /\ UNCHANGED selected
       \/ Fail /\ UNCHANGED <<cands, selected, eliminated>>
    /\ UNCHANGED <<hostVars, chosen, initiated, contextVars, asking, first, second>>

\* GET PROCESSING OPTIONS: only '6985' eliminates the application.
initiate ==
    /\ pc = "Initiate"
    /\ \/ /\ initiated' = chosen.app
          /\ Proceed("ReadData")
          /\ UNCHANGED <<cands, eliminated>>
       \/ Eliminate /\ UNCHANGED initiated
       \/ Fail /\ UNCHANGED <<cands, initiated, eliminated>>
    /\ UNCHANGED <<hostVars, chosen, selected, contextVars, asking, first, second>>

\* Mutant: an element read again replaces the one in the store.
AllOf(records) == records

\* What insert_tlv accepts of a card's records.
NotYetStored(records) == {t \in records : ~Present(store, t)}

\* Mutant: a failed record eliminates the application like a failed SELECT.
read_or_eliminate ==
    /\ pc = "ReadData"
    /\ LET records == card[initiated].records
           fresh == NotYetStored(records)
       IN  \/ /\ fresh = records
              /\ store' = Load(store, initiated, records)
              /\ Proceed("Oda")
              /\ UNCHANGED <<cands, eliminated>>
           \/ \E read \in SUBSET fresh :
                 /\ store' = Load(store, initiated, read)
                 /\ Eliminate
    /\ UNCHANGED <<hostVars, chosen, selected, initiated, tvr, tsi, cda, xda, scripts, asking,
                   first, second>>

\* READ RECORD over the AFL.  A refused or lost record, or an element that is
\* already in the store, ends the call with what was read before it kept.
read_application_data ==
    /\ pc = "ReadData"
    /\ LET records == card[initiated].records
           fresh == NotYetStored(records)
       IN  \/ /\ fresh = records
              /\ store' = Load(store, initiated, records)
              /\ Proceed("Oda")
           \/ \E read \in SUBSET fresh :
                 /\ store' = Load(store, initiated, read)
                 /\ Fail
    /\ UNCHANGED <<hostVars, selectionVars, tvr, tsi, cda, xda, scripts, asking, first, second>>
-----------------------------------------------------------------------------
(* Offline data authentication. *)

\* XDA > CDA > DDA > SDA among what card and terminal both support.
OdaMethod ==
    LET common == Aip \cap terminal.oda
    IN  CASE "XDA" \in common -> "XDA"
          [] "XDA" \notin common /\ "CDA" \in common -> "CDA"
          [] common \cap {"XDA", "CDA"} = {} /\ "DDA" \in common -> "DDA"
          [] common \cap {"XDA", "CDA", "DDA"} = {} /\ "SDA" \in common -> "SDA"
          [] OTHER -> "None"

\* SDA and DDA verify at once; either a key or datum is missing, or the
\* verification fails, or what it recovered is stored under tag.
AuthenticateNow(tag, failed, selectedBit) ==
    /\ tsi' = tsi \cup {"offline_data_authentication_was_performed"}
    /\ \/ /\ ~Present(store, tag)
          /\ tvr' = tvr \cup selectedBit
          /\ store' = Insert(store, tag, "terminal")
       \/ \E missing \in {{}, {"icc_data_missing"}} :
             /\ tvr' = tvr \cup selectedBit \cup {failed} \cup missing
             /\ UNCHANGED store
    /\ Proceed("Restrictions")
    /\ UNCHANGED <<cda, xda>>

\* The recovered element is already there, or INTERNAL AUTHENTICATE is lost.
AuthenticateFails(tag, canBeLost, selectedBit) ==
    /\ canBeLost \/ Present(store, tag)
    /\ tvr' = tvr \cup selectedBit
    /\ Fail
    /\ UNCHANGED <<store, tsi, cda, xda>>

perform_sda == AuthenticateNow("DAC", "sda_failed", {"sda_selected"})
                 \/ AuthenticateFails("DAC", FALSE, {"sda_selected"})

perform_dda == AuthenticateNow("ICC_DYNAMIC_NUMBER", "dda_failed", {})
                 \/ AuthenticateFails("ICC_DYNAMIC_NUMBER", TRUE, {})

\* CDA recovers the ICC key now and verifies with each GENERATE AC.
perform_cda_arm ==
    /\ \/ cda' = TRUE /\ UNCHANGED tvr
       \/ \E missing \in {{}, {"icc_data_missing"}} :
             tvr' = tvr \cup {"cda_failed"} \cup missing /\ UNCHANGED cda
    /\ Proceed("Restrictions")
    /\ UNCHANGED <<store, tsi, xda>>

\* Mutant: the failure bits are set when the keys are recovered.
perform_xda_arm_at_once ==
    /\ xda' \in Arming \ {"None"}
    /\ tvr' = tvr \cup {"xda_selected"}
                \cup (CASE xda' = "CaMissing" -> {"ca_ecc_key_missing"}
                        [] xda' = "RecoveryFailed" -> {"ecc_key_recovery_failed"}
                        [] OTHER -> {})
    /\ Proceed("Restrictions")
    /\ UNCHANGED <<store, tsi, cda>>

\* XDA too, but its failure bits are not set before the first GENERATE AC.
perform_xda_arm ==
    /\ \/ xda' \in Arming \ {"None"} /\ tvr' = tvr \cup {"xda_selected"}
       \/ xda' = "RecoveryFailed" /\ tvr' = tvr \cup {"xda_selected", "icc_data_missing"}
    /\ Proceed("Restrictions")
    /\ UNCHANGED <<store, tsi, cda>>

perform_offline_data_authentication ==
    /\ pc = "Oda"
    /\ \/ /\ OdaMethod = "None"
          /\ tvr' = tvr \cup {"offline_data_authentication_was_not_performed"}
          /\ Proceed("Restrictions")
          /\ UNCHANGED <<store, tsi, cda, xda>>
       \/ OdaMethod = "SDA" /\ perform_sda
       \/ OdaMethod = "DDA" /\ perform_dda
       \/ OdaMethod = "CDA" /\ perform_cda_arm
       \/ OdaMethod = "XDA" /\ perform_xda_arm
    /\ UNCHANGED <<hostVars, selectionVars, scripts, asking, first, second>>

\* Processing restrictions; the expiration date is mandatory (and stands here
\* for every element whose length is checked).
process_restrictions ==
    /\ pc = "Restrictions"
    /\ \/ /\ Present(store, "EXPIRATION")
          /\ \E found \in RestrictionResult : tvr' = tvr \cup found
          /\ Proceed("Cvm")
       \/ ~Present(store, "EXPIRATION") /\ Fail /\ UNCHANGED tvr
    /\ pin' = "NotCollected"
    /\ UNCHANGED <<call, retries, config, response, selectionVars, store, tsi, cda, xda, scripts,
                   asking, first, second>>
-----------------------------------------------------------------------------
(* Cardholder verification. *)

PinMethod == OfflinePinMethod \cup {"OnlinePin"}

\* What the closure of run_cardholder_verification may return for a method,
\* given the PIN entry and whether a PIN encipherment key was recovered.
Answers(method, keyed) ==
    CASE method = "NoCvm" -> {"Successful"}
      [] method = "Signature" -> {"Unknown"}
      [] method \in PinMethod /\ pin = "Bypassed" -> {"PinEntryBypassed"}
      [] method \in PinMethod /\ pin = "NotCollected" -> {"Failed"}
      [] method = "OnlinePin" /\ pin = "Entered" -> {"Successful"}
      [] method \in OfflinePinMethod /\ pin = "Entered"
           -> IF method \in EncipheredOfflineMethod /\ ~keyed
              THEN {"Failed"}
              ELSE {"Successful", "Failed", "PinTryLimitExceeded", "PinPadNotWorkingOrAbsent"}
      [] OTHER -> {"PinPadNotWorkingOrAbsent"}

CvmContext == terminal.cvm

\* Rules performed whose PIN has not been collected; rules that sent VERIFY.
Demanding(list, answers, keyed) ==
    {r \in Performed(list, CvmContext, answers) :
        /\ pin = "NotCollected"
        /\ list.rules[r].method \in PinMethod
        /\ list.rules[r].method \in EncipheredOfflineMethod => keyed}

Verifying(list, answers, keyed) ==
    {r \in Performed(list, CvmContext, answers) :
        /\ pin = "Entered" /\ answers[r] = "Failed"
        /\ list.rules[r].method \in OfflinePinMethod
        /\ list.rules[r].method \in EncipheredOfflineMethod => keyed}

\* recover_pin_encipherment_public_key: the card's own PIN key when it has
\* one, which may fail to be recovered, else the key armed for CDA.
PinKey == IF Present(store, "PIN_KEY") THEN BOOLEAN ELSE {cda}

\* The list has been run: '9F34' is stored, which must not be there yet; then
\* a lost VERIFY is an error, a demanded PIN rolls everything back, and
\* otherwise the TVR and TSI are those of the list.
Conclude(list, answers, keyed, lost) ==
    IF Present(store, "CVM_RESULTS")
    THEN Fail /\ UNCHANGED <<store, tvr, tsi>>
    ELSE IF ~lost /\ Demanding(list, answers, keyed) # {}
    THEN Proceed("CardholderVerification") /\ UNCHANGED <<store, tvr, tsi>>
    ELSE /\ store' = Insert(store, "CVM_RESULTS", "terminal")
         /\ tvr' = tvr \cup CvmTvr(list, CvmContext, answers)
         /\ tsi' = tsi \cup (IF list.rules = <<>> THEN {}
                             ELSE {"cardholder_verification_was_performed"})
         /\ IF lost THEN Fail ELSE Proceed("RiskManagement")

\* The card does not support cardholder verification: NO_CVM_PERFORMED.
NoCvmPerformed ==
    /\ store' = InsertIfAbsent(store, "CVM_RESULTS", "terminal")
    /\ Proceed("RiskManagement")
    /\ UNCHANGED <<tvr, tsi>>

run_cardholder_verification ==
    /\ pc = "Cvm"
    /\ IF "CV" \notin Aip
       THEN NoCvmPerformed
       ELSE IF CvmListOf.malformed
       THEN Fail /\ UNCHANGED <<store, tvr, tsi>>
       ELSE \E keyed \in PinKey :
            \E answers \in [DOMAIN CvmListOf.rules -> PerformResult] :
            \E lost \in BOOLEAN :
               /\ \A r \in DOMAIN answers :
                     answers[r] \in Answers(CvmListOf.rules[r].method, keyed)
               /\ lost => Verifying(CvmListOf, answers, keyed) # {}
               /\ Conclude(CvmListOf, answers, keyed, lost)
    /\ UNCHANGED <<hostVars, selectionVars, cda, xda, scripts, asking, first, second>>
-----------------------------------------------------------------------------
(* Terminal risk management: GET DATA for the ATC and the last online ATC,  *)
(* both stored when the card answers, then the checks.                      *)

GetDataFails(tags, tag, answer) ==
    answer \in {"wrong tag", "lost"} \/ (answer = "value" /\ Present(tags, tag))

GetData(tags, tag, answer) ==
    IF answer = "value" THEN Insert(tags, tag, "terminal") ELSE tags

GetDataAnswer == {"value", "refused", "wrong tag", "lost"}

run_terminal_risk_management ==
    /\ pc = "RiskManagement"
    /\ \E atc, last \in GetDataAnswer :
          LET withAtc == GetData(store, "ATC", atc)
          IN  \/ /\ GetDataFails(store, "ATC", atc)
                 /\ Fail /\ UNCHANGED <<store, tvr, tsi>>
              \/ /\ ~GetDataFails(store, "ATC", atc)
                 /\ GetDataFails(withAtc, "LAST_ONLINE_ATC", last)
                 /\ store' = withAtc
                 /\ Fail /\ UNCHANGED <<tvr, tsi>>
              \/ /\ ~GetDataFails(store, "ATC", atc)
                 /\ ~GetDataFails(withAtc, "LAST_ONLINE_ATC", last)
                 /\ store' = GetData(withAtc, "LAST_ONLINE_ATC", last)
                 /\ \/ Fail /\ UNCHANGED <<tvr, tsi>> \* random selection misconfigured
                    \/ /\ \E found \in RiskResult : tvr' = tvr \cup found
                       /\ tsi' = tsi \cup {"terminal_risk_management_was_performed"}
                       /\ Proceed("FirstGenerateAc")
    /\ UNCHANGED <<hostVars, selectionVars, cda, xda, scripts, asking, first, second>>
-----------------------------------------------------------------------------
(* GENERATE AC and its dynamic signature. *)

signature_request(cryptogram) ==
    IF xda # "None" THEN "Xda"
    ELSE IF cda /\ cryptogram \in {"TC", "ARQC"} THEN "Cda"
    ELSE "None"

IsAac(type) == type \in {"AAC", "AAC_SERVICE_NOT_ALLOWED"}

\* The card may answer any type, also a higher one than it was asked for.
Exchange(cryptogram) ==
    {ac \in [asked : {cryptogram}, request : {signature_request(cryptogram)},
             type : Cid, genuine : BOOLEAN] :
        ac.request = "None" \/ IsAac(ac.type) => ~ac.genuine}

\* verify_generate_ac_signature: whether it returns true, and the context it
\* leaves.  A genuine CDA signature is followed by two insertions, and an
\* element already in the store makes the verification fail; the same failure
\* is ignored for XDA.
CdaVerified(ac) ==
    ac.genuine /\ ~Present(store, "ICC_DYNAMIC_NUMBER")
      /\ ~Present(store, "APPLICATION_CRYPTOGRAM")

XdaSkipped(ac) ==
    xda # "Armed" \/ IsAac(ac.type) \/ "xda_signature_verification_failed" \in tvr

SignatureVerified(ac) ==
    CASE ac.request = "Cda" -> IsAac(ac.type) \/ CdaVerified(ac)
      [] ac.request = "Xda" -> XdaSkipped(ac) \/ ac.genuine
      [] OTHER -> TRUE

SignatureTvr(ac) ==
    CASE ac.request = "Cda" /\ ~IsAac(ac.type) /\ ~ac.genuine -> {"cda_failed"}
      [] ac.request = "Xda" /\ xda = "CaMissing" -> {"ca_ecc_key_missing"}
      [] ac.request = "Xda" /\ xda = "RecoveryFailed" -> {"ecc_key_recovery_failed"}
      [] ac.request = "Xda" /\ ~XdaSkipped(ac) /\ ~ac.genuine
           -> {"xda_signature_verification_failed"}
      [] OTHER -> {}

SignatureStore(ac) ==
    CASE ac.request = "Cda" /\ ac.genuine /\ ~Present(store, "ICC_DYNAMIC_NUMBER")
           -> InsertIfAbsent(Insert(store, "ICC_DYNAMIC_NUMBER", "terminal"),
                             "APPLICATION_CRYPTOGRAM", "terminal")
      [] ac.request = "Xda" /\ ~XdaSkipped(ac) /\ ac.genuine
           -> InsertIfAbsent(store, "APPLICATION_CRYPTOGRAM", "terminal")
      [] OTHER -> store

SignatureTsi(ac) ==
    IF \/ ac.request = "Cda" /\ CdaVerified(ac)
       \/ /\ ac.request = "Xda" /\ ~XdaSkipped(ac) /\ ac.genuine
          /\ ~Present(store, "APPLICATION_CRYPTOGRAM")
    THEN {"offline_data_authentication_was_performed"} ELSE {}

Answered(ac) ==
    [asked |-> ac.asked, request |-> ac.request, type |-> ac.type,
     genuine |-> ac.genuine, verified |-> SignatureVerified(ac)]

\* Mutant: card action analysis alone, whatever the signatures.
CardActionOnly(ac, bits) ==
    CASE ac.type = "TC" -> "Approved"
      [] ac.type = "ARQC" -> "GoOnline"
      [] ac.type = "AAC" -> "Declined"
      [] OTHER -> "Terminated"

\* What the flow does with the first answer, bits being the TVR after it:
\* Book 4 6.3.2.2.4 for an XDA failure, card action analysis otherwise.
FirstVerdict(ac, bits) ==
    LET xdaFailure == ac.request = "Xda" /\ XdaFailed(bits)
    IN  CASE xdaFailure /\ ac.type = "TC"
               -> IF denial_decision(bits, Codes) THEN "Declined" ELSE "GoOnline"
          [] xdaFailure /\ ac.type = "ARQC"
               -> IF denial_decision(bits, Codes) THEN "Complete" ELSE "GoOnline"
          [] ~xdaFailure /\ ac.type = "TC"
               -> IF SignatureVerified(ac) THEN "Approved" ELSE "Declined"
          [] ~xdaFailure /\ ac.type = "ARQC"
               -> IF SignatureVerified(ac) THEN "GoOnline" ELSE "Complete"
          [] ac.type = "AAC" -> "Declined"
          [] OTHER -> "Terminated"

\* Terminal action analysis, the first GENERATE AC, the verification of its
\* signature and card action analysis.
first_generate_ac ==
    /\ pc = "FirstGenerateAc"
    /\ \/ /\ CodesMalformed \/ ~DolUsable("CDOL1")
          /\ Fail /\ UNCHANGED <<store, tvr, tsi, asking, first>>
       \/ /\ ~CodesMalformed /\ DolUsable("CDOL1")
          /\ tvr' = tvr \cup TdolBits("CDOL1")
          /\ Fail /\ UNCHANGED <<store, tsi, asking, first>>
       \/ /\ ~CodesMalformed /\ DolUsable("CDOL1")
          /\ \E ac \in Exchange(first_generate_ac_decision(tvr, Codes, terminal.capability)) :
                LET bits    == tvr \cup TdolBits("CDOL1") \cup SignatureTvr(ac)
                    verdict == FirstVerdict(ac, bits)
                IN  /\ tvr' = bits
                    /\ tsi' = tsi \cup SignatureTsi(ac) \cup {"card_risk_management_was_performed"}
                    /\ first' = Answered(ac)
                    /\ asking' = "AAC"
                    /\ store' = IF verdict = "Complete"
                                THEN InsertIfAbsent(SignatureStore(ac), "ARC", "OFFLINE_DECLINED")
                                ELSE SignatureStore(ac)
                    /\ CASE verdict = "GoOnline" -> Proceed("OnlineRequest")
                         [] verdict = "Complete" -> Proceed("SecondGenerateAc")
                         [] OTHER -> Finish(verdict)
    /\ UNCHANGED <<hostVars, selectionVars, cda, xda, scripts, second>>

\* Mutant: the signature of the second cryptogram is not looked at.
CompletedUnverified(ac) == IF ac.type = "TC" THEN "Approved" ELSE "Declined"

\* complete_with_second_generate_ac: a TC whose signature verified approves,
\* whatever was asked for; every other answer declines.
Completed(ac) == IF ac.type = "TC" /\ SignatureVerified(ac) THEN "Approved" ELSE "Declined"

second_generate_ac ==
    /\ pc = "SecondGenerateAc"
    /\ \/ /\ ~DolUsable("CDOL2")
          /\ Fail /\ UNCHANGED <<store, tvr, tsi, second>>
       \/ /\ DolUsable("CDOL2")
          /\ tvr' = tvr \cup TdolBits("CDOL2")
          /\ Fail /\ UNCHANGED <<store, tsi, second>>
       \/ /\ DolUsable("CDOL2")
          /\ \E ac \in Exchange(asking) :
                /\ tvr' = tvr \cup TdolBits("CDOL2") \cup SignatureTvr(ac)
                /\ tsi' = tsi \cup SignatureTsi(ac)
                /\ store' = SignatureStore(ac)
                /\ second' = Answered(ac)
                /\ outcome' = Completed(ac)
                /\ pc' = IF call = "submit_authorisation_response" THEN "ScriptsAfter" ELSE "Done"
    /\ UNCHANGED <<hostVars, selectionVars, cda, xda, scripts, asking, first>>
-----------------------------------------------------------------------------
(* Online processing. *)

\* online_card_authentication: EXTERNAL AUTHENTICATE when the issuer sent
\* authentication data and the card supports it.
online_card_authentication ==
    /\ pc = "ExternalAuthenticate"
    /\ \/ /\ response.iad = "absent" \/ "IA" \notin Aip
          /\ Proceed("ScriptsBefore")
          /\ UNCHANGED <<tvr, tsi>>
       \/ /\ response.iad = "8..16" /\ "IA" \in Aip
          /\ tsi' = tsi \cup {"issuer_authentication_was_performed"}
          /\ \E failed \in {{}, {"issuer_authentication_failed"}} : tvr' = tvr \cup failed
          /\ Proceed("ScriptsBefore")
       \/ /\ response.iad # "absent" /\ "IA" \in Aip \* bad length, or lost
          /\ Fail /\ UNCHANGED <<tvr, tsi>>
    /\ UNCHANGED <<hostVars, selectionVars, store, cda, xda, scripts, asking, first, second>>

\* Mutant: the failure goes to a bit of the other register.
ScriptFailureMisplaced(position) == "script_processing_was_performed"

ScriptFailureBit(position) ==
    IF position = "BeforeFinalGenerateAc"
    THEN "script_processing_failed_before_final_generate_ac"
    ELSE "script_processing_failed_after_final_generate_ac"

\* process_issuer_scripts, one script per position: it succeeds or fails, or
\* the reader fails and everything the scripts did is forgotten.
ProcessScripts(position) ==
    IF position \in response.scripts
    THEN \E ok \in BOOLEAN :
            /\ scripts' = Append(scripts, <<position, ok>>)
            /\ tvr' = tvr \cup (IF ok THEN {} ELSE {ScriptFailureBit(position)})
            /\ tsi' = tsi \cup {"script_processing_was_performed"}
    ELSE UNCHANGED <<scripts, tvr, tsi>>

ScriptsLost(position) ==
    position \in response.scripts /\ Fail /\ UNCHANGED <<store, tvr, tsi, scripts, asking>>

\* Mutant: the card is asked to approve whatever the issuer said.
AlwaysTc(result) == "TC"

second_generate_ac_after_online(result) == IF result = "Approved" THEN "TC" ELSE "AAC"

\* Scripts '71', then the response code, then the final cryptogram.
process_scripts_before ==
    /\ pc = "ScriptsBefore"
    /\ \/ /\ ProcessScripts("BeforeFinalGenerateAc")
          /\ StoreArc(response.arc)
          /\ IF first.type = "TC"
             THEN /\ pc' = "ScriptsAfter"
                  /\ outcome' = response.outcome
                  /\ UNCHANGED asking
             ELSE /\ asking' = second_generate_ac_after_online(response.outcome)
                  /\ Proceed("SecondGenerateAc")
       \/ ScriptsLost("BeforeFinalGenerateAc")
    /\ UNCHANGED <<hostVars, selectionVars, cda, xda, first, second>>

\* Scripts '72', and the outcome is returned.
process_scripts_after ==
    /\ pc = "ScriptsAfter"
    /\ \/ ProcessScripts("AfterFinalGenerateAc") /\ Finish(outcome) /\ UNCHANGED <<store, asking>>
       \/ ScriptsLost("AfterFinalGenerateAc")
    /\ UNCHANGED <<hostVars, selectionVars, cda, xda, first, second>>
-----------------------------------------------------------------------------
HostCall ==
    \/ start \/ continue_with_application \/ submit_pin \/ bypass_pin_entry
    \/ submit_authorisation_response \/ submit_unable_to_go_online

Kernel ==
    \/ FinalSelection \/ select_application \/ initiate \/ read_application_data
    \/ perform_offline_data_authentication \/ process_restrictions
    \/ run_cardholder_verification \/ run_terminal_risk_management
    \/ first_generate_ac \/ second_generate_ac
    \/ online_card_authentication \/ process_scripts_before \/ process_scripts_after

\* The host has its outcome, or gives up after an error.
Over == pc \in {"Done", "Err"} /\ UNCHANGED vars

Next == HostCall \/ call_again \/ Kernel \/ Over

\* A call that has begun runs on: every exchange with the card returns, with
\* an answer or with an error of the reader.  The host need not call again.
Spec == Init /\ [][Next]_vars /\ WF_vars(Kernel)
-----------------------------------------------------------------------------
(* Properties *)

Last == IF second = NoAc THEN first ELSE second
CompletedOffline == pc = "Done" /\ call # "submit_authorisation_response"

\* Approval rests on a TC of the card that is the transaction's last
\* cryptogram and whose signature, if one was requested, was found good, or
\* on the issuer's approval after an XDA failure (first_generate_ac's match
\* and complete_with_second_generate_ac).
ApprovalRestsOnTc ==
    (pc = "Done" /\ outcome = "Approved") =>
        /\ Last.type = "TC"
        /\ Last.verified \/ response.outcome = "Approved"
        /\ Last.request = "Cda" => Last.genuine

\* A card is asked for a second cryptogram only after an ARQC: a first TC or
\* AAC is final, also when XDA failed and the issuer is asked about a TC.
SecondFollowsArqc == (second # NoAc \/ pc = "SecondGenerateAc") => first.type = "ARQC"

\* After an XDA failure the kernel asks for no approval unless an issuer that
\* answered gave it: without one, neither the first TC nor the default action
\* codes approve, and only a card that answers a TC to the AAC it is asked for
\* is approved (see XdaFailureDeclines).
XdaFailureNeedsIssuer ==
    (CompletedOffline /\ outcome = "Approved" /\ XdaFailed(tvr)) =>
        second.asked = "AAC" /\ second.type = "TC"

\* A cryptogram whose CDA signature is bad is never taken to the issuer.
BadCdaStaysOffline ==
    (first.request = "Cda" /\ ~first.verified) => pc # "OnlineRequest" /\ call # "submit_authorisation_response"

\* The bits of an XDA arming failure appear only with the first cryptogram, so
\* terminal action analysis never sees them (perform_xda_arm).
XdaBitsDeferred == XdaFailed(tvr) => first # NoAc

\* An XDA failure found while the card is authenticated has no part in the
\* first decision, and from the first cryptogram on it does not go away: the
\* issuer's word apart, the card is then asked to decline
\* (perform_xda_arm, xda_failure_denial_decision).
XdaFailureIsHonoured == XdaBitsDeferred /\ XdaFailureNeedsIssuer

\* The response code of what happened: the issuer's answer, or the kernel's own
\* code for the decision it took.
DecidedArc ==
    CASE call = "submit_authorisation_response" -> response.arc
      [] call = "submit_unable_to_go_online" ->
           IF asking = "TC" THEN "UNABLE_TO_GO_ONLINE_OFFLINE_APPROVED"
           ELSE "UNABLE_TO_GO_ONLINE_OFFLINE_DECLINED"
      [] OTHER -> "OFFLINE_DECLINED"

\* The response code in the store when the final cryptogram is asked for is
\* the one of what happened, unless a record of the application brought an '8A'
\* of its own: the card's stays (store_authorisation_response_code).  A host
\* that calls again after an error keeps the code of its first call.
ArcMatchesDecision ==
    (second # NoAc /\ retries = 0) =>
        store["ARC"] = IF "ARC" \in card[initiated].records THEN initiated ELSE DecidedArc

\* The flow is an AcProtocol: what the host learns of the issuer is the call it
\* makes, a verdict is a final step, and an error loses what the call learnt.
Issuer ==
    CASE call = "submit_authorisation_response" -> response.outcome
      [] call = "submit_unable_to_go_online" -> "Unreachable"
      [] OTHER -> "Silent"

Completion == IF pc \in {"ScriptsAfter", "Done"} THEN second ELSE NoAc

Protocol == INSTANCE AcProtocol WITH
    first <- first.type, second <- Completion.type,
    asked <- IF Completion = NoAc THEN "None" ELSE Completion.asked,
    issuer <- IF pc \in {"OnlineRequest", "Err"} THEN "Silent" ELSE Issuer,
    failed <- retries > 0 \/ pc = "Err",
    verdict <- IF pc = "Done" THEN outcome ELSE "None"

\* However the card answers and however often the host calls again, the
\* cryptograms, what is asked of the card, the issuer's word and the verdict are
\* those of the abstract protocol: one first cryptogram, none after it without
\* an ARQC, a TC asked for only with the issuer's approval or where it cannot be
\* reached, and no approval without a TC of the card.
ImplementsProtocol == Protocol!Spec

\* Every element read from a card belongs to the application the transaction
\* is conducted with; an eliminated application leaves nothing behind (a host
\* that starts again after an error brings its own context along).
NoForeignData ==
    retries = 0 => \A t \in Tag : store[t] \in App => store[t] = initiated /\ initiated = selected
                                       /\ store[t] \notin eliminated

\* A cardholder-chosen application is never replaced by another without the
\* cardholder (continue_with_application).
ChoiceIsTheCardholders ==
    [][call = "continue_with_application" /\ pc \in Running => chosen' = chosen]_vars

\* The first cryptogram is asked for once per transaction, even by a host that
\* calls again after errors: the store refuses to be filled twice.
FirstAcOnce == [][first # NoAc => first' = first]_vars

\* Every call comes back to the host, however the card answers and however
\* many applications are eliminated on the way.
CallReturns == (pc \in Running) ~> (pc \in Returned)
-----------------------------------------------------------------------------
(* What comments and documents say, against what the code does. *)

\* "Returns false when the dynamic signature failed verification (TVR bits are
\* set by the driver)": a CDA signature found bad leaves its mark in the TVR
\* (verify_generate_ac_signature).
CdaFailureIsRecorded ==
    \A ac \in {first, second} :
        ac.request = "Cda" /\ ~ac.verified => "cda_failed" \in tvr

\* "After an XDA failure the transaction declines" when the host cannot go
\* online (submit_unable_to_go_online), any higher cryptogram than requested
\* being treated as an AAC (complete_with_second_generate_ac).
XdaFailureDeclines ==
    (pc = "Done" /\ call = "submit_unable_to_go_online" /\ XdaFailed(tvr)) =>
        outcome = "Declined"
=============================================================================
