--------------------------- MODULE TestTransaction ---------------------------
(***************************************************************************)
(* The command line terminal, src/bin/test_transaction.rs: one contact     *)
(* transaction with the card in the first reader, driven straight through  *)
(* the card functions of contact/transaction_driver.rs.  It is a second    *)
(* composition of the functions TransactionFlow is made of: where the two  *)
(* call the same function with the same treatment of its result the action *)
(* is TransactionFlow's, where the command line does otherwise the action  *)
(* is here.  The person at the keyboard enters PINs and plays the issuer.  *)
(***************************************************************************)
EXTENDS TransactionFlow

CONSTANTS
    Invocation,  \* command lines and the files they find, see InvocationAssumption
    Installed,   \* the terminal that the files of each place describe
    TwoHexDigits,\* response codes that are also a byte in hexadecimal
    Typed        \* what may be typed as the issuer's answer

File == {"terminal.toml", "aids.toml", "capk.toml", "crl.toml"}
Mandatory == {"terminal.toml", "aids.toml"}

\* The path of a flag, EMV_CONFIG_DIR, the working and the crate's directory.
Place == {"flag", "EMV_CONFIG_DIR", "cwd", "crate"}

\* aid: the application of --aid; flags: the files given by flag; found: where
\* each file exists; listed: the applications aids.toml has an entry for.
ASSUME InvocationAssumption ==
    /\ \A i \in Invocation :
          /\ i.aid \in App \cup {NoApp} /\ i.listed \subseteq App
          /\ i.flags \subseteq File /\ i.found \in [File -> SUBSET Place]
    /\ Installed \in [Place -> Terminal]

VARIABLES
    args,  \* the command line, with the files it finds
    keys   \* whether a CAPK file was loaded

runVars == <<args, keys>>
testVars == <<vars, runVars>>

Unasked == [aid |-> NoApp, flags |-> {}, found |-> [f \in File |-> {}], listed |-> {}]

TestInit == Init /\ args = Unasked /\ keys = FALSE
-----------------------------------------------------------------------------
(* Before the card. *)

\* parse_args: a command line, or the usage text.
parse_args ==
    /\ pc = "Idle"
    /\ \/ args' \in Invocation /\ Proceed("Configuration")
       \/ Fail /\ UNCHANGED args
    /\ UNCHANGED <<selectionVars, contextVars, asking, first, second, hostVars, keys>>

\* resolve_config and resolve_optional_config: the place a file is taken from.
\* A flag is not replaced by another place when its path does not exist.
resolve_config(file) ==
    LET at == args.found[file]
    IN  CASE file \in args.flags /\ "flag" \in at -> "flag"
          [] file \in args.flags /\ "flag" \notin at -> "not found"
          [] file \notin args.flags /\ "EMV_CONFIG_DIR" \in at -> "EMV_CONFIG_DIR"
          [] file \notin args.flags /\ "EMV_CONFIG_DIR" \notin at /\ "cwd" \in at -> "cwd"
          [] file \notin args.flags /\ at \cap {"EMV_CONFIG_DIR", "cwd"} = {} /\ "crate" \in at
               -> "crate"
          [] OTHER -> "nowhere"

\* An optional file may be nowhere; no file may be missing where a flag puts it.
Resolved ==
    \A file \in File :
        resolve_config(file) \in Place \cup (IF file \in Mandatory THEN {} ELSE {"nowhere"})

\* assemble_terminal takes the terminal from one file and the action codes and
\* TDOL from the other; an application of --aid that the file lacks gets an
\* entry that never denies and always goes online.
Assembled ==
    LET hardware == Installed[resolve_config("terminal.toml")]
        entry    == Installed[resolve_config("aids.toml")]
    IN  IF args.aid = NoApp \/ args.aid \in args.listed
        THEN [hardware EXCEPT !.tacDenial = entry.tacDenial, !.tacOnline = entry.tacOnline,
                              !.tacDefault = entry.tacDefault, !.defaultTdol = entry.defaultTdol]
        ELSE [hardware EXCEPT !.tacDenial = {}, !.tacOnline = TvrBit,
                              !.tacDefault = {}, !.defaultTdol = FALSE]

load_configuration ==
    /\ pc = "Configuration"
    /\ \/ /\ Resolved
          /\ terminal' = Assembled
          /\ keys' = (resolve_config("capk.toml") # "nowhere")
          /\ Proceed("Connect")
       \/ Fail /\ UNCHANGED <<terminal, keys>> \* not resolved, or a file does not load
    /\ UNCHANGED <<selectionVars, contextVars, asking, first, second, call, retries, card, pin,
                   response, args>>

\* The first reader and its card.  --aid skips discovery; an empty candidate
\* list is an error.
connect ==
    /\ pc = "Connect"
    /\ \/ /\ args.aid # NoApp
          /\ chosen' = [NoCandidate EXCEPT !.app = args.aid]
          /\ Proceed("Select")
          /\ UNCHANGED cands
       \/ /\ args.aid = NoApp
          /\ cands' \in CandidateList \ {{}}
          /\ Proceed("FinalSelection")
          /\ UNCHANGED chosen
       \/ Fail /\ UNCHANGED <<cands, chosen>>
    /\ UNCHANGED <<hostVars, selected, initiated, eliminated, contextVars, asking, first, second,
                   runVars>>
-----------------------------------------------------------------------------
(* Phases 1 to 3: one application is tried, and any failure ends the run. *)

\* final_selection without cardholder selection.
choose_application ==
    /\ pc = "FinalSelection"
    /\ \/ Terminates(cands, FALSE) /\ Fail /\ UNCHANGED chosen
       \/ \E c \in cands : Selects(cands, FALSE, c) /\ chosen' = c /\ Proceed("Select")
    /\ UNCHANGED <<hostVars, cands, selected, initiated, eliminated, contextVars, asking, first,
                   second, runVars>>

select_chosen ==
    /\ pc = "Select"
    /\ \/ selected' = chosen.app /\ Proceed("Initiate")
       \/ Fail /\ UNCHANGED selected
    /\ UNCHANGED <<hostVars, cands, chosen, initiated, eliminated, contextVars, asking, first,
                   second, runVars>>

get_processing_options ==
    /\ pc = "Initiate"
    /\ \/ initiated' = chosen.app /\ Proceed("ReadData")
       \/ Fail /\ UNCHANGED initiated
    /\ UNCHANGED <<hostVars, cands, chosen, selected, eliminated, contextVars, asking, first,
                   second, runVars>>

\* Without a CAPK nothing is recovered: no key is armed and the card is not
\* asked to sign.
authenticate_data ==
    /\ perform_offline_data_authentication
    /\ ~keys => ~cda' /\ xda' # "Armed" /\ store' = store /\ pc' # "Err"
    /\ UNCHANGED runVars
-----------------------------------------------------------------------------
(* Phase 3.55: cardholder verification, whatever the AIP says.  PINs are read *)
(* as the rules come up; a lost VERIFY is reported and counts as failed.      *)

KeyboardAnswers(method, keyed) ==
    CASE method = "NoCvm" -> {"Successful"}
      [] method = "Signature" -> {"Unknown"}
      [] method = "OnlinePin" -> {"Successful", "PinEntryBypassed"}
      [] method \in EncipheredOfflineMethod /\ ~keyed -> {"PinPadNotWorkingOrAbsent"}
      [] method \in OfflinePinMethod /\ (method \in EncipheredOfflineMethod => keyed)
           -> {"Successful", "Failed", "PinTryLimitExceeded", "PinPadNotWorkingOrAbsent",
               "PinEntryBypassed"}
      [] OTHER -> {"PinPadNotWorkingOrAbsent"}

CvmFlags == [terminal.cvm EXCEPT !.appCurrency = TRUE, !.unattendedCash = FALSE,
                                 !.manualCash = FALSE, !.cashback = FALSE]

verify_cardholder ==
    /\ pc = "Cvm"
    /\ IF CvmListOf.malformed \/ Present(store, "CVM_RESULTS")
       THEN Fail /\ UNCHANGED <<store, tvr, tsi>>
       ELSE \E keyed \in PinKey :
            \E answers \in [DOMAIN CvmListOf.rules -> PerformResult] :
               /\ keyed => keys
               /\ \A r \in DOMAIN answers :
                     answers[r] \in KeyboardAnswers(CvmListOf.rules[r].method, keyed)
               /\ store' = Insert(store, "CVM_RESULTS", "terminal")
               /\ tvr' = tvr \cup CvmTvr(CvmListOf, CvmFlags, answers)
               /\ tsi' = tsi \cup (IF CvmListOf.rules = <<>> THEN {}
                                   ELSE {"cardholder_verification_was_performed"})
               /\ Proceed("RiskManagement")
    /\ UNCHANGED <<hostVars, selectionVars, cda, xda, scripts, asking, first, second, runVars>>
-----------------------------------------------------------------------------
(* Phase 4: the first GENERATE AC.  What its signature shows is printed and  *)
(* recorded in the context; card action analysis alone decides.  The TC hash *)
(* is not prepared.                                                          *)

\* Mutant: the reason code of an AAC is not looked at.
ReasonIgnored(ac) ==
    CASE ac.type = "TC" -> "Approved"
      [] ac.type = "ARQC" -> "GoOnline"
      [] IsAac(ac.type) -> "Declined"
      [] OTHER -> "Terminated"

CardAction(ac) ==
    CASE ac.type = "TC" -> "Approved"
      [] ac.type = "ARQC" -> "GoOnline"
      [] ac.type = "AAC" -> "Declined"
      [] OTHER -> "Terminated"

analyse_and_generate_ac ==
    /\ pc = "FirstGenerateAc"
    /\ \/ Fail /\ UNCHANGED <<store, tvr, tsi, first>>
       \/ /\ ~CodesMalformed /\ DolUsable("CDOL1")
          /\ \E ac \in Exchange(first_generate_ac_decision(tvr, Codes, terminal.capability)) :
                /\ tvr' = tvr \cup SignatureTvr(ac)
                /\ tsi' = tsi \cup SignatureTsi(ac) \cup {"card_risk_management_was_performed"}
                /\ store' = SignatureStore(ac)
                /\ first' = Answered(ac)
                /\ IF CardAction(ac) = "GoOnline" THEN Proceed("OnlineRequest")
                   ELSE Finish(CardAction(ac))
    /\ UNCHANGED <<hostVars, selectionVars, cda, xda, scripts, asking, second, runVars>>
-----------------------------------------------------------------------------
(* Phases 5 to 8: online completion. *)

\* What InteractiveHost::authorise makes of a line.  Two characters are a
\* response code only when they are not both hexadecimal digits; else the line
\* is a byte string of data objects, and the byte 00 alone is padding.
Understood(line) ==
    CASE line.kind = "nothing" -> TRUE
      [] line.kind = "code" -> line.arc \notin TwoHexDigits \/ line.arc = "00"
      [] line.kind = "objects" -> line.arc # "badLength" /\ line.iad # "badLength"
      [] OTHER -> FALSE

\* A line without a response code stands for an approval.
ResponseCode(line) == IF line.arc = "absent" THEN "00" ELSE line.arc

\* Mutant: every line the host understands is an approval.
ApproveAll(code) == "Approved"

OnlineOutcome(code) == IF code = "00" THEN "Approved" ELSE "Declined"

authorise ==
    /\ pc = "OnlineRequest"
    /\ \E line \in Typed :
          \/ /\ Understood(line)
             /\ response' = [arc |-> ResponseCode(line), iad |-> line.iad, scripts |-> line.scripts,
                             outcome |-> OnlineOutcome(ResponseCode(line))]
             /\ Proceed("ExternalAuthenticate")
          \/ /\ ~Understood(line)
             /\ Fail
             /\ UNCHANGED response
    /\ UNCHANGED <<call, retries, config, pin, selectionVars, contextVars, asking, first, second,
                   runVars>>

\* Scripts '71', then the response code, which must not be in the store yet.
scripts_71 ==
    /\ pc = "ScriptsBefore"
    /\ \/ /\ ProcessScripts("BeforeFinalGenerateAc")
          /\ asking' = second_generate_ac_after_online(response.outcome)
          /\ IF Present(store, "ARC") THEN Fail /\ UNCHANGED store
             ELSE store' = Insert(store, "ARC", response.arc) /\ Proceed("SecondGenerateAc")
       \/ ScriptsLost("BeforeFinalGenerateAc")
    /\ UNCHANGED <<hostVars, selectionVars, cda, xda, first, second, runVars>>

\* What is announced of the second answer, whatever its signature.
FinalLabel(ac) ==
    CASE ac.type = "TC" -> "Approved"
      [] IsAac(ac.type) -> "Declined"
      [] ac.type = "ARQC" -> "Unexpected ARQC"
      [] OTHER -> "Terminated"

\* A missing CDOL2 means an empty data field.
complete_with_generate_ac ==
    /\ pc = "SecondGenerateAc"
    /\ \/ Fail /\ UNCHANGED <<store, tvr, tsi, second>>
       \/ /\ ~Present(store, "CDOL2") \/ DolUsable("CDOL2")
          /\ \E ac \in Exchange(asking) :
                /\ tvr' = tvr \cup SignatureTvr(ac)
                /\ tsi' = tsi \cup SignatureTsi(ac)
                /\ store' = SignatureStore(ac)
                /\ second' = Answered(ac)
                /\ outcome' = FinalLabel(ac)
                /\ pc' = "ScriptsAfter"
    /\ UNCHANGED <<hostVars, selectionVars, cda, xda, scripts, asking, first, runVars>>
-----------------------------------------------------------------------------
(* The phases the two compositions share. *)

read_records == read_application_data /\ UNCHANGED runVars
restrict_processing == process_restrictions /\ UNCHANGED runVars
manage_risk == run_terminal_risk_management /\ UNCHANGED runVars
authenticate_issuer == online_card_authentication /\ UNCHANGED runVars
scripts_72 == process_scripts_after /\ UNCHANGED runVars

TestNext ==
    \/ parse_args \/ load_configuration \/ connect
    \/ choose_application \/ select_chosen \/ get_processing_options \/ read_records
    \/ authenticate_data \/ restrict_processing \/ verify_cardholder \/ manage_risk
    \/ analyse_and_generate_ac \/ authorise \/ authenticate_issuer \/ scripts_71
    \/ complete_with_generate_ac \/ scripts_72
    \/ Over /\ UNCHANGED runVars

TestSpec == TestInit /\ [][TestNext]_testVars
-----------------------------------------------------------------------------
(* Properties *)

\* The cryptograms and the announced verdict of the command line are those of
\* AcProtocol too: one second cryptogram, only after an ARQC and the issuer's
\* answer, a TC asked for only with the code of an approval, and no approval
\* without a TC.  Whatever is announced after a second cryptogram other than a
\* TC counts as a decline; a TC is announced as approved also where an AAC was
\* asked for.
IssuerWord ==
    CASE response = NoResponse -> "Silent"
      [] response # NoResponse /\ response.arc = "00" -> "Approved"
      [] OTHER -> "Declined"

Verdict ==
    CASE pc # "Done" -> "None"
      [] pc = "Done" /\ second.type # "None" /\ outcome # "Approved" -> "Declined"
      [] OTHER -> outcome

Announced == IF pc = "Err" THEN NoAc ELSE second

TestProtocol == INSTANCE AcProtocol WITH
    first <- first.type, second <- Announced.type,
    asked <- IF Announced = NoAc THEN "None" ELSE Announced.asked,
    issuer <- IF pc = "Err" THEN "Silent" ELSE IssuerWord,
    failed <- pc = "Err", verdict <- Verdict

TestImplementsProtocol == TestProtocol!Spec

\* A verdict the host-mediated flow would give too: the command line announces
\* another one only when a dynamic signature was not found good or XDA failed,
\* which it prints and goes on (run's phases 4.05 and 4.05b), or when the
\* second answer is of no type a verdict is made of.
SignaturesGood == \A ac \in {first', second'} : ac # NoAc => ac.verified
AgreesWithFlow ==
    [][ SignaturesGood /\ ~XdaFailed(tvr') =>
          /\ first' # first =>
                \/ FirstVerdict(first', tvr') = outcome'
                \/ FirstVerdict(first', tvr') = "GoOnline" /\ pc' = "OnlineRequest"
          /\ second' # second =>
                (outcome' = "Approved") = (Completed(second') = "Approved") ]_testVars
=============================================================================
