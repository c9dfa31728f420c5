------------------------------- MODULE CardData -------------------------------
(***************************************************************************)
(* One application of a card, byte by byte: what the terminal sends, what  *)
(* the card answers, what ends up in the tag store, and what of it reaches *)
(* the decision and the GENERATE AC commands (contact/transaction_driver.rs, *)
(* transaction.rs, read_application_data.rs in the order of                *)
(* transaction_flow.rs).  Offline data authentication, which PIN and       *)
(* whether it is right, signatures and scripts have modules of their own;  *)
(* here cardholder verification follows any rule to any result.            *)
(*                                                                         *)
(* The card is external.  It is described by the bytes it answers with and *)
(* by what they mean (Cards); it finds out what it is asked for by reading *)
(* the bytes of the command, and may refuse any command.                   *)
(***************************************************************************)
EXTENDS CardResponses

CONSTANTS
    Cards,          \* descriptions of cards, see Answer
    Terminals,      \* [terminal, app]: Terminal and its TerminalApplication
    Inputs,         \* TransactionInputs, with the PIN the cardholder enters
    Random,         \* random numbers for risk management, options
    ScriptResults,  \* what issuer scripts may leave for '9F5B'
    Sha1(_)         \* of a byte sequence, twenty bytes

Restriction == INSTANCE ProcessingRestrictions
Analysis == INSTANCE TerminalActionAnalysis
Risk == INSTANCE TerminalRiskManagement WITH AmountMax <- 2147483647

VARIABLES
    stage,
    card, terminal, inputs,   \* never change
    file,       \* the directory file: its number and the record to be read
    candidates, \* DF names found
    app,        \* selected application's configuration, or None
    pdol_data, options,       \* the answer to the PDOL; ProcessingOptionsResponse
    walk,       \* records still to be read
    store,      \* tag_store: [value, source] by tag
    oda_input, not_seventy,   \* ReadApplicationDataOutcome
    tvr, tsi,   \* names of the bits that are 1
    tc_hash, script_results,
    asked,      \* what terminal action analysis asked for
    decided,    \* the TVR it decided on
    acs,        \* GENERATE AC responses as parsed
    seen        \* commands as the card has read them

given == <<card, terminal, inputs>>
discovery == <<file, candidates>>
selection == <<discovery, app, pdol_data, options>>
reading == <<walk, oda_input, not_seventy>>
deciding == <<asked, decided>>
registers == <<tvr, tsi>>
vars == <<stage, given, selection, reading, store, registers, tc_hash, script_results,
          deciding, acs, seen>>

Init ==
    /\ stage = "Pse" /\ file = None /\ candidates = <<>>
    /\ card \in Cards /\ terminal \in Terminals /\ inputs \in Inputs
    /\ app = None /\ pdol_data = <<>> /\ options = None
    /\ walk = <<>> /\ oda_input = <<>> /\ not_seventy = FALSE
    /\ store = [tag \in {<<\h9F, \h37>>} |->
                  [value |-> inputs.unpredictable_number, source |-> "Terminal"]]
    /\ tvr = {} /\ tsi = {} /\ tc_hash = None /\ script_results = <<>>
    /\ asked = None /\ decided = {} /\ acs = <<>> /\ seen = <<>>
-----------------------------------------------------------------------------
(* The tag store. *)

Value(tag) == IF tag \in DOMAIN store THEN Some(store[tag].value) ELSE None

\* TagStore::insert_primitive over a store: empty values are skipped, a tag
\* that is already there is an error, as is a constructed one.
InsertPrimitive(into, tag, value, source) ==
  CASE IsConstructed(tag) -> None
    [] ~IsConstructed(tag) /\ value = <<>> -> Some(into)
    [] OTHER -> Check(tag \notin DOMAIN into,
                      Some([t \in DOMAIN into \cup {tag} |->
                              IF t = tag THEN [value |-> value, source |-> source] ELSE into[t]]))
\* insert_tlv over a template, primitive by primitive.  One that fails leaves the
\* elements before it in the code; every caller then ends the transaction.
InsertAll(into, leaves, source) ==
  LET upTo[n \in 0..Len(leaves)] ==
        IF n = 0 THEN Some(into)
        ELSE Then(upTo[n - 1],
                  LAMBDA held : InsertPrimitive(held, leaves[n].tag, leaves[n].value, source))
  IN  upTo[Len(leaves)]

Ctx ==
    [inputs |-> inputs, terminal |-> terminal.terminal, app |-> app,
     tvr |-> WithFlags(TvrLayout, tvr), tsi |-> WithFlags(TsiLayout, tsi),
     issuer_script_results |-> script_results, tc_hash_value |-> tc_hash]
-----------------------------------------------------------------------------
(* The card, external. *)

\* What a card's bytes mean, by the books: an object of a length below 256
\* in any of BER's forms; a template of primitive objects; a locator.
IsTag(tag) ==
  /\ tag \in Seq(Byte) /\ tag # <<>> /\ tag[1] # 0
  /\ IF tag[1] % 32 = 31
     THEN Len(tag) \in 2..4 /\ \A i \in 2..Len(tag) : tag[i] < 128 <=> i = Len(tag)
     ELSE Len(tag) = 1
Lengths(n) ==
  {<<129, n>>, <<130, 0, n>>, <<131, 0, 0, n>>, <<132, 0, 0, 0, n>>}
  \cup (IF n < 128 THEN {<<n>>} ELSE {})
Holds(object, tag, value) ==
  /\ IsTag(tag) /\ value \in Seq(Byte) /\ Len(value) < 256
  /\ \E length \in Lengths(Len(value)) : object = tag \o length \o value
IsTemplate(bytes, tag, objects, elements) ==
  /\ objects \in Seq(Seq(Byte)) /\ elements \in Seq(Seq(Byte) \X Seq(Byte))
  /\ Len(objects) = Len(elements)
  /\ \A i \in DOMAIN elements :
       /\ ~IsConstructed(elements[i][1])
       /\ Holds(objects[i], elements[i][1], elements[i][2])
  /\ Holds(bytes, tag, Joined(objects))
\* <<file, first record, last record, number of signed ones>>; no record
\* has the number 255 (ISO 7816-4).
IsLocator(entry) ==
  /\ entry[1] \in 1..30 /\ entry[2] \in 1..254 /\ entry[3] \in entry[2]..254
  /\ entry[4] \in 0..((entry[3] - entry[2]) + 1)
LocatorBytes(locator) ==
  Joined([i \in DOMAIN locator |->
            <<8 * locator[i][1], locator[i][2], locator[i][3], locator[i][4]>>])
Listed(locator) ==
  Joined([i \in DOMAIN locator |->
            [k \in 1..((locator[i][3] - locator[i][2]) + 1) |->
               [record |-> <<locator[i][1], (locator[i][2] + k) - 1>>, signed |-> k <= locator[i][4]]]])

\* The answers to GET PROCESSING OPTIONS and READ RECORD say what the
\* description says.
OptionsAreAsDescribed(c) ==
  /\ c.profile \in Byte \X Byte /\ c.locator \in Seq(Byte \X Byte \X Byte \X Byte)
  /\ c.locator # <<>> /\ \A i \in DOMAIN c.locator : IsLocator(c.locator[i])
  /\ \/ Holds(c.options, <<\h80>>, c.profile \o LocatorBytes(c.locator))
     \/ /\ IsTemplate(c.options, <<\h77>>, c.option_objects, c.option_elements)
        /\ <<\h82>> \in {c.option_elements[i][1] : i \in DOMAIN c.option_elements}
        /\ <<\h94>> \in {c.option_elements[i][1] : i \in DOMAIN c.option_elements}
        /\ \A i \in DOMAIN c.option_elements :
             /\ c.option_elements[i][1] = <<\h82>> => c.option_elements[i][2] = c.profile
             /\ c.option_elements[i][1] = <<\h94>> =>
                  c.option_elements[i][2] = LocatorBytes(c.locator)
  /\ c.afl = Listed(c.locator)
RecordIsAsDescribed(r, sfi) ==
  /\ r.bytes \in Seq(Byte) /\ r.seventy \in BOOLEAN
  /\ ~r.seventy => First(r.bytes, 1) # <<\h70>>
  /\ r.seventy => /\ IsTemplate(r.bytes, <<\h70>>, r.objects, r.elements)
                  /\ r.value = IF sfi <= 10 THEN Joined(r.objects) ELSE r.bytes
Elements(c, record) == IF c.records[record].seventy THEN Range(c.records[record].elements) ELSE {}
\* The issuer's action codes are in the records that are listed, as bits by
\* byte and place; one of a length other than five has no meaning.
IacTags == [iacDenial |-> <<\h9F, \h0E>>, iacOnline |-> <<\h9F, \h0F>>,
            iacDefault |-> <<\h9F, \h0D>>]
BitsOf(bytes) == {at \in (DOMAIN bytes) \X (1..8) : HasBit(bytes[at[1]], at[2])}
CodesAreAsDescribed(c) ==
  \A k \in DOMAIN IacTags :
    LET said == {e \in UNION {Elements(c, c.afl[i].record) : i \in DOMAIN c.afl} :
                   e[1] = IacTags[k] /\ e[2] # <<>>}
    IN  /\ said = {} => c.codes[k] = None
        /\ \A e \in said : Len(e[2]) = 5 => c.codes[k] = Some(BitsOf(e[2]))
ASSUME CardsAssumption ==
  \A c \in Cards :
    /\ OptionsAreAsDescribed(c) /\ CodesAreAsDescribed(c)
    /\ \A i \in DOMAIN c.afl : c.afl[i].record \in DOMAIN c.records
    /\ \A at \in DOMAIN c.records : RecordIsAsDescribed(c.records[at], at[1])
    /\ {c.fci, c.pse.fci, c.issuer_data} \subseteq Seq(Byte)
    /\ \A i \in DOMAIN c.pse.records : c.pse.records[i] \in Seq(Byte)
    /\ \A tag \in DOMAIN c.data : c.data[tag] \in Seq(Byte)
\* A terminal's codes, and what its type says by Book 4 Table 24.
TacNames == {"tacDenial", "tacOnline", "tacDefault"}
TerminalIsAsDescribed(t) ==
  /\ \A k \in TacNames :
       \/ t.app[k] = None /\ t.codes[k] = None
       \/ \E v \in t.app[k] : /\ v \in Seq(Byte) /\ Len(v) = 5
                             /\ t.app[k] = Some(v) /\ t.codes[k] = Some(BitsOf(v))
  /\ \/ t.capability = "OnlineOnly" /\ t.terminal.terminal_type \in {\h11, \h14, \h21, \h24, \h34}
     \/ t.capability = "OnlineCapable" /\ t.terminal.terminal_type \in {\h12, \h15, \h22, \h25, \h35}
     \/ t.capability = "OfflineOnly" /\ t.terminal.terminal_type \in {\h13, \h16, \h23, \h26, \h36}
ASSUME TerminalsAssumption ==
  /\ \A t \in Terminals : t.app.aid \in Seq(Byte) /\ TerminalIsAsDescribed(t)
  /\ \A i \in Inputs : i.unpredictable_number \in Seq(Byte)

Refusals == {<<\h69, \h85>>, <<\h6A, \h82>>}
Ok == <<\h90, 0>>
NotFound == <<\h6A, \h83>>
PSE_NAME == <<\h31, \h50, \h41, \h59, \h2E, \h53, \h59, \h53, \h2E, \h44, \h44, \h46, \h30, \h31>>
\* The file and the record a READ RECORD asks for.
RecordOf(command) == <<command.p2 \div 8, command.p1>>
\* What the card answers to a command, as it reads its bytes.
Answer(command) ==
  CASE command.ins = \hA4 /\ command.data = PSE_NAME -> card.pse.fci \o Ok
    [] command.ins = \hA4 /\ command.data = card.aid -> card.fci \o Ok
    [] command.ins = \hB2 /\ stage = "Directory" ->
         IF command.p1 \in DOMAIN card.pse.records THEN card.pse.records[command.p1] \o Ok
         ELSE NotFound
    [] command.ins = \hA8 -> card.options \o Ok
    [] /\ command.ins = \hB2 /\ stage # "Directory"
       /\ RecordOf(command) \in DOMAIN card.records ->
         card.records[RecordOf(command)].bytes \o Ok
    [] command.ins = \hCA /\ <<command.p1, command.p2>> \in DOMAIN card.data ->
         card.data[<<command.p1, command.p2>>] \o Ok
    [] command.ins \in {\h20, \h82} -> Ok
    [] command.ins = \hAE -> card.cryptograms[1 + Len(acs)].bytes \o Ok
    [] OTHER -> <<\h6A, \h88>>

\* One exchange: the command is encoded, the card reads and answers it, the
\* response is parsed.  A response is the status word and, with '9000', the
\* data; status word 0 stands for a command that could not be encoded or a
\* response that could not be parsed.
Lost == [sw |-> 0, data |-> <<>>]
ReadBack(command) == Then(Then(command, to_bytes), command_from_bytes)
Reply(bytes) ==
  LET response == response_parse(bytes)
  IN  IF response = None THEN Lost
      ELSE [sw |-> status_word(Unwrap(response)), data |-> Unwrap(response).data]
Send(command) ==
  seen' = IF ReadBack(command) = None THEN seen ELSE Append(seen, Unwrap(ReadBack(command)))
Responses(command) ==
  IF ReadBack(command) = None THEN {Lost}
  ELSE {Reply(bytes) : bytes \in {Answer(Unwrap(ReadBack(command)))} \cup Refusals}

Fail == stage' = "Failed"
-----------------------------------------------------------------------------
(* Selection, GET PROCESSING OPTIONS, READ RECORD. *)

\* aid_matches_df_name, over the one application of these terminals, and
\* find_application.
Supported(name) ==
  /\ Len(name) >= Len(terminal.app.aid)
  /\ First(name, Len(terminal.app.aid)) = terminal.app.aid
  /\ Len(name) = Len(terminal.app.aid) \/ terminal.app.partial_match_allowed
find_application(name) == Check(Supported(name), Some(terminal.app))

Discovering == UNCHANGED <<given, app, pdol_data, options, reading, store, registers, tc_hash,
                           script_results, deciding, acs>>
\* build_candidate_list_pse: whatever goes wrong, the list of AIDs is tried.
SelectPse ==
    /\ stage = "Pse"
    /\ Send(select_by_name(PSE_NAME, FirstOrOnly))
    /\ \E response \in Responses(select_by_name(PSE_NAME, FirstOrOnly)) :
         LET pse == Check(response.sw = \h9000, PseFci(response.data))
         IN  /\ stage' = IF pse = None THEN "Aids" ELSE "Directory"
             /\ file' = Then(pse, LAMBDA f : Some([sfi |-> f.sfi_of_directory_ef, next |-> 1]))
    /\ UNCHANGED candidates /\ Discovering
\* One record of the directory; '6A83' ends it, and an empty list is no list.
Listing(response) == Check(response.sw = \h9000, PaymentSystemDirectoryRecord(response.data))
Found(list) ==
  LET names == [i \in DOMAIN list |-> list[i].adf_name]
  IN  Joined([i \in DOMAIN names |-> IF Supported(names[i]) THEN <<names[i]>> ELSE <<>>])
ReadDirectory ==
    /\ stage = "Directory"
    /\ Send(read_record(Unwrap(file).sfi, Unwrap(file).next))
    /\ \E response \in Responses(read_record(Unwrap(file).sfi, Unwrap(file).next)) :
         \/ /\ response.sw = \h6A83
            /\ stage' = IF candidates = <<>> THEN "Aids" ELSE "Select"
            /\ UNCHANGED discovery
         \/ /\ Listing(response) # None
            /\ candidates' = candidates \o Found(Unwrap(Listing(response)))
            /\ file' = Some([Unwrap(file) EXCEPT !.next = @ + 1])
            /\ UNCHANGED stage
         \/ /\ response.sw # \h6A83 /\ Listing(response) = None
            /\ stage' = "Aids" /\ file' = None /\ candidates' = <<>>
    /\ Discovering

\* A response that selects an application the terminal supports.
Fci(response) == Check(response.sw = \h9000, AdfFci(response.data))
Selected(response) == Then(Fci(response), LAMBDA f : find_application(f.df_name))
\* build_candidate_list_aids, for the one application.
SelectAid ==
    /\ stage = "Aids"
    /\ Send(select_by_name(terminal.app.aid, FirstOrOnly))
    /\ \E response \in Responses(select_by_name(terminal.app.aid, FirstOrOnly)) :
         \/ /\ Selected(response) # None
            /\ stage' = "Select" /\ candidates' = <<Unwrap(Fci(response)).df_name>>
         \/ /\ Selected(response) = None
            /\ stage' = "Eliminated" /\ UNCHANGED candidates
    /\ UNCHANGED file /\ Discovering

\* select_application: any failure eliminates the candidate.
Select ==
    /\ stage = "Select"
    /\ Send(select_by_name(Head(candidates), FirstOrOnly))
    /\ \E response \in Responses(select_by_name(Head(candidates), FirstOrOnly)) :
         \/ /\ Selected(response) # None
            /\ stage' = "Options"
            /\ app' = Selected(response)
            /\ LET pdol == Unwrap(Fci(response)).pdol
               IN  pdol_data' = IF pdol = None THEN <<>>
                                ELSE Resolve(Unwrap(pdol), [Ctx EXCEPT !.app = Selected(response)])
         \/ /\ Selected(response) = None
            /\ stage' = "Eliminated" /\ UNCHANGED <<app, pdol_data>>
    /\ UNCHANGED <<given, discovery, options, reading, store, registers, tc_hash, script_results,
                   deciding, acs>>

\* initiate: '6985' eliminates the candidate, anything else ends.
Initiated(response) == Check(response.sw = \h9000, ProcessingOptionsResponse(response.data))
Locator(response) == Then(Initiated(response), LAMBDA o : o.afl)
GetProcessingOptions ==
    /\ stage = "Options"
    /\ Send(processing_options(pdol_data))
    /\ \E response \in Responses(processing_options(pdol_data)) :
         /\ options' = Initiated(response)
         /\ \/ /\ Locator(response) # None
               /\ stage' = "Read" /\ walk' = iter_reads(Unwrap(Locator(response)))
            \/ /\ Locator(response) = None
               /\ stage' = IF response.sw = \h6985 THEN "Eliminated" ELSE "Failed"
               /\ walk' = <<>>
    /\ UNCHANGED <<given, discovery, app, pdol_data, oda_input, not_seventy, store, registers,
                   tc_hash, script_results, deciding, acs>>

\* read_application_data, one record.  A record that is no '70' template is
\* passed over; if it was to be signed that is remembered.
Filled(record) == InsertAll(store, Leaves(record.tlv), "Record")
ReadRecord ==
    /\ stage = "Read" /\ walk # <<>>
    /\ LET step == Head(walk)
       IN  /\ Send(read_record(step.sfi, step.record_number))
           /\ \E response \in Responses(read_record(step.sfi, step.record_number)) :
                LET record == ReadRecordResponse(response.data)
                IN  \/ /\ response.sw # \h9000 \/ (record # None /\ Filled(Unwrap(record)) = None)
                       /\ Fail /\ UNCHANGED <<store, reading>>
                    \/ /\ response.sw = \h9000 /\ record = None
                       /\ not_seventy' = (not_seventy \/ step.in_oda)
                       /\ walk' = Tail(walk)
                       /\ UNCHANGED <<stage, store, oda_input>>
                    \/ /\ response.sw = \h9000 /\ record # None /\ Filled(Unwrap(record)) # None
                       /\ store' = Unwrap(Filled(Unwrap(record)))
                       /\ oda_input' = IF step.in_oda
                                       THEN oda_input \o oda_input_bytes(Unwrap(record), step.sfi)
                                       ELSE oda_input
                       /\ walk' = Tail(walk)
                       /\ UNCHANGED <<stage, not_seventy>>
    /\ UNCHANGED <<given, selection, registers, tc_hash, script_results, deciding, acs>>
-----------------------------------------------------------------------------
(* Restrictions, verification, risk management. *)

Missing(tag) == tag \notin DOMAIN store
WrongLength(tag, n) == ~Missing(tag) /\ Len(store[tag].value) # n
Date(tag) == Then(Value(tag), LAMBDA bytes : Some(Number(bytes)))

Category(type) == CASE type = 1 -> "Cash" [] type \in {0, 9} -> "Purchase" [] OTHER -> "Other"
\* bcd_country_code is bcd_u64 over two bytes.
TerminalCountry == bcd_u64(terminal.terminal.terminal_country_code, 2)
terminal_is_atm ==
    /\ terminal.terminal.terminal_type \in \h14..\h16
    /\ "cash" \in On(AdditionalTerminalCapabilitiesLayout,
                     terminal.terminal.additional_terminal_capabilities)

\* process_restrictions of TransactionContext, on what the records held.
ProcessRestrictions ==
    /\ stage = "Read" /\ walk = <<>>
    /\ IF \/ WrongLength(<<\h9F, \h08>>, 2) \/ WrongLength(<<\h9F, \h07>>, 2)
          \/ WrongLength(<<\h5F, \h28>>, 2) \/ WrongLength(<<\h5F, \h25>>, 3)
          \/ Missing(<<\h5F, \h24>>) \/ WrongLength(<<\h5F, \h24>>, 3)
       THEN Fail /\ UNCHANGED tvr
       ELSE /\ stage' = "Verify"
            /\ tvr' = tvr \cup Restriction!Restrictions(
                 [version |-> Value(<<\h9F, \h08>>),
                  usage |-> Then(Value(<<\h9F, \h07>>), LAMBDA b :
                              Some(On(AucLayout, Unwrap(ParseRegister(AucLayout, b))))),
                  issuer_country |-> Value(<<\h5F, \h28>>),
                  effective |-> Date(<<\h5F, \h25>>), expiration |-> Date(<<\h5F, \h24>>)],
                 [version |-> Unwrap(app).application_version_number, atm |-> terminal_is_atm,
                  country |-> TerminalCountry],
                 [category |-> Category(inputs.transaction_type),
                  cashback |-> inputs.amount_other > 0,
                  date |-> Number(inputs.transaction_date)])
    /\ UNCHANGED <<given, selection, reading, store, tsi, tc_hash, script_results, deciding, acs, seen>>

Aip == On(AipLayout, Unwrap(options).aip)

PlaintextPin ==
    {"PlaintextPinVerificationPerformedByIcc", "PlaintextPinVerificationPerformedByIccAndSignature"}
CvmRules ==
    LET list == Then(Value(<<\h8E>>), ParseCvmList)
    IN  IF list = None THEN {} ELSE Range(Unwrap(list).rules)
CvmSupported == "cardholder_verification_is_supported" \in Aip

\* verify_plaintext_offline_pin for a rule that wants the PIN in clear; a PIN
\* that is none ends the transaction, the card's verdict is for CvmList.
PresentPin ==
    /\ stage = "Verify" /\ CvmSupported
    /\ \E rule \in CvmRules : method(rule.cvm) \in PlaintextPin
    /\ Send(verify_plaintext_pin(inputs.pin))
    /\ \E response \in Responses(verify_plaintext_pin(inputs.pin)) :
         stage' = IF response = Lost THEN "Failed" ELSE "Verified"
    /\ UNCHANGED <<given, selection, reading, store, registers, tc_hash, script_results, deciding, acs>>

\* run_cardholder_verification: the CVM results are stored whatever comes
\* out, which fails when a record already held them.
CardholderVerification ==
    /\ stage \in {"Verify", "Verified"}
    /\ LET Results == {NoCvmPerformed} \cup
                      {<<rule.cvm, rule.condition, r>> :
                         rule \in IF CvmSupported THEN CvmRules ELSE {}, r \in Range(ResultCode)}
           malformed == ~Missing(<<\h8E>>) /\ Then(Value(<<\h8E>>), ParseCvmList) = None
       IN  IF CvmSupported /\ (malformed \/ ~Missing(<<\h9F, \h34>>))
           THEN Fail /\ UNCHANGED <<store, registers>>
           ELSE \E results \in Results :
                  /\ stage' = "Risk"
                  /\ store' = IF ~Missing(<<\h9F, \h34>>) THEN store
                              ELSE Unwrap(InsertPrimitive(store, <<\h9F, \h34>>, results, "Terminal"))
                  /\ tvr' = IF results[3] = ResultCode.Failed
                            THEN tvr \cup {"cardholder_verification_was_not_successful"} ELSE tvr
                  /\ tsi' = IF CvmSupported /\ CvmRules # {}
                            THEN tsi \cup {"cardholder_verification_was_performed"} ELSE tsi
    /\ UNCHANGED <<given, selection, reading, tc_hash, script_results, deciding, acs, seen>>

\* get_data: a refusal is None, another element or one already stored fails.
Element(tag, response) ==
  Then(from_bytes(response.data), LAMBDA tlv : Check(tlv.tag = tag, AsPrimitive(tlv)))
Stored(tag, response) ==
  Then(Element(tag, response), LAMBDA bytes : InsertPrimitive(store, tag, bytes, "Terminal"))
GetData(tag, Stop, Continue(_)) ==
    /\ Send(get_data(tag))
    /\ \E response \in Responses(get_data(tag)) :
         \/ response.sw # \h9000 /\ UNCHANGED store /\ Continue(None)
         \/ /\ response.sw = \h9000 /\ Stored(tag, response) = None
            /\ UNCHANGED store /\ Fail /\ Stop
         \/ /\ response.sw = \h9000 /\ Stored(tag, response) # None
            /\ store' = Unwrap(Stored(tag, response)) /\ Continue(Element(tag, response))

parse_u16_be(bytes) == IF Len(bytes) \in 1..2 THEN Number(bytes) ELSE 0
FirstByte(bytes) == Check(bytes # <<>>, Some(bytes[1]))
Counter(option) == Then(option, LAMBDA bytes : Some(parse_u16_be(bytes)))

\* run_terminal_risk_management asks for the two counters in turn.
GetAtc ==
    /\ stage = "Risk"
    /\ GetData(<<\h9F, \h36>>, TRUE, LAMBDA value : stage' = "LastOnline")
    /\ UNCHANGED <<given, selection, reading, registers, tc_hash, script_results, deciding, acs>>

\* What GET DATA returned for a tag, when it did.
Fetched(tag) == Check(~Missing(tag) /\ store[tag].source = "Terminal", Value(tag))

\* The rest of risk management.
RiskContext(random, last_online) ==
    [amount |-> inputs.amount_authorised, floor |-> Unwrap(app).terminal_floor_limit,
     prior |-> None, params |-> Unwrap(app).random_selection,
     random |-> Check(Unwrap(app).random_selection # None, random),
     lower |-> Then(Value(<<\h9F, \h14>>), FirstByte),
     upper |-> Then(Value(<<\h9F, \h23>>), FirstByte),
     atc |-> Counter(Fetched(<<\h9F, \h36>>)), last_online |-> Counter(last_online)]
ManageRisk(ctx) ==
    \/ Risk!EvaluationFails(ctx) /\ Fail /\ UNCHANGED registers
    \/ /\ ~Risk!EvaluationFails(ctx)
       /\ stage' = "FirstAc"
       /\ tvr' = tvr \cup Risk!RiskBits(ctx)
       /\ tsi' = tsi \cup {"terminal_risk_management_was_performed"}
GetLastOnlineAtc ==
    /\ stage = "LastOnline"
    /\ \E random \in Random :
         GetData(<<\h9F, \h13>>, UNCHANGED registers,
                 LAMBDA value : ManageRisk(RiskContext(random, value)))
    /\ UNCHANGED <<given, selection, reading, tc_hash, script_results, deciding, acs>>
-----------------------------------------------------------------------------
(* The GENERATE AC commands. *)

\* An action code as the TVR bits it selects.
ActionCode(bytes) ==
  IF bytes = None THEN Analysis!NoCode
  ELSE On(TvrLayout, Unwrap(ParseRegister(TvrLayout, Unwrap(bytes))))
\* Mutant: the issuer's codes for going online and for the default change
\* places.
ActionCodesSwapped ==
  LET Bytes(k) == CASE k = "iacOnline" -> Value(IacTags.iacDefault)
                    [] k = "iacDefault" -> Value(IacTags.iacOnline)
                    [] k = "iacDenial" -> Value(IacTags.iacDenial)
                    [] OTHER -> Unwrap(app)[k]
  IN  [k \in DOMAIN IacTags \cup TacNames |-> ActionCode(Bytes(k))]

\* action_codes
ActionCodes ==
  [k \in DOMAIN IacTags \cup TacNames |->
     ActionCode(IF k \in DOMAIN IacTags THEN Value(IacTags[k]) ELSE Unwrap(app)[k])]
\* Mutant: the types of terminals without an attendant are forgotten.
CapabilityAttended(type) ==
  CASE type % 16 = 1 -> "OnlineOnly"
    [] type % 16 = 3 -> "OfflineOnly"
    [] OTHER -> "OnlineCapable"

\* The capability in the terminal type's second digit.
Capability(type) ==
  CASE type % 16 \in {1, 4} -> "OnlineOnly"
    [] type % 16 \in {3, 6} -> "OfflineOnly"
    [] OTHER -> "OnlineCapable"

\* prepare_tc_hash_for_dol: for a list that asks for '98', the card's TDOL
\* or the terminal's default or none is answered and hashed.
TcHash(dol) ==
  LET wanted == \E i \in DOMAIN dol : dol[i].tag = <<\h98>>
      default == wanted /\ Missing(<<\h97>>) /\ Unwrap(app).default_tdol # None
      tdol == Or(Value(<<\h97>>), Unwrap(app).default_tdol)
      bits == IF default THEN tvr \cup {"default_tdol_used"} ELSE tvr
      fields == Then(tdol, ParseDol)
      answer == IF fields = None THEN <<>>
                ELSE Resolve(Unwrap(fields), [Ctx EXCEPT !.tvr = WithFlags(TvrLayout, bits)])
  IN  [tvr |-> bits, hash |-> IF wanted THEN Some(Sha1(answer)) ELSE tc_hash]

\* GENERATE AC with the list under tag, mandatory, answered from the
\* registers as they then are.  Use gets the parsed response.
Cdol(tag) == Then(Value(tag), ParseDol)
AcCommand(request, dol) ==
  LET ctx == [Ctx EXCEPT !.tvr = WithFlags(TvrLayout, TcHash(dol).tvr),
                         !.tc_hash_value = TcHash(dol).hash]
  IN  Some(generate_ac(request, "none", Resolve(dol, ctx)))
AcResponse(response) == Check(response.sw = \h9000, GenerateAcResponse(response.data))
Generate(tag, request, Use(_)) ==
    \/ Cdol(tag) = None /\ Fail /\ UNCHANGED <<registers, tc_hash, acs, seen>>
    \/ /\ Cdol(tag) # None
       /\ tvr' = TcHash(Unwrap(Cdol(tag))).tvr /\ tc_hash' = TcHash(Unwrap(Cdol(tag))).hash
       /\ Send(AcCommand(request, Unwrap(Cdol(tag))))
       /\ \E response \in Responses(AcCommand(request, Unwrap(Cdol(tag)))) :
            \/ AcResponse(response) = None /\ Fail /\ UNCHANGED <<acs, tsi>>
            \/ /\ AcResponse(response) # None
               /\ acs' = Append(acs, Unwrap(AcResponse(response))) /\ Use(Unwrap(AcResponse(response)))

\* terminal_action_analysis and first_generate_ac.
Decision ==
  Analysis!first_generate_ac_decision(tvr, ActionCodes, Capability(terminal.terminal.terminal_type))
FirstGenerateAc ==
    /\ stage = "FirstAc"
    /\ \/ /\ \E k \in DOMAIN IacTags : WrongLength(IacTags[k], 5)
          /\ Fail /\ UNCHANGED <<registers, tc_hash, deciding, acs, seen>>
       \/ /\ ~\E k \in DOMAIN IacTags : WrongLength(IacTags[k], 5)
          /\ asked' = Some(Decision) /\ decided' = tvr
          /\ Generate(<<\h8C>>, Decision, LAMBDA ac :
               /\ stage' = IF Cryptogram(ac.cid) = "ARQC" THEN "Host" ELSE "Done"
               /\ tsi' = tsi \cup {"card_risk_management_was_performed"})
    /\ UNCHANGED <<given, selection, reading, store, script_results>>

Approved == <<\h30, \h30>>
UnableOnline == <<\h5A, \h33>>
\* online_card_authentication: issuer data goes to a card that asks for it.
OnlineCardAuthentication ==
    /\ stage = "Host"
    /\ "issuer_authentication_is_supported" \in Aip
    /\ Send(external_authenticate(card.issuer_data))
    /\ \E response \in Responses(external_authenticate(card.issuer_data)) :
         IF response = Lost THEN Fail /\ UNCHANGED registers
         ELSE /\ stage' = "Scripts"
              /\ tsi' = tsi \cup {"issuer_authentication_was_performed"}
              /\ tvr' = IF ExternalAuthenticateOutcome(response.sw) = "Successful" THEN tvr
                        ELSE tvr \cup {"issuer_authentication_failed"}
    /\ UNCHANGED <<given, selection, reading, store, tc_hash, script_results, deciding, acs>>
\* The host answered, or there is none.  Its response code is kept unless
\* the store has one, and its scripts leave their results.
Host ==
    /\ stage \in {"Host", "Scripts"}
    /\ \E code \in IF stage = "Host" THEN {Approved, UnableOnline} ELSE {Approved},
          results \in ScriptResults :
         /\ store' = Unwrap(IF Missing(<<\h8A>>) THEN InsertPrimitive(store, <<\h8A>>, code, "Terminal")
                            ELSE Some(store))
         /\ script_results' = IF code = Approved THEN results ELSE <<>>
         /\ tsi' = IF script_results' = <<>> THEN tsi
                   ELSE tsi \cup {"script_processing_was_performed"}
    /\ stage' = "SecondAc"
    /\ UNCHANGED <<given, selection, reading, tvr, tc_hash, deciding, acs, seen>>

\* complete_with_second_generate_ac
SecondGenerateAc ==
    /\ stage = "SecondAc"
    /\ \E request \in {"TC", "AAC"} :
         Generate(<<\h8D>>, request, LAMBDA ac : stage' = "Done" /\ UNCHANGED tsi)
    /\ UNCHANGED <<given, selection, reading, store, script_results, deciding>>

Over == stage \in {"Done", "Failed", "Eliminated"} /\ UNCHANGED vars

Next ==
    \/ SelectPse \/ ReadDirectory \/ SelectAid
    \/ Select \/ GetProcessingOptions \/ ReadRecord
    \/ ProcessRestrictions \/ PresentPin \/ CardholderVerification
    \/ GetAtc \/ GetLastOnlineAtc
    \/ FirstGenerateAc \/ OnlineCardAuthentication \/ Host \/ SecondGenerateAc
    \/ Over
Spec == Init /\ [][Next]_vars
-----------------------------------------------------------------------------
(* Properties.  What a card means (card.afl, .pdol, .cdols, .codes, .rules, *)
(* .answers and the elements of its records) is told apart from the bytes  *)
(* it sends; each property says that one reached the other.                *)

Commands(ins) == SelectSeq(seen, LAMBDA c : c.ins = ins)
\* The application's records among them: those after GET PROCESSING OPTIONS.
RecordsAsked ==
    Joined([i \in DOMAIN seen |->
              IF seen[i].ins = \hB2 /\ \E k \in 1..i : seen[k].ins = \hA8
              THEN <<RecordOf(seen[i])>> ELSE <<>>])
Walked == stage \in {"Verify", "Verified", "Risk", "LastOnline", "FirstAc", "Host", "Scripts",
                     "SecondAc", "Done"}

\* The card is asked for the records its locator lists, in order and once
\* each; nothing is decided before the last (read_application_data).
ReadsFollowTheLocator ==
    LET listed == [i \in DOMAIN card.afl |-> card.afl[i].record]
    IN  /\ IsPrefix(RecordsAsked, listed)
        /\ Walked => RecordsAsked = listed

\* While the transaction goes on, what the store says the card's records
\* held is what the records that were read held: nothing is lost, changed
\* or left over from a record that is no '70' template (insert_tlv).
StoreIsWhatTheCardSent ==
    LET sent == UNION {Elements(card, r) : r \in Range(RecordsAsked)}
        kept == {tag \in DOMAIN store : store[tag].source = "Record"}
    IN  stage # "Failed" =>
          {<<tag, store[tag].value>> : tag \in kept} = {e \in sent : e[2] # <<>>}

\* What a step of the locator adds to the input, given what a signed template adds.
Contribution(c, step, bytes) ==
    IF step.signed /\ c.records[step.record].seventy THEN bytes ELSE <<>>
\* The elements with their lengths in the shortest form.
Rewritten(elements) ==
    Joined([i \in DOMAIN elements |->
              elements[i][1] \o encode_length(Len(elements[i][2])) \o elements[i][2]])
\* The end of the value of a record in files 1 to 10 that is as long as the value in
\* shortest lengths, and so all of it if that is how the card writes it; of the other
\* files the whole record.
RecordEnd(c, at) ==
    IF at[1] <= 10 THEN Ending(c.records[at].value, Len(Rewritten(c.records[at].elements)))
    ELSE c.records[at].value

\* Once the records are read, the input for offline data authentication is what the
\* signed records end with, in the order of the locator and whatever is read between
\* them: as many bytes of the card's own as its elements take in shortest lengths,
\* for files 11 to 30 all with tag and length.  A signed record that could not be
\* used is reported (oda_input_bytes, read_application_data).
SignedInputIsRecordEnds ==
    Walked =>
      /\ oda_input = Joined([i \in DOMAIN card.afl |->
                       Contribution(card, card.afl[i], RecordEnd(card, card.afl[i].record))])
      /\ not_seventy <=> \E i \in DOMAIN card.afl :
                           card.afl[i].signed /\ ~card.records[card.afl[i].record].seventy

\* "oda_input_sfi_1_to_10_excludes_tag_and_length" (core/read_record.rs:153): of a
\* signed record in files 1 to 10 the input lacks the template's tag and length and
\* nothing else.
SignedInputIsRecordValues ==
    Walked => oda_input = Joined([i \in DOMAIN card.afl |->
                            Contribution(card, card.afl[i], card.records[card.afl[i].record].value)])

\* Book 3 Table 46, for the bits this module can set.
BookTvr ==
    [icc_and_terminal_have_different_application_versions |-> <<2, 8>>,
     expired_application |-> <<2, 7>>, application_not_yet_effective |-> <<2, 6>>,
     requested_service_not_allowed_for_card_product |-> <<2, 5>>, new_card |-> <<2, 4>>,
     cardholder_verification_was_not_successful |-> <<3, 8>>,
     transaction_exceeds_floor_limit |-> <<4, 8>>,
     lower_consecutive_offline_limit_exceeded |-> <<4, 7>>,
     upper_consecutive_offline_limit_exceeded |-> <<4, 6>>,
     transaction_selected_randomly_for_online_processing |-> <<4, 5>>,
     default_tdol_used |-> <<5, 8>>, issuer_authentication_failed |-> <<5, 7>>]

\* What the bytes of an element in a card's list must say.
Says(tag, bytes) ==
    CASE tag = <<\h9F, \h02>> -> Decimal(bytes) = inputs.amount_authorised
      [] tag = <<\h81>> -> Number(bytes) = inputs.amount_authorised
      [] tag = <<\h9F, \h03>> -> Decimal(bytes) = inputs.amount_other
      [] tag = <<\h5F, \h2A>> -> Decimal(bytes) = inputs.transaction_currency_code
      [] tag = <<\h9F, \h1A>> -> Decimal(bytes) = terminal.terminal.terminal_country_code
      [] tag = <<\h9A>> -> bytes = inputs.transaction_date
      [] tag = <<\h9C>> -> Decimal(bytes) = Decimal(<<inputs.transaction_type>>)
      [] tag = <<\h9F, \h37>> -> bytes = inputs.unpredictable_number
      [] tag = <<\h95>> -> Len(bytes) = 5 /\ BitsOf(bytes) = {BookTvr[name] : name \in tvr}
      [] tag = <<\h9F, \h33>> -> Len(bytes) = 3 /\ BitsOf(bytes) = terminal.capabilities
      [] tag = <<\h9F, \h40>> -> Len(bytes) = 5 /\ BitsOf(bytes) = terminal.additional
      [] tag = <<\h9F, \h1B>> -> Number(bytes) = terminal.app.terminal_floor_limit
      [] tag = <<\h9F, \h5B>> ->
           /\ ParseScriptResults(First(bytes, 5 * Len(script_results))) = Some(script_results)
           /\ \A i \in DOMAIN bytes : i > 5 * Len(script_results) => bytes[i] = 0
      [] tag = <<\h98>> -> Some(bytes) = tc_hash
      [] OTHER -> \A i \in DOMAIN bytes : bytes[i] = 0
\* A command's data, cut up the way the card's list describes it.
Answers(bytes, list) ==
    LET Before(i) == FoldFunctionOnSet(+, 0, [k \in DOMAIN list |-> list[k].length], 1..(i - 1))
    IN  /\ Len(bytes) = Before(Len(list) + 1)
        /\ \A i \in DOMAIN list :
             Says(list[i].tag, SubSeq(bytes, Before(i) + 1, Before(i) + list[i].length))

\* The card reads the transaction out of the last command it was sent as it
\* is: the amounts, the date, the numbers and the verification results, each
\* at the place and in the length its own list gives it, and zeros for what
\* the terminal does not know (Dol::build, resolve_with).
CardReadsTheTransaction ==
    LET last == Last(seen)
    IN  seen # <<>> =>
          /\ last.ins = \hA8 => Answers(From(last.data, 3), card.pdol)
          /\ last.ins = \hAE => Answers(last.data, card.cdols[Len(Commands(\hAE))])
          /\ last.ins = \h82 => last.data = card.issuer_data
          /\ last.ins = \h20 =>
               LET nibbles == [i \in 1..16 |-> IF i % 2 = 1 THEN last.data[(i + 1) \div 2] \div 16
                                               ELSE last.data[i \div 2] % 16]
               IN  SubSeq(nibbles, 3, 2 + nibbles[2]) = inputs.pin

\* The codes of card and terminal, by the names their bits have in Table 46.
CodesMeant ==
    LET Code(at) == IF at = None THEN Analysis!NoCode
                    ELSE {name \in DOMAIN BookTvr : BookTvr[name] \in Unwrap(at)}
    IN  [k \in DOMAIN IacTags \cup TacNames |->
           Code(IF k \in DOMAIN IacTags THEN card.codes[k] ELSE terminal.codes[k])]
\* The cryptogram asked for first, as the card reads it in P1, is the one
\* the issuer's and the acquirer's codes call for on the verification
\* results at that time; the card's codes are bits as Table 46 numbers them
\* (action_codes, first_generate_ac_decision).
DecisionFollowsTheCodes ==
    LET P1 == [AAC |-> 0, TC |-> \h40, ARQC |-> \h80]
    IN  \A i \in DOMAIN seen :
          (seen[i].ins = \hAE /\ \A k \in 1..(i - 1) : seen[k].ins # \hAE) =>
            seen[i].p1 =
              P1[Analysis!first_generate_ac_decision(decided, CodesMeant, terminal.capability)]

CvrNumbers == {"second_generate_ac", "first_generate_ac", "pin_try_counter", "issuer_script_commands"}
\* Elements with a structure of their own, as de/ reads them.
Understood(tag, bytes) ==
    CASE tag = <<\h8E>> ->
           Then(ParseCvmList(bytes), LAMBDA list :
             Some([x |-> list.amount_x, y |-> list.amount_y,
                   rules |-> [i \in DOMAIN list.rules |->
                     <<method(list.rules[i].cvm), condition(list.rules[i].condition),
                       apply_succeeding_cv_rule_if_unsuccessful(list.rules[i].cvm)>>]]))
      [] tag = <<\h5A>> -> ParsePan(bytes)
      [] tag = <<\h9F, \h10>> ->
           Then(ParseIadFormatA(bytes), LAMBDA iad :
             LET cvr == Unwrap(ParseRegister(CvrLayout, iad.cvr))
             IN  Some([format |-> format_code(iad.cci), version |-> cryptogram_version(iad.cci),
                       second |-> FieldValue(CvrLayout, cvr, "second_generate_ac"),
                       tries |-> FieldValue(CvrLayout, cvr, "pin_try_counter"),
                       scripts |-> FieldValue(CvrLayout, cvr, "issuer_script_commands"),
                       flags |-> {name \in On(CvrLayout, cvr) : name \notin CvrNumbers}]))
      [] tag = <<\h9F, \h2A>> -> ParseKernelIdentifier(bytes)
      [] tag = <<\h9F, \h5B>> -> ParseScriptResults(bytes)
      [] OTHER -> None
\* The terminal understands what the card meant: the applications in its
\* directory, the elements with a structure of their own, the day it
\* expires, counters that have never been online; and of each response to
\* GENERATE AC the type, the counter, the cryptogram and the issuer's data,
\* and what happens next is what the type says (the parsers of core/ and
\* de/, card_action_analysis).
CardIsUnderstood ==
    /\ (stage = "Select" /\ Len(Commands(\hA4)) = 1) =>
         candidates = SelectSeq(card.pse.names, Supported)
    /\ Walked =>
         /\ \A e \in card.meanings : Understood(e.tag, store[e.tag].value) = e.meaning
         /\ "expired_application" \in tvr <=> card.expired
         /\ "new_card" \in tvr => card.never_online
    /\ \A i \in DOMAIN acs :
         [type |-> Cryptogram(acs[i].cid), atc |-> acs[i].atc, ac |-> acs[i].ac, iad |-> acs[i].iad]
           = card.answers[i]
    /\ stage = "Host" => card.answers[1].type = "ARQC"
    /\ stage = "Done" => Len(acs) = IF card.answers[1].type = "ARQC" THEN 2 ELSE 1

\* "stamp the '8A' the second GENERATE AC's CDOL2 resolves"
\* (transaction_flow.rs:576): a card that asks for the response code in its
\* second list is told the one in the store.
SecondAcTellsTheArc ==
    LET list == card.cdols[2]
        asks == Commands(\hAE)
    IN  \A i \in DOMAIN list :
          (Len(asks) = 2 /\ list[i].tag = <<\h8A>>) =>
            \E at \in 1..(Len(asks[2].data) - 1) :
               SubSeq(asks[2].data, at, at + 1) = store[<<\h8A>>].value
=============================================================================
