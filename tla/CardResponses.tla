----------------------------- MODULE CardResponses -----------------------------
(***************************************************************************)
(* Data object lists (core/dol.rs, contact/dol_resolve.rs), and the data   *)
(* fields a card answers with, as core/ and de/ parse them.                *)
(* None is an error.  Where a parser walks the children of a template and  *)
(* a later child overwrites an earlier one the last counts, where it looks *)
(* a tag up (find_tag) the first does; a child of the wrong shape is an    *)
(* error wherever it stands.                                               *)
(***************************************************************************)
EXTENDS Apdu, Registers, TLC

(* Data object lists: a list names the elements a command's data field is  *)
(* made of, and how many bytes each gets.  terminal_value_for is where the *)
(* values come from: the terminal's own data, and nothing the card sent.   *)

\* Dol::parse: tags of one or two bytes, each followed by a length.
ParsedDol[data \in Seq(Byte)] ==
  IF data = <<>> THEN Some(<<>>)
  ELSE Then(ParseTag(data), LAMBDA tag :
         Check(Len(tag) <= 2 /\ Len(data) > Len(tag),
           Then(ParsedDol[From(data, Len(tag) + 2)], LAMBDA rest :
             Some(<<[tag |-> tag, length |-> data[Len(tag) + 1]]>> \o rest))))
ParseDol(data) == ParsedDol[data]

(* '9F5B': a result, the number of the script, its identifier. *)

ScriptResult ==
  [ScriptNotPerformed |-> 0, ScriptProcessingFailed |-> 1, ScriptProcessingSuccessful |-> 2]
\* ScriptResultNibble::from_nibble and IssuerScriptResult::to_bytes
FromNibble(nibble) ==
  LET named == {name \in DOMAIN ScriptResult : ScriptResult[name] = nibble}
  IN  IF named = {} THEN "Rfu" ELSE CHOOSE name \in named : TRUE
ScriptResultBytes(entry) ==
  <<(16 * ScriptResult[entry.result]) + (entry.number % 16)>> \o entry.identifier
\* IssuerScriptResults::parse: entries of five bytes.
ParseScriptResults(bytes) ==
  Check(Len(bytes) % 5 = 0,
        Some([i \in 1..(Len(bytes) \div 5) |->
                LET entry == SubSeq(bytes, (5 * i) - 4, 5 * i)
                IN  [result |-> FromNibble(entry[1] \div 16), number |-> entry[1] % 16,
                     identifier |-> From(entry, 2)]]))

\* ValueFormat
Numeric == "Numeric"
CompressedNumeric == "CompressedNumeric"
Other == "Other"
Formatted(format, bytes) == [format |-> format, bytes |-> bytes]

\* Mutant: every value is cut off on the right.
FitLeft(value, length) ==
  LET shift == IF value.format = Numeric /\ Len(value.bytes) < length
               THEN length - Len(value.bytes) ELSE 0
  IN  [i \in 1..length |-> IF i - shift \in DOMAIN value.bytes THEN value.bytes[i - shift] ELSE 0]

\* extend_pad_or_truncate: numbers keep their right end, the rest the left;
\* compressed numbers are filled with 'FF'.
Fit(value, length) ==
  LET shift == IF value.format = Numeric THEN length - Len(value.bytes) ELSE 0
  IN  [i \in 1..length |->
         IF i - shift \in DOMAIN value.bytes THEN value.bytes[i - shift]
         ELSE IF value.format = CompressedNumeric THEN 255 ELSE 0]

\* Dol::build: what is constructed or unknown becomes zeros.
BuildDol(dol, values) ==
  LET Field(entry) ==
        IF IsConstructed(entry.tag) \/ values[entry.tag] = None
        THEN Repeat(0, entry.length)
        ELSE Fit(Unwrap(values[entry.tag]), entry.length)
  IN  Joined([i \in DOMAIN dol |-> Field(dol[i])])

\* terminal_value_for: the elements of the context ctx a list can ask for.
\* bcd elements of the inputs (9A, 9F21) are kept as their bytes.
terminal_value_for(tag, ctx) ==
  LET N(bytes) == Some(Formatted(Numeric, bytes))
      B(bytes) == Some(Formatted(Other, bytes))
      InApp(Value(_)) ==
        IF ctx.app = None THEN None ELSE B(Value(Unwrap(ctx.app)))
  IN  CASE tag = <<\h9F, \h02>> -> N(bcd_u64(ctx.inputs.amount_authorised, 6))
        [] tag = <<\h81>> -> B(be_bytes(ctx.inputs.amount_authorised, 4))
        [] tag = <<\h9F, \h03>> -> N(bcd_u64(ctx.inputs.amount_other, 6))
        [] tag = <<\h9F, \h04>> -> B(be_bytes(ctx.inputs.amount_other, 4))
        [] tag = <<\h5F, \h2A>> -> N(bcd_u64(ctx.inputs.transaction_currency_code, 2))
        [] tag = <<\h5F, \h36>> -> N(bcd_u64(ctx.inputs.transaction_currency_exponent, 1))
        [] tag = <<\h9A>> -> N(ctx.inputs.transaction_date)
        [] tag = <<\h9F, \h21>> -> N(ctx.inputs.transaction_time)
        [] tag = <<\h9C>> -> N(<<ctx.inputs.transaction_type>>)
        [] tag = <<\h9F, \h41>> -> N(bcd_u64(ctx.inputs.transaction_sequence_counter, 4))
        [] tag = <<\h9F, \h37>> -> B(ctx.inputs.unpredictable_number)
        [] tag = <<\h9F, \h1A>> -> N(bcd_u64(ctx.terminal.terminal_country_code, 2))
        [] tag = <<\h9F, \h35>> -> N(<<ctx.terminal.terminal_type>>)
        [] tag = <<\h9F, \h33>> ->
             B(RegisterBytes(TerminalCapabilitiesLayout, ctx.terminal.terminal_capabilities))
        [] tag = <<\h9F, \h40>> ->
             B(RegisterBytes(AdditionalTerminalCapabilitiesLayout,
                             ctx.terminal.additional_terminal_capabilities))
        [] tag = <<\h9F, \h1C>> -> B(ctx.terminal.terminal_identification)
        [] tag = <<\h9F, \h1E>> -> B(ctx.terminal.ifd_serial_number)
        [] tag = <<\h9F, \h15>> -> N(bcd_u64(ctx.terminal.merchant_category_code, 2))
        [] tag = <<\h9F, \h16>> -> B(ctx.terminal.merchant_identifier)
        [] tag = <<\h9F, \h4E>> -> B(ctx.terminal.merchant_name_and_location)
        [] tag = <<\h9F, \h01>> ->
             IF ctx.terminal.acquirer_identifier = None THEN None
             ELSE N(Unwrap(ctx.terminal.acquirer_identifier))
        [] tag = <<\h9F, \h09>> -> InApp(LAMBDA app : app.application_version_number)
        [] tag = <<\h9F, \h1B>> -> InApp(LAMBDA app : be_bytes(app.terminal_floor_limit, 4))
        [] tag = <<\h9F, \h1D>> ->
             IF ctx.app = None THEN None
             ELSE Then(Unwrap(ctx.app).terminal_risk_management_data, B)
        [] tag = <<\h95>> -> B(RegisterBytes(TvrLayout, ctx.tvr))
        [] tag = <<\h9B>> -> B(RegisterBytes(TsiLayout, ctx.tsi))
        [] tag = <<\h9F, \h5B>> ->
             Check(ctx.issuer_script_results # <<>>, 
                   B(Joined([i \in DOMAIN ctx.issuer_script_results |->
                                   ScriptResultBytes(ctx.issuer_script_results[i])])))
        [] tag = <<\h98>> -> Then(ctx.tc_hash_value, B)
        [] OTHER -> None

\* Dol::resolve
Resolve(dol, ctx) ==
  BuildDol(dol, [tag \in {dol[i].tag : i \in DOMAIN dol} |-> terminal_value_for(tag, ctx)])
-----------------------------------------------------------------------------
OneByte(bytes) == Check(Len(bytes) = 1, Some(bytes[1]))

(* File control information: SELECT. *)

\* parse_outer_template: '6F' holds the DF name and 'A5', and 'A5' the rest.
\* Bytes after the template are not looked at.
parse_outer_template(data) ==
  Then(Parse(data), LAMBDA one :
    Check(one.tlv.tag = <<\h6F>>,
      Then(find_tag(one.tlv.children, <<\hA5>>), LAMBDA proprietary :
        Some([outer |-> one.tlv.children, inner |-> proprietary.children]))))

take_optional_primitive(tlvs, tag) == OptionalField(find_tag(tlvs, tag), AnyBytes)
take_optional_constructed(tlvs, tag) ==
  IF find_tag(tlvs, tag) = None THEN Some(None)
  ELSE Then(AsConstructed(Unwrap(find_tag(tlvs, tag))), LAMBDA children : Some(Some(children)))
df_name(outer) == MandatoryField(find_tag(outer, <<\h84>>), AnyBytes)
fci_issuer_discretionary_data(inner) == take_optional_constructed(inner, <<\hBF, \h0C>>)
issuer_code_table_index(inner) == OptionalField(find_tag(inner, <<\h9F, \h11>>), OneByte)

\* AdfFci::parse
AdfFci(data) ==
  Then(parse_outer_template(data), LAMBDA t :
    LET name == df_name(t.outer)
        label == take_optional_primitive(t.inner, <<\h50>>)
        priority == OptionalField(find_tag(t.inner, <<\h87>>),
                                  LAMBDA b : ParseRegister(PriorityIndicatorLayout, b))
        pdol == OptionalField(find_tag(t.inner, <<\h9F, \h38>>), ParseDol)
        language == take_optional_primitive(t.inner, <<\h5F, \h2D>>)
        table == issuer_code_table_index(t.inner)
        preferred == take_optional_primitive(t.inner, <<\h9F, \h12>>)
        discretionary == fci_issuer_discretionary_data(t.inner)
    IN  Check(None \notin {name, label, priority, pdol, language, table, preferred, discretionary},
              Some([df_name |-> Unwrap(name), application_label |-> Unwrap(label),
                    application_priority_indicator |-> Unwrap(priority), pdol |-> Unwrap(pdol),
                    language_preference |-> Unwrap(language),
                    issuer_code_table_index |-> Unwrap(table),
                    application_preferred_name |-> Unwrap(preferred),
                    fci_issuer_discretionary_data |-> Unwrap(discretionary)])))

\* PseFci::parse and DdfFci::parse: a directory's file is named by its SFI.
sfi_of_directory_ef(inner) == MandatoryField(find_tag(inner, <<\h88>>), OneByte)
DdfFci(data) ==
  Then(parse_outer_template(data), LAMBDA t :
    LET name == df_name(t.outer)
        sfi == sfi_of_directory_ef(t.inner)
        discretionary == fci_issuer_discretionary_data(t.inner)
    IN  Check(None \notin {name, sfi, discretionary},
              Some([df_name |-> Unwrap(name), sfi_of_directory_ef |-> Unwrap(sfi),
                    fci_issuer_discretionary_data |-> Unwrap(discretionary)])))
PseFci(data) ==
  Then(parse_outer_template(data), LAMBDA t :
    LET language == take_optional_primitive(t.inner, <<\h5F, \h2D>>)
        table == issuer_code_table_index(t.inner)
    IN  Check(None \notin {language, table},
          Then(DdfFci(data), LAMBDA ddf :
            Some([language_preference |-> Unwrap(language),
                  issuer_code_table_index |-> Unwrap(table)] @@ ddf))))

(* The payment system directory: READ RECORD of the PSE. *)

\* parse_application_template: without an ADF name ('4F') the entry is
\* a DDF's and left out; a name of another length is an error.
parse_application_template(children) ==
  LET name == LastOf(children, <<\h4F>>)
      Field(tag) == OptionalField(LastOf(children, tag), AnyBytes)
      Readable ==
        /\ \A tag \in {<<\h4F>>, <<\h50>>, <<\h9F, \h12>>} : EachReads(children, tag, AnyBytes)
        /\ EachReads(children, <<\h87>>, OneByte)
      ReadName(bytes) == Check(Len(bytes) \in 5..16, Some(bytes))
      discretionary == LastOf(children, <<\h73>>)
  IN  Check(Readable,
        IF name = None THEN Some(None)
        ELSE Then(MandatoryField(name, ReadName), LAMBDA adf_name :
               Some(Some([adf_name |-> adf_name,
                          application_label |-> Unwrap(Field(<<\h50>>)),
                          application_preferred_name |-> Unwrap(Field(<<\h9F, \h12>>)),
                          application_priority_indicator |-> Unwrap(Field(<<\h87>>)),
                          directory_discretionary_template |->
                            Then(discretionary, AsConstructed)]))))

\* PaymentSystemDirectoryRecord::parse: the '61' entries of a '70' record.
PaymentSystemDirectoryRecord(data) ==
  Then(from_bytes(data), LAMBDA tlv :
    LET entries == [i \in DOMAIN tlv.children |->
                      IF tlv.children[i].tag = <<\h61>>
                      THEN parse_application_template(tlv.children[i].children) ELSE Some(None)]
    IN  Check(tlv.tag = <<\h70>> /\ \A i \in DOMAIN entries : entries[i] # None,
              Some(Joined([i \in DOMAIN entries |->
                             LET entry == Unwrap(entries[i])
                             IN  IF entry = None THEN <<>> ELSE <<Unwrap(entry)>>]))))

(* GET PROCESSING OPTIONS. *)

\* ApplicationFileLocatorEntry::parse
ParseLocatorEntry(bytes) ==
  LET sfi == bytes[1] \div 8
  IN  Check(/\ bytes[1] % 8 = 0
            /\ sfi \in 1..30
            /\ bytes[2] # 0
            /\ bytes[2] <= bytes[3]
            /\ bytes[4] <= (bytes[3] - bytes[2]) + 1,
            Some([sfi |-> sfi, first_record |-> bytes[2], last_record |-> bytes[3],
                  oda_record_count |-> bytes[4]]))
\* ApplicationFileLocator::parse
ParseLocator(data) ==
  LET entries == [i \in 1..(Len(data) \div 4) |->
                    ParseLocatorEntry(SubSeq(data, (4 * i) - 3, 4 * i))]
  IN  Check(/\ data # <<>>
            /\ Len(data) % 4 = 0
            /\ \A i \in DOMAIN entries : entries[i] # None,
            Some([i \in DOMAIN entries |-> Unwrap(entries[i])]))
\* Mutant: the count of signed records is one too low for a single record.
iter_reads_skipping(afl) ==
  Joined([i \in DOMAIN afl |->
    [k \in 1..(afl[i].last_record - afl[i].first_record) |->
       [sfi |-> afl[i].sfi, record_number |-> (afl[i].first_record + k) - 1,
        in_oda |-> k <= afl[i].oda_record_count]]])

\* iter_reads: the records in order, the first ones of an entry signed.
\* oda_end saturates at 255.
iter_reads(afl) ==
  Joined([i \in DOMAIN afl |->
    LET entry == afl[i]
        oda_end == IF entry.first_record + entry.oda_record_count > 255 THEN 255
                   ELSE entry.first_record + entry.oda_record_count
    IN  [k \in 1..((entry.last_record - entry.first_record) + 1) |->
           [sfi |-> entry.sfi, record_number |-> (entry.first_record + k) - 1,
            in_oda |-> (entry.first_record + k) - 1 < oda_end]]])

Options(aip, afl, proprietary, format) ==
  [aip |-> aip, afl |-> afl, proprietary |-> proprietary, format |-> format]
ParseAip(bytes) == ParseRegister(AipLayout, bytes)
\* parse_format_1: two bytes of profile, then a locator that must be there.
OptionsFormat1(bytes) ==
  Check(Len(bytes) >= 2,
    Then(ParseAip(First(bytes, 2)), LAMBDA aip :
      Then(ParseLocator(From(bytes, 3)), LAMBDA afl : Some(Options(aip, Some(afl), <<>>, 1)))))
\* parse_format_2: the last '82' and '94' among the children; the locator
\* may be absent, and everything else is kept as proprietary.
OptionsFormat2(children) ==
  LET Known == {<<\h82>>, <<\h94>>}
  IN  Check(EachReads(children, <<\h82>>, ParseAip) /\ EachReads(children, <<\h94>>, ParseLocator),
        Then(MandatoryField(LastOf(children, <<\h82>>), ParseAip), LAMBDA aip :
          Some(Options(aip, Unwrap(OptionalField(LastOf(children, <<\h94>>), ParseLocator)),
                       SelectSeq(children, LAMBDA c : c.tag \notin Known), 2))))
\* ProcessingOptionsResponse::parse
ProcessingOptionsResponse(data) ==
  Then(from_bytes(data), LAMBDA tlv :
    CASE tlv.tag = <<\h80>> -> OptionsFormat1(tlv.value)
      [] tlv.tag = <<\h77>> -> OptionsFormat2(tlv.children)
      [] OTHER -> None)
(* READ RECORD. *)

\* Mutant: any template is a record.
ReadRecordAnyTemplate(data) ==
  Then(from_bytes(data), LAMBDA tlv : Some([raw |-> data, tlv |-> tlv]))

\* ReadRecordResponse::parse: one '70' template and nothing after it.
ReadRecordResponse(data) ==
  Then(from_bytes(data), LAMBDA tlv : Check(tlv.tag = <<\h70>>, Some([raw |-> data, tlv |-> tlv])))
\* Mutant: the whole record is signed, whatever its file.
oda_input_raw(record, sfi) == record.raw

\* oda_input_bytes: the end of the record, as long as its value is when
\* encoded again; files 11 to 30 are signed with the tag and the length.
oda_input_bytes(record, sfi) ==
  IF sfi <= 10 THEN Ending(record.raw, encoded_len(record.tlv)) ELSE record.raw

(* GENERATE AC. *)

ParseCid(bytes) == ParseRegister(CidLayout, bytes)
Cryptogram(cid) ==
  <<"AAC", "TC", "ARQC", "RFU">>[1 + FieldValue(CidLayout, cid, "cryptogram_type")]
GenerateAc(format, cid, atc, ac, iad, sdad, children) ==
  [format |-> format, cid |-> cid, atc |-> atc, ac |-> ac, iad |-> iad, sdad |-> sdad,
   children_in_order |-> children]
\* Mutant: the issuer's data begins a byte late.
GenerateAcFormat1Late(bytes) ==
  Check(Len(bytes) >= 11,
    Then(ParseCid(First(bytes, 1)), LAMBDA cid :
      Some(GenerateAc(1, cid, SubSeq(bytes, 2, 3), Some(SubSeq(bytes, 4, 11)),
                      Check(Len(bytes) > 12, Some(From(bytes, 13))), None, <<>>))))

\* parse_format_1: the information byte, the counter, the cryptogram, and
\* issuer data to the end.
GenerateAcFormat1(bytes) ==
  Check(Len(bytes) >= 11,
    Then(ParseCid(First(bytes, 1)), LAMBDA cid :
      Some(GenerateAc(1, cid, SubSeq(bytes, 2, 3), Some(SubSeq(bytes, 4, 11)),
                      Check(Len(bytes) > 11, Some(From(bytes, 12))), None, <<>>))))

\* parse_format_2: information and counter are mandatory, and a cryptogram
\* or a signature.
GenerateAcFormat2(children) ==
  LET Two(bytes) == Check(Len(bytes) = 2, Some(bytes))
      Eight(bytes) == Check(Len(bytes) = 8, Some(bytes))
      Field(tag) == Unwrap(OptionalField(LastOf(children, tag), AnyBytes))
      Readable ==
        /\ EachReads(children, <<\h9F, \h27>>, ParseCid)
        /\ EachReads(children, <<\h9F, \h36>>, Two)
        /\ EachReads(children, <<\h9F, \h26>>, Eight)
        /\ \A tag \in {<<\h9F, \h10>>, <<\h9F, \h4B>>} : EachReads(children, tag, AnyBytes)
  IN  Check(Readable,
        Then(Field(<<\h9F, \h27>>), LAMBDA cid : Then(Field(<<\h9F, \h36>>), LAMBDA atc :
          LET ac == Field(<<\h9F, \h26>>)
              sdad == Field(<<\h9F, \h4B>>)
          IN  Check(ac # None \/ sdad # None,
                    Some(GenerateAc(2, Unwrap(ParseCid(cid)), atc, ac, Field(<<\h9F, \h10>>),
                                    sdad, children))))))
\* GenerateAcResponse::parse
GenerateAcResponse(data) ==
  Then(from_bytes(data), LAMBDA tlv :
    CASE tlv.tag = <<\h80>> -> GenerateAcFormat1(tlv.value)
      [] tlv.tag = <<\h77>> -> GenerateAcFormat2(tlv.children)
      [] OTHER -> None)

(* Elements of the card and the terminal that are not flags alone. *)

(* '8E' and '9F34'. *)

\* CardholderVerificationMethod::from_code, by the six low bits.
Biometrics ==
  [c \in 6..15 |->
     <<"Facial", "Finger", "Palm", "Iris", "Voice">>[(c - 4) \div 2]
     \o (IF c % 2 = 0 THEN " offline by ICC" ELSE " online")]
method(cvm) ==
  LET c == cvm % 64
  IN  CASE c = 0 -> "FailCvmProcessing"
        [] c = 1 -> "PlaintextPinVerificationPerformedByIcc"
        [] c = 2 -> "EncipheredPinVerifiedOnline"
        [] c = 3 -> "PlaintextPinVerificationPerformedByIccAndSignature"
        [] c = 4 -> "EncipheredPinVerificationPerformedByIcc"
        [] c = 5 -> "EncipheredPinVerificationPerformedByIccAndSignature"
        [] c \in 6..15 -> Biometrics[c]
        [] c \in 16..29 -> "Rfu"
        [] c = 30 -> "Signature"
        [] c = 31 -> "NoCvmRequired"
        [] c \in 32..47 -> "ReservedForIndividualPaymentSystems"
        [] c \in 48..62 -> "ReservedForIssuer"
        [] OTHER -> "NotAvailableForUse"
apply_succeeding_cv_rule_if_unsuccessful(cvm) == HasBit(cvm, 7)
\* CardholderVerificationMethodCondition::from_code
condition(code) ==
  CASE code = 0 -> "Always"
    [] code = 1 -> "IfUnattendedCash"
    [] code = 2 -> "IfNotUnattendedCashAndNotManualCashAndNotPurchaseWithCashback"
    [] code = 3 -> "IfTerminalSupportsTheCvm"
    [] code = 4 -> "IfManualCash"
    [] code = 5 -> "IfPurchaseWithCashback"
    [] code = 6 -> "IfUnderX"
    [] code = 7 -> "IfOverX"
    [] code = 8 -> "IfUnderY"
    [] code = 9 -> "IfOverY"
    [] code \in 10..127 -> "Rfu"
    [] OTHER -> "ReservedForIndividualPaymentSystems"

\* Mutant: the second amount is read where the first is.
ParseCvmListX(bytes) ==
  Check(Len(bytes) >= 8 /\ Len(bytes) % 2 = 0,
        Some([amount_x |-> Number(First(bytes, 4)), amount_y |-> Number(First(bytes, 4)),
              rules |-> [i \in 1..((Len(bytes) - 8) \div 2) |->
                           [cvm |-> bytes[7 + (2 * i)], condition |-> bytes[8 + (2 * i)]]]]))

\* CardholderVerificationMethodList::parse: X, Y, and rules of two bytes.
ParseCvmList(bytes) ==
  Check(Len(bytes) >= 8 /\ Len(bytes) % 2 = 0,
        Some([amount_x |-> Number(First(bytes, 4)), amount_y |-> Number(SubSeq(bytes, 5, 8)),
              rules |-> [i \in 1..((Len(bytes) - 8) \div 2) |->
                           [cvm |-> bytes[7 + (2 * i)], condition |-> bytes[8 + (2 * i)]]]]))

\* CardholderVerificationMethodResultCode, and "No CVM performed".
ResultCode == [Unknown |-> 0, Failed |-> 1, Successful |-> 2]
NoCvmPerformed == <<63, 0, ResultCode.Unknown>>

(* '9F10' of a CCD card, format code 'A'. *)

ParseIadFormatA(bytes) ==
  Check(Len(bytes) = 32 /\ bytes[1] = 15 /\ bytes[17] = 15,
        Some([cci |-> bytes[2], dki |-> bytes[3], cvr |-> SubSeq(bytes, 4, 8),
              counters |-> SubSeq(bytes, 9, 16), discretionary |-> From(bytes, 18)]))
\* CommonCoreIdentifier: the format code and the cryptogram version.
format_code(cci) == IF cci \div 16 = 10 THEN "CcdVersion41" ELSE "Other"
cryptogram_version(cci) ==
  CASE cci % 16 = 5 -> "TripleDes" [] cci % 16 = 6 -> "Aes" [] OTHER -> "Other"

(* '9F2A'. *)

KernelType == <<"International", "Rfu", "DomesticEmvco", "DomesticProprietary">>
\* KernelIdentifier::parse: one byte, or three and more.
ParseKernelIdentifier(bytes) ==
  Check(bytes # <<>> /\ Len(bytes) # 2,
        Some([kernel_type |-> KernelType[1 + (bytes[1] \div 64)],
              short_kernel_id |-> bytes[1] % 64,
              extended_kernel_id |-> Check(Len(bytes) >= 3, Some(SubSeq(bytes, 2, 3))),
              rfu_bytes |-> From(bytes, 4)]))
(* '5A'. *)

\* ApplicationPrimaryAccountNumber::parse
ParsePan(bytes) ==
  Check(Len(bytes) \in 1..10,
        Then(compressed_numeric_decode(bytes), LAMBDA digits :
          Check(digits # <<>>, Some(digits))))
=============================================================================
