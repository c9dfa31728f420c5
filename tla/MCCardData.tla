------------------------------ MODULE MCCardData ------------------------------
(***************************************************************************)
(* Cards, terminals and transactions for CardData.  A card is written down *)
(* as what it means, and its bytes are put together from that in one of    *)
(* several encodings, all of them BER-TLV.                                 *)
(***************************************************************************)
EXTENDS CardData

\* How a card writes lengths: in the shortest form, or one byte longer in its
\* templates ("outer") or in the elements inside them ("inner").
Length(n, long) == IF long THEN <<129, n>> ELSE IF n > 127 THEN <<129, n>> ELSE <<n>>
Wrap(tag, value, long) == tag \o Length(Len(value), long) \o value
Concat(seqs) == FlattenSeq(seqs)
Inner(style, element) == Wrap(element[1], element[2], style = "inner")
Outer(style, tag, value) == Wrap(tag, value, style = "outer")

\* A record in a style: its elements and its template.
Record(style, sfi, template, elements) ==
    LET objects == [i \in DOMAIN elements |-> Inner(style, elements[i])]
        value == Concat(objects)
        bytes == Outer(style, template, value)
    IN  [bytes |-> bytes, elements |-> elements, objects |-> objects, seventy |-> template = <<\h70>>,
         value |-> IF sfi <= 10 THEN value ELSE bytes]
Field(tag, length) == [tag |-> tag, length |-> length]
ListBytes(list) == Concat([i \in DOMAIN list |-> list[i].tag \o <<list[i].length>>])

AmountTag == <<\h9F, \h02>>
PlainList == <<Field(AmountTag, 6), Field(<<\h9F, \h03>>, 6), Field(<<\h9F, \h1A>>, 2),
               Field(<<\h95>>, 5), Field(<<\h5F, \h2A>>, 2), Field(<<\h9A>>, 3),
               Field(<<\h9C>>, 1), Field(<<\h9F, \h37>>, 4), Field(<<\h9F, \h33>>, 3),
               Field(<<\h9F, \h40>>, 5)>>
\* Lengths that are not the element's own, a hash, elements nobody knows.
OddList == <<Field(<<\h9C>>, 3), Field(<<\h81>>, 4), Field(<<\h98>>, 20), Field(AmountTag, 5),
             Field(<<\h95>>, 5), Field(<<\h9F, \h6D>>, 3), Field(<<\h9A>>, 3)>>
SecondList == <<Field(<<\h9F, \h37>>, 4), Field(<<\h8A>>, 2), Field(<<\h9F, \h5B>>, 6),
                Field(<<\h95>>, 5)>>
HashedSecondList == <<Field(<<\h98>>, 20), Field(<<\h95>>, 5)>>

\* Bits a card's or terminal's code selects, and its five bytes.
CodeBytes(at) == [byte \in 1..5 |-> ByteOf({b \in 1..8 : <<byte, b>> \in at})]
CodeElement(tag, code) == IF code = None THEN <<>> ELSE <<<<tag, CodeBytes(Unwrap(code))>>>>

Ac(type, iad) == [type |-> type, atc |-> <<0, 7>>, ac |-> Some(<<1, 2, 3, 4, 5, 6, 7, 8>>),
                  iad |-> iad]
CidOf == [AAC |-> 0, TC |-> \h40, ARQC |-> \h80, RFU |-> \hC0]
AcBytes(style, answer, format) ==
    LET parts == <<<<CidOf[answer.type] + 8>>, answer.atc, Unwrap(answer.ac)>>
        iad == IF answer.iad = None THEN <<>> ELSE Unwrap(answer.iad)
    IN  IF format = 1 THEN Outer(style, <<\h80>>, Concat(parts) \o iad)
        ELSE Outer(style, <<\h77>>, Inner(style, <<<<\h9F, \h36>>, parts[2]>>) \o Inner(style, <<<<\h9F, \h27>>, parts[1]>>)
                             \o (IF iad = <<>> THEN <<>> ELSE Inner(style, <<<<\h9F, \h10>>, iad>>))
                             \o Inner(style, <<<<\h9F, \h26>>, parts[3]>>))

Aid == <<\hA0, 0, 0, 0, 3>>
\* An amount X of 1000, Y of 65536.
Rules == [x |-> 1000, y |-> 65536,
          rules |-> <<<<"PlaintextPinVerificationPerformedByIcc", "IfTerminalSupportsTheCvm", TRUE>>,
                      <<"Palm offline by ICC", "IfOverY", TRUE>>,
                      <<"NoCvmRequired", "Always", FALSE>>>>]
RuleBytes == <<0, 0, 3, 232, 0, 1, 0, 0, \h41, 3, \h4A, 9, \h1F, 0>>
PanBytes == <<\h54, \h13, \h33, \h90, 0, 0, 1, \h51, \h3F>>
PanDigits == <<5, 4, 1, 3, 3, 3, 9, 0, 0, 0, 0, 0, 0, 1, 5, 1, 3>>

\* The first record: what restrictions and verification need.
Application(expiry) ==
    <<<< <<\h5A>>, PanBytes>>, << <<\h5F, \h24>>, expiry>>, << <<\h8E>>, RuleBytes>>,
      << <<\h9F, \h07>>, <<\hFF, 0>> >>, << <<\h5F, \h28>>, <<\h08, \h40>> >> >>
\* The second: the lists and the codes.
Lists(cdol1, cdol2, codes) ==
    <<<< <<\h8C>>, ListBytes(cdol1)>>, << <<\h8D>>, ListBytes(cdol2)>> >>
    \o CodeElement(<<\h9F, \h0E>>, codes.iacDenial)
    \o CodeElement(<<\h9F, \h0F>>, codes.iacOnline)
    \o CodeElement(<<\h9F, \h0D>>, codes.iacDefault)

\* The directory: one entry for a DDF, which has no name, then the names.
Entry(style, name) == Wrap(<<\h61>>, Inner(style, <<<<\h50>>, <<\h56>> >>) \o
                              (IF name = <<>> THEN <<>> ELSE Inner(style, <<<<\h4F>>, name>>))
                              \o Inner(style, <<<<\h87>>, <<1>> >>), style = "inner")
Pse(style, names) ==
    [fci |-> Outer(style, <<\h6F>>, Inner(style, <<<<\h84>>, PSE_NAME>>)
                             \o Wrap(<<\hA5>>, Inner(style, <<<<\h88>>, <<1>> >>)
                                               \o Inner(style, <<<<\h9F, \h11>>, <<1>> >>), style = "inner")),
     names |-> names,
     records |-> [i \in DOMAIN names |-> Outer(style, <<\h70>>, Entry(style, <<>>) \o Entry(style, names[i]))]]

Meant(tag, meaning) == [tag |-> tag, meaning |-> Some(meaning)]
\* A card: format of its answers, locator, records, lists, codes, answers.
Card(style, format, afl, records, pdol, cdols, codes, counters, answers) ==
    LET value == Inner(style, <<<<\h84>>, Aid>>)
                 \o Wrap(<<\hA5>>, IF pdol = <<>> THEN <<>>
                                   ELSE Inner(style, <<<<\h9F, \h38>>, ListBytes(pdol)>>), style = "inner")
        profile == <<IF format = 1 THEN \h14 ELSE \h10, 0>>
        parts == <<<<<<\h94>>, LocatorBytes(afl)>>, <<<<\h82>>, profile>>>>
        objects == [i \in DOMAIN parts |-> Inner(style, parts[i])]
    IN  [aid |-> Aid, fci |-> Outer(style, <<\h6F>>, value), afl |-> Listed(afl), records |-> records,
         pse |-> Pse(style, IF format = 1 THEN <<Aid, <<\hA0, 0, 0, 0, 4>> >> ELSE <<>>),
         options |-> IF format = 1 THEN Outer(style, <<\h80>>, profile \o LocatorBytes(afl))
                     ELSE Outer(style, <<\h77>>, Concat(objects)),
         profile |-> profile, locator |-> afl, option_objects |-> objects, option_elements |-> parts,
         data |-> counters, pdol |-> pdol, cdols |-> cdols, codes |-> codes, answers |-> answers,
         cryptograms |-> [i \in DOMAIN answers |-> [bytes |-> AcBytes(style, answers[i], format)]],
         issuer_data |-> <<1, 2, 3, 4, 5, 6, 7, 8, \h30, \h30>>, expired |-> FALSE, never_online |-> FALSE,
         meanings |-> {Meant(<<\h8E>>, Rules), Meant(<<\h5A>>, PanDigits)}]

Counters(last) == (<<\h9F, \h36>> :> <<\h9F, \h36, 2, 0, 9>>) @@ (<<\h9F, \h13>> :> <<\h9F, \h13, 2, 0, last>>)
Limits == << << <<\h9F, \h14>>, <<3>> >>, << <<\h9F, \h23>>, <<20>> >> >>
NoCodes == [iacDenial |-> None, iacOnline |-> None, iacDefault |-> None]
Careful == [iacDenial |-> Some({<<2, 5>>}), iacOnline |-> Some({<<4, 8>>, <<2, 4>>}),
            iacDefault |-> Some({<<4, 7>>, <<2, 7>>})]
\* Issuer application data of a CCD card, a kernel's number, old results.
Cvr == <<\hA5, \h31, 0, \h12, 0>>
Iad == <<15, \hA5, 1>> \o Cvr \o Repeat(7, 8) \o <<15>> \o Repeat(9, 15)
Structured == << << <<\h9F, \h10>>, Iad>>, << <<\h9F, \h2A>>, <<\h83, 4, 5, 6>> >>,
                 << <<\h9F, \h5B>>, <<\h13, 1, 2, 3, 4, \h20, 5, 6, 7, 8>> >> >>
StructuredMeanings ==
    {Meant(<<\h9F, \h10>>,
           [format |-> "CcdVersion41", version |-> "TripleDes", second |-> 2, tries |-> 3, scripts |-> 1,
            flags |-> {"offline_dda_performed", "issuer_authentication_failed",
                       "last_online_transaction_not_completed",
                       "go_online_on_next_transaction_was_set"}]),
     Meant(<<\h9F, \h2A>>, [kernel_type |-> "DomesticEmvco", short_kernel_id |-> 3,
                            extended_kernel_id |-> Some(<<4, 5>>), rfu_bytes |-> <<6>>]),
     Meant(<<\h9F, \h5B>>, <<[result |-> "ScriptProcessingFailed", number |-> 3, identifier |-> <<1, 2, 3, 4>>],
                             [result |-> "ScriptProcessingSuccessful", number |-> 0, identifier |-> <<5, 6, 7, 8>>]>>)}

Plain(style) ==
    Card(style, 1, <<<<1, 1, 2, 1>>, <<2, 1, 1, 0>>>>,
         (<<1, 1>> :> Record(style, 1, <<\h70>>, Application(<<\h30, \h12, \h31>>))) @@
         (<<1, 2>> :> Record(style, 1, <<\h70>>, Lists(PlainList, SecondList, NoCodes))) @@
         (<<2, 1>> :> Record(style, 2, <<\h70>>, <<<< <<\h5F, \h20>>, <<>> >> >>)),
         <<>>, <<PlainList, SecondList>>, NoCodes, Counters(8),
         <<Ac("ARQC", Some(<<6, 1>>)), Ac("TC", None)>>)
\* Files above 10, the order of the elements, a hash with the card's list,
\* a signed record that is no template '70', an expired application.
Odd(style) ==
    [Card(style, 2, <<<<12, 3, 3, 1>>, <<1, 1, 1, 0>>, <<3, 1, 1, 1>>>>,
         (<<12, 3>> :> Record(style, 12, <<\h70>>, Application(<<\h25, \h12, \h31>>) \o Limits)) @@
         (<<1, 1>> :> Record(style, 1, <<\h70>>, Lists(OddList, HashedSecondList, Careful)
                               \o Structured \o <<<< <<\h97>>, ListBytes(PlainList)>> >>)) @@
         (<<3, 1>> :> Record(style, 3, <<\h61>>, <<<< <<\h9F, \h08>>, <<0, 2>> >> >>)),
         <<Field(<<\h9F, \h1A>>, 2), Field(AmountTag, 6)>>, <<OddList, HashedSecondList>>,
         Careful, Counters(0), <<Ac("ARQC", None), Ac("AAC", Some(<<1>>))>>)
     EXCEPT !.expired = TRUE, !.never_online = TRUE, !.meanings = @ \cup StructuredMeanings]
\* Elements twice, counters missing, the default list hashed, a TC at once.
Doubled(style, elements, answer) ==
    Card(style, 2, <<<<1, 1, 1, 1>>, <<1, 2, 2, 0>>>>,
         (<<1, 1>> :> Record(style, 1, <<\h70>>, Application(<<\h30, \h12, \h31>>) \o elements)) @@
         (<<1, 2>> :> Record(style, 1, <<\h70>>, Lists(OddList, SecondList, Careful) \o elements)),
         <<>>, <<OddList, SecondList>>, Careful, <<>>, <<Ac(answer, None)>>)

MCCards ==
    {Plain("inner"), Odd("outer"),
     Doubled("outer", <<>>, "TC"), Doubled("inner", <<>>, "RFU"),
     Doubled("outer", <<<< <<\h9F, \h08>>, <<0, 2>> >> >>, "TC"),
     Doubled("short", <<<< <<\h9F, \h08>>, <<>> >> >>, "AAC")}
\* A card that tells the shortest lengths from its own is enough for what a length
\* inside a record does to the input.
LongInside == {Plain("inner")}

\* The terminal of a country (a decimal number), of a type, with codes.
MCTerminal(type, capability, codes, random_selection, tdol) ==
    [terminal |-> [terminal_country_code |-> 840, terminal_type |-> type,
                   additional_terminal_capabilities |->
                     WithFlags(AdditionalTerminalCapabilitiesLayout,
                               {"goods", "cash_deposit", "numeric_keys", "code_table_9", "code_table_1"}),
                   terminal_capabilities |->
                     WithFlags(TerminalCapabilitiesLayout,
                               {"ic_with_contacts", "plaintext_pin_for_icc_verification", "cda"}),
                   terminal_identification |-> <<>>,
                   ifd_serial_number |-> <<>>, merchant_category_code |-> 0,
                   merchant_identifier |-> <<>>, merchant_name_and_location |-> <<>>,
                   acquirer_identifier |-> None],
     app |-> [aid |-> Aid, partial_match_allowed |-> FALSE,
              application_version_number |-> <<0, 2>>, terminal_floor_limit |-> 5000,
              terminal_risk_management_data |-> None, random_selection |-> random_selection,
              default_tdol |-> tdol]
             @@ [k \in DOMAIN codes |-> IF codes[k] = None THEN None
                                        ELSE Some(CodeBytes(Unwrap(codes[k])))],
     codes |-> codes, capability |-> capability,
     capabilities |-> {<<1, 6>>, <<2, 8>>, <<3, 4>>},
     additional |-> {<<1, 7>>, <<2, 8>>, <<3, 8>>, <<4, 1>>, <<5, 1>>}]
TerminalCodes == [tacDenial |-> Some({<<3, 8>>}), tacOnline |-> Some({<<4, 6>>}), tacDefault |-> None]
NoTerminalCodes == [tacDenial |-> None, tacOnline |-> None, tacDefault |-> None]
Selection == [target |-> 20, maximum |-> 60, threshold |-> 100]
MCTerminals ==
    {MCTerminal(\h22, "OnlineCapable", TerminalCodes, None, None),
     MCTerminal(\h23, "OfflineOnly", NoTerminalCodes, None,
                Some(ListBytes(<<Field(AmountTag, 6), Field(<<\h95>>, 5)>>))),
     MCTerminal(\h24, "OnlineOnly", TerminalCodes, Some(Selection), Some(<<\h9F>>))}

Sale(amount, other, pin) ==
    [pin |-> pin, amount_authorised |-> amount, amount_other |-> other, transaction_currency_code |-> 978,
     transaction_currency_exponent |-> 2, transaction_date |-> <<\h26, \h03, \h15>>,
     transaction_time |-> <<\h12, \h34, \h56>>, transaction_type |-> IF other = 0 THEN 0 ELSE 9,
     transaction_sequence_counter |-> 1, unpredictable_number |-> <<\hDE, 0, \hBE, \hEF>>]
MCInputs == {Sale(1234, 0, <<1, 2, 3, 4>>), Sale(87654321, 2000, <<9, 0, 1, 2, 3>>)}

MCRandom == {None, Some(30)}
MCScriptResults ==
    {<<>>, <<[result |-> "ScriptProcessingSuccessful", number |-> 3, identifier |-> <<1, 2, 3, 4>>]>>}
\* A hash that tells answers apart: length, then the sum of the bytes by
\* their place.
MCSha1(bytes) ==
    be_bytes(Len(bytes), 4)
    \o be_bytes(FoldFunctionOnSet(+, 0, [i \in DOMAIN bytes |-> i * bytes[i]], DOMAIN bytes), 4)
    \o Repeat(170, 12)
=============================================================================
