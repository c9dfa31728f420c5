--------------------- MODULE MCOfflineDataAuthentication ---------------------
(***************************************************************************)
(* Cards issued correctly, with issuer keys shorter than, equal to and     *)
(* longer than the room for them, and cards that differ from one of those  *)
(* in one place.  Byte strings are short and overheads small; the numbers  *)
(* in them tell where a byte comes from.                                   *)
(***************************************************************************)
EXTENDS OfflineDataAuthentication

RsaKeyOf(modulus) == [modulus |-> modulus, exponent |-> <<3>>]
EccKeyOf(x) == [suite |-> "P256", x |-> x, onCurve |-> TRUE]

MCCaOverhead == 2
MCIssuerOverhead == 1

CaKey == RsaKeyOf(<<1, 2, 3, 4, 5>>)
ShortIssuer == RsaKeyOf(<<11, 12>>)
ExactIssuer == RsaKeyOf(<<11, 12, 13>>)
LongIssuer == RsaKeyOf(<<21, 22, 23, 24>>)
Issuers == {ShortIssuer, ExactIssuer, LongIssuer}
IccRsaKey == RsaKeyOf(<<31, 32>>)
PinRsaKey == RsaKeyOf(<<51, 52, 53, 54>>)
Stranger == RsaKeyOf(<<41, 42>>)
EccCaKey == EccKeyOf("ca")
EccIssuer == EccKeyOf("issuer")
IccEccKey == EccKeyOf("icc")

\* The last looks padded.
MCRsaKeys == Issuers \cup {IccRsaKey, PinRsaKey, Stranger, RsaKeyOf(<<31, 32, BB>>)}
MCEccKeys == {EccCaKey, EccIssuer, IccEccKey, EccKeyOf("stranger")}

\* Today is 15 June 2026, 10:30.
Today == <<26, 6, 15>>
LastMonth == <<26, 6>>
MCExpiries == {LastMonth, <<26, 5>>, <<25, 12>>, <<27, 1>>}
EccExpiries == {<<20, 26, 6, 15>>, <<20, 26, 6, 14>>, <<20, 25, 12, 31>>, <<20, 27, 1, 1>>}
Instants == {<<<<20, 26, 6, 15>>, <<10, 30>>>>, <<<<20, 26, 6, 15>>, <<10, 29>>>>,
             <<<<20, 27, 1, 1>>, <<0, 0>>>>, <<<<20, 26, 5, 15>>, <<11, 0>>>>}
MCSerials == {7, 9}  \* 9 is revoked

PanDigits == <<5, 4, 1, 3, 3, 3, 0, 0, 8, 9, 6>>
Pan == PanDigits \o <<15>>
Padded(digits, width) == [i \in 1..width |-> IF i <= Len(digits) THEN digits[i] ELSE 15]
Records == <<300, 301>>
Aip == <<400>>

RsaCard(method, issuer, tagList) ==
    LET static == Records \o (IF tagList = Absent THEN <<>> ELSE Aip)
    IN  [rid |-> "rid", method |-> method, records |-> Records, aip |-> Aip, gpo |-> <<"pdol">>,
         issuer |-> issuer, own |-> IccRsaKey,
         elements |->
            [index |-> <<1>>,
             issuerCert |-> <<Certificate(CaKey, MCCaOverhead, "02", Padded(<<5, 4, 1>>, 8),
                                          LastMonth, 7, issuer, <<>>)>>,
             issuerExponent |-> <<issuer.exponent>>,
             issuerRemainder |-> RemainderOf(issuer.modulus, Len(CaKey.modulus) - MCCaOverhead),
             iccCert |-> <<Certificate(issuer, MCIssuerOverhead, "04", Padded(PanDigits, 20),
                                       LastMonth, 7, IccRsaKey, static)>>,
             iccExponent |-> <<IccRsaKey.exponent>>,
             iccRemainder |-> RemainderOf(IccRsaKey.modulus, Len(issuer.modulus) - MCIssuerOverhead),
             ssad |-> <<[by |-> issuer, msg1 |-> [format |-> "03", padded |-> TRUE],
                         msg2 |-> static]>>,
             pinCert |-> Absent, pinExponent |-> Absent, pinRemainder |-> Absent,
             pan |-> <<Pan>>,
             sdaTagList |-> tagList,
             ddol |-> <<[parses |-> TRUE, un |-> TRUE, data |-> <<"UN", "ddol">>]>>,
             pdol |-> <<"pdol">>]]

XdaCard ==
    [RsaCard("XDA", LongIssuer, Absent) EXCEPT
        !.issuer = EccIssuer, !.own = IccEccKey,
        !.elements["issuerCert"] =
            <<[by |-> EccCaKey,
               msg |-> [format |-> "12", subject |-> Padded(<<5, 4, 1, 3, 3, 3, 0, 0>>, 10),
                        expiry |-> <<20, 26, 6, 15>>, rid |-> "rid", index |-> 1, serial |-> 7,
                        key |-> EccIssuer]]>>,
        !.elements["iccCert"] =
            <<[by |-> EccIssuer,
               msg |-> [format |-> "14", expiry |-> <<20, 26, 6, 15>>, time |-> <<10, 30>>,
                        key |-> IccEccKey, hashAlgorithm |-> "SHA-256", iccd |-> <<Records, Aip, "rid", <<"pdol">>>>]]>>]
-----------------------------------------------------------------------------
(* Differences in one place. *)

Without(c) == {[c EXCEPT !.elements[e] = Absent] : e \in Element}

WithCert(c, name, certs) == {[c EXCEPT !.elements[name] = <<cert>>] : cert \in certs}

\* An RSA certificate made out otherwise.
Otherwise(cert) ==
    {[cert EXCEPT !.msg1.expiry = e] : e \in MCExpiries}
    \cup {[cert EXCEPT !.msg1.format = "03"], [cert EXCEPT !.msg1.serial = 9],
          [cert EXCEPT !.msg1.subject = Padded(<<5, 4>>, Len(@))],
          [cert EXCEPT !.msg1.subject = Padded(<<5, 4, 2>>, Len(@))],
          [cert EXCEPT !.msg1.subject = [@ EXCEPT ![1] = 15]],
          [cert EXCEPT !.msg1.length = @ - 1], [cert EXCEPT !.msg1.length = @ + 1],
          [cert EXCEPT !.msg1.exponentLength = @ + 1],
          [cert EXCEPT !.by.modulus = Reverse(@)], [cert EXCEPT !.msg2 = Append(@, 99)]}

Reissued(c) ==
    WithCert(c, "issuerCert", Otherwise(c.elements["issuerCert"][1]))
    \cup WithCert(c, "iccCert", Otherwise(c.elements["iccCert"][1]))

\* With a key for PIN encipherment, certified as such or otherwise.
WithPin(c) ==
    LET cert(static) == Certificate(c.issuer, MCIssuerOverhead, "04", Padded(PanDigits, 20),
                                    LastMonth, 7, PinRsaKey, static)
        genuine == [c EXCEPT !.elements["pinCert"] = <<cert(<<>>)>>,
                             !.elements["pinExponent"] = <<PinRsaKey.exponent>>,
                             !.elements["pinRemainder"] =
                                RemainderOf(PinRsaKey.modulus, Len(c.issuer.modulus) - MCIssuerOverhead)]
    IN  {genuine} \cup WithCert(genuine, "pinCert", {cert(Records)} \cup Otherwise(cert(<<>>)))
        \cup WithCert(genuine, "issuerCert", Otherwise(c.elements["issuerCert"][1]))
        \cup {[genuine EXCEPT !.elements[e] = Absent] : e \in {"pinExponent", "pinRemainder", "index"}}

\* The same bytes with the boundary between remainder, exponent and static
\* data elsewhere, and other bytes.
Shifted(c) ==
    {[c EXCEPT !.elements["issuerRemainder"] = <<Value(@) \o <<3>>>>,
               !.elements["issuerExponent"] = <<<<>>>>],
     [c EXCEPT !.elements["issuerRemainder"] = Absent,
               !.elements["issuerExponent"] = <<Value(c.elements["issuerRemainder"]) \o <<3>>>>],
     [c EXCEPT !.elements["iccExponent"] = <<<<3, 300>>>>, !.records = <<301>>],
     [c EXCEPT !.elements["iccRemainder"] = <<Value(@) \o <<3>>>>,
               !.elements["iccExponent"] = <<<<>>>>],
     [c EXCEPT !.records = <<300>>], [c EXCEPT !.aip = <<401>>],
     [c EXCEPT !.elements["sdaTagList"] = <<"8295">>],
     [c EXCEPT !.elements["pan"] = <<Padded(<<5, 4, 1, 3>>, 12)>>],
     [c EXCEPT !.elements["pan"] = <<[Pan EXCEPT ![1] = 15]>>],
     [c EXCEPT !.own = Stranger],
     [c EXCEPT !.elements["ssad"] = <<[@[1] EXCEPT !.by = Stranger]>>],
     [c EXCEPT !.elements["ssad"] = <<[@[1] EXCEPT !.msg1.padded = FALSE]>>],
     [c EXCEPT !.elements["ddol"] = <<[@[1] EXCEPT !.un = FALSE]>>]}

EccOtherwise(cert) ==
    {[cert EXCEPT !.msg.format = "13"], [cert EXCEPT !.by = EccKeyOf("stranger")],
     [cert EXCEPT !.msg.key.suite = "other"], [cert EXCEPT !.msg.key.onCurve = FALSE],
     [cert EXCEPT !.msg.key.x = "stranger"]}

EccReissued(c) ==
    LET issuer == c.elements["issuerCert"][1]
        icc == c.elements["iccCert"][1]
    IN  WithCert(c, "issuerCert",
            EccOtherwise(issuer)
            \cup {[issuer EXCEPT !.msg.expiry = e] : e \in EccExpiries}
            \cup {[issuer EXCEPT !.msg.serial = 9], [issuer EXCEPT !.msg.rid = "other"],
                  [issuer EXCEPT !.msg.index = 2],
                  [issuer EXCEPT !.msg.subject = Padded(PanDigits, 10)],
                  [issuer EXCEPT !.msg.subject = Padded(<<5, 4, 2>>, 10)]})
        \cup WithCert(c, "iccCert",
            EccOtherwise(icc)
            \cup {[icc EXCEPT !.msg.expiry = e[1], !.msg.time = e[2]] : e \in Instants}
            \cup {[icc EXCEPT !.msg.hashAlgorithm = "other"], [icc EXCEPT !.msg.iccd[1] = <<>>]})

MCCards ==
    {RsaCard(m, i, l) : m \in {"SDA", "DDA", "CDA"}, i \in Issuers, l \in {Absent, <<"82">>}}
    \cup UNION {Without(c) \cup Reissued(c) \cup Shifted(c) :
                c \in {RsaCard("SDA", LongIssuer, <<"82">>), RsaCard("DDA", ExactIssuer, Absent),
                       RsaCard("CDA", LongIssuer, Absent)}}
    \cup WithPin(RsaCard("CDA", LongIssuer, Absent)) \cup WithPin(RsaCard("SDA", ExactIssuer, Absent))
    \cup {XdaCard, [XdaCard EXCEPT !.own = EccKeyOf("stranger")], [XdaCard EXCEPT !.records = <<300>>],
          [XdaCard EXCEPT !.aip = <<401>>], [XdaCard EXCEPT !.rid = "other"]}
    \cup Without(XdaCard) \cup EccReissued(XdaCard)

Terminal ==
    [cas |-> {[rid |-> "rid", index |-> 1, key |-> CaKey]},
     eccCas |-> {[rid |-> "rid", index |-> 1, key |-> EccCaKey]},
     crl |-> {<<"rid", 1, 9>>, <<"other", 1, 7>>, <<"rid", 2, 7>>},
     date |-> Today, time |-> <<10, 30>>,
     ddol |-> <<[parses |-> TRUE, un |-> TRUE, data |-> <<"UN">>]>>]

MCTerminals ==
    {Terminal,
     [Terminal EXCEPT !.cas = {[rid |-> "rid", index |-> 2, key |-> CaKey]}, !.eccCas = {}],
     [Terminal EXCEPT !.ddol = Absent],
     [Terminal EXCEPT !.ddol = <<[parses |-> FALSE, un |-> FALSE, data |-> <<>>]>>]}

MCFaults == Fault
MCCdol1 == {<<>>, <<"cdol1">>}
MCCdol2 == {<<>>, <<"cdol2">>}
MCChildren == {<<"ATC", "SDAD">>, <<"SDAD", "ATC", "IAD">>, <<"ATC", "AC">>, <<"ATC", "AC", "SDAD">>}
=============================================================================
