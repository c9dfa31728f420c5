---------------------- MODULE OfflineDataAuthentication ----------------------
(***************************************************************************)
(* Offline data authentication of a card (contact/transaction_driver.rs):  *)
(* the certificate chain, the static or dynamic signature, and for CDA and *)
(* XDA the signatures of both GENERATE ACs.                                *)
(*                                                                         *)
(* A card has elements, keyed by name and each absent or one value, and    *)
(* its own keys (issuer, own).  It hears the data of GET PROCESSING        *)
(* OPTIONS and GENERATE AC and signs what it has heard, or, at fault,      *)
(* something else.                                                         *)
(***************************************************************************)
EXTENDS KeyCertificates, VerificationResults, SequencesExt

CONSTANTS
    Cards,     \* [rid, method, elements, records, aip, gpo, issuer, own]
    Terminals, \* [cas, eccCas, crl, date, time, ddol]
    Faults,    \* ways a dynamic signature goes wrong, see SignedByCard
    Cdol1, Cdol2, \* data of the GENERATE ACs
    Children,  \* objects of their answers, "SDAD" among them
    RsaKeys, EccKeys, Expiries, Serials \* all there are in RSA and ECC certificates

Method == {"SDA", "DDA", "CDA", "XDA"}
Fault == {"none", "key", "format", "layout", "cid", "hash", "nonce"}
Element ==
    {"index", "issuerCert", "issuerExponent", "issuerRemainder", "iccCert", "iccExponent",
     "iccRemainder", "pinCert", "pinExponent", "pinRemainder", "ssad", "pan", "sdaTagList",
     "ddol", "pdol"}

Optional(type) == {o \in Seq(type) : Len(o) <= 1}

\* A date or a time, in bytes of two digits each.
Moment(n) == [1..n -> 0..99]
Nibbles(n) == [1..n -> 0..15]

\* What issuer certificates (width 8) and ICC certificates (20) recover to.
RsaCertificate(width) ==
    [by : RsaKey,
     msg1 : [format : STRING, subject : Nibbles(width), expiry : Expiries, serial : Serials,
             length : Nat, exponentLength : Nat, leftmost : Seq(Nat)],
     msg2 : Seq(Nat)]
SignedData == [by : RsaKey, msg1 : [format : STRING, padded : BOOLEAN], msg2 : Seq(Nat)]

\* Records, AIP, AID and PDOL.
Iccd == Seq(Nat) \X Seq(Nat) \X STRING \X Optional(STRING)
EccIssuerCertificate ==
    [by : EccKey,
     msg : [format : STRING, subject : Nibbles(10), expiry : Moment(4), rid : STRING, index : Nat,
            serial : Serials, key : EccKey]]
EccIccCertificate ==
    [by : EccKey,
     msg : [format : STRING, expiry : Moment(4), time : Moment(2), key : EccKey,
            hashAlgorithm : STRING, iccd : Iccd]]

DdolType == [parses : BOOLEAN, un : BOOLEAN, data : Seq(STRING)]
Elements(issuerCertificate, iccCertificate) ==
    [index : Optional(Nat), pan : Optional(Seq(0..15)),
     issuerCert : Optional(issuerCertificate), iccCert : Optional(iccCertificate),
     issuerExponent : Optional(Seq(Nat)), issuerRemainder : Optional(Seq(Nat)),
     iccExponent : Optional(Seq(Nat)), iccRemainder : Optional(Seq(Nat)),
     pinCert : Optional(RsaCertificate(20)),
     pinExponent : Optional(Seq(Nat)), pinRemainder : Optional(Seq(Nat)),
     ssad : Optional(SignedData), sdaTagList : Optional(STRING),
     ddol : Optional(DdolType), pdol : Optional(STRING)]

CardType(c) ==
    /\ c.method \in Method
    /\ c.elements \in IF c.method = "XDA" THEN Elements(EccIssuerCertificate, EccIccCertificate)
                      ELSE Elements(RsaCertificate(8), RsaCertificate(20))
    /\ c.rid \in STRING /\ c.records \in Seq(Nat) /\ c.aip \in Seq(Nat) /\ c.gpo \in Seq(STRING)

\* A terminal has one key for a RID and an index.
TerminalType(t) ==
    /\ \A ca \in t.cas : ca \in [rid : STRING, index : Nat, key : RsaKey]
    /\ \A ca \in t.eccCas : ca \in [rid : STRING, index : Nat, key : EccKey]
    /\ \A keys \in {t.cas, t.eccCas} : \A k1, k2 \in keys :
          <<k1.rid, k1.index>> = <<k2.rid, k2.index>> => k1 = k2
    /\ t.date \in Moment(3) /\ t.time \in Moment(2) /\ t.ddol \in Optional(DdolType)

\* The keys, certified or not, that a certificate and what goes with it spell.
Spelled(c, cert, remainder, exponent) ==
    {k \in {recovered_key(c.elements[cert][1], c.elements[remainder], c.elements[exponent][1])} :
        LET msg1 == c.elements[cert][1].msg1
        IN  /\ Assembles(msg1.leftmost, msg1.length, c.elements[remainder])
            /\ msg1.exponentLength = Len(c.elements[exponent][1])}

ASSUME OdaAssumption ==
    /\ \A c \in Cards : CardType(c)
    /\ \A t \in Terminals : TerminalType(t)
    /\ Cdol1 \subseteq Seq(STRING) /\ Cdol2 \subseteq Seq(STRING)
    /\ <<>> \in Cdol1 /\ <<>> \in Cdol2
    /\ Expiries \subseteq Moment(2) /\ Faults \subseteq Fault

\* RsaKeys and EccKeys leave out no key that is in a certificate.
ASSUME KeysAssumption ==
    /\ RsaKeys \subseteq RsaKey
    /\ \A c \in Cards :
          IF c.method = "XDA"
          THEN \A cert \in Range(c.elements.issuerCert) \cup Range(c.elements.iccCert) :
                  validate_x_on_curve(cert.msg.key) => cert.msg.key \in EccKeys
          ELSE \A name \in {<<"issuerCert", "issuerRemainder", "issuerExponent">>,
                            <<"iccCert", "iccRemainder", "iccExponent">>,
                            <<"pinCert", "pinRemainder", "pinExponent">>} :
                  (c.elements[name[1]] # Absent /\ c.elements[name[3]] # Absent)
                    => Spelled(c, name[1], name[2], name[3]) \subseteq RsaKeys
    /\ \A t \in Terminals : \A ca \in t.eccCas : validate_x_on_curve(ca.key) => ca.key \in EccKeys
    /\ EccKeys \subseteq EccKey /\ \A k \in EccKeys : validate_x_on_curve(k)

VARIABLES
    card, terminal,  \* chosen at the start
    pc,              \* the next step of the driver, "Over" or "Err"
    tvr, tsi,
    store,           \* recovered elements that have been stored
    key,             \* ICC public key recovered, or Absent
    xda,             \* XdaArmingState
    stash,           \* data of the GENERATE ACs, kept for verification
    heard,           \* what the card has been sent to sign
    last             \* the last dynamic signature: by the key recovered over what was
                     \* heard? its verdict

config == <<card, terminal>>
vars == <<config, pc, tvr, tsi, store, key, xda, stash, heard, last>>

\* The bits a method may set: each failure is reported as that of the method
\* the card was authenticated by.
BitsOf(method) ==
    CASE method = "SDA" -> {"sda_selected", "sda_failed", "icc_data_missing"}
      [] method = "DDA" -> {"dda_failed", "icc_data_missing"}
      [] method = "CDA" -> {"cda_failed", "icc_data_missing"}
      [] method = "XDA" -> {"xda_selected", "icc_data_missing"} \cup XdaFailureBit

Has(names) == \A n \in names : card.elements[n] # Absent
The(name) == card.elements[name][1]
Performed == tsi' = {"offline_data_authentication_was_performed"}

Init ==
    /\ card \in Cards /\ terminal \in Terminals
    /\ pc = "Authenticate" /\ tvr = {} /\ tsi = {} /\ store = {}
    /\ key = Absent /\ xda = "None" /\ stash = [cdol1 |-> <<>>, cdol2 |-> <<>>]
    /\ heard = card.gpo /\ last = [genuine |-> FALSE, verdict |-> "none"]
-----------------------------------------------------------------------------
(* The chain of certificates. *)

Ca(keys) == {k \in keys : k.rid = card.rid /\ k.index = The("index")}
Month == SubSeq(terminal.date, 1, 2)

\* Only '82' may be in the SDA Tag List.
sda_static_data_builds == card.elements["sdaTagList"] \in {Absent, <<"82">>}
sda_static_data_input ==
    card.records \o (IF card.elements["sdaTagList"] = Absent THEN <<>> ELSE card.aip)

\* The parts are TLVs and cannot run into each other.
xda_iccd_input == <<card.records, card.aip, card.rid, card.elements["pdol"]>>

\* Mutant: the certificate's serial number is not looked up.
UnrevokedAlways(ca, cert) == TRUE
Unrevoked(ca, cert) == ~is_revoked(terminal.crl, card.rid, ca.index, cert.msg1.serial)

IssuerRecovered ==
    /\ sda_static_data_builds
    /\ \E ca \in Ca(terminal.cas) :
          /\ recover_issuer_public_key(ca.key, The("issuerCert"), card.elements["issuerRemainder"],
                                       The("issuerExponent"), The("pan"), Month)
          /\ Unrevoked(ca, The("issuerCert"))

IssuerKey ==
    recovered_key(The("issuerCert"), card.elements["issuerRemainder"], The("issuerExponent"))

IccRecovered ==
    /\ IssuerRecovered
    /\ recover_icc_public_key(IssuerKey, The("iccCert"), card.elements["iccRemainder"],
                              The("iccExponent"), sda_static_data_input, The("pan"), Month)

IccKey == recovered_key(The("iccCert"), card.elements["iccRemainder"], The("iccExponent"))

EccRecovered ==
    LET today == bcd_yyyymmdd_from_yymmdd(terminal.date)
        cert == The("issuerCert")
    IN  \E ca \in Ca(terminal.eccCas) :
          /\ recover_issuer_public_key_ecc(ca, cert, The("pan"), today)
          /\ ~is_revoked(terminal.crl, card.rid, ca.index, cert.msg.serial)
          /\ recover_icc_public_key_ecc(cert.msg.key, The("iccCert"), xda_iccd_input,
                                        today, terminal.time)

\* The issuer's key once more, for PIN encipherment, and without a look at the
\* revocation list.  An ECC certificate is none of RSA.
recover_issuer_public_key_for_pin ==
    /\ card.method # "XDA" /\ Has({"index", "issuerCert", "issuerExponent", "pan"})
    /\ \E ca \in Ca(terminal.cas) :
          recover_issuer_public_key(ca.key, The("issuerCert"), card.elements["issuerRemainder"],
                                    The("issuerExponent"), The("pan"), Month)

\* The key a PIN is enciphered with: the card's own key for it or, if it has
\* none, the key recovered for CDA.
recover_pin_encipherment_public_key ==
    IF ~Has({"pinCert", "pinExponent"})
    THEN IF card.method = "CDA" THEN key ELSE Absent
    ELSE IF /\ recover_issuer_public_key_for_pin
            /\ recover_icc_pin_encipherment_public_key(
                  IssuerKey, The("pinCert"), card.elements["pinRemainder"], The("pinExponent"),
                  The("pan"), Month)
         THEN <<recovered_key(The("pinCert"), card.elements["pinRemainder"], The("pinExponent"))>>
         ELSE Absent
-----------------------------------------------------------------------------
(* The four methods (perform_offline_data_authentication). *)

SdaData == {"index", "issuerCert", "issuerExponent", "ssad", "pan"}
IccData == {"index", "issuerCert", "issuerExponent", "iccCert", "iccExponent", "pan"}
XdaData == {"index", "issuerCert", "iccCert", "pan"}

MissingBit(names) == IF Has(names) THEN {} ELSE {"icc_data_missing"}

perform_sda ==
    /\ card.method = "SDA"
    /\ IF Has(SdaData) /\ IssuerRecovered
          /\ verify_sda(IssuerKey, The("ssad"), sda_static_data_input)
       THEN tvr' = {"sda_selected"} /\ store' = store \cup {"DAC"}
       ELSE tvr' = {"sda_selected", "sda_failed"} \cup MissingBit(SdaData) /\ UNCHANGED store
    /\ Performed
    /\ pc' = "Over"
    /\ UNCHANGED <<key, xda, heard>>

\* The card's DDOL, or else the terminal's, and it asks for the UN.
Ddol == IF Has({"ddol"}) THEN card.elements["ddol"] ELSE terminal.ddol
DdolUsable == Ddol # Absent /\ Ddol[1].parses /\ Ddol[1].un

perform_dda ==
    /\ card.method = "DDA"
    /\ IF Has(IccData) /\ IccRecovered /\ DdolUsable
       THEN /\ pc' = "InternalAuthenticate"
            /\ key' = <<IccKey>> /\ heard' = Ddol[1].data
            /\ UNCHANGED <<tvr, tsi>>
       ELSE /\ tvr' = {"dda_failed"} \cup MissingBit(IccData)
            /\ Performed
            /\ pc' = "Over"
            /\ UNCHANGED <<key, heard>>
    /\ UNCHANGED <<store, xda>>

\* Mutant: a failure is reported as that of DDA.
CdaFailureMisreported == tvr' = {"dda_failed"} \cup MissingBit(IccData)
fail_cda == tvr' = {"cda_failed"} \cup MissingBit(IccData)

perform_cda_arm ==
    /\ card.method = "CDA"
    /\ IF Has(IccData) /\ IccRecovered
       THEN key' = <<IccKey>> /\ pc' = "FirstAc" /\ UNCHANGED tvr
       ELSE fail_cda /\ pc' = "Over" /\ UNCHANGED key
    /\ UNCHANGED <<tsi, store, xda, heard>>

perform_xda_arm ==
    /\ card.method = "XDA"
    /\ xda' = IF Has(XdaData) /\ Ca(terminal.eccCas) = {} THEN "CaMissing"
              ELSE IF Has(XdaData) /\ EccRecovered THEN "Armed" ELSE "RecoveryFailed"
    /\ key' = IF xda' = "Armed" THEN <<The("iccCert").msg.key>> ELSE Absent
    /\ tvr' = {"xda_selected"} \cup MissingBit(XdaData)
    /\ pc' = "FirstAc"
    /\ UNCHANGED <<tsi, store, heard>>

perform_offline_data_authentication ==
    /\ pc = "Authenticate"
    /\ perform_sda \/ perform_dda \/ perform_cda_arm \/ perform_xda_arm
    /\ UNCHANGED <<config, stash, last>>
-----------------------------------------------------------------------------
(* Dynamic signatures. *)

UN == <<"UN">>

\* The signature of a key; hash is what it is to bind besides the nonce.
Genuine(by, format, cid, hash, nonce) ==
    [by |-> by, msg1 |-> [format |-> format, layout |-> TRUE, cid |-> cid, hash |-> hash],
     msg2 |-> nonce]

\* The signature a card makes that should make g.  Its own key need not be
\* the one that is certified.
SignedByCard(g, fault) ==
    CASE fault = "none" -> g
      [] fault = "key" -> [g EXCEPT !.by = card.issuer]
      [] fault = "format" -> [g EXCEPT !.msg1.format = "03"]
      [] fault = "layout" -> [g EXCEPT !.msg1.layout = FALSE]
      [] fault = "cid" -> [g EXCEPT !.msg1.cid = "other"]
      [] fault = "hash" -> [g EXCEPT !.msg1.hash = Append(@, "other")]
      [] fault = "nonce" -> [g EXCEPT !.msg2 = Append(@, "other")]

\* The answer to INTERNAL AUTHENTICATE: refused or not to be parsed, signed,
\* or lost.
internal_authenticate ==
    /\ pc = "InternalAuthenticate"
    /\ \/ \E fault \in Faults \ {"cid", "hash"} :
             LET sdad == SignedByCard(Genuine(card.own, "05", Absent, Absent, heard), fault)
                 verified == verify_dda(key[1], sdad, Ddol[1].data)
             IN  /\ last' = [genuine |-> sdad = Genuine(key[1], "05", Absent, Absent, heard),
                             verdict |-> IF verified THEN "verified" ELSE "rejected"]
                 /\ IF verified
                    THEN store' = store \cup {"ICC_DYNAMIC_NUMBER"} /\ UNCHANGED tvr
                    ELSE tvr' = tvr \cup {"dda_failed"} /\ UNCHANGED store
                 /\ Performed /\ pc' = "Over"
       \/ /\ tvr' = tvr \cup {"dda_failed"}
          /\ Performed /\ pc' = "Over"
          /\ UNCHANGED <<store, last>>
       \/ pc' = "Err" /\ UNCHANGED <<tvr, tsi, store, last>>
    /\ UNCHANGED <<config, key, xda, stash, heard>>

\* Mutant: the data of the second GENERATE AC is left out.
FirstDataOnly(second, kept) == card.gpo \o kept.cdol1

\* PDOL, CDOL1 and for the second GENERATE AC also CDOL2 data.
RequestData(second, kept) ==
    card.gpo \o kept.cdol1 \o (IF second THEN kept.cdol2 ELSE <<>>)

\* The objects of an answer less the signature.
Objects(cid, children) == <<cid>> \o SelectSeq(children, LAMBDA c : c # "SDAD")
HasSdad(children) == \E i \in DOMAIN children : children[i] = "SDAD"
HasAc(children) == \E i \in DOMAIN children : children[i] = "AC"

\* pc after an answer that lets the transaction go on.
After(second, cid) == IF ~second /\ cid = "ARQC" THEN "SecondAc" ELSE "Over"

verify_cda_inner(second, cid, children, fault) ==
    LET said == Objects(cid, children)
        sdad == SignedByCard(Genuine(card.own, "05", cid, heard' \o said, UN), fault)
        sent == HasSdad(children)
        verified == sent /\ verify_cda(key[1], sdad, UN, RequestData(second, stash') \o said, cid)
        genuine == sent /\ sdad = Genuine(key[1], "05", cid, heard' \o said, UN)
    IN  IF ~verified
        THEN /\ tvr' = tvr \cup {"cda_failed"}
             /\ last' = [genuine |-> genuine, verdict |-> "rejected"]
             /\ pc' = "Over"
             /\ UNCHANGED <<store, tsi>>
        ELSE IF "ICC_DYNAMIC_NUMBER" \in store
        THEN /\ last' = [genuine |-> genuine, verdict |-> "skipped"]  \* stored twice
             /\ pc' = "Over"
             /\ UNCHANGED <<tvr, tsi, store>>
        ELSE /\ store' = store \cup {"ICC_DYNAMIC_NUMBER", "APPLICATION_CRYPTOGRAM"}
             /\ Performed
             /\ last' = [genuine |-> genuine, verdict |-> "verified"]
             /\ pc' = After(second, cid)
             /\ UNCHANGED tvr

\* A cryptogram stored before is not stored again, and nothing else changes.
StoreCryptogram(children) ==
    IF ~HasAc(children) THEN Performed /\ UNCHANGED store
    ELSE IF "APPLICATION_CRYPTOGRAM" \in store THEN UNCHANGED <<tsi, store>>
    ELSE Performed /\ store' = store \cup {"APPLICATION_CRYPTOGRAM"}

XdaVerdict(second, cid, children, fault) ==
    LET said == Objects(cid, children)
        sdad == SignedByCard(Genuine(card.own, "15", Absent, Absent, heard' \o said), fault)
        sent == HasSdad(children)
        verified == sent /\ verify_xda(key[1], sdad, RequestData(second, stash') \o said)
    IN  /\ last' = [genuine |-> sent /\ sdad = Genuine(key[1], "15", Absent, Absent, heard' \o said),
                    verdict |-> IF verified THEN "verified" ELSE "rejected"]
        /\ IF verified
           THEN StoreCryptogram(children) /\ UNCHANGED tvr
           ELSE tvr' = tvr \cup {"xda_signature_verification_failed"} /\ UNCHANGED <<tsi, store>>

ArmingBit ==
    CASE xda = "CaMissing" -> {"ca_ecc_key_missing"}
      [] xda = "RecoveryFailed" -> {"ecc_key_recovery_failed"}
      [] OTHER -> {}

NotVerified ==
    /\ tvr' = tvr \cup ArmingBit
    /\ last' = [genuine |-> FALSE, verdict |-> "skipped"]
    /\ UNCHANGED <<tsi, store>>

\* Mutant: an earlier failure does not end verification.
VerifiesAgain(second, cid, children, fault) ==
    IF xda # "Armed" \/ cid = "AAC"
    THEN NotVerified
    ELSE XdaVerdict(second, cid, children, fault)

verify_xda_inner(second, cid, children, fault) ==
    IF xda # "Armed" \/ cid = "AAC" \/ "xda_signature_verification_failed" \in tvr
    THEN NotVerified
    ELSE XdaVerdict(second, cid, children, fault)

\* The signature of an answer (verify_generate_ac_signature).
CdaAnswer(second, cid, children) ==
    /\ card.method = "CDA"
    /\ \/ cid # "AAC" /\ \E fault \in Faults : verify_cda_inner(second, cid, children, fault)
       \/ cid = "AAC" /\ pc' = "Over" /\ UNCHANGED <<tvr, tsi, store, last>>

XdaAnswer(second, cid, children) ==
    /\ card.method = "XDA"
    /\ \E fault \in Faults \ {"layout", "cid", "hash"} :
          verify_xda_inner(second, cid, children, fault)
    /\ pc' = After(second, cid)

Answered(second) ==
    /\ \/ \E cid \in {"AAC", "TC", "ARQC"}, children \in Children :
             CdaAnswer(second, cid, children) \/ XdaAnswer(second, cid, children)
       \/ pc' = "Err" /\ UNCHANGED <<tvr, tsi, store, last>> \* lost, refused, not to be parsed
    /\ UNCHANGED <<config, key, xda>>

first_generate_ac ==
    /\ pc = "FirstAc"
    /\ \E data \in Cdol1 : stash' = [stash EXCEPT !.cdol1 = data] /\ heard' = heard \o data
    /\ Answered(FALSE)

second_generate_ac ==
    /\ pc = "SecondAc"
    /\ \E data \in Cdol2 : stash' = [stash EXCEPT !.cdol2 = data] /\ heard' = heard \o data
    /\ Answered(TRUE)

Ended == pc \in {"Over", "Err"} /\ UNCHANGED vars

Next ==
    \/ perform_offline_data_authentication
    \/ internal_authenticate
    \/ first_generate_ac
    \/ second_generate_ac
    \/ Ended

Spec == Init /\ [][Next]_vars
-----------------------------------------------------------------------------
(* What was issued, stated from the issuing side. *)

\* Dates and times in numbers.
Hundreds(d) == (100 * d[1]) + d[2]
DayNumber(d) == (10000 * Hundreds(d)) + (100 * d[3]) + d[4]

\* The first n digits of the PAN, padded.
Leading(n, width) == [i \in 1..width |-> IF i <= n THEN The("pan")[i] ELSE 15]

RevokedSerials(index) == {serial \in Serials : <<card.rid, index, serial>> \in terminal.crl}

\* issuer is an RSA key that a certification authority the terminal knows has
\* certified in the card's issuer certificate, under one of the serial numbers.
IssuerAttested(issuer, serials) ==
    /\ Has({"index", "issuerCert", "issuerExponent", "pan"})
    /\ \E ca \in Ca(terminal.cas), length \in decode(The("pan")), n \in 3..8, expiry \in Expiries,
          serial \in serials :
          /\ n <= length /\ Len(ca.key.modulus) > CaOverhead
          /\ card.elements["issuerCert"] =
                <<Certificate(ca.key, CaOverhead, "02", Leading(n, 8), expiry, serial, issuer, <<>>)>>
          /\ card.elements["issuerRemainder"] =
                RemainderOf(issuer.modulus, Len(ca.key.modulus) - CaOverhead)
          /\ Hundreds(expiry) >= Hundreds(Month)
    /\ card.elements["issuerExponent"] = <<issuer.exponent>>

\* icc is a key that issuer has certified for the PAN and for static data, in
\* the elements named.
IccAttested(issuer, icc, cert, exponent, remainder, static) ==
    /\ Has({cert, exponent}) /\ Len(issuer.modulus) > IssuerOverhead
    /\ \E length \in decode(The("pan")) \cap 0..20, expiry \in Expiries, serial \in Serials :
          /\ card.elements[cert] =
                <<Certificate(issuer, IssuerOverhead, "04", Leading(length, 20), expiry, serial,
                              icc, static)>>
          /\ Hundreds(expiry) >= Hundreds(Month)
    /\ card.elements[remainder] = RemainderOf(icc.modulus, Len(issuer.modulus) - IssuerOverhead)
    /\ card.elements[exponent] = <<icc.exponent>>

StaticSignature(issuer) ==
    [by |-> issuer, msg1 |-> [format |-> "03", padded |-> TRUE], msg2 |-> sda_static_data_input]

EccAttested(icc) ==
    /\ Has(XdaData)
    /\ \E ca \in Ca(terminal.eccCas), issuer \in EccKeys, length \in decode(The("pan")), n \in 3..10 :
          LET cert == The("issuerCert")
              own == The("iccCert")
              today == bcd_yyyymmdd_from_yymmdd(terminal.date)
          IN  /\ ca.key \in EccKeys /\ cert.by = ca.key /\ own.by = issuer
              /\ <<cert.msg.rid, cert.msg.index>> = <<card.rid, The("index")>>
              /\ cert.msg.serial \notin RevokedSerials(The("index"))
              /\ cert.msg.key = issuer /\ own.msg.key = icc
              /\ cert.msg.format = "12" /\ own.msg.format = "14"
              /\ n <= length /\ cert.msg.subject = Leading(n, 10)
              /\ DayNumber(cert.msg.expiry) >= DayNumber(today)
              /\ \/ DayNumber(own.msg.expiry) > DayNumber(today)
                 \/ /\ DayNumber(own.msg.expiry) = DayNumber(today)
                    /\ Hundreds(own.msg.time) >= Hundreds(terminal.time)
              /\ own.msg.hashAlgorithm \in HashAlgorithms /\ own.msg.iccd = xda_iccd_input

\* The keys by which the card may be authenticated.
Attested ==
    LET serials == Serials \ RevokedSerials(The("index"))
        issuers == {k \in RsaKeys : IssuerAttested(k, serials)}
        Signing(k) == card.elements["ssad"] = <<StaticSignature(k)>>
        Certified(k) ==
            \E issuer \in issuers :
               IccAttested(issuer, k, "iccCert", "iccExponent", "iccRemainder", sda_static_data_input)
    IN  IF card.method = "XDA" THEN {k \in EccKeys : EccAttested(k)}
        ELSE IF ~sda_static_data_builds \/ ~Has({"index"}) THEN {}
        ELSE IF card.method = "SDA" THEN {k \in issuers : Signing(k)}
        ELSE {k \in RsaKeys : Certified(k)}

\* The keys a PIN may be enciphered with: those certified for it, of a card
\* that has one, and else that of CDA.
PinAttested ==
    LET issuers == {k \in RsaKeys : IssuerAttested(k, Serials)}
        Certified(k) ==
            \E issuer \in issuers :
               IccAttested(issuer, k, "pinCert", "pinExponent", "pinRemainder", <<>>)
    IN  IF Has({"pinCert", "pinExponent"})
        THEN {k \in RsaKeys : card.method # "XDA" /\ Certified(k)}
        ELSE {k \in Attested : card.method = "CDA"}

Authenticated == key # Absent \/ "DAC" \in store
-----------------------------------------------------------------------------
(* Properties. *)

\* Soundness of the chain (recover_*_public_key, is_revoked, verify_sda): a
\* key is used, and static data taken as authentic, only if every byte of the
\* key, remainders included, is certified for this card by a chain that is
\* unexpired, not revoked and rooted in a key of the terminal; a PIN goes only
\* to a key certified in this way, revocation aside; and what fails is reported
\* as the failure of the method that failed (fail_sda, fail_cda).
AuthenticatedIsGenuine ==
    /\ key # Absent => key[1] \in Attested
    /\ "DAC" \in store => Attested # {}
    /\ \A k \in Range(recover_pin_encipherment_public_key) : k \in PinAttested
    /\ tvr \subseteq BitsOf(card.method)

\* Completeness of the chain: a card issued correctly, whatever the lengths
\* of its keys and up to its last day, is authenticated, and a key for its PIN
\* is found.
GenuineIsAuthenticated ==
    pc # "Authenticate" =>
        /\ Attested # {} /\ (card.method = "DDA" => DdolUsable) => Authenticated
        /\ PinAttested # {} => recover_pin_encipherment_public_key # Absent

\* A dynamic signature is accepted if and only if the certified key made it
\* over what was sent in this transaction, both GENERATE ACs and both answers
\* included (verify_dda, verify_cda_inner, verify_xda_inner), and the verdict
\* is recorded: in the TSI, or in the TVR as the failure of this method.
SignatureBindsExchange ==
    /\ last.verdict = "verified" => last.genuine /\ tsi # {}
    /\ last.verdict = "rejected" =>
          /\ ~last.genuine
          /\ tvr \cap {"dda_failed", "cda_failed", "xda_signature_verification_failed"} # {}

\* After an XDA failure at the first GENERATE AC nothing the second brings
\* counts as authenticated: the failure stays, the TSI and the tag store are
\* left alone (verify_xda_inner).
SecondDoesNotRepair ==
    [][XdaFailed(tvr) => XdaFailed(tvr') /\ tsi' = tsi /\ store' = store]_vars
=============================================================================
