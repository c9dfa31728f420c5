--------------------------- MODULE KeyCertificates ---------------------------
(***************************************************************************)
(* Recovery of public keys from certificates, RSA (core/oda.rs) and ECC    *)
(* (core/ecc_oda.rs).                                                      *)
(*                                                                         *)
(* A signature is a record that names the key it was made by and what was  *)
(* hashed: recovery with another key gives nothing that passes for it, and *)
(* two hashes are equal if what was hashed is.  A modulus is a sequence of *)
(* bytes; as much of it as fits is in the certificate, padded with BB, the *)
(* rest in the remainder.  What may be absent is <<>> or <<value>>.        *)
(***************************************************************************)
EXTENDS Naturals, Sequences

CONSTANTS
    CaOverhead,     \* bytes of an issuer certificate that are not modulus: 36
    IssuerOverhead  \* the same for an ICC certificate: 42

ASSUME OverheadAssumption == CaOverhead \in Nat /\ IssuerOverhead \in Nat

\* Public keys.
RsaKey == [modulus : Seq(Nat), exponent : Seq(Nat)]
EccKey == [suite : STRING, x : STRING, onCurve : BOOLEAN]

BB == 187
Absent == <<>>
Value(optional) == IF optional = Absent THEN <<>> ELSE optional[1]

\* decode: the number of digits, all that follow them being 'F'.
decode(nibbles) ==
    {n \in 0..Len(nibbles) :
        \A i \in DOMAIN nibbles : IF i <= n THEN nibbles[i] < 10 ELSE nibbles[i] = 15}

SameDigits(a, b, n) == \A i \in 1..n : a[i] = b[i]

issuer_identifier_matches_pan(id, pan) ==
    \E n \in decode(id) \cap 3..8, p \in decode(pan) : n <= p /\ SameDigits(id, pan, n)

issuer_identifier_matches_pan_ecc(id, pan) ==
    \E n \in decode(id) \cap 3..10, p \in decode(pan) : n <= p /\ SameDigits(id, pan, n)

app_pan_matches(appPan, pan) ==
    \E n \in decode(appPan) \cap decode(pan) : SameDigits(appPan, pan, n)

\* Mutant: what expires today has expired.
ExpiresBefore(date, today) ==
    \E i \in DOMAIN date : date[i] > today[i] /\ \A j \in 1..(i - 1) : date[j] = today[j]

\* Lexicographic order of dates.
NotBefore(date, today) ==
    \/ date = today
    \/ \E i \in DOMAIN date : date[i] > today[i] /\ \A j \in 1..(i - 1) : date[j] = today[j]

\* The date decides, and on the last day the time.
yyyymmddhhmm_not_expired(date, time, today, now) ==
    IF date = today THEN NotBefore(time, now) ELSE NotBefore(date, today)

bcd_yyyymmdd_from_yymmdd(d) == <<IF d[1] < 50 THEN 20 ELSE 19, d[1], d[2], d[3]>>

is_revoked(crl, rid, index, serial) == <<rid, index, serial>> \in crl
-----------------------------------------------------------------------------
(* RSA. *)

\* Mutant: what follows a short modulus is not looked at.
AssemblesUnpadded(leftmost, length, remainder) ==
    IF length <= Len(leftmost)
    THEN remainder = Absent
    ELSE remainder # Absent /\ Len(remainder[1]) = length - Len(leftmost)

\* A modulus can be put together: the padding or the remainder is right.
Assembles(leftmost, length, remainder) ==
    IF length <= Len(leftmost)
    THEN remainder = Absent /\ \A i \in (length + 1)..Len(leftmost) : leftmost[i] = BB
    ELSE remainder # Absent /\ Len(remainder[1]) = length - Len(leftmost)

Modulus(leftmost, length, remainder) ==
    IF length <= Len(leftmost) THEN SubSeq(leftmost, 1, length) ELSE leftmost \o Value(remainder)

\* iso9796_2::verify
Recovers(signature, key, msg2) == signature.by = key /\ signature.msg2 = msg2

\* What both certificates have in common.
CertificateHolds(cert, key, overhead, format, remainder, exponent, more, today) ==
    /\ Len(key.modulus) > overhead
    /\ Len(cert.msg1.leftmost) = Len(key.modulus) - overhead
    /\ Recovers(cert, key, Value(remainder) \o exponent \o more)
    /\ cert.msg1.format = format
    /\ cert.msg1.exponentLength = Len(exponent)
    /\ Assembles(cert.msg1.leftmost, cert.msg1.length, remainder)
    /\ NotBefore(cert.msg1.expiry, today)

recovered_key(cert, remainder, exponent) ==
    [modulus |-> Modulus(cert.msg1.leftmost, cert.msg1.length, remainder), exponent |-> exponent]

recover_issuer_public_key(ca, cert, remainder, exponent, pan, today) ==
    /\ CertificateHolds(cert, ca, CaOverhead, "02", remainder, exponent, <<>>, today)
    /\ issuer_identifier_matches_pan(cert.msg1.subject, pan)

recover_icc_public_key(issuer, cert, remainder, exponent, static, pan, today) ==
    /\ CertificateHolds(cert, issuer, IssuerOverhead, "04", remainder, exponent, static, today)
    /\ app_pan_matches(cert.msg1.subject, pan)

\* Of a key for PIN encipherment the issuer signs no static data.
recover_icc_pin_encipherment_public_key(issuer, cert, remainder, exponent, pan, today) ==
    recover_icc_public_key(issuer, cert, remainder, exponent, <<>>, pan, today)

verify_sda(issuer, ssad, static) ==
    Recovers(ssad, issuer, static) /\ ssad.msg1.format = "03" /\ ssad.msg1.padded

\* layout: L_DD, the padding and the lengths inside fit together.
verify_dda(icc, sdad, ddol) ==
    Recovers(sdad, icc, ddol) /\ sdad.msg1.format = "05" /\ sdad.msg1.layout

verify_cda(icc, sdad, un, transactionData, cid) ==
    /\ Recovers(sdad, icc, un) /\ sdad.msg1.format = "05" /\ sdad.msg1.layout
    /\ sdad.msg1.cid = cid
    /\ sdad.msg1.hash = transactionData
-----------------------------------------------------------------------------
(* ECC: the message is in clear; a key is a suite and an x-coordinate.      *)

Suites == {"P256", "P521"}
HashAlgorithms == {"SHA-256", "SHA-512"}

validate_x_on_curve(key) == key.suite \in Suites /\ key.onCurve
verify_ec_sdsa(key, signed) == validate_x_on_curve(key) /\ signed.by = key

\* Lengths are right when format is.
recover_issuer_public_key_ecc(ca, cert, pan, today) ==
    /\ cert.msg.format = "12"
    /\ issuer_identifier_matches_pan_ecc(cert.msg.subject, pan)
    /\ NotBefore(cert.msg.expiry, today)
    /\ cert.msg.rid = ca.rid /\ cert.msg.index = ca.index
    /\ verify_ec_sdsa(ca.key, cert)
    /\ validate_x_on_curve(cert.msg.key)

recover_icc_public_key_ecc(issuer, cert, iccd, today, now) ==
    /\ cert.msg.format = "14"
    /\ yyyymmddhhmm_not_expired(cert.msg.expiry, cert.msg.time, today, now)
    /\ cert.msg.hashAlgorithm \in HashAlgorithms
    /\ cert.msg.iccd = iccd
    /\ verify_ec_sdsa(issuer, cert)
    /\ validate_x_on_curve(cert.msg.key)

verify_xda(icc, sdad, transactionData) ==
    Recovers(sdad, icc, transactionData) /\ sdad.msg1.format = "15"
-----------------------------------------------------------------------------
(* What an issuer or a certification authority makes out, as the reference. *)

Leftmost(modulus, capacity) ==
    [i \in 1..capacity |-> IF i <= Len(modulus) THEN modulus[i] ELSE BB]

RemainderOf(modulus, capacity) ==
    IF Len(modulus) <= capacity THEN Absent ELSE <<SubSeq(modulus, capacity + 1, Len(modulus))>>

Certificate(by, overhead, format, subject, expiry, serial, key, more) ==
    LET capacity == Len(by.modulus) - overhead
    IN  [by |-> by,
         msg1 |-> [format |-> format, subject |-> subject, expiry |-> expiry, serial |-> serial,
                   length |-> Len(key.modulus), exponentLength |-> Len(key.exponent),
                   leftmost |-> Leftmost(key.modulus, capacity)],
         msg2 |-> Value(RemainderOf(key.modulus, capacity)) \o key.exponent \o more]
=============================================================================
