--------------------------------- MODULE Apdu ---------------------------------
(***************************************************************************)
(* Commands and responses as the bytes that cross the interface            *)
(* (core/apdu.rs), and the builders that check what they are given before  *)
(* a command exists (core/select.rs, read_record.rs, generate_ac.rs ...).  *)
(* A builder that refuses returns None.                                    *)
(***************************************************************************)
EXTENDS Tlv

Command(cla, ins, p1, p2, data, le) ==
  [cla |-> cla, ins |-> ins, p1 |-> p1, p2 |-> p2, data |-> data, le |-> le]
Le0 == Some(0)

\* Command::to_bytes: Lc only with data, Le only if one is asked for.
to_bytes(c) ==
  Check(c.cla # 255 /\ Len(c.data) <= 255,
        Some(<<c.cla, c.ins, c.p1, c.p2>>
             \o (IF c.data = <<>> THEN <<>> ELSE <<Len(c.data)>> \o c.data)
             \o (IF c.le = None THEN <<>> ELSE <<Unwrap(c.le)>>)))

\* Command::from_bytes: the four cases of ISO 7816-3 told apart by length.
command_from_bytes(bytes) ==
  LET n == Len(bytes)
      With(data, le) == Some(Command(bytes[1], bytes[2], bytes[3], bytes[4], data, le))
      Body == SubSeq(bytes, 6, 5 + bytes[5])
  IN  IF n < 4 \/ bytes[1] = 255 THEN None
      ELSE CASE n = 4 -> With(<<>>, None)
             [] n = 5 -> With(<<>>, Some(bytes[5]))
             [] n >= 6 /\ n = 5 + bytes[5] -> With(Body, None)
             [] n >= 6 /\ n = 6 + bytes[5] -> With(Body, Some(bytes[n]))
             [] OTHER -> None

\* Response::parse and Response::new: SW1 is '61'..'6F' or '90'..'9F'.
response_parse(bytes) ==
  LET n == Len(bytes)
  IN  IF n < 2 THEN None
      ELSE Check(bytes[n - 1] \in (97..111) \cup (144..159),
                 Some([data |-> First(bytes, n - 2), sw1 |-> bytes[n - 1], sw2 |-> bytes[n]]))
status_word(r) == (256 * r.sw1) + r.sw2

(* The builders. *)

FirstOrOnly == 0
select_by_name(name, occurrence) ==
  Check(Len(name) \in 5..16, Some(Command(0, \hA4, 4, occurrence, name, Le0)))

read_record(sfi, record_number) ==
  Check(sfi \in 1..30 /\ record_number # 0,
        Some(Command(0, \hB2, record_number, (8 * sfi) + 4, <<>>, Le0)))

\* GET PROCESSING OPTIONS: the list's answer under tag '83'.
processing_options(pdol_data) ==
  LET data == <<\h83>> \o encode_length(Len(pdol_data)) \o pdol_data
  IN  Check(Len(data) <= 255, Some(Command(\h80, \hA8, 0, 0, data, Le0)))

\* GENERATE AC: P1 holds the cryptogram asked for in b8 b7, a CDA signature
\* in b5, an XDA one in b4.
CryptogramBits == [AAC |-> 0, TC |-> 1, ARQC |-> 2]
SignatureBits == [none |-> 0, cda |-> 2, xda |-> 1]
generate_ac(request, signature, data) ==
  Command(\h80, \hAE, (64 * CryptogramBits[request]) + (8 * SignatureBits[signature]),
          0, data, Le0)

\* GET DATA: the elements a terminal may ask for.
Permitted == {<<\h9F, \h36>>, <<\h9F, \h13>>, <<\h9F, \h17>>, <<\h9F, \h4F>>,
              <<\hBF, \h4C>>, <<\hBF, \h4D>>}
get_data(tag) == Check(tag \in Permitted, Some(Command(\h80, \hCA, tag[1], tag[2], <<>>, Le0)))

\* VERIFY: the qualifier is P2.
VerifyP2 == [PlaintextPin |-> \h80, EncipheredPinRsa |-> \h88,
             EncipheredBiometricRsa |-> \h89, EncipheredPinEcc |-> \h8A,
             EncipheredBiometricEcc |-> \h8B]
verify(qualifier, data, chained) ==
  Command(IF chained THEN \h10 ELSE 0, \h20, 0, VerifyP2[qualifier], data, None)

\* The plaintext PIN block: '2', the length, the digits, filled with 'F'.
plaintext_pin_block(pin) ==
  LET nibble(i) == CASE i = 1 -> 2
                     [] i = 2 -> Len(pin)
                     [] i \in 3..(Len(pin) + 2) -> pin[i - 2]
                     [] OTHER -> 15
  IN  Check(Len(pin) \in 4..12 /\ \A i \in DOMAIN pin : pin[i] <= 9,
            Some([i \in 1..8 |-> (16 * nibble((2 * i) - 1)) + nibble(2 * i)]))
verify_plaintext_pin(pin) ==
  Then(plaintext_pin_block(pin), LAMBDA block : Some(verify("PlaintextPin", block, FALSE)))

external_authenticate(data) ==
  Check(Len(data) \in 8..16, Some(Command(0, \h82, 0, 0, data, None)))
\* interpret_response
ExternalAuthenticateOutcome(sw) ==
  CASE sw = \h9000 -> "Successful"
    [] sw = \h6985 -> "UnsupportedByCardErrorState"
    [] OTHER -> "Failed"

\* The issuer's commands: the secure messaging mode is in the class byte.
SmClass == [Proprietary |-> [plain |-> \h84, chained |-> \h94],
            Standard |-> [plain |-> \h8C, chained |-> \h9C]]
cla_byte(mode, chained) == IF chained THEN SmClass[mode].chained ELSE SmClass[mode].plain
application_block(mode, data) == Command(cla_byte(mode, FALSE), \h1E, 0, 0, data, None)
application_unblock(mode, data) == Command(cla_byte(mode, FALSE), \h18, 0, 0, data, None)
card_block(mode, data) == Command(cla_byte(mode, FALSE), \h16, 0, 0, data, None)
\* PIN CHANGE/UNBLOCK: 0 unblocks the PIN, 3 a biometric type, the other
\* values are the payment systems'.
pin_change_unblock(mode, qualifier, data, chained) ==
  Check(qualifier \in 0..4, Some(Command(cla_byte(mode, chained), \h24, 0, qualifier, data, None)))

\* Compressed numeric elements: digits, then 'F' to the end.
compressed_numeric_decode(value) ==
  LET nibble(i) == IF i % 2 = 1 THEN value[(i + 1) \div 2] \div 16 ELSE value[i \div 2] % 16
      total == 2 * Len(value)
      ends == {i \in 1..total : nibble(i) = 15} \cup {total + 1}
      end == CHOOSE i \in ends : \A j \in ends : i <= j
  IN  Check((\A i \in 1..(end - 1) : nibble(i) <= 9) /\ (\A i \in end..total : nibble(i) = 15),
            Some([i \in 1..(end - 1) |-> nibble(i)]))
=============================================================================
