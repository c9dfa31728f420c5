---------------------------- MODULE IssuerMessages ----------------------------
(***************************************************************************)
(* What issuer and card say to each other through the terminal: the key    *)
(* ladder from the issuer's master key (Book 2 A1.4) to a session's (A1.3),*)
(* application cryptograms (8.1), the issuer's answer to one (8.2) and     *)
(* script commands under Format 1 secure messaging (9.2, 9.3, D2).         *)
(***************************************************************************)
EXTENDS Apdu, BlockCiphers
CONSTANT Sha1(_)

(* Master keys. *)

decode_pan_digits(pan) == compressed_numeric_decode(pan)
\* An absent sequence number counts as '00'.
psn_to_digits(psn) ==
  LET byte == UnwrapOr(psn, 0)
  IN  Check(byte \div 16 <= 9 /\ byte % 16 <= 9, Some(<<byte \div 16, byte % 16>>))
pack_bcd(digits) ==
  [i \in 1..(Len(digits) \div 2) |-> (16 * digits[(2 * i) - 1]) + digits[2 * i]]
Inverted(y) == [i \in DOMAIN y |-> 255 - y[i]]

force_odd_parity_byte(b) ==
  LET high == {n \in 2..8 : HasBit(b, n)}
  IN  ByteOf(IF Cardinality(high) % 2 = 0 THEN high \cup {1} ELSE high)
finalise_master_key_tdes(imk, y) ==
  LET z == tdes_encrypt_block(imk, y) \o tdes_encrypt_block(imk, Inverted(y))
  IN  [i \in DOMAIN z |-> force_odd_parity_byte(z[i])]

\* The last 16 digits, filled with zeros on the left.
build_y_nibbles_option_a(x) == Ending(Zeros(16) \o x, 16)
derive_master_key_option_a(imk, pan, psn) ==
  Then(decode_pan_digits(pan), LAMBDA digits :
    Then(psn_to_digits(psn), LAMBDA sequence :
      LET y == build_y_nibbles_option_a(digits \o sequence)
      IN  Some(finalise_master_key_tdes(imk, pack_bcd(y)))))

\* Its decimal nibbles first, then the others brought down to 0..5.
decimalize_hash_to_y_nibbles(hash) ==
  LET nibbles == [i \in 1..(2 * Len(hash)) |->
        IF i % 2 = 1 THEN hash[(i + 1) \div 2] \div 16 ELSE hash[i \div 2] % 16]
      letters == SelectSeq(nibbles, LAMBDA n : n > 9)
  IN  First(SelectSeq(nibbles, LAMBDA n : n <= 9)
              \o [i \in DOMAIN letters |-> letters[i] - 10], 16)
derive_master_key_option_b(imk, pan, psn) ==
  Then(decode_pan_digits(pan), LAMBDA digits :
    IF Len(digits) <= 16 THEN derive_master_key_option_a(imk, pan, psn)
    ELSE Then(psn_to_digits(psn), LAMBDA sequence :
           LET even == IF Len(digits) % 2 = 0 THEN digits ELSE <<0>> \o digits
               y == decimalize_hash_to_y_nibbles(Sha1(pack_bcd(even \o sequence)))
           IN  Some(finalise_master_key_tdes(imk, pack_bcd(y)))))

derive_master_key_option_c(imk, pan, psn) ==
  Then(Check(AesKey(imk), decode_pan_digits(pan)), LAMBDA digits :
    Then(psn_to_digits(psn), LAMBDA sequence :
      LET y == pack_bcd(Ending(Zeros(32) \o digits \o sequence, 32))
      IN  Check(Len(digits) + 2 <= 32,
                Some(First(Aes(imk, y) \o Aes(imk, Inverted(y)), Len(imk))))))

(* Session keys. *)

\* The third byte tells the halves apart.
LeftHalf(r) == [r EXCEPT ![3] = 240]
RightHalf(r) == [r EXCEPT ![3] = 15]
derive_session_key_tdes(mk, r) ==
  tdes_encrypt_block(mk, LeftHalf(r)) \o tdes_encrypt_block(mk, RightHalf(r))
derive_session_key_aes(mk, r) ==
  Check(AesKey(mk),
        Some(IF Len(mk) = 16 THEN Aes(mk, r)
             ELSE First(Aes(mk, LeftHalf(r)) \o Aes(mk, RightHalf(r)), Len(mk))))

diversification_for_ac_session_key(atc) == be_bytes(atc, 2) \o Zeros(6)
diversification_for_ac_session_key_aes(atc) == be_bytes(atc, 2) \o Zeros(14)
diversification_for_sm_session_key(ac) == ac
diversification_for_sm_session_key_aes(ac) == ac \o Zeros(8)

(* Application cryptograms and the answer to them. *)

application_cryptogram(sk_ac, data) == retail_mac(sk_ac, data)
verify_application_cryptogram(sk_ac, data, candidate) ==
  application_cryptogram(sk_ac, data) = candidate
application_cryptogram_aes(sk_ac, data) == aes_cmac_truncated(sk_ac, data, 8)
verify_application_cryptogram_aes(sk_ac, data, candidate) ==
  Then(application_cryptogram_aes(sk_ac, data), LAMBDA ac : Some(ac = candidate))

arpc_method1(arqc, arc, sk_ac) == tdes_encrypt_block(sk_ac, xor(arqc, arc \o Zeros(6)))
arpc_method1_aes(arqc, arc, sk_ac) ==
  Then(aes_encrypt_block(sk_ac, xor(arqc, arc \o Zeros(6)) \o Zeros(8)),
       LAMBDA block : Some(First(block, 8)))
Pcad == 0..8
arpc_method2(arqc, csu, pcad, sk_ac) ==
  Check(Len(pcad) \in Pcad, mac_truncated(sk_ac, arqc \o csu \o pcad, 4))
arpc_method2_aes(arqc, csu, pcad, sk_ac) ==
  Check(Len(pcad) \in Pcad, aes_cmac_truncated(sk_ac, arqc \o csu \o pcad, 4))
issuer_authentication_data_method2(arpc, csu, pcad) ==
  Check(Len(pcad) \in Pcad, Some(arpc \o csu \o pcad))

(* Format 1.  c is the plain command: ins, p1, p2, data and chained. *)

Header(c) == <<cla_byte("Standard", c.chained), c.ins, c.p1, c.p2>>
\* Mutant: the chaining value is left out.
MacInputUnchained(chain, header, object, size) ==
  pad_iso9797_method2(header, size)
    \o (IF object = <<>> THEN <<>> ELSE pad_iso9797_method2(object, size))

MacInput(chain, header, object, size) ==
  UnwrapOr(chain, <<>>) \o pad_iso9797_method2(header, size)
    \o (IF object = <<>> THEN <<>> ELSE pad_iso9797_method2(object, size))

Secured(c, object, mac) ==
  LET h == Header(c)
  IN  Command(h[1], h[2], h[3], h[4], object \o <<\h8E, Len(mac)>> \o mac, None)
\* '81', absent without data; '87' with the padding indicator before the
\* cryptogram.
PlainObject(data) ==
  IF data = <<>> THEN <<>> ELSE <<\h81>> \o encode_length(Len(data)) \o data
CryptogramObject(cryptogram) ==
  <<\h87>> \o encode_length(Len(cryptogram) + 1) \o <<1>> \o cryptogram

TdesSecured(c, object, sk_mac, s, chain) ==
  Then(retail_mac_no_pad(sk_mac, MacInput(chain, Header(c), object, 8)),
       LAMBDA mac : Check(s \in MacLength, Some(Secured(c, object, First(mac, s)))))
wrap_format_1_integrity_only(c, sk_mac, s, chain) ==
  TdesSecured(c, PlainObject(c.data), sk_mac, s, chain)
wrap_format_1_with_confidentiality(c, sk_enc, sk_mac, s, chain) ==
  IF c.data = <<>> THEN wrap_format_1_integrity_only(c, sk_mac, s, chain)
  ELSE Then(tdes_cbc_encrypt(sk_enc, Zeros(8), pad_iso9797_method2(c.data, 8)),
            LAMBDA x : TdesSecured(c, CryptogramObject(x), sk_mac, s, chain))

AesSecured(c, object, sk_mac, s, chain) ==
  Then(aes_cmac_truncated(sk_mac, MacInput(chain, Header(c), object, 16), s),
       LAMBDA mac : Some(Secured(c, object, mac)))
wrap_format_1_integrity_only_aes(c, sk_mac, s, chain) ==
  AesSecured(c, PlainObject(c.data), sk_mac, s, chain)
wrap_format_1_with_confidentiality_aes(c, sk_enc, sk_mac, s, chain) ==
  IF c.data = <<>> THEN wrap_format_1_integrity_only_aes(c, sk_mac, s, chain)
  ELSE Then(aes_cbc_encrypt(sk_enc, Zeros(16), pad_iso9797_method2(c.data, 16)),
            LAMBDA x : AesSecured(c, CryptogramObject(x), sk_mac, s, chain))
=============================================================================
