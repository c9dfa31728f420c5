---------------------------- MODULE EllipticCurves ----------------------------
(***************************************************************************)
(* Public keys: elliptic curve signatures (Book 2 A2.2) and encryption     *)
(* (A2.3), and the PIN and biometric data enciphered for the card under an *)
(* RSA (7.2) or an elliptic curve key (13.2, 13.4).  A point dG is         *)
(* its scalar d, 0 the point at infinity: any two groups of one prime      *)
(* order are the same group.  P and -P have one x-coordinate, the smaller  *)
(* of their scalars, and P with the smaller one has the lower y.           *)
(***************************************************************************)
EXTENDS Tlv, BlockCiphers
CONSTANTS GroupOrder, Sha256(_), Sha512(_), Rsa(_, _, _)

\* Small enough for the product of two scalars to be a number of TLC's.
ASSUME GroupOrderAssumption == GroupOrder \in 3..(2^15) /\ GroupOrder % 2 = 1

\* Lengths in bytes and indicators of the two suites.
P256 == [field |-> 32, digest |-> 32, z |-> 32, hash |-> 2, signature |-> \h10, ode |-> 0]
P521 == [field |-> 66, digest |-> 64, z |-> 80, hash |-> 3, signature |-> \h11, ode |-> 1]

hash_for_ecc(indicator, msg) ==
  CASE indicator = 2 -> Some(Sha256(msg))
    [] indicator = 3 -> Some(Sha512(msg))
    [] OTHER -> None

\* Every number here is below the group order.
i2os(value, length) == Zeros(length - 2) \o be_bytes(value, 2)
RECURSIVE Reduced(_, _)
Reduced(bytes, n) ==
  IF bytes = <<>> THEN n
  ELSE Reduced(Tail(bytes), ((256 * n) + Head(bytes)) % GroupOrder)
\* os2i and the reduction modulo the group order.
scalar_from_be_bytes_reduced(bytes) == Reduced(bytes, 0)
\* Scalar::from_repr
from_repr(bytes) ==
  LET n == Number(Ending(bytes, 2))
  IN  Check(First(bytes, Len(bytes) - 2) = Zeros(Len(bytes) - 2) /\ n < GroupOrder, Some(n))
NonZero(bytes) == Then(from_repr(bytes), LAMBDA d : Check(d # 0, Some(d)))

Lower == 1..(GroupOrder \div 2)
Negated(point) == (GroupOrder - point) % GroupOrder
XCoordinate(curve, point) ==
  i2os(IF point \in Lower THEN point ELSE Negated(point), curve.field)
\* Both points with an x-coordinate, the one with the lower y first.
recover_y_p256_both(x) ==
  Then(from_repr(x), LAMBDA point : Check(point \in Lower, Some(<<point, Negated(point)>>)))
recover_y_p521_both(x) == recover_y_p256_both(x)
recover_y_p256(x) == Then(recover_y_p256_both(x), LAMBDA both : Some(both[1]))
recover_y_p521(x) == Then(recover_y_p521_both(x), LAMBDA both : Some(both[1]))
RecoverY(curve, x) == IF curve = P256 THEN recover_y_p256(x) ELSE recover_y_p521(x)

(* EC-SDSA. *)

Verify(curve, suite, public_key_x, msg, signature) ==
  LET r == First(signature, curve.digest)
      s == From(signature, curve.digest + 1)
      e == scalar_from_be_bytes_reduced(r)
      Commitment(s1, p) == (s1 + (Negated(e) * p)) % GroupOrder
      Matches(q) == hash_for_ecc(curve.hash, XCoordinate(curve, q) \o msg) = Some(r)
  IN  CASE suite # curve.signature -> None
        [] suite = curve.signature /\ Len(signature) # curve.digest + curve.field -> Some(FALSE)
        [] OTHER -> Then(from_repr(s), LAMBDA s1 :
                      IF s1 = 0 \/ e = 0 THEN Some(FALSE)
                      ELSE Then(RecoverY(curve, public_key_x), LAMBDA p :
                             Some(Commitment(s1, p) # 0 /\ Matches(Commitment(s1, p)))))
ec_sdsa_p256_verify(suite, x, msg, signature) == Verify(P256, suite, x, msg, signature)
ec_sdsa_p521_verify(suite, x, msg, signature) == Verify(P521, suite, x, msg, signature)

Sign(curve, suite, private_key, nonce, msg) ==
  Then(Check(suite = curve.signature, NonZero(nonce)), LAMBDA k :
    Then(NonZero(private_key), LAMBDA d :
      Then(hash_for_ecc(curve.hash, XCoordinate(curve, k) \o msg), LAMBDA r :
        LET s == (k + (scalar_from_be_bytes_reduced(r) * d)) % GroupOrder
        IN  Some(r \o i2os(s, curve.field)))))
ec_sdsa_p256_sign(suite, d, k, msg) == Sign(P256, suite, d, k, msg)
ec_sdsa_p521_sign(suite, d, k, msg) == Sign(P521, suite, d, k, msg)

\* Keys certified by their x alone must have the lower y.
\* Mutant: a key with the upper y is kept.
KeptPrivateKey(d) == Then(NonZero(d), LAMBDA n : Some(d))

constrain_long_term_private_key_p256(d) ==
  Then(NonZero(d), LAMBDA n :
    Some(IF n \in Lower THEN d ELSE i2os(Negated(n), Len(d))))

constrain_long_term_private_key_p521(d) == constrain_long_term_private_key_p256(d)
public_key_x_from_private(d) ==
  Then(NonZero(d), LAMBDA n : Some(XCoordinate(P256, n)))
public_key_x_from_private_p521(d) ==
  Then(NonZero(d), LAMBDA n : Some(XCoordinate(P521, n)))

(* Key agreement, and encryption under the keys agreed. *)

\* x(dQ), which does not depend on which of the two points Q is.
SharedX(curve, d, q_x) ==
  Then(NonZero(d), LAMBDA n :
    Then(RecoverY(curve, q_x), LAMBDA q :
      LET dq == (n * q) % GroupOrder
      IN  Check(dq # 0, Some(Zeros(curve.z - curve.field) \o XCoordinate(curve, dq)))))
compute_z_p256(d, q_x) == SharedX(P256, d, q_x)
compute_z_p521(d, q_x) == SharedX(P521, d, q_x)

DerivationBlock(i, un_kd) ==
  <<i, 1, 0>> \o un_kd \o <<\hA5, \hA5, \hA5, 2, 0>>
KeyMaterial(un_kd, z) ==
  Then(aes_cmac(Zeros(16), z), LAMBDA kdk :
    LET Derive(i) == Aes(kdk, DerivationBlock(i, un_kd))
    IN  Some([k1 |-> Derive(1), k2 |-> Derive(2), k3 |-> Derive(3), k4 |-> Derive(4),
              counter |-> 0]))
derive_keys_p256(un_kd, suite, d, q_x) ==
  Check(suite = P256.ode, Then(compute_z_p256(d, q_x), LAMBDA z : KeyMaterial(un_kd, z)))
derive_keys_p521(un_kd, suite, d, q_x) ==
  Check(suite = P521.ode, Then(compute_z_p521(d, q_x), LAMBDA z : KeyMaterial(un_kd, z)))

\* The counter's last value is never used.
LastCounter == 65535
StartingVariable(counter) == be_bytes(counter, 2) \o Zeros(14)
ctr_block(sv, offset) == First(sv, 2) \o Zeros(12) \o be_bytes(offset, 2)
ctr_xor(k_x, sv, data) ==
  LET size(i) == IF (16 * i) + 16 <= Len(data) THEN 16 ELSE Len(data) - (16 * i)
      Step(done, n) ==
        done \o xor(SubSeq(data, (16 * (n - 1)) + 1, (16 * (n - 1)) + size(n - 1)),
                    Aes(k_x, ctr_block(sv, n - 1)))
  IN  FoldLeft(Step, <<>>, [n \in 1..((Len(data) + 15) \div 16) |-> n])
EtmMac(k_y, aad, sv, cipher) ==
  aes_cmac_truncated(k_y, Zeros(4) \o be_bytes(Len(aad), 4) \o aad \o sv \o cipher, 8)

etm_encrypt(k_x, k_y, msg, aad, counter) ==
  LET sv == StartingVariable(counter)
      cipher == ctr_xor(k_x, sv, msg)
  IN  Then(Check(counter # LastCounter, EtmMac(k_y, aad, sv, cipher)), LAMBDA mac :
        Some([text |-> cipher \o mac, counter |-> counter + 1]))
etm_decrypt(k_x, k_y, ciphertext, aad, counter) ==
  LET sv == StartingVariable(counter)
      cipher == First(ciphertext, Len(ciphertext) - 8)
  IN  Check(counter # LastCounter /\ Len(ciphertext) >= 8,
        Check(EtmMac(k_y, aad, sv, cipher) = Some(Ending(ciphertext, 8)),
          Some([text |-> ctr_xor(k_x, sv, cipher), counter |-> counter + 1])))

encrypt_etm_p256(suite, k_x, k_y, msg, aad, counter) ==
  Check(suite = P256.ode, etm_encrypt(k_x, k_y, msg, aad, counter))
encrypt_etm_p521(suite, k_x, k_y, msg, aad, counter) ==
  Check(suite = P521.ode, etm_encrypt(k_x, k_y, msg, aad, counter))
decrypt_etm_p256(suite, k_x, k_y, ciphertext, aad, counter) ==
  Check(suite = P256.ode, etm_decrypt(k_x, k_y, ciphertext, aad, counter))
decrypt_etm_p521(suite, k_x, k_y, ciphertext, aad, counter) ==
  Check(suite = P521.ode, etm_decrypt(k_x, k_y, ciphertext, aad, counter))

(* The cardholder's PIN and biometric data as they are enciphered for the
   card.  challenge is the card's answer to GET CHALLENGE. *)

PIN_DATA_HEADER == \h7F
build_pin_plaintext(pin_block, challenge) == <<PIN_DATA_HEADER>> \o pin_block \o challenge

\* RSA: the data must be a number below the modulus.
Below(one, other) ==
  \E i \in DOMAIN other : one[i] < other[i] /\ First(one, i - 1) = First(other, i - 1)
rsa_recover(data, exponent, modulus) ==
  Check(Len(data) = Len(modulus) /\ Below(data, modulus), Some(Rsa(data, exponent, modulus)))
random_padding_length(modulus_length) == Check(modulus_length >= 17, Some(modulus_length - 17))
enciphered_pin_data(pin_block, challenge, padding, modulus, exponent) ==
  Check(random_padding_length(Len(modulus)) = Some(Len(padding)),
        rsa_recover(build_pin_plaintext(pin_block, challenge) \o padding, exponent, modulus))

(* Curves: the ephemeral key's x, then the ciphertext. *)

OverP256(plain, challenge, icc_pk_x, d) ==
  Then(public_key_x_from_private(d), LAMBDA r_x :
    Then(derive_keys_p256(challenge, P256.ode, d, icc_pk_x), LAMBDA keys :
      Then(encrypt_etm_p256(P256.ode, keys.k1, keys.k2, plain, <<>>, keys.counter),
           LAMBDA out : Some(r_x \o out.text))))
OverP521(plain, challenge, icc_pk_x, d) ==
  Then(public_key_x_from_private_p521(d), LAMBDA r_x :
    Then(derive_keys_p521(challenge, P521.ode, d, icc_pk_x), LAMBDA keys :
      Then(encrypt_etm_p521(P521.ode, keys.k1, keys.k2, plain, <<>>, keys.counter),
           LAMBDA out : Some(r_x \o out.text))))
FromP256(enciphered, challenge, icc_key) ==
  Then(Check(Len(enciphered) >= P256.field + 8,
             derive_keys_p256(challenge, P256.ode, icc_key, First(enciphered, P256.field))),
       LAMBDA keys :
         Then(decrypt_etm_p256(P256.ode, keys.k1, keys.k2, From(enciphered, P256.field + 1),
                               <<>>, keys.counter),
              LAMBDA out : Some(out.text)))
FromP521(enciphered, challenge, icc_key) ==
  Then(Check(Len(enciphered) >= P521.field + 8,
             derive_keys_p521(challenge, P521.ode, icc_key, First(enciphered, P521.field))),
       LAMBDA keys :
         Then(decrypt_etm_p521(P521.ode, keys.k1, keys.k2, From(enciphered, P521.field + 1),
                               <<>>, keys.counter),
              LAMBDA out : Some(out.text)))

enciphered_pin_data_ecc_p256(pin_block, challenge, icc_pk_x, d) ==
  OverP256(build_pin_plaintext(pin_block, challenge), challenge, icc_pk_x, d)
enciphered_pin_data_ecc_p521(pin_block, challenge, icc_pk_x, d) ==
  OverP521(build_pin_plaintext(pin_block, challenge), challenge, icc_pk_x, d)
\* The header, then a PIN block, then the challenge again.
PinBlock(plain, challenge) ==
  Check(Len(plain) = 17 /\ plain[1] = PIN_DATA_HEADER /\ Ending(plain, 8) = challenge,
        Some(SubSeq(plain, 2, 9)))
decipher_pin_data_ecc_p256(enciphered, challenge, icc_key) ==
  Then(FromP256(enciphered, challenge, icc_key), LAMBDA plain : PinBlock(plain, challenge))
decipher_pin_data_ecc_p521(enciphered, challenge, icc_key) ==
  Then(FromP521(enciphered, challenge, icc_key), LAMBDA plain : PinBlock(plain, challenge))

(* Biometric data: b is [solution_id, type, subtype, bdb]. *)

TAG_BIOMETRIC_TYPE == <<\h81>>
TAG_BIOMETRIC_SOLUTION_ID == <<\h90>>
TAG_ENCIPHERED_BIOMETRIC_DATA == <<\hDF, \h51>>

Fits(b) == Len(b.solution_id) <= 255 /\ Len(b.type) <= 255 /\ Len(b.bdb) <= 65535
Counted(bytes) == <<Len(bytes)>> \o bytes
build_table_41(challenge, b) ==
  challenge \o Counted(b.solution_id) \o Counted(b.type) \o <<b.subtype>>
    \o be_bytes(Len(b.bdb), 2) \o b.bdb

\* A field with its length before it: what it holds and what follows.
Field(data, size) ==
  LET n == Number(First(data, size))
  IN  Check(Len(data) >= size /\ Len(data) >= size + n,
            Some([value |-> SubSeq(data, size + 1, size + n),
                  rest |-> From(data, size + n + 1)]))
parse_table_41(data) ==
  Then(Check(Len(data) >= 8, Field(From(data, 9), 1)), LAMBDA solution :
    Then(Field(solution.rest, 1), LAMBDA type :
      Then(Check(type.rest # <<>>, Field(Tail(type.rest), 2)), LAMBDA bdb :
        Check(bdb.rest = <<>>,
          Some([un |-> First(data, 8), solution_id |-> solution.value, type |-> type.value,
                subtype |-> Head(type.rest), bdb |-> bdb.value])))))

take_primitive(tlvs, tag) == Then(find_tag(tlvs, tag), AsPrimitive)
\* The template: type, solution and enciphered data, in this order.
Template(b, enciphered) ==
  Encode(Primitive(TAG_BIOMETRIC_TYPE, b.type))
    \o Encode(Primitive(TAG_BIOMETRIC_SOLUTION_ID, b.solution_id))
    \o Encode(Primitive(TAG_ENCIPHERED_BIOMETRIC_DATA, enciphered))
enciphered_biometric_data_ecc_p256(challenge, b, icc_pk_x, d) ==
  Then(Check(Fits(b), OverP256(build_table_41(challenge, b), challenge, icc_pk_x, d)),
       LAMBDA enciphered : Some(Template(b, enciphered)))
enciphered_biometric_data_ecc_p521(challenge, b, icc_pk_x, d) ==
  Then(Check(Fits(b), OverP521(build_table_41(challenge, b), challenge, icc_pk_x, d)),
       LAMBDA enciphered : Some(Template(b, enciphered)))

\* What was deciphered must repeat the challenge and the template's own
\* type and solution.
Recovered(bvdt, challenge, Decipher(_)) ==
  Then(ParseAll[bvdt], LAMBDA tlvs :
    Then(take_primitive(tlvs, TAG_BIOMETRIC_TYPE), LAMBDA type :
      Then(take_primitive(tlvs, TAG_BIOMETRIC_SOLUTION_ID), LAMBDA solution_id :
        Then(Then(take_primitive(tlvs, TAG_ENCIPHERED_BIOMETRIC_DATA), Decipher), LAMBDA plain :
          Then(parse_table_41(plain), LAMBDA parsed :
            Check(parsed.un = challenge /\ parsed.solution_id = solution_id
                    /\ parsed.type = type,
                  Some([subtype |-> parsed.subtype, bdb |-> parsed.bdb])))))))
decipher_biometric_data_ecc_p256(bvdt, challenge, icc_key) ==
  Recovered(bvdt, challenge, LAMBDA data : FromP256(data, challenge, icc_key))
decipher_biometric_data_ecc_p521(bvdt, challenge, icc_key) ==
  Recovered(bvdt, challenge, LAMBDA data : FromP521(data, challenge, icc_key))
=============================================================================
