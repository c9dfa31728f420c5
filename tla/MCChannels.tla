------------------------------ MODULE MCChannels ------------------------------
(***************************************************************************)
(* MessageChannel for each kind of message core/ secures, over small       *)
(* ciphers.  The kernel's side is IssuerMessages and EllipticCurves; a     *)
(* card's and an issuer's are written here from the same books.            *)
(***************************************************************************)
EXTENDS MessageChannel, IssuerMessages, EllipticCurves, Registers

(* Small ciphers: two passes, each byte mixed with the one before it. *)

KeyByte(key, i) == key[((i - 1) % Len(key)) + 1] \div 2
Mixing(before, key, i) == (before * (before + 1)) + (5 * KeyByte(key, i)) + (3 * i)
RECURSIVE Mixed(_, _, _)
Mixed(done, key, rest) ==
  IF rest = <<>> THEN done
  ELSE LET before == IF done = <<>> THEN Len(key) ELSE done[Len(done)]
       IN  Mixed(Append(done, (Head(rest) + Mixing(before, key, Len(done) + 1)) % 256),
                 key, Tail(rest))
Unmixed(key, mixed) ==
  [i \in DOMAIN mixed |->
     (mixed[i] - Mixing(IF i = 1 THEN Len(key) ELSE mixed[i - 1], key, i)) % 256]
MCCipher(key, block) == Mixed(<<>>, Reverse(key), Reverse(Mixed(<<>>, key, block)))
MCInverse(key, block) == Unmixed(key, Reverse(Unmixed(Reverse(key), block)))

RECURSIVE Absorbed(_, _)
Absorbed(bytes, n) ==
  IF bytes = <<>> THEN n ELSE Absorbed(Tail(bytes), ((251 * n) + Head(bytes) + 7) % 32749)
Digest(bytes, size) ==
  LET one == Absorbed(bytes, size)
      two == Absorbed(Reverse(bytes), size)
  IN  [i \in 1..size |-> (((one * i) \div 3) + ((two * (i + 5)) \div 7)) % 256]
MCSha1(bytes) == Digest(bytes, 20)
MCSha256(bytes) == Digest(bytes, 32)
MCSha512(bytes) == Digest(bytes, 64)

\* Exponent 3 enciphers and any other deciphers; the first byte stays, so
\* that what is below the modulus stays below it.
MCRsa(data, exponent, modulus) ==
  <<Head(data)>> \o (IF exponent = <<3>> THEN MCCipher(modulus, Tail(data))
                                          ELSE MCInverse(modulus, Tail(data)))

(* Cards: PANs of 17 and of 16 digits, one without a sequence number. *)

MCCards == {"ours", "another"}
Pan == [ours |-> <<\h54, \h13, \h33, \h00, \h89, \h02, \h00, \h11, \h9F>>,
        another |-> <<\h54, \h13, \h33, \h00, \h89, \h02, \h00, \h12, \h9F>>]
ShortPan == [ours |-> <<\h54, \h13, \h33, \h00, \h89, \h02, \h00, \h11>>,
             another |-> <<\h54, \h13, \h33, \h00, \h89, \h02, \h00, \h12>>]
Psn == [ours |-> None, another |-> Some(1)]
IssuerKey(size, use) == [i \in 1..size |-> ((37 * i) + (101 * use)) % 256]

TdesKey == [card \in MCCards, use \in 1..3 |->
  Unwrap(derive_master_key_option_b(IssuerKey(16, use), Pan[card], Psn[card]))]
ShortTdesKey == [card \in MCCards |->
  Unwrap(derive_master_key_option_b(IssuerKey(16, 4), ShortPan[card], Psn[card]))]
AesMasterKey == [card \in MCCards, size \in {16, 24, 32}, use \in 1..2 |->
  Unwrap(derive_master_key_option_c(IssuerKey(size, use), Pan[card], Psn[card]))]

\* The application cryptogram of a transaction, and the card's challenge.
Ac(age) == <<\h1C, \h52, \h9A, 3, 16 + age, \hB7, \h60, \hE1>>
Challenge(age) == <<9, \h44, \hA0 + age, \h31, \h7E, 2, \hC8, \h5D>>

(* Kinds of channel. *)

ChainedTdes == {"tdes_mac", "tdes_conf"}
ChainedAes == {"aes_mac", "aes_conf"}
Sessions == {"etm_p256", "etm_p521"}
SingleScripts == {"format2"}
Cryptograms == {"ac", "ac_aes"}
Responses == {"arpc1", "arpc1_aes", "arpc2", "arpc2_aes"}
Signatures == {"sdsa_p256", "sdsa_p521"}
Pins == {"pin_rsa", "pin_p256", "pin_p521"}
Biometrics == {"bio_p256", "bio_p521"}
MCKinds == ChainedTdes \cup ChainedAes \cup Sessions \cup SingleScripts \cup Cryptograms
             \cup Responses \cup Signatures \cup Pins \cup Biometrics
MCLockstep(s) == s.kind \notin ChainedTdes \cup ChainedAes \cup Sessions

\* chain is what the last message of the session leaves behind.  The
\* session's counter starts close to its last value.
Fresh(kind, card) ==
  [kind |-> kind, card |-> card, age |-> 1,
   chain |-> CASE kind \in ChainedTdes -> Ac(0)
               [] kind \in ChainedAes -> Ac(0) \o Zeros(8)
               [] kind = "etm_p256" -> <<LastCounter - 2>>
               [] kind = "etm_p521" -> <<0>>
               [] OTHER -> <<>>]
MCInitial == {Fresh(kind, "ours") : kind \in MCKinds}

(* Script commands. *)

Plain(ins, p2, data, chained) ==
  [ins |-> ins, p1 |-> 0, p2 |-> p2, data |-> data, chained |-> chained]
NewPin == <<\h24, \h12, \h34, \hFF, \hFF, \hFF, \hFF, 0>>
Script == [first |-> Plain(\h1E, 0, <<>>, FALSE), second |-> Plain(\h24, 3, NewPin, TRUE)]

TdesSession == [card \in MCCards, use \in 1..2 |->
  derive_session_key_tdes(TdesKey[card, use], diversification_for_sm_session_key(Ac(0)))]
AesSession == [card \in MCCards, size \in {24, 32}, use \in 1..2 |->
  Unwrap(derive_session_key_aes(AesMasterKey[card, size, use],
                                diversification_for_sm_session_key_aes(Ac(0))))]
ScriptMac == 4

SealScript(s, c) ==
  CASE s.kind = "tdes_mac" ->
         wrap_format_1_integrity_only(c, TdesSession[s.card, 1], ScriptMac, Some(s.chain))
    [] s.kind = "tdes_conf" ->
         wrap_format_1_with_confidentiality(c, TdesSession[s.card, 2], TdesSession[s.card, 1],
                                            ScriptMac, Some(s.chain))
    [] s.kind = "aes_mac" ->
         wrap_format_1_integrity_only_aes(c, AesSession[s.card, 24, 1], ScriptMac, Some(s.chain))
    [] s.kind = "aes_conf" ->
         wrap_format_1_with_confidentiality_aes(c, AesSession[s.card, 32, 2],
                                                AesSession[s.card, 24, 1], ScriptMac,
                                                Some(s.chain))

\* The whole MAC of a secured command, as both ends compute it.
ObjectOf(c) == First(c.data, Len(c.data) - (2 + ScriptMac))
WholeMac(s, c) ==
  LET header == <<c.cla, c.ins, c.p1, c.p2>>
      Input(size) == MacInput(Some(s.chain), header, ObjectOf(c), size)
  IN  IF s.kind \in ChainedTdes THEN retail_mac_no_pad(TdesSession[s.card, 1], Input(8))
      ELSE aes_cmac(AesSession[s.card, 24, 1], Input(16))
Deciphered(s, cipher) ==
  Then(IF s.kind \in ChainedTdes
       THEN tdes_cbc_decrypt(TdesSession[s.card, 2], Zeros(8), cipher)
       ELSE aes_cbc_decrypt(AesSession[s.card, 32, 2], Zeros(16), cipher),
       unpad_iso9797_method2)
CommandData(s, c) ==
  Then(ParseAll[ObjectOf(c)], LAMBDA tlvs :
    CASE tlvs = <<>> -> Some(<<>>)
      [] tlvs # <<>> /\ tlvs[1].tag = <<\h81>> -> Some(tlvs[1].value)
      [] tlvs # <<>> /\ tlvs[1].tag = <<\h87>> ->
           Check(Head(tlvs[1].value) = 1, Deciphered(s, Tail(tlvs[1].value)))
      [] OTHER -> None)
OpenScript(s, c) ==
  Then(Check(c.cla \in {\h8C, \h9C} /\ Len(c.data) >= 2 + ScriptMac, WholeMac(s, c)),
       LAMBDA mac :
         Then(Check(Ending(c.data, 2 + ScriptMac)
                      = <<\h8E, ScriptMac>> \o First(mac, ScriptMac), CommandData(s, c)),
              LAMBDA data : Some(Plain(c.ins, c.p2, data, c.cla = \h9C))))

(* Commands of the payment system's own format: the builders. *)

SingleSession(s, use) ==
  derive_session_key_tdes(TdesKey[s.card, use], diversification_for_sm_session_key(Ac(s.age)))
MacOver(s, ins, p2, data) ==
  Unwrap(mac_truncated(SingleSession(s, 1), <<cla_byte("Proprietary", FALSE), ins, 0, p2>> \o data, 8))
EncipheredPin(s) ==
  Unwrap(tdes_ecb_encrypt(SingleSession(s, 2), pad_iso9797_method2(NewPin, 8)))
Single(s, p) ==
  CASE p = "first" -> Some(application_block("Proprietary", MacOver(s, \h1E, 0, <<>>)))
    [] p = "second" -> pin_change_unblock("Proprietary", 2,
                         EncipheredPin(s) \o MacOver(s, \h24, 2, EncipheredPin(s)), FALSE)
    [] p = "third" -> Some(application_unblock("Proprietary", MacOver(s, \h18, 0, <<>>)))
    [] p = "fourth" -> Some(card_block("Proprietary", MacOver(s, \h16, 0, <<>>)))
OpenSingle(s, c) ==
  LET data == First(c.data, Len(c.data) - 8)
      pin == Then(tdes_ecb_decrypt(SingleSession(s, 2), data), unpad_iso9797_method2)
  IN  Check(c.cla = \h84 /\ Ending(c.data, 8) = MacOver(s, c.ins, c.p2, data),
        CASE c.ins = \h1E /\ data = <<>> -> Some("first")
          [] c.ins = \h24 /\ pin = Some(NewPin) -> Some("second")
          [] c.ins = \h18 /\ data = <<>> -> Some("third")
          [] c.ins = \h16 /\ data = <<>> -> Some("fourth")
          [] OTHER -> Some("garbled"))

(* Cryptograms of the card, and what answers them. *)

Selected == [first |-> <<0, 0, 0, 0, \h10, 0, 8, \h40, 1>>,
             second |-> <<0, 0, 0, 0, \h25, 0, 9, \h78, 2, 0, 0, 0, 1, 3, 5, 7>>]
AcSession(s) ==
  derive_session_key_tdes(ShortTdesKey[s.card], diversification_for_ac_session_key(s.age))
AcSessionAes(s) ==
  Unwrap(derive_session_key_aes(AesMasterKey[s.card, 16, 1],
                                diversification_for_ac_session_key_aes(s.age)))
SealCryptogram(s, data) ==
  IF s.kind = "ac" THEN Some(application_cryptogram(AcSession(s), data))
  ELSE application_cryptogram_aes(AcSessionAes(s), data)
OpenCryptogram(s, m) ==
  Check(IF s.kind = "ac" THEN verify_application_cryptogram(AcSession(s), m.data, m.ac)
        ELSE verify_application_cryptogram_aes(AcSessionAes(s), m.data, m.ac) = Some(TRUE),
        Some(m.data))

Csu == [first |-> RegisterBytes(CsuLayout, WithFlags(CsuLayout, {"issuer_approves_online_transaction"})),
        second |-> RegisterBytes(CsuLayout, WithFlags(CsuLayout,
                     {"proprietary_authentication_data_included", "application_block"}))]
ProprietaryData == [first |-> <<>>, second |-> <<1, 2, 3, 4, 5, 6, 7, 8>>]
Answer(s, p) ==
  IF s.kind \in {"arpc1", "arpc1_aes"}
  THEN IF p = "first" THEN <<\h30, \h30>> ELSE <<\h30, \h35>>
  ELSE Csu[p] \o ProprietaryData[p]
AnswerCode(s, answer) ==
  LET csu == First(answer, 4)
      pcad == From(answer, 5)
  IN  CASE s.kind = "arpc1" -> Some(arpc_method1(Ac(s.age), answer, AcSession(s)))
        [] s.kind = "arpc1_aes" -> arpc_method1_aes(Ac(s.age), answer, AcSessionAes(s))
        [] s.kind = "arpc2" -> arpc_method2(Ac(s.age), csu, pcad, AcSession(s))
        [] s.kind = "arpc2_aes" -> arpc_method2_aes(Ac(s.age), csu, pcad, AcSessionAes(s))
SealAnswer(s, answer) ==
  Then(AnswerCode(s, answer), LAMBDA arpc :
    Then(IF Len(answer) = 2 THEN Some(arpc \o answer)
         ELSE issuer_authentication_data_method2(arpc, First(answer, 4), From(answer, 5)),
         external_authenticate))
OpenAnswer(s, c) ==
  LET size == IF s.kind \in {"arpc1", "arpc1_aes"} THEN 8 ELSE 4
      answer == From(c.data, size + 1)
  IN  Check(c.ins = \h82 /\ AnswerCode(s, answer) = Some(First(c.data, size)), Some(answer))

(* Enciphered sessions, signatures, the cardholder's data. *)

\* Private keys: a card's, and one used once.
CardKey == [ours |-> 32000, another |-> 4711]
Once(s) == (1234 * s.age) + 29000
Key521(d) == i2os(d, 66)
Key256(d) == i2os(d, 32)
Certified256 == [card \in MCCards |->
  Unwrap(constrain_long_term_private_key_p256(Key256(CardKey[card])))]
Certified521 == [card \in MCCards |->
  Unwrap(constrain_long_term_private_key_p521(Key521(CardKey[card])))]
PublicX256 == [card \in MCCards |-> Unwrap(public_key_x_from_private(Certified256[card]))]
PublicX521 == [card \in MCCards |-> Unwrap(public_key_x_from_private_p521(Certified521[card]))]

SessionText == [first |-> <<>>, second |-> [i \in 1..19 |-> 10 * i]]
SessionKeys256 == [card \in MCCards |->
  Unwrap(derive_keys_p256(Challenge(0), 0, Key256(31000), PublicX256[card]))]
SessionKeys521 == [card \in MCCards |->
  Unwrap(derive_keys_p521(Challenge(0), 1, Key521(31000), PublicX521[card]))]
Aad == <<1, 2, 3>>
EtmSealed(s, msg) ==
  IF s.kind = "etm_p256"
  THEN encrypt_etm_p256(0, SessionKeys256[s.card].k3, SessionKeys256[s.card].k4, msg, Aad, s.chain[1])
  ELSE encrypt_etm_p521(1, SessionKeys521[s.card].k3, SessionKeys521[s.card].k4, msg, Aad, s.chain[1])
EtmOpened(s, text) ==
  IF s.kind = "etm_p256"
  THEN decrypt_etm_p256(0, SessionKeys256[s.card].k3, SessionKeys256[s.card].k4, text, Aad, s.chain[1])
  ELSE decrypt_etm_p521(1, SessionKeys521[s.card].k3, SessionKeys521[s.card].k4, text, Aad, s.chain[1])

SignedText == [first |-> <<5, 1>>, second |-> <<5, 2, 0, 9>>]
SealSignature(s, text) ==
  Then(IF s.kind = "sdsa_p256"
       THEN ec_sdsa_p256_sign(16, Certified256[s.card], Key256(Once(s)), text \o Challenge(s.age))
       ELSE ec_sdsa_p521_sign(17, Certified521[s.card], Key521(Once(s)), text \o Challenge(s.age)),
       LAMBDA signature : Some([text |-> text, signature |-> signature]))
OpenSignature(s, m) ==
  LET text == m.text \o Challenge(s.age)
      verified == IF s.kind = "sdsa_p256"
                  THEN ec_sdsa_p256_verify(16, PublicX256[s.card], text, m.signature)
                  ELSE ec_sdsa_p521_verify(17, PublicX521[s.card], text, m.signature)
  IN  Check(verified = Some(TRUE), Some(m.text))

Pin == [first |-> Unwrap(plaintext_pin_block(<<1, 2, 3, 4>>)),
        second |-> Unwrap(plaintext_pin_block(<<9, 8, 7, 6, 5>>))]
Modulus == [ours |-> <<\hC1>> \o [i \in 1..23 |-> 9 * i],
            another |-> <<\hC1>> \o [i \in 1..23 |-> 8 * i]]
SealPin(s, block) ==
  CASE s.kind = "pin_rsa" ->
         Then(enciphered_pin_data(block, Challenge(s.age), [i \in 1..7 |-> s.age * i],
                                  Modulus[s.card], <<3>>),
              LAMBDA data : Some(verify("EncipheredPinRsa", data, FALSE)))
    [] s.kind = "pin_p256" ->
         Then(enciphered_pin_data_ecc_p256(block, Challenge(s.age), PublicX256[s.card],
                                           Key256(Once(s))),
              LAMBDA data : Some(verify("EncipheredPinEcc", data, FALSE)))
    [] s.kind = "pin_p521" ->
         Then(enciphered_pin_data_ecc_p521(block, Challenge(s.age), PublicX521[s.card],
                                           Key521(Once(s))),
              LAMBDA data : Some(verify("EncipheredPinEcc", data, FALSE)))
OpenPin(s, c) ==
  CASE s.kind = "pin_rsa" ->
         Then(rsa_recover(c.data, <<7>>, Modulus[s.card]), LAMBDA plain :
           Check(plain[1] = PIN_DATA_HEADER /\ SubSeq(plain, 10, 17) = Challenge(s.age),
                 Some(SubSeq(plain, 2, 9))))
    [] s.kind = "pin_p256" ->
         decipher_pin_data_ecc_p256(c.data, Challenge(s.age), Certified256[s.card])
    [] s.kind = "pin_p521" ->
         decipher_pin_data_ecc_p521(c.data, Challenge(s.age), Certified521[s.card])

Finger == [first |-> [solution_id |-> <<1>>, type |-> <<8>>, subtype |-> 1, bdb |-> <<>>],
           second |-> [solution_id |-> <<1, 2>>, type |-> <<8>>, subtype |-> 6,
                       bdb |-> [i \in 1..21 |-> 11 * i]]]
SealFinger(s, b) ==
  Then(IF s.kind = "bio_p256"
       THEN enciphered_biometric_data_ecc_p256(Challenge(s.age), b, PublicX256[s.card], Key256(Once(s)))
       ELSE enciphered_biometric_data_ecc_p521(Challenge(s.age), b, PublicX521[s.card], Key521(Once(s))),
       LAMBDA data : Some(verify("EncipheredBiometricEcc", data, FALSE)))
OpenFinger(s, c) ==
  IF s.kind = "bio_p256"
  THEN decipher_biometric_data_ecc_p256(c.data, Challenge(s.age), Certified256[s.card])
  ELSE decipher_biometric_data_ecc_p521(c.data, Challenge(s.age), Certified521[s.card])
ReadFrom(b) == [subtype |-> b.subtype, bdb |-> b.bdb]

(* The channel's functions. *)

MCPayloads == {"first", "second", "third", "fourth"}
Offered(s) == IF s.kind \in SingleScripts THEN MCPayloads ELSE {"first", "second"}
\* What a payload's name stands for when it comes out at the other end.
Meaning(s, p) ==
  CASE s.kind \in ChainedTdes \cup ChainedAes -> Script[p]
    [] s.kind \in Sessions -> SessionText[p]
    [] s.kind \in SingleScripts -> p
    [] s.kind \in Cryptograms -> Selected[p]
    [] s.kind \in Responses -> Answer(s, p)
    [] s.kind \in Signatures -> SignedText[p]
    [] s.kind \in Pins -> Pin[p]
    [] s.kind \in Biometrics -> ReadFrom(Finger[p])
Name(s, value) ==
  IF \E p \in Offered(s) : Meaning(s, p) = value
  THEN CHOOSE p \in Offered(s) : Meaning(s, p) = value
  ELSE "garbled"

AsBytes(command) == Then(command, to_bytes)
MCSeal(s, p) ==
  CASE p \notin Offered(s) -> None
    [] p \in Offered(s) /\ s.kind \in ChainedTdes \cup ChainedAes -> AsBytes(SealScript(s, Script[p]))
    [] p \in Offered(s) /\ s.kind \in Sessions ->
         Then(EtmSealed(s, SessionText[p]), LAMBDA out : Some(out.text))
    [] p \in Offered(s) /\ s.kind \in SingleScripts -> AsBytes(Single(s, p))
    [] p \in Offered(s) /\ s.kind \in Cryptograms ->
         Then(SealCryptogram(s, Selected[p]), LAMBDA ac : Some([data |-> Selected[p], ac |-> ac]))
    [] p \in Offered(s) /\ s.kind \in Responses -> AsBytes(SealAnswer(s, Answer(s, p)))
    [] p \in Offered(s) /\ s.kind \in Signatures -> SealSignature(s, SignedText[p])
    [] p \in Offered(s) /\ s.kind \in Pins -> AsBytes(SealPin(s, Pin[p]))
    [] p \in Offered(s) /\ s.kind \in Biometrics -> AsBytes(SealFinger(s, Finger[p]))
OpenCommand(s, m, Read(_, _)) == Then(command_from_bytes(m), LAMBDA c : Read(s, c))
Opened(s, m) ==
  CASE s.kind \in ChainedTdes \cup ChainedAes -> OpenCommand(s, m, OpenScript)
    [] s.kind \in Sessions -> Then(EtmOpened(s, m), LAMBDA out : Some(out.text))
    [] s.kind \in SingleScripts -> OpenCommand(s, m, OpenSingle)
    [] s.kind \in Cryptograms -> OpenCryptogram(s, m)
    [] s.kind \in Responses -> OpenCommand(s, m, OpenAnswer)
    [] s.kind \in Signatures -> OpenSignature(s, m)
    [] s.kind \in Pins -> OpenCommand(s, m, OpenPin)
    [] s.kind \in Biometrics -> OpenCommand(s, m, OpenFinger)
MCOpen(s, m) == Then(Opened(s, m), LAMBDA value : Some(Name(s, value)))

Chained(s, p) ==
  CASE s.kind \in ChainedTdes \cup ChainedAes ->
         Unwrap(Then(SealScript(s, Script[p]), LAMBDA c : WholeMac(s, c)))
    [] s.kind \in Sessions ->
         Unwrap(Then(EtmSealed(s, SessionText[p]), LAMBDA out : Some(<<out.counter>>)))
    [] OTHER -> s.chain
MCAfter(s, p) == [s EXCEPT !.age = @ + 1, !.chain = Chained(s, p)]

\* The other card's messages, and our card's of an earlier session or
\* transaction.
MCForeign(s) ==
  LET Others == {Fresh(s.kind, "another"),
                 [Fresh(s.kind, "ours") EXCEPT !.age = 0,
                    !.chain = IF s.kind \in ChainedTdes \cup ChainedAes
                              THEN [i \in DOMAIN @ |-> 85] ELSE @]}
      Own == {o \in Others : o.card = "another" \/ s.kind \notin Sessions}
  IN  {Unwrap(MCSeal(o, p)) : <<o, p>> \in
         {op \in Own \X {"first", "second"} : MCSeal(op[1], op[2]) # None}}
=============================================================================
