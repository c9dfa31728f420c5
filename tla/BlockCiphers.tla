----------------------------- MODULE BlockCiphers -----------------------------
(***************************************************************************)
(* Book 2 Annexes A1 and B1, the symmetric half of core/secure_messaging   *)
(* and core/aes_primitives: padding, ECB, CBC and the two MACs, over a     *)
(* block cipher that is a parameter.  All that is asked of Des(key, .) and *)
(* Aes(key, .) is that they permute blocks of 8 and of 16 bytes, with the  *)
(* inverses given; Des ignores b1 of every key byte.                       *)
(***************************************************************************)
EXTENDS Bytes
CONSTANTS Des(_, _), DesInverse(_, _), Aes(_, _), AesInverse(_, _)

Nibble == 0..15
XorTable ==
  [a, b \in Nibble |-> ByteOf({n \in 1..4 : HasBit(a, n) # HasBit(b, n)})]
\* Byte by byte, as long as the first; the second is at least that long.
xor(one, other) ==
  [i \in DOMAIN one |->
     (16 * XorTable[one[i] \div 16, other[i] \div 16]) + XorTable[one[i] % 16, other[i] % 16]]

Zeros(n) == Repeat(0, n)
Blocks(data, size) ==
  [i \in 1..(Len(data) \div size) |-> SubSeq(data, (size * (i - 1)) + 1, size * i)]
Aligned(data, size) == Len(data) % size = 0

\* The '80' is always added, so aligned data grows by a block.
pad_iso9797_method2(msg, size) ==
  LET marked == Append(msg, 128) IN marked \o Zeros((-Len(marked)) % size)
unpad_iso9797_method2(padded) ==
  LET ends == {i \in DOMAIN padded : padded[i] # 0}
      end == CHOOSE i \in ends : \A j \in ends : j <= i
  IN  Check(ends # {} /\ padded[end] = 128, Some(First(padded, end - 1)))

(* Chaining, over the block cipher E or its inverse D. *)

Enchain(E(_), iv, data) ==
  LET size == Len(iv)
      Step(done, block) == done \o E(xor(block, Ending(done, size)))
  IN  From(FoldLeft(Step, iv, Blocks(data, size)), size + 1)
Unchain(D(_), iv, data) ==
  LET size == Len(iv)
      blocks == <<iv>> \o Blocks(data, size)
      Step(done, i) == done \o xor(D(blocks[i + 1]), blocks[i])
  IN  FoldLeft(Step, <<>>, [i \in 1..(Len(blocks) - 1) |-> i])
\* The last block of a chain from zero.
LastChained(E(_), data, size) ==
  FoldLeft(LAMBDA h, block : E(xor(block, h)), Zeros(size), Blocks(data, size))

(* Triple DES with a two-part key. *)

KeyLeft(key) == First(key, 8)
KeyRight(key) == SubSeq(key, 9, 16)
tdes_encrypt_block(key, block) ==
  Des(KeyLeft(key), DesInverse(KeyRight(key), Des(KeyLeft(key), block)))
tdes_decrypt_block(key, block) ==
  DesInverse(KeyLeft(key), Des(KeyRight(key), DesInverse(KeyLeft(key), block)))

TdesData(data) == data # <<>> /\ Aligned(data, 8)
tdes_ecb_encrypt(key, data) ==
  LET Step(done, block) == done \o tdes_encrypt_block(key, block)
  IN  Check(TdesData(data), Some(FoldLeft(Step, <<>>, Blocks(data, 8))))
tdes_ecb_decrypt(key, data) ==
  LET Step(done, block) == done \o tdes_decrypt_block(key, block)
  IN  Check(TdesData(data), Some(FoldLeft(Step, <<>>, Blocks(data, 8))))
tdes_cbc_encrypt(key, iv, data) ==
  Check(TdesData(data), Some(Enchain(LAMBDA b : tdes_encrypt_block(key, b), iv, data)))
tdes_cbc_decrypt(key, iv, data) ==
  Check(TdesData(data), Some(Unchain(LAMBDA b : tdes_decrypt_block(key, b), iv, data)))

\* The retail MAC: single DES down the chain, the right half only at the end.
retail_mac_no_pad(key, msg) ==
  LET last == LastChained(LAMBDA b : Des(KeyLeft(key), b), msg, 8)
  IN  Check(TdesData(msg), Some(Des(KeyLeft(key), DesInverse(KeyRight(key), last))))
retail_mac(key, msg) == Unwrap(retail_mac_no_pad(key, pad_iso9797_method2(msg, 8)))

MacLength == 4..8
mac_truncated(key, msg, s) == Check(s \in MacLength, Some(First(retail_mac(key, msg), s)))

(* AES; the key's length chooses the cipher and any other is refused. *)

AesKey(key) == Len(key) \in {16, 24, 32}
aes_encrypt_block(key, block) == Check(AesKey(key), Some(Aes(key, block)))
aes_decrypt_block(key, block) == Check(AesKey(key), Some(AesInverse(key, block)))

\* Unlike Triple DES, empty data is no error, and the key is not looked at.
AesData(key, data) == Aligned(data, 16) /\ (data # <<>> => AesKey(key))
aes_cbc_encrypt(key, iv, data) ==
  Check(AesData(key, data), Some(Enchain(LAMBDA b : Aes(key, b), iv, data)))
aes_cbc_decrypt(key, iv, data) ==
  Check(AesData(key, data), Some(Unchain(LAMBDA b : AesInverse(key, b), iv, data)))

\* One bit to the left, and the reduction by '87' when one falls out.
cmac_subkey(input) ==
  LET shifted == [i \in 1..16 |->
        ((2 * input[i]) % 256) + (IF i < 16 /\ input[i + 1] >= 128 THEN 1 ELSE 0)]
  IN  IF input[1] < 128 THEN shifted ELSE xor(shifted, Zeros(15) \o <<135>>)

\* Padding only when the message does not fill its last block, and then the
\* second subkey.
aes_cmac(key, msg) ==
  LET k1 == cmac_subkey(Aes(key, Zeros(16)))
      whole == msg # <<>> /\ Aligned(msg, 16)
      padded == IF whole THEN msg ELSE pad_iso9797_method2(msg, 16)
      mask == IF whole THEN k1 ELSE cmac_subkey(k1)
      before == LastChained(LAMBDA b : Aes(key, b), First(padded, Len(padded) - 16), 16)
  IN  Check(AesKey(key), Some(Aes(key, xor(xor(Ending(padded, 16), before), mask))))
aes_cmac_truncated(key, msg, s) ==
  Check(s \in MacLength, Then(aes_cmac(key, msg), LAMBDA mac : Some(First(mac, s))))
=============================================================================
