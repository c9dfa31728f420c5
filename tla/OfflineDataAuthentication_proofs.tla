------------------- MODULE OfflineDataAuthentication_proofs -------------------
(***************************************************************************)
(* Proofs about offline data authentication, for all cards, terminals, key *)
(* lengths and signatures: the key that the chain of certificates yields   *)
(* is the key that was certified, and every key certified is recovered; a  *)
(* dynamic signature verifies if and only if the certified key made it     *)
(* over the data exchanged; and an XDA failure is final.                   *)
(***************************************************************************)
EXTENDS OfflineDataAuthentication, SequenceTheorems, TLAPS

\* The room taken by a modulus and the rest of it.
LEMMA LeftmostType ==
    ASSUME NEW m \in Seq(Nat), NEW capacity \in Nat
    PROVE  /\ Leftmost(m, capacity) \in Seq(Nat)
           /\ Len(Leftmost(m, capacity)) = capacity
           /\ \A i \in 1..capacity :
                 Leftmost(m, capacity)[i] = IF i <= Len(m) THEN m[i] ELSE BB
  BY DEF Leftmost, BB

\* s holds the first n elements of m and t the others.
Splits(m, n, s, t) ==
    /\ n < Len(m)
    /\ s \in Seq(Nat) /\ Len(s) = n /\ \A i \in 1..n : s[i] = m[i]
    /\ t \in Seq(Nat) /\ Len(t) = Len(m) - n /\ \A k \in 1..(Len(m) - n) : t[k] = m[n + k]

\* The two parts make up the whole.
LEMMA Joined ==
    ASSUME NEW m \in Seq(Nat), NEW n \in Nat
    PROVE  \A s, t : Splits(m, n, s, t) => s \o t = m
<1>1. SUFFICES ASSUME NEW s, NEW t, Splits(m, n, s, t)
               PROVE  s \o t = m
  OBVIOUS
<1> USE DEF Splits
<1>0. s \in Seq(Nat) /\ t \in Seq(Nat)
  BY <1>1
<1>2. s \o t \in Seq(Nat) /\ Len(s \o t) = Len(m)
  <2>1. s \o t \in Seq(Nat) /\ Len(s \o t) = Len(s) + Len(t)
    BY <1>0, ConcatProperties
  <2>2. Len(m) \in Nat
    BY LenProperties
  <2> QED
    BY <1>1, <2>1, <2>2
<1>3. ASSUME NEW i \in 1..Len(m)
      PROVE  (s \o t)[i] = m[i]
  <2>1. i \in 1..(Len(s) + Len(t))
    BY <1>1
  <2>2. (s \o t)[i] = IF i <= Len(s) THEN s[i] ELSE t[i - Len(s)]
    BY <1>0, <2>1, ConcatProperties
  <2>3. CASE i <= n
    BY <1>1, <2>2, <2>3
  <2>4. CASE i > n
    <3>1. i - n \in 1..(Len(m) - n)
      BY <2>4
    <3>2. t[i - n] = m[n + (i - n)]
      BY <1>1, <3>1
    <3> QED
      BY <1>1, <2>2, <2>4, <3>2
  <2>5. i <= n \/ i > n
    BY LenProperties
  <2> QED
    BY <2>3, <2>4, <2>5
<1> QED
  BY <1>2, <1>3, SeqEqual

\* Splitting a modulus over certificate and remainder and putting it together
\* again (recover_issuer_public_key, recover_icc_public_key) is the identity.
THEOREM ModulusRecovered ==
    ASSUME NEW m \in Seq(Nat), NEW capacity \in Nat
    PROVE  LET left == Leftmost(m, capacity)
               rest == RemainderOf(m, capacity)
           IN  Assembles(left, Len(m), rest) /\ Modulus(left, Len(m), rest) = m
<1> DEFINE left == Leftmost(m, capacity)
           rest == RemainderOf(m, capacity)
<1>1. /\ left \in Seq(Nat) /\ Len(left) = capacity
      /\ \A i \in 1..capacity : left[i] = IF i <= Len(m) THEN m[i] ELSE BB
  BY LeftmostType
<1> HIDE DEF left
<1>2. CASE Len(m) <= capacity
  <2>1. rest = Absent
    BY <1>2 DEF RemainderOf
  <2>2. Assembles(left, Len(m), rest)
    <3>1. \A i \in (Len(m) + 1)..Len(left) : left[i] = BB
      BY <1>1, <1>2
    <3> QED
      BY <1>1, <1>2, <2>1, <3>1 DEF Assembles
  <2>3. SubSeq(left, 1, Len(m)) = m
    BY <1>1, <1>2
  <2> QED
    BY <1>1, <1>2, <2>2, <2>3 DEF Modulus, left
<1>3. CASE Len(m) > capacity
  <2> DEFINE tail == SubSeq(m, capacity + 1, Len(m))
  <2>1. rest = <<tail>>
    BY <1>3 DEF RemainderOf
  <2>2. /\ tail \in Seq(Nat) /\ Len(tail) = Len(m) - capacity
        /\ \A k \in 1..(Len(m) - capacity) : tail[k] = m[capacity + k]
    BY <1>3
  <2> HIDE DEF tail, rest
  <2>3. Assembles(left, Len(m), rest)
    <3>1. rest # Absent /\ Len(rest[1]) = Len(m) - Len(left)
      BY <1>1, <2>1, <2>2 DEF Absent
    <3>2. ~(Len(m) <= Len(left))
      BY <1>1, <1>3
    <3> QED
      BY <3>1, <3>2 DEF Assembles
  <2>4. left \o tail = m
    <3>1. Len(left) = capacity /\ capacity < Len(m)
      BY <1>1, <1>3
    <3>2. \A i \in 1..capacity : left[i] = m[i]
      BY <1>1, <1>3
    <3>3. left \in Seq(Nat) /\ tail \in Seq(Nat)
      BY <1>1, <2>2
    <3>4. /\ Len(tail) = Len(m) - capacity
          /\ \A k \in 1..(Len(m) - capacity) : tail[k] = m[capacity + k]
      BY <2>2
    <3>5. Splits(m, capacity, left, tail)
      BY <3>1, <3>2, <3>3, <3>4 DEF Splits
    <3> QED
      BY <3>5, Joined
  <2>5. Value(rest) = tail
    BY <2>1 DEF Value, Absent
  <2>6. Modulus(left, Len(m), rest) = m
    BY <1>1, <1>3, <2>4, <2>5 DEF Modulus
  <2> QED
    BY <2>3, <2>6 DEF left, rest
<1> QED
  BY <1>2, <1>3 DEF left

\* A certificate made out for a key is accepted as long as it has not
\* expired, and gives that key (recover_issuer_public_key and
\* recover_icc_public_key, without the check of the subject).
THEOREM CertificateAccepted ==
    ASSUME NEW by, by.modulus \in Seq(Nat),
           NEW overhead \in Nat, Len(by.modulus) > overhead,
           NEW k, k.modulus \in Seq(Nat),
           NEW format, NEW subject, NEW serial, NEW more,
           NEW expiry, NEW today, NotBefore(expiry, today)
    PROVE  LET cert == Certificate(by, overhead, format, subject, expiry, serial, k, more)
               remainder == RemainderOf(k.modulus, Len(by.modulus) - overhead)
           IN  /\ CertificateHolds(cert, by, overhead, format, remainder, k.exponent, more, today)
               /\ recovered_key(cert, remainder, k.exponent)
                     = [modulus |-> k.modulus, exponent |-> k.exponent]
<1> DEFINE capacity == Len(by.modulus) - overhead
           cert == Certificate(by, overhead, format, subject, expiry, serial, k, more)
           remainder == RemainderOf(k.modulus, capacity)
<1>1. capacity \in Nat
  BY LenProperties
<1>2. /\ Assembles(Leftmost(k.modulus, capacity), Len(k.modulus), remainder)
      /\ Modulus(Leftmost(k.modulus, capacity), Len(k.modulus), remainder) = k.modulus
      /\ Len(Leftmost(k.modulus, capacity)) = capacity
  BY <1>1, ModulusRecovered, LeftmostType
<1>3. /\ cert.by = by
      /\ cert.msg1.format = format /\ cert.msg1.expiry = expiry
      /\ cert.msg1.exponentLength = Len(k.exponent)
      /\ cert.msg1.length = Len(k.modulus)
      /\ cert.msg1.leftmost = Leftmost(k.modulus, capacity)
      /\ cert.msg2 = Value(remainder) \o k.exponent \o more
  BY DEF Certificate
<1>6. capacity = Len(by.modulus) - overhead
  OBVIOUS
<1> HIDE DEF cert, capacity, remainder
<1>4. CertificateHolds(cert, by, overhead, format, remainder, k.exponent, more, today)
  BY <1>2, <1>3, <1>6 DEF CertificateHolds, Recovers
<1>5. recovered_key(cert, remainder, k.exponent)
        = [modulus |-> k.modulus, exponent |-> k.exponent]
  BY <1>2, <1>3 DEF recovered_key
<1> QED
  BY <1>4, <1>5 DEF cert, capacity, remainder
-----------------------------------------------------------------------------
(* An XDA failure is final. *)

ArmingFailure == {"ca_ecc_key_missing", "ecc_key_recovery_failed"}

\* The bits in the TVR are those of the card's method, none before the method
\* has run, and with a recovered key only that of a bad signature.
MethodInvariant ==
    /\ card.method \in Method
    /\ tvr \subseteq BitsOf(card.method)
    /\ pc = "Authenticate" => tvr = {}
    /\ pc = "InternalAuthenticate" => card.method = "DDA"
    /\ xda = "Armed" => tvr \cap ArmingFailure = {}

\* Only XDA has XDA failures.
LEMMA OnlyXda ==
    ASSUME NEW method \in Method, NEW bits, bits \subseteq BitsOf(method), XdaFailed(bits)
    PROVE  method = "XDA"
  BY DEF Method, BitsOf, XdaFailed, XdaFailureBit

LEMMA BitsOfMethod ==
    /\ {"sda_selected", "sda_failed", "icc_data_missing"} \subseteq BitsOf("SDA")
    /\ {"dda_failed", "icc_data_missing"} \subseteq BitsOf("DDA")
    /\ {"cda_failed", "icc_data_missing"} \subseteq BitsOf("CDA")
    /\ {"xda_selected", "icc_data_missing", "xda_signature_verification_failed"}
          \cup ArmingFailure \subseteq BitsOf("XDA")
  BY DEF BitsOf, XdaFailureBit, ArmingFailure

LEMMA InitMethod == Init => MethodInvariant
  BY OdaAssumption DEF Init, MethodInvariant, CardType

LEMMA AuthenticationStep ==
    ASSUME MethodInvariant, perform_offline_data_authentication
    PROVE  MethodInvariant' /\ ~XdaFailed(tvr)
<1>1. tvr = {} /\ card' = card /\ pc = "Authenticate"
  BY DEF MethodInvariant, perform_offline_data_authentication, config
<1>2. ~XdaFailed(tvr)
  BY <1>1 DEF XdaFailed
<1>3. CASE perform_sda
  <2>1. tvr' \subseteq {"sda_selected", "sda_failed", "icc_data_missing"}
    BY <1>3 DEF perform_sda, MissingBit
  <2>2. card.method = "SDA" /\ pc' = "Over" /\ xda' = xda /\ tvr' \cap ArmingFailure = {}
    BY <1>3, <2>1 DEF perform_sda, ArmingFailure
  <2> QED
    BY <1>1, <1>2, <2>1, <2>2, BitsOfMethod DEF MethodInvariant, Method
<1>4. CASE perform_dda
  <2>1. tvr' \subseteq {"dda_failed", "icc_data_missing"}
    BY <1>1, <1>4 DEF perform_dda, MissingBit
  <2>2. card.method = "DDA" /\ pc' # "Authenticate" /\ tvr' \cap ArmingFailure = {}
    BY <1>4, <2>1 DEF perform_dda, ArmingFailure
  <2> QED
    BY <1>1, <1>2, <2>1, <2>2, BitsOfMethod DEF MethodInvariant, Method
<1>5. CASE perform_cda_arm
  <2>1. tvr' \subseteq {"cda_failed", "icc_data_missing"}
    BY <1>1, <1>5 DEF perform_cda_arm, fail_cda, MissingBit
  <2>2. card.method = "CDA" /\ pc' \in {"FirstAc", "Over"} /\ tvr' \cap ArmingFailure = {}
    BY <1>5, <2>1 DEF perform_cda_arm, ArmingFailure
  <2> QED
    BY <1>1, <1>2, <2>1, <2>2, BitsOfMethod DEF MethodInvariant, Method
<1>6. CASE perform_xda_arm
  <2>1. tvr' \subseteq {"xda_selected", "icc_data_missing"}
    BY <1>6 DEF perform_xda_arm, MissingBit
  <2>2. card.method = "XDA" /\ pc' = "FirstAc" /\ tvr' \cap ArmingFailure = {}
    BY <1>6, <2>1 DEF perform_xda_arm, ArmingFailure
  <2> QED
    BY <1>1, <1>2, <2>1, <2>2, BitsOfMethod DEF MethodInvariant, Method
<1> QED
  BY <1>3, <1>4, <1>5, <1>6 DEF perform_offline_data_authentication

LEMMA InternalAuthenticateStep ==
    ASSUME MethodInvariant, internal_authenticate
    PROVE  MethodInvariant' /\ ~XdaFailed(tvr)
<1>1. card.method = "DDA" /\ tvr \subseteq BitsOf(card.method)
  BY DEF MethodInvariant, internal_authenticate
<1>2. ~XdaFailed(tvr)
  BY <1>1, OnlyXda DEF Method
<1>3. /\ card' = card /\ xda' = xda /\ pc' \in {"Over", "Err"}
      /\ tvr' = tvr \/ tvr' = tvr \cup {"dda_failed"}
  BY DEF internal_authenticate, config
<1>4. tvr' \subseteq BitsOf(card.method)
  BY <1>1, <1>3, BitsOfMethod
<1>5. xda = "Armed" => tvr' \cap ArmingFailure = {}
  BY <1>3 DEF MethodInvariant, ArmingFailure
<1> QED
  BY <1>2, <1>3, <1>4, <1>5 DEF MethodInvariant

\* What an answer to GENERATE AC may change.
LEMMA AnsweredStep ==
    ASSUME MethodInvariant, NEW second, Answered(second)
    PROVE  MethodInvariant' /\ (XdaFailed(tvr) => XdaFailed(tvr') /\ tsi' = tsi /\ store' = store)
<1>1. card' = card /\ xda' = xda
  BY DEF Answered, config
<1>2. CASE pc' = "Err" /\ UNCHANGED <<tvr, tsi, store, last>>
  BY <1>1, <1>2 DEF MethodInvariant
<1>3. ASSUME NEW cid \in {"AAC", "TC", "ARQC"}, NEW children \in Children,
             CdaAnswer(second, cid, children)
      PROVE  MethodInvariant' /\ ~XdaFailed(tvr)
  <2>1. card.method = "CDA" /\ tvr \subseteq BitsOf(card.method)
    BY <1>3 DEF CdaAnswer, MethodInvariant
  <2>2. /\ tvr' = tvr \/ tvr' = tvr \cup {"cda_failed"}
        /\ pc' \in {"SecondAc", "Over"}
    BY <1>3 DEF CdaAnswer, verify_cda_inner, After
  <2>3. ~XdaFailed(tvr)
    BY <2>1, OnlyXda DEF Method
  <2>4. tvr' \subseteq BitsOf(card.method)
    BY <2>1, <2>2, BitsOfMethod
  <2>5. xda = "Armed" => tvr' \cap ArmingFailure = {}
    BY <2>2 DEF MethodInvariant, ArmingFailure
  <2> QED
    BY <1>1, <2>2, <2>3, <2>4, <2>5 DEF MethodInvariant
<1>4. ASSUME NEW cid \in {"AAC", "TC", "ARQC"}, NEW children \in Children,
             XdaAnswer(second, cid, children)
      PROVE  MethodInvariant' /\ (XdaFailed(tvr) => XdaFailed(tvr') /\ tsi' = tsi /\ store' = store)
  <2>1. card.method = "XDA" /\ tvr \subseteq BitsOf(card.method) /\ pc' \in {"SecondAc", "Over"}
    BY <1>4 DEF XdaAnswer, MethodInvariant, After
  <2>2. PICK fault \in Faults \ {"layout", "cid", "hash"} :
           verify_xda_inner(second, cid, children, fault)
    BY <1>4 DEF XdaAnswer
  <2>3. CASE NotVerified
    <3>1. tvr' = tvr \cup ArmingBit /\ tsi' = tsi /\ store' = store
      BY <2>3 DEF NotVerified
    <3>2. ArmingBit \subseteq ArmingFailure /\ (xda = "Armed" => ArmingBit = {})
      BY DEF ArmingBit, ArmingFailure
    <3>3. tvr' \subseteq BitsOf(card.method)
      BY <2>1, <3>1, <3>2, BitsOfMethod
    <3>4. xda = "Armed" => tvr' \cap ArmingFailure = {}
      BY <3>1, <3>2 DEF MethodInvariant
    <3>5. XdaFailed(tvr) => XdaFailed(tvr')
      BY <3>1 DEF XdaFailed
    <3> QED
      BY <1>1, <2>1, <3>1, <3>3, <3>4, <3>5 DEF MethodInvariant
  <2>4. CASE /\ xda = "Armed" /\ "xda_signature_verification_failed" \notin tvr
             /\ XdaVerdict(second, cid, children, fault)
    <3>1. tvr' = tvr \/ tvr' = tvr \cup {"xda_signature_verification_failed"}
      BY <2>4 DEF XdaVerdict
    <3>2. tvr \cap ArmingFailure = {}
      BY <2>4 DEF MethodInvariant
    <3>3. ~XdaFailed(tvr)
      BY <2>4, <3>2 DEF XdaFailed, XdaFailureBit, ArmingFailure
    <3>4. tvr' \cap ArmingFailure = {} /\ tvr' \subseteq BitsOf(card.method)
      BY <2>1, <3>1, <3>2, BitsOfMethod DEF ArmingFailure
    <3> QED
      BY <1>1, <2>1, <3>3, <3>4 DEF MethodInvariant
  <2> QED
    BY <2>2, <2>3, <2>4 DEF verify_xda_inner
<1> QED
  BY <1>2, <1>3, <1>4 DEF Answered

LEMMA MethodStep ==
    MethodInvariant /\ [Next]_vars
      => MethodInvariant' /\ (XdaFailed(tvr) => XdaFailed(tvr') /\ tsi' = tsi /\ store' = store)
<1> SUFFICES ASSUME MethodInvariant, [Next]_vars
             PROVE  /\ MethodInvariant'
                    /\ XdaFailed(tvr) => XdaFailed(tvr') /\ tsi' = tsi /\ store' = store
  OBVIOUS
<1>1. CASE perform_offline_data_authentication
  BY <1>1, AuthenticationStep
<1>2. CASE internal_authenticate
  BY <1>2, InternalAuthenticateStep
<1>3. CASE first_generate_ac
  BY <1>3, AnsweredStep DEF first_generate_ac
<1>4. CASE second_generate_ac
  BY <1>4, AnsweredStep DEF second_generate_ac
<1>5. CASE UNCHANGED vars
  BY <1>5 DEF vars, config, MethodInvariant
<1>6. CASE Ended
  BY <1>5, <1>6 DEF Ended
<1> QED
  BY <1>1, <1>2, <1>3, <1>4, <1>5, <1>6 DEF Next

\* Once XDA has failed, no answer of the card makes up for it.
THEOREM SecondNeverRepairs == Spec => SecondDoesNotRepair
<1>1. MethodInvariant /\ [Next]_vars
        => [XdaFailed(tvr) => XdaFailed(tvr') /\ tsi' = tsi /\ store' = store]_vars
  BY MethodStep
<1> QED
  BY <1>1, InitMethod, MethodStep, PTL DEF Spec, SecondDoesNotRepair
-----------------------------------------------------------------------------
(* The digits of a PAN, months and days. *)

\* An optional value that is there.
LEMMA OptionalValue ==
    ASSUME NEW type, NEW o \in Optional(type), o # Absent
    PROVE  o = <<o[1]>> /\ o[1] \in type
<1>1. o \in Seq(type) /\ Len(o) <= 1 /\ Len(o) \in Nat
  BY LenProperties DEF Optional
<1>2. Len(o) # 0
  <2>1. \A s \in Seq(type) : s = << >> <=> Len(s) = 0
    BY EmptySeq
  <2> QED
    BY <1>1, <2>1, Zenon DEF Absent
<1>3. Len(o) = 1
  <2>1. PICK n \in Nat : n = Len(o)
    BY <1>1
  <2>2. n <= 1 /\ n # 0
    BY <1>1, <1>2, <2>1
  <2> QED
    BY <2>1, <2>2
<1> QED
  BY <1>1, <1>3

\* Months (MM, YY) that are compared by number, with the century as the code
\* sets it, compare as months do.
LEMMA MonthsCompare ==
    ASSUME NEW d \in Moment(2), NEW e \in Moment(2)
    PROVE  NotBefore(d, e) <=> Hundreds(d) >= Hundreds(e)
<1>1. /\ d[1] \in 0..99 /\ d[2] \in 0..99 /\ e[1] \in 0..99 /\ e[2] \in 0..99
      /\ DOMAIN d = 1..2 /\ DOMAIN e = 1..2
  BY DEF Moment
<1>2. d = e <=> d[1] = e[1] /\ d[2] = e[2]
  <2>1. ASSUME d[1] = e[1], d[2] = e[2] PROVE d = e
    <3>1. \A i \in 1..2 : d[i] = e[i]
      BY <2>1
    <3> QED
      BY <3>1 DEF Moment
  <2> QED
    BY <2>1
<1>3. (\E i \in 1..2 : d[i] > e[i] /\ \A j \in 1..(i - 1) : d[j] = e[j])
        <=> d[1] > e[1] \/ (d[1] = e[1] /\ d[2] > e[2])
  <2>1. \A j \in 1..(1 - 1) : d[j] = e[j]
    OBVIOUS
  <2>2. (\A j \in 1..(2 - 1) : d[j] = e[j]) <=> d[1] = e[1]
    OBVIOUS
  <2>3. \A i \in 1..2 : i = 1 \/ i = 2
    OBVIOUS
  <2> QED
    BY <2>1, <2>2, <2>3
<1>4. NotBefore(d, e) <=> d[1] > e[1] \/ (d[1] = e[1] /\ d[2] >= e[2])
  BY <1>1, <1>2, <1>3 DEF NotBefore
<1>5. PICK d1 \in 0..99, d2 \in 0..99, e1 \in 0..99, e2 \in 0..99 :
         d1 = d[1] /\ d2 = d[2] /\ e1 = e[1] /\ e2 = e[2]
  BY <1>1
<1>6. Hundreds(d) = (100 * d1) + d2 /\ Hundreds(e) = (100 * e1) + e2
  BY <1>5 DEF Hundreds
<1>7. NotBefore(d, e) <=> (d1 > e1 \/ (d1 = e1 /\ d2 >= e2))
  BY <1>4, <1>5
<1>8. (100 * d1) + d2 >= (100 * e1) + e2 <=> (d1 > e1 \/ (d1 = e1 /\ d2 >= e2))
  OBVIOUS
<1> QED
  BY <1>6, <1>7, <1>8

\* The same for days (YYYYMMDD).
LEMMA DaysCompare ==
    ASSUME NEW d \in Moment(4), NEW e \in Moment(4)
    PROVE  /\ NotBefore(d, e) <=> DayNumber(d) >= DayNumber(e)
           /\ d = e <=> DayNumber(d) = DayNumber(e)
<1>1. /\ d[1] \in 0..99 /\ d[2] \in 0..99 /\ d[3] \in 0..99 /\ d[4] \in 0..99
      /\ e[1] \in 0..99 /\ e[2] \in 0..99 /\ e[3] \in 0..99 /\ e[4] \in 0..99
      /\ DOMAIN d = 1..4 /\ DOMAIN e = 1..4
  BY DEF Moment
<1>2. d = e <=> d[1] = e[1] /\ d[2] = e[2] /\ d[3] = e[3] /\ d[4] = e[4]
  <2>1. ASSUME d[1] = e[1], d[2] = e[2], d[3] = e[3], d[4] = e[4] PROVE d = e
    <3>1. \A i \in 1..4 : d[i] = e[i]
      BY <2>1
    <3> QED
      BY <3>1 DEF Moment
  <2> QED
    BY <2>1
<1>3. (\E i \in 1..4 : d[i] > e[i] /\ \A j \in 1..(i - 1) : d[j] = e[j])
        <=> \/ d[1] > e[1]
            \/ d[1] = e[1] /\ d[2] > e[2]
            \/ d[1] = e[1] /\ d[2] = e[2] /\ d[3] > e[3]
            \/ d[1] = e[1] /\ d[2] = e[2] /\ d[3] = e[3] /\ d[4] > e[4]
  <2>1. \A j \in 1..(1 - 1) : d[j] = e[j]
    OBVIOUS
  <2>2. (\A j \in 1..(2 - 1) : d[j] = e[j]) <=> d[1] = e[1]
    OBVIOUS
  <2>3. (\A j \in 1..(3 - 1) : d[j] = e[j]) <=> d[1] = e[1] /\ d[2] = e[2]
    OBVIOUS
  <2>4. (\A j \in 1..(4 - 1) : d[j] = e[j]) <=> d[1] = e[1] /\ d[2] = e[2] /\ d[3] = e[3]
    OBVIOUS
  <2>5. \A i \in 1..4 : i = 1 \/ i = 2 \/ i = 3 \/ i = 4
    OBVIOUS
  <2> QED
    BY <2>1, <2>2, <2>3, <2>4, <2>5
<1>4. NotBefore(d, e) <=>
        \/ d[1] > e[1]
        \/ d[1] = e[1] /\ d[2] > e[2]
        \/ d[1] = e[1] /\ d[2] = e[2] /\ d[3] > e[3]
        \/ d[1] = e[1] /\ d[2] = e[2] /\ d[3] = e[3] /\ d[4] >= e[4]
  BY <1>1, <1>2, <1>3 DEF NotBefore
<1>5. PICK d1 \in 0..99, d2 \in 0..99, d3 \in 0..99, d4 \in 0..99,
           e1 \in 0..99, e2 \in 0..99, e3 \in 0..99, e4 \in 0..99 :
         /\ d1 = d[1] /\ d2 = d[2] /\ d3 = d[3] /\ d4 = d[4]
         /\ e1 = e[1] /\ e2 = e[2] /\ e3 = e[3] /\ e4 = e[4]
  BY <1>1
<1>6. /\ DayNumber(d) = (10000 * ((100 * d1) + d2)) + (100 * d3) + d4
      /\ DayNumber(e) = (10000 * ((100 * e1) + e2)) + (100 * e3) + e4
  BY <1>5 DEF DayNumber, Hundreds
<1>7. PICK m \in Int, n \in Int :
         /\ m = (10000 * ((100 * d1) + d2)) + (100 * d3) + d4
         /\ n = (10000 * ((100 * e1) + e2)) + (100 * e3) + e4
  OBVIOUS
<1>8. /\ d1 > e1 => m > n
      /\ d1 < e1 => m < n
      /\ d1 = e1 /\ d2 > e2 => m > n
      /\ d1 = e1 /\ d2 < e2 => m < n
      /\ d1 = e1 /\ d2 = e2 /\ d3 > e3 => m > n
      /\ d1 = e1 /\ d2 = e2 /\ d3 < e3 => m < n
      /\ d1 = e1 /\ d2 = e2 /\ d3 = e3 /\ d4 > e4 => m > n
      /\ d1 = e1 /\ d2 = e2 /\ d3 = e3 /\ d4 < e4 => m < n
      /\ d1 = e1 /\ d2 = e2 /\ d3 = e3 /\ d4 = e4 => m = n
  BY <1>7
<1>9. NotBefore(d, e) <=>
        \/ d1 > e1
        \/ d1 = e1 /\ d2 > e2
        \/ d1 = e1 /\ d2 = e2 /\ d3 > e3
        \/ d1 = e1 /\ d2 = e2 /\ d3 = e3 /\ d4 >= e4
  BY <1>4, <1>5
<1>10. d = e <=> (d1 = e1 /\ d2 = e2 /\ d3 = e3 /\ d4 = e4)
  BY <1>2, <1>5
<1>11. NotBefore(d, e) <=> m >= n
  BY <1>8, <1>9
<1>12. d = e <=> m = n
  BY <1>8, <1>10
<1> QED
  BY <1>6, <1>7, <1>11, <1>12

\* The first n digits of a PAN, padded.
Prefix(pan, n, width) == [i \in 1..width |-> IF i <= n THEN pan[i] ELSE 15]

\* An identifier of up to longest digits fits a PAN: as decoded, and as issued.
FitsDecoded(id, pan, longest) ==
    \E n \in decode(id) \cap 3..longest, p \in decode(pan) : n <= p /\ SameDigits(id, pan, n)
FitsIssued(id, pan, longest, width) ==
    \E p \in decode(pan), n \in 3..longest : n <= p /\ id = Prefix(pan, n, width)

\* An identifier that fits a PAN holds its first digits.
LEMMA FitsPan ==
    ASSUME NEW width \in Nat, NEW id \in Nibbles(width), NEW pan \in Seq(0..15),
           NEW longest \in Nat, longest <= width
    PROVE  FitsDecoded(id, pan, longest) <=> FitsIssued(id, pan, longest, width)
<1>0. DOMAIN id = 1..width /\ id \in Seq(0..15) /\ Len(id) = width
  <2>1. id \in [1..width -> 0..15]
    BY DEF Nibbles
  <2>2. id \in Seq(0..15)
    BY <2>1, SeqDef
  <2> QED
    BY <2>1, <2>2
<1>1. ASSUME NEW n \in decode(id) \cap 3..longest, NEW p \in decode(pan),
             n <= p, SameDigits(id, pan, n)
      PROVE  id = Prefix(pan, n, width)
  <2>1. /\ n \in 0..width /\ \A i \in 1..width : IF i <= n THEN id[i] < 10 ELSE id[i] = 15
        /\ \A i \in 1..n : id[i] = pan[i]
    BY <1>0, <1>1 DEF decode, SameDigits
  <2>2. \A i \in 1..width : id[i] = IF i <= n THEN pan[i] ELSE 15
    BY <2>1
  <2> QED
    BY <1>0, <2>2 DEF Nibbles, Prefix
<1>2. ASSUME NEW p \in decode(pan), NEW n \in 3..longest, n <= p,
             id = Prefix(pan, n, width)
      PROVE  n \in decode(id) /\ SameDigits(id, pan, n)
  <2>0. p \in 0..Len(pan) /\ \A i \in DOMAIN pan : i <= p => pan[i] < 10
    BY DEF decode
  <2>1. \A i \in 1..width : id[i] = IF i <= n THEN pan[i] ELSE 15
    BY <1>2 DEF Prefix
  <2>2. \A i \in 1..n : i \in DOMAIN pan /\ i <= p /\ i \in 1..width
    BY <1>2, <2>0, LenProperties
  <2>3. \A i \in 1..width : IF i <= n THEN id[i] < 10 ELSE id[i] = 15
    BY <2>0, <2>1, <2>2
  <2> QED
    BY <1>0, <2>1, <2>2, <2>3 DEF decode, SameDigits
<1> QED
  BY <1>1, <1>2 DEF FitsDecoded, FitsIssued
-----------------------------------------------------------------------------
(* What a certificate says. *)

\* And the other way round: what a modulus is put together from are its parts.
LEMMA ModulusSplit ==
    ASSUME NEW left \in Seq(Nat), NEW n \in Nat, NEW rest \in Optional(Seq(Nat)),
           Assembles(left, n, rest)
    PROVE  /\ Modulus(left, n, rest) \in Seq(Nat)
           /\ Len(Modulus(left, n, rest)) = n
           /\ Leftmost(Modulus(left, n, rest), Len(left)) = left
           /\ RemainderOf(Modulus(left, n, rest), Len(left)) = rest
<1> DEFINE m == Modulus(left, n, rest)
<1>0. Len(left) \in Nat /\ DOMAIN left = 1..Len(left)
  BY LenProperties
<1>1. CASE n <= Len(left)
  <2>1. rest = Absent /\ \A i \in (n + 1)..Len(left) : left[i] = BB
    BY <1>1 DEF Assembles
  <2>2. m = SubSeq(left, 1, n)
    BY <1>1 DEF Modulus
  <2>3. m \in Seq(Nat) /\ Len(m) = n /\ \A i \in 1..n : m[i] = left[i]
    BY <1>0, <1>1, <2>2
  <2> HIDE DEF m
  <2>4. \A i \in 1..Len(left) : left[i] = IF i <= Len(m) THEN m[i] ELSE BB
    BY <1>0, <2>1, <2>3
  <2>5. Leftmost(m, Len(left)) = left
    BY <1>0, <2>4 DEF Leftmost
  <2>6. RemainderOf(m, Len(left)) = rest
    BY <1>1, <2>1, <2>3 DEF RemainderOf
  <2> QED
    BY <2>3, <2>5, <2>6 DEF m
<1>2. CASE n > Len(left)
  <2>1. rest # Absent /\ Len(rest[1]) = n - Len(left)
    BY <1>0, <1>2 DEF Assembles
  <2>2. PICK r \in Seq(Nat) : rest = <<r>> /\ Len(r) = n - Len(left)
    BY <2>1, OptionalValue
  <2>0. PICK c \in Nat : c = Len(left)
    BY <1>0
  <2>3. m = left \o r
    <3>1. Value(rest) = r
      BY <2>2 DEF Value, Absent
    <3>2. ~(n <= Len(left))
      BY <1>2, <2>0
    <3> QED
      BY <3>1, <3>2 DEF Modulus
  <2>4. /\ m \in Seq(Nat) /\ Len(m) = n
        /\ \A i \in 1..n : m[i] = IF i <= c THEN left[i] ELSE r[i - c]
    <3>1. /\ left \o r \in Seq(Nat) /\ Len(left \o r) = Len(left) + Len(r)
          /\ \A i \in 1..(Len(left) + Len(r)) :
                (left \o r)[i] = IF i <= Len(left) THEN left[i] ELSE r[i - Len(left)]
      BY <2>2, ConcatProperties
    <3>2. Len(left) + Len(r) = n
      BY <1>2, <2>0, <2>2
    <3> QED
      BY <2>0, <2>3, <3>1, <3>2
  <2> HIDE DEF m
  <2>5. /\ \A i \in 1..c : m[i] = left[i]
        /\ \A i \in 1..(n - c) : m[c + i] = r[i]
    <3>1. ASSUME NEW i \in 1..(n - c) PROVE m[c + i] = r[i]
      <4>1. c + i \in 1..n /\ ~(c + i <= c) /\ (c + i) - c = i
        BY <1>2, <2>0
      <4> QED
        BY <2>4, <4>1
    <3>2. ASSUME NEW i \in 1..c PROVE m[i] = left[i]
      <4>1. i \in 1..n /\ i <= c
        BY <1>2, <2>0
      <4> QED
        BY <2>4, <4>1
    <3> QED
      BY <3>1, <3>2
  <2>6. Leftmost(m, Len(left)) = left
    <3>1. \A i \in 1..c : i <= n
      BY <1>2, <2>0
    <3> QED
      BY <1>0, <2>0, <2>4, <2>5, <3>1 DEF Leftmost
  <2>7. SubSeq(m, c + 1, n) = r
    <3>1. \A i \in (c + 1)..n : m[i] \in Nat
      <4>1. m \in [1..n -> Nat]
        BY <2>4, LenProperties
      <4>2. \A i \in (c + 1)..n : i \in 1..n
        BY <2>0
      <4> QED
        BY <4>1, <4>2
    <3>2. /\ SubSeq(m, c + 1, n) \in Seq(Nat)
          /\ Len(SubSeq(m, c + 1, n)) = IF c + 1 <= n THEN n - (c + 1) + 1 ELSE 0
          /\ \A i \in 1..(n - (c + 1) + 1) : SubSeq(m, c + 1, n)[i] = m[(c + 1) + i - 1]
      BY <3>1, SubSeqProperties
    <3>3. Len(SubSeq(m, c + 1, n)) = Len(r)
      BY <1>2, <2>0, <2>2, <3>2
    <3>4. \A i \in 1..(n - c) : SubSeq(m, c + 1, n)[i] = r[i]
      <4>1. \A i \in 1..(n - c) : i \in 1..(n - (c + 1) + 1) /\ (c + 1) + i - 1 = c + i
        BY <1>2, <2>0
      <4> QED
        BY <2>5, <3>2, <4>1
    <3> QED
      BY <2>0, <2>2, <3>2, <3>3, <3>4, SeqEqual
  <2>8. RemainderOf(m, Len(left)) = rest
    <3>1. ~(Len(m) <= Len(left))
      BY <1>2, <2>0, <2>4
    <3> QED
      BY <2>0, <2>2, <2>4, <2>7, <3>1 DEF RemainderOf
  <2> QED
    BY <2>4, <2>6, <2>8 DEF m
<1> QED
  BY <1>0, <1>1, <1>2

\* A certificate that holds was made out by that key for the key that is
\* recovered from it and for what is signed with it.
LEMMA CertificateSound ==
    ASSUME NEW by, by.modulus \in Seq(Nat),
           NEW overhead \in Nat, NEW width, NEW cert \in RsaCertificate(width),
           NEW remainder \in Optional(Seq(Nat)), NEW exponent \in Seq(Nat),
           NEW more, NEW format, NEW today,
           CertificateHolds(cert, by, overhead, format, remainder, exponent, more, today)
    PROVE  LET k == recovered_key(cert, remainder, exponent)
           IN  /\ k \in RsaKey /\ k.exponent = exponent
               /\ cert = Certificate(by, overhead, format, cert.msg1.subject, cert.msg1.expiry,
                                     cert.msg1.serial, k, more)
               /\ remainder = RemainderOf(k.modulus, Len(by.modulus) - overhead)
<1> DEFINE left == cert.msg1.leftmost
           n == cert.msg1.length
           m == Modulus(left, n, remainder)
           k == recovered_key(cert, remainder, exponent)
<1>1. /\ left \in Seq(Nat) /\ n \in Nat
      /\ cert = [by |-> cert.by, msg1 |-> cert.msg1, msg2 |-> cert.msg2]
      /\ cert.msg1 = [format |-> cert.msg1.format, subject |-> cert.msg1.subject,
                      expiry |-> cert.msg1.expiry, serial |-> cert.msg1.serial,
                      length |-> n, exponentLength |-> cert.msg1.exponentLength,
                      leftmost |-> left]
  BY DEF RsaCertificate
<1>2. /\ Len(left) = Len(by.modulus) - overhead
      /\ cert.by = by /\ cert.msg2 = Value(remainder) \o exponent \o more
      /\ cert.msg1.format = format /\ cert.msg1.exponentLength = Len(exponent)
      /\ Assembles(left, n, remainder)
  BY DEF CertificateHolds, Recovers
<1>3. /\ m \in Seq(Nat) /\ Len(m) = n /\ Leftmost(m, Len(left)) = left
      /\ RemainderOf(m, Len(left)) = remainder
  BY <1>1, <1>2, ModulusSplit
<1>4. k = [modulus |-> m, exponent |-> exponent]
  BY DEF recovered_key
<1>5. k.modulus = m /\ k.exponent = exponent /\ k \in RsaKey
  BY <1>3, <1>4 DEF RsaKey
<1> HIDE DEF k, m, left, n
<1>6. Certificate(by, overhead, format, cert.msg1.subject, cert.msg1.expiry, cert.msg1.serial, k, more)
        = [by |-> by,
           msg1 |-> [format |-> format, subject |-> cert.msg1.subject,
                     expiry |-> cert.msg1.expiry, serial |-> cert.msg1.serial,
                     length |-> Len(k.modulus), exponentLength |-> Len(k.exponent),
                     leftmost |-> Leftmost(k.modulus, Len(by.modulus) - overhead)],
           msg2 |-> Value(RemainderOf(k.modulus, Len(by.modulus) - overhead)) \o k.exponent \o more]
  BY DEF Certificate
<1>7. remainder = RemainderOf(k.modulus, Len(by.modulus) - overhead)
  BY <1>2, <1>3, <1>5
<1>8. Leftmost(k.modulus, Len(by.modulus) - overhead) = left
  BY <1>2, <1>3, <1>5
<1>9. cert = Certificate(by, overhead, format, cert.msg1.subject, cert.msg1.expiry,
                         cert.msg1.serial, k, more)
  BY <1>1, <1>2, <1>3, <1>5, <1>6, <1>7, <1>8
<1> QED
  BY <1>5, <1>7, <1>9 DEF k

\* An application PAN that matches holds all digits of the PAN.
LEMMA IsPan ==
    ASSUME NEW width \in Nat, NEW id \in Nibbles(width), NEW pan \in Seq(0..15)
    PROVE  app_pan_matches(id, pan)
             <=> \E p \in decode(pan) \cap 0..width :
                    id = Prefix(pan, p, width)
<1>0. DOMAIN id = 1..width /\ id \in Seq(0..15) /\ Len(id) = width
  <2>1. id \in [1..width -> 0..15]
    BY DEF Nibbles
  <2>2. id \in Seq(0..15)
    BY <2>1, SeqDef
  <2> QED
    BY <2>1, <2>2
<1>1. ASSUME NEW p \in decode(id) \cap decode(pan), SameDigits(id, pan, p)
      PROVE  p \in 0..width /\ id = Prefix(pan, p, width)
  <2>1. /\ p \in 0..width /\ \A i \in 1..width : IF i <= p THEN id[i] < 10 ELSE id[i] = 15
        /\ \A i \in 1..p : id[i] = pan[i]
    BY <1>0, <1>1 DEF decode, SameDigits
  <2>2. \A i \in 1..width : id[i] = IF i <= p THEN pan[i] ELSE 15
    BY <2>1
  <2> QED
    BY <1>0, <2>1, <2>2 DEF Nibbles, Prefix
<1>2. ASSUME NEW p \in decode(pan) \cap 0..width,
             id = Prefix(pan, p, width)
      PROVE  p \in decode(id) /\ SameDigits(id, pan, p)
  <2>0. p \in 0..Len(pan) /\ \A i \in DOMAIN pan : i <= p => pan[i] < 10
    BY DEF decode
  <2>1. \A i \in 1..width : id[i] = IF i <= p THEN pan[i] ELSE 15
    BY <1>2 DEF Prefix
  <2>2. \A i \in 1..p : i \in DOMAIN pan /\ i \in 1..width
    BY <2>0, LenProperties
  <2>3. \A i \in 1..width : IF i <= p THEN id[i] < 10 ELSE id[i] = 15
    BY <2>0, <2>1, <2>2
  <2> QED
    BY <1>0, <2>1, <2>2, <2>3 DEF decode, SameDigits
<1> QED
  BY <1>1, <1>2 DEF app_pan_matches

\* An issuer identifier that matches is the beginning of the PAN, padded.
LEMMA IsIssuer ==
    ASSUME NEW id \in Nibbles(8), NEW pan \in Seq(0..15)
    PROVE  issuer_identifier_matches_pan(id, pan)
             <=> \E p \in decode(pan), n \in 3..8 : n <= p /\ id = Prefix(pan, n, 8)
<1>1. 8 \in Nat /\ 8 <= 8
  OBVIOUS
<1>2. FitsDecoded(id, pan, 8) <=> FitsIssued(id, pan, 8, 8)
  BY <1>1, FitsPan, Zenon
<1> QED
  BY <1>2 DEF issuer_identifier_matches_pan, FitsDecoded, FitsIssued

\* A certificate and its remainder certify k for a PAN, and are not expired.
IssuerSays(by, cert, remainder, k, pan, today) ==
    /\ Len(by.modulus) > CaOverhead
    /\ \E p \in decode(pan), n \in 3..8 :
          /\ n <= p
          /\ cert = Certificate(by, CaOverhead, "02", Prefix(pan, n, 8),
                                cert.msg1.expiry, cert.msg1.serial, k, <<>>)
    /\ remainder = RemainderOf(k.modulus, Len(by.modulus) - CaOverhead)
    /\ Hundreds(cert.msg1.expiry) >= Hundreds(today)

\* recover_issuer_public_key returns only a key that the certificate certifies.
LEMMA IssuerKeySound ==
    ASSUME NEW by \in RsaKey, NEW cert \in RsaCertificate(8), NEW remainder \in Optional(Seq(Nat)),
           NEW exponent \in Seq(Nat), NEW pan \in Seq(0..15), NEW today \in Moment(2),
           recover_issuer_public_key(by, cert, remainder, exponent, pan, today)
    PROVE  LET k == recovered_key(cert, remainder, exponent)
           IN  /\ k \in RsaKey /\ k.exponent = exponent
               /\ IssuerSays(by, cert, remainder, k, pan, today)
<1> DEFINE k == recovered_key(cert, remainder, exponent)
<1>0. by.modulus \in Seq(Nat) /\ CaOverhead \in Nat
  BY OverheadAssumption DEF RsaKey
<1>1. /\ CertificateHolds(cert, by, CaOverhead, "02", remainder, exponent, <<>>, today)
      /\ issuer_identifier_matches_pan(cert.msg1.subject, pan)
  BY DEF recover_issuer_public_key
<1>2. /\ k \in RsaKey /\ k.exponent = exponent
      /\ cert = Certificate(by, CaOverhead, "02", cert.msg1.subject, cert.msg1.expiry,
                            cert.msg1.serial, k, <<>>)
      /\ remainder = RemainderOf(k.modulus, Len(by.modulus) - CaOverhead)
  BY <1>0, <1>1, CertificateSound
<1> HIDE DEF k
<1>3. cert.msg1.subject \in Nibbles(8) /\ cert.msg1.expiry \in Moment(2)
  BY OdaAssumption DEF RsaCertificate
<1>4. PICK p \in decode(pan), n \in 3..8 : n <= p /\ cert.msg1.subject = Prefix(pan, n, 8)
  BY <1>1, <1>3, IsIssuer
<1>5. Len(by.modulus) > CaOverhead /\ NotBefore(cert.msg1.expiry, today)
  BY <1>1 DEF CertificateHolds
<1>6. Hundreds(cert.msg1.expiry) >= Hundreds(today)
  BY <1>3, <1>5, MonthsCompare
<1>7. cert = Certificate(by, CaOverhead, "02", Prefix(pan, n, 8), cert.msg1.expiry,
                         cert.msg1.serial, k, <<>>)
  BY <1>2, <1>4
<1> QED
  BY <1>2, <1>4, <1>5, <1>6, <1>7 DEF IssuerSays, k

\* It returns every key that one certifies.
LEMMA IssuerKeyComplete ==
    ASSUME NEW by \in RsaKey, Len(by.modulus) > CaOverhead, NEW k \in RsaKey,
           NEW pan \in Seq(0..15), NEW p \in decode(pan), NEW n \in 3..8, n <= p,
           NEW expiry \in Moment(2), NEW today \in Moment(2), Hundreds(expiry) >= Hundreds(today),
           NEW serial
    PROVE  LET cert == Certificate(by, CaOverhead, "02", Prefix(pan, n, 8), expiry, serial, k, <<>>)
               remainder == RemainderOf(k.modulus, Len(by.modulus) - CaOverhead)
           IN  /\ recover_issuer_public_key(by, cert, remainder, k.exponent, pan, today)
               /\ recovered_key(cert, remainder, k.exponent) = k
               /\ cert.msg1.serial = serial
<1> DEFINE cert == Certificate(by, CaOverhead, "02", Prefix(pan, n, 8), expiry, serial, k, <<>>)
           remainder == RemainderOf(k.modulus, Len(by.modulus) - CaOverhead)
<1>0. by.modulus \in Seq(Nat) /\ CaOverhead \in Nat /\ k.modulus \in Seq(Nat)
  BY OverheadAssumption DEF RsaKey
<1>1. NotBefore(expiry, today)
  BY MonthsCompare
<1>2. /\ CertificateHolds(cert, by, CaOverhead, "02", remainder, k.exponent, <<>>, today)
      /\ recovered_key(cert, remainder, k.exponent) = [modulus |-> k.modulus, exponent |-> k.exponent]
  BY <1>0, <1>1, CertificateAccepted
<1>3. cert.msg1.subject = Prefix(pan, n, 8) /\ cert.msg1.serial = serial
  BY DEF Certificate
<1>4. Prefix(pan, n, 8) \in Nibbles(8)
  <2>1. p \in 0..Len(pan) /\ Len(pan) \in Nat /\ pan \in [1..Len(pan) -> 0..15]
    BY LenProperties DEF decode
  <2>2. \A i \in 1..8 : i <= n => pan[i] \in 0..15
    BY <2>1
  <2> QED
    BY <2>2 DEF Prefix, Nibbles
<1> HIDE DEF cert, remainder
<1>5. issuer_identifier_matches_pan(cert.msg1.subject, pan)
  BY <1>3, <1>4, IsIssuer
<1>6. k = [modulus |-> k.modulus, exponent |-> k.exponent]
  BY DEF RsaKey
<1> QED
  BY <1>2, <1>3, <1>5, <1>6 DEF recover_issuer_public_key, cert, remainder

\* The same for a certificate of the issuer's.
IccSays(by, cert, remainder, k, static, pan, today) ==
    /\ Len(by.modulus) > IssuerOverhead
    /\ \E p \in decode(pan) \cap 0..20 :
          cert = Certificate(by, IssuerOverhead, "04", Prefix(pan, p, 20),
                             cert.msg1.expiry, cert.msg1.serial, k, static)
    /\ remainder = RemainderOf(k.modulus, Len(by.modulus) - IssuerOverhead)
    /\ Hundreds(cert.msg1.expiry) >= Hundreds(today)

\* The same for the keys of the card, and for those a PIN is enciphered with.
LEMMA IccKeySound ==
    ASSUME NEW by \in RsaKey, NEW cert \in RsaCertificate(20), NEW remainder \in Optional(Seq(Nat)),
           NEW exponent \in Seq(Nat), NEW static, NEW pan \in Seq(0..15), NEW today \in Moment(2),
           recover_icc_public_key(by, cert, remainder, exponent, static, pan, today)
    PROVE  LET k == recovered_key(cert, remainder, exponent)
           IN  /\ k \in RsaKey /\ k.exponent = exponent
               /\ IccSays(by, cert, remainder, k, static, pan, today)
<1> DEFINE k == recovered_key(cert, remainder, exponent)
<1>0. by.modulus \in Seq(Nat) /\ IssuerOverhead \in Nat
  BY OverheadAssumption DEF RsaKey
<1>1. /\ CertificateHolds(cert, by, IssuerOverhead, "04", remainder, exponent, static, today)
      /\ app_pan_matches(cert.msg1.subject, pan)
  BY DEF recover_icc_public_key
<1>2. /\ k \in RsaKey /\ k.exponent = exponent
      /\ cert = Certificate(by, IssuerOverhead, "04", cert.msg1.subject, cert.msg1.expiry,
                            cert.msg1.serial, k, static)
      /\ remainder = RemainderOf(k.modulus, Len(by.modulus) - IssuerOverhead)
  BY <1>0, <1>1, CertificateSound
<1> HIDE DEF k
<1>3. cert.msg1.subject \in Nibbles(20) /\ cert.msg1.expiry \in Moment(2) /\ 20 \in Nat
  BY OdaAssumption DEF RsaCertificate
<1>4. PICK p \in decode(pan) \cap 0..20 : cert.msg1.subject = Prefix(pan, p, 20)
  BY <1>1, <1>3, IsPan
<1>5. Len(by.modulus) > IssuerOverhead /\ NotBefore(cert.msg1.expiry, today)
  BY <1>1 DEF CertificateHolds
<1>6. Hundreds(cert.msg1.expiry) >= Hundreds(today)
  BY <1>3, <1>5, MonthsCompare
<1>7. cert = Certificate(by, IssuerOverhead, "04", Prefix(pan, p, 20), cert.msg1.expiry,
                         cert.msg1.serial, k, static)
  BY <1>2, <1>4
<1> QED
  BY <1>2, <1>4, <1>5, <1>6, <1>7 DEF IccSays, k

\* And the other way round.
LEMMA IccKeyComplete ==
    ASSUME NEW by \in RsaKey, Len(by.modulus) > IssuerOverhead, NEW k \in RsaKey,
           NEW pan \in Seq(0..15), NEW p \in decode(pan) \cap 0..20,
           NEW expiry \in Moment(2), NEW today \in Moment(2), Hundreds(expiry) >= Hundreds(today),
           NEW serial, NEW static
    PROVE  LET cert == Certificate(by, IssuerOverhead, "04", Prefix(pan, p, 20), expiry, serial,
                                   k, static)
               remainder == RemainderOf(k.modulus, Len(by.modulus) - IssuerOverhead)
           IN  /\ recover_icc_public_key(by, cert, remainder, k.exponent, static, pan, today)
               /\ recovered_key(cert, remainder, k.exponent) = k
<1> DEFINE cert == Certificate(by, IssuerOverhead, "04", Prefix(pan, p, 20), expiry, serial,
                               k, static)
           remainder == RemainderOf(k.modulus, Len(by.modulus) - IssuerOverhead)
<1>0. by.modulus \in Seq(Nat) /\ IssuerOverhead \in Nat /\ k.modulus \in Seq(Nat) /\ 20 \in Nat
  BY OverheadAssumption DEF RsaKey
<1>1. NotBefore(expiry, today)
  BY MonthsCompare
<1>2. /\ CertificateHolds(cert, by, IssuerOverhead, "04", remainder, k.exponent, static, today)
      /\ recovered_key(cert, remainder, k.exponent) = [modulus |-> k.modulus, exponent |-> k.exponent]
  BY <1>0, <1>1, CertificateAccepted
<1>3. cert.msg1.subject = Prefix(pan, p, 20)
  BY DEF Certificate
<1>4. Prefix(pan, p, 20) \in Nibbles(20)
  <2>1. p \in 0..Len(pan) /\ Len(pan) \in Nat /\ pan \in [1..Len(pan) -> 0..15]
    BY LenProperties DEF decode
  <2>2. \A i \in 1..20 : i <= p => pan[i] \in 0..15
    BY <2>1
  <2> QED
    BY <2>2 DEF Prefix, Nibbles
<1> HIDE DEF cert, remainder
<1>5. app_pan_matches(cert.msg1.subject, pan)
  BY <1>0, <1>3, <1>4, IsPan
<1>6. k = [modulus |-> k.modulus, exponent |-> k.exponent]
  BY DEF RsaKey
<1> QED
  BY <1>2, <1>5, <1>6 DEF recover_icc_public_key, cert, remainder

\* The types of what a card holds and a terminal knows.
LEMMA CardTyped ==
    ASSUME card \in Cards, terminal \in Terminals
    PROVE  /\ card.method \in Method
           /\ card.elements \in IF card.method = "XDA"
                                THEN Elements(EccIssuerCertificate, EccIccCertificate)
                                ELSE Elements(RsaCertificate(8), RsaCertificate(20))
           /\ \A ca \in terminal.cas : ca \in [rid : STRING, index : Nat, key : RsaKey]
           /\ terminal.date \in Moment(3) /\ terminal.time \in Moment(2)
           /\ Month \in Moment(2)
<1>1. CardType(card) /\ TerminalType(terminal)
  BY OdaAssumption
<1>2. terminal.date \in Moment(3) /\ terminal.time \in Moment(2)
  BY <1>1 DEF TerminalType
<1>3. Month \in Moment(2)
  <2>1. \A i \in 1..2 : terminal.date[i] \in 0..99
    BY <1>2 DEF Moment
  <2>2. /\ Month \in Seq(0..99)
        /\ Len(Month) = IF 1 <= 2 THEN 2 - 1 + 1 ELSE 0
    BY <2>1, SubSeqProperties DEF Month
  <2>3. Len(Month) = 2
    BY <2>2
  <2> QED
    BY <2>2, <2>3, LenProperties DEF Moment
<1> QED
  BY <1>1, <1>2, <1>3 DEF CardType, TerminalType

\* The types of the data an RSA chain is recovered from.
LEMMA RsaElements ==
    ASSUME card \in Cards, terminal \in Terminals, card.method # "XDA"
    PROVE  /\ Has({"pan"}) => The("pan") \in Seq(0..15)
           /\ Has({"issuerCert"}) =>
                 /\ card.elements["issuerCert"] = <<The("issuerCert")>>
                 /\ The("issuerCert") \in RsaCertificate(8)
           /\ \A name \in {"iccCert", "pinCert"} : Has({name}) =>
                 /\ card.elements[name] = <<The(name)>> /\ The(name) \in RsaCertificate(20)
           /\ \A name \in {"issuerExponent", "iccExponent", "pinExponent"} : Has({name}) =>
                 /\ card.elements[name] = <<The(name)>> /\ The(name) \in Seq(Nat)
           /\ \A name \in {"issuerRemainder", "iccRemainder", "pinRemainder"} :
                 card.elements[name] \in Optional(Seq(Nat))
<1>1. card.elements \in Elements(RsaCertificate(8), RsaCertificate(20))
  BY CardTyped
<1>2. /\ card.elements["pan"] \in Optional(Seq(0..15))
      /\ card.elements["issuerCert"] \in Optional(RsaCertificate(8))
      /\ card.elements["iccCert"] \in Optional(RsaCertificate(20))
      /\ card.elements["pinCert"] \in Optional(RsaCertificate(20))
      /\ card.elements["issuerExponent"] \in Optional(Seq(Nat))
      /\ card.elements["iccExponent"] \in Optional(Seq(Nat))
      /\ card.elements["pinExponent"] \in Optional(Seq(Nat))
      /\ card.elements["issuerRemainder"] \in Optional(Seq(Nat))
      /\ card.elements["iccRemainder"] \in Optional(Seq(Nat))
      /\ card.elements["pinRemainder"] \in Optional(Seq(Nat))
  BY <1>1 DEF Elements
<1>3. \A type : \A name : card.elements[name] \in Optional(type) /\ Has({name}) =>
         card.elements[name] = <<The(name)>> /\ The(name) \in type
  BY OptionalValue DEF Has, The
<1> QED
  BY <1>2, <1>3
-----------------------------------------------------------------------------
(* What the data of a card attest. *)

\* No key that a certificate spells is left out of RsaKeys.
LEMMA SpelledIsListed ==
    ASSUME card \in Cards, card.method # "XDA",
           NEW cert, NEW remainder, NEW exponent,
           <<cert, remainder, exponent>> \in
              {<<"issuerCert", "issuerRemainder", "issuerExponent">>,
               <<"iccCert", "iccRemainder", "iccExponent">>,
               <<"pinCert", "pinRemainder", "pinExponent">>},
           Has({cert, exponent}),
           NEW by, NEW overhead, NEW format, NEW more, NEW today,
           CertificateHolds(The(cert), by, overhead, format, card.elements[remainder],
                            The(exponent), more, today)
    PROVE  recovered_key(The(cert), card.elements[remainder], The(exponent)) \in RsaKeys
<1> DEFINE k == recovered_key(The(cert), card.elements[remainder], The(exponent))
<1>1. card.elements[cert] # Absent /\ card.elements[exponent] # Absent
  BY DEF Has
<1>2. \A name \in {<<"issuerCert", "issuerRemainder", "issuerExponent">>,
                   <<"iccCert", "iccRemainder", "iccExponent">>,
                   <<"pinCert", "pinRemainder", "pinExponent">>} :
         (card.elements[name[1]] # Absent /\ card.elements[name[3]] # Absent)
            => Spelled(card, name[1], name[2], name[3]) \subseteq RsaKeys
  BY KeysAssumption
<1>3. Spelled(card, cert, remainder, exponent) \subseteq RsaKeys
  BY <1>1, <1>2
<1>4. /\ Assembles(The(cert).msg1.leftmost, The(cert).msg1.length, card.elements[remainder])
      /\ The(cert).msg1.exponentLength = Len(The(exponent))
  BY DEF CertificateHolds
<1>5. k \in Spelled(card, cert, remainder, exponent)
  BY <1>4 DEF Spelled, The
<1> QED
  BY <1>3, <1>5

\* The reference's leading digits are the padded prefix.
LEMMA LeadingIsPrefix == \A n, width : Leading(n, width) = Prefix(The("pan"), n, width)
  BY DEF Leading, Prefix

\* The data elements an issuer's key is recovered from.
IssuerData == {"index", "issuerCert", "issuerExponent", "pan"}

\* An issuer's key that is recovered is attested, under the serial number of
\* its certificate, and one that is attested is recovered.
LEMMA IssuerSound ==
    ASSUME card \in Cards, terminal \in Terminals, card.method # "XDA", Has(IssuerData),
           NEW ca \in Ca(terminal.cas), NEW serials, The("issuerCert").msg1.serial \in serials,
           recover_issuer_public_key(ca.key, The("issuerCert"), card.elements["issuerRemainder"],
                                     The("issuerExponent"), The("pan"), Month)
    PROVE  IssuerKey \in RsaKeys /\ IssuerAttested(IssuerKey, serials)
<1> DEFINE k == IssuerKey
           cert == The("issuerCert")
<1>1. /\ ca.key \in RsaKey /\ Month \in Moment(2)
      /\ cert \in RsaCertificate(8) /\ card.elements["issuerCert"] = <<cert>>
      /\ card.elements["issuerRemainder"] \in Optional(Seq(Nat))
      /\ The("issuerExponent") \in Seq(Nat)
      /\ card.elements["issuerExponent"] = <<The("issuerExponent")>>
      /\ The("pan") \in Seq(0..15)
  BY CardTyped, RsaElements DEF Has, IssuerData, Ca
<1>2. k = recovered_key(cert, card.elements["issuerRemainder"], The("issuerExponent"))
  BY DEF IssuerKey
<1>3. /\ k \in RsaKey /\ k.exponent = The("issuerExponent")
      /\ IssuerSays(ca.key, cert, card.elements["issuerRemainder"], k, The("pan"), Month)
  BY <1>1, <1>2, IssuerKeySound
<1>4. cert.msg1.expiry \in Expiries /\ cert.msg1.serial \in serials
  BY <1>1 DEF RsaCertificate
<1>5. k \in RsaKeys
  <2>1. CertificateHolds(cert, ca.key, CaOverhead, "02", card.elements["issuerRemainder"],
                         The("issuerExponent"), <<>>, Month)
    BY DEF recover_issuer_public_key
  <2>2. Has({"issuerCert", "issuerExponent"})
    BY DEF Has, IssuerData
  <2> QED
    BY <1>2, <2>1, <2>2, SpelledIsListed
<1> HIDE DEF k, cert
<1>6. PICK p \in decode(The("pan")), n \in 3..8 :
         /\ n <= p
         /\ cert = Certificate(ca.key, CaOverhead, "02", Prefix(The("pan"), n, 8),
                               cert.msg1.expiry, cert.msg1.serial, k, <<>>)
  BY <1>3 DEF IssuerSays
<1>7. PICK expiry \in Expiries, serial \in serials :
         expiry = cert.msg1.expiry /\ serial = cert.msg1.serial
  BY <1>4
<1>8. /\ n <= p /\ Len(ca.key.modulus) > CaOverhead
      /\ card.elements["issuerCert"] =
            <<Certificate(ca.key, CaOverhead, "02", Leading(n, 8), expiry, serial, k, <<>>)>>
      /\ card.elements["issuerRemainder"]
            = RemainderOf(k.modulus, Len(ca.key.modulus) - CaOverhead)
      /\ Hundreds(expiry) >= Hundreds(Month)
  BY <1>1, <1>3, <1>6, <1>7, LeadingIsPrefix DEF IssuerSays
<1>9. card.elements["issuerExponent"] = <<k.exponent>>
  BY <1>1, <1>3
<1>10. IssuerAttested(k, serials)
  BY <1>8, <1>9 DEF IssuerAttested, IssuerData
<1> QED
  BY <1>5, <1>10 DEF k

\* An issuer's key that is attested is recovered.
LEMMA IssuerComplete ==
    ASSUME card \in Cards, terminal \in Terminals, card.method # "XDA",
           NEW k \in RsaKeys, NEW serials, IssuerAttested(k, serials)
    PROVE  /\ Has(IssuerData) /\ IssuerKey = k /\ The("issuerCert").msg1.serial \in serials
           /\ \E ca \in Ca(terminal.cas) :
                 recover_issuer_public_key(ca.key, The("issuerCert"), card.elements["issuerRemainder"],
                                           The("issuerExponent"), The("pan"), Month)
<1>1. /\ Has(IssuerData) /\ card.elements["issuerExponent"] = <<k.exponent>>
      /\ \E ca \in Ca(terminal.cas), length \in decode(The("pan")), n \in 3..8, expiry \in Expiries,
            serial \in serials :
            /\ n <= length /\ Len(ca.key.modulus) > CaOverhead
            /\ card.elements["issuerCert"] =
                  <<Certificate(ca.key, CaOverhead, "02", Leading(n, 8), expiry, serial, k, <<>>)>>
            /\ card.elements["issuerRemainder"] =
                  RemainderOf(k.modulus, Len(ca.key.modulus) - CaOverhead)
            /\ Hundreds(expiry) >= Hundreds(Month)
  BY DEF IssuerAttested, IssuerData
<1>2. PICK ca \in Ca(terminal.cas), length \in decode(The("pan")), n \in 3..8, expiry \in Expiries,
            serial \in serials :
            /\ n <= length /\ Len(ca.key.modulus) > CaOverhead
            /\ card.elements["issuerCert"] =
                  <<Certificate(ca.key, CaOverhead, "02", Leading(n, 8), expiry, serial, k, <<>>)>>
            /\ card.elements["issuerRemainder"] =
                  RemainderOf(k.modulus, Len(ca.key.modulus) - CaOverhead)
            /\ Hundreds(expiry) >= Hundreds(Month)
  BY <1>1
<1>3. /\ The("issuerCert") =
            Certificate(ca.key, CaOverhead, "02", Prefix(The("pan"), n, 8), expiry, serial, k, <<>>)
      /\ The("issuerExponent") = k.exponent
  BY <1>1, <1>2, LeadingIsPrefix DEF The
<1>4. /\ ca.key \in RsaKey /\ k \in RsaKey /\ Month \in Moment(2) /\ expiry \in Moment(2)
      /\ The("pan") \in Seq(0..15)
  BY <1>1, CardTyped, RsaElements, KeysAssumption, OdaAssumption DEF Has, IssuerData, Ca
<1>5. /\ recover_issuer_public_key(ca.key, The("issuerCert"), card.elements["issuerRemainder"],
                                   The("issuerExponent"), The("pan"), Month)
      /\ recovered_key(The("issuerCert"), card.elements["issuerRemainder"], The("issuerExponent")) = k
      /\ The("issuerCert").msg1.serial = serial
  BY <1>2, <1>3, <1>4, IssuerKeyComplete
<1> QED
  BY <1>1, <1>5 DEF IssuerKey

\* The data elements with a key of the card's: its own and the one for PINs.
IccNames == {<<"iccCert", "iccRemainder", "iccExponent">>,
             <<"pinCert", "pinRemainder", "pinExponent">>}

\* The same for a key that the issuer certifies.
LEMMA IccSound ==
    ASSUME card \in Cards, terminal \in Terminals, card.method # "XDA", Has({"pan"}),
           NEW cert, NEW remainder, NEW exponent, <<cert, remainder, exponent>> \in IccNames,
           Has({cert, exponent}), NEW issuer \in RsaKey, NEW static,
           recover_icc_public_key(issuer, The(cert), card.elements[remainder], The(exponent),
                                  static, The("pan"), Month)
    PROVE  LET k == recovered_key(The(cert), card.elements[remainder], The(exponent))
           IN  k \in RsaKeys /\ IccAttested(issuer, k, cert, exponent, remainder, static)
<1> DEFINE k == recovered_key(The(cert), card.elements[remainder], The(exponent))
<1>1. cert \in {"iccCert", "pinCert"} /\ exponent \in {"iccExponent", "pinExponent"}
      /\ remainder \in {"iccRemainder", "pinRemainder"}
  BY DEF IccNames
<1>2. /\ Month \in Moment(2)
      /\ The(cert) \in RsaCertificate(20) /\ card.elements[cert] = <<The(cert)>>
      /\ card.elements[remainder] \in Optional(Seq(Nat))
      /\ The(exponent) \in Seq(Nat) /\ card.elements[exponent] = <<The(exponent)>>
      /\ The("pan") \in Seq(0..15)
  <2>1. Has({cert}) /\ Has({exponent})
    BY DEF Has
  <2> QED
    BY <1>1, <2>1, CardTyped, RsaElements
<1>3. /\ k \in RsaKey /\ k.exponent = The(exponent)
      /\ IccSays(issuer, The(cert), card.elements[remainder], k, static, The("pan"), Month)
  BY <1>2, IccKeySound
<1>4. k \in RsaKeys
  <2>1. CertificateHolds(The(cert), issuer, IssuerOverhead, "04", card.elements[remainder],
                         The(exponent), static, Month)
    BY DEF recover_icc_public_key
  <2>2. <<cert, remainder, exponent>> \in
              {<<"issuerCert", "issuerRemainder", "issuerExponent">>,
               <<"iccCert", "iccRemainder", "iccExponent">>,
               <<"pinCert", "pinRemainder", "pinExponent">>}
    BY DEF IccNames
  <2> QED
    BY <2>1, <2>2, SpelledIsListed
<1> HIDE DEF k
<1>5. PICK p \in decode(The("pan")) \cap 0..20 :
         The(cert) = Certificate(issuer, IssuerOverhead, "04", Prefix(The("pan"), p, 20),
                                 The(cert).msg1.expiry, The(cert).msg1.serial, k, static)
  BY <1>3 DEF IccSays
<1>6. PICK expiry \in Expiries, serial \in Serials :
         expiry = The(cert).msg1.expiry /\ serial = The(cert).msg1.serial
  BY <1>2 DEF RsaCertificate
<1>7. card.elements[cert] = <<Certificate(issuer, IssuerOverhead, "04", Leading(p, 20), expiry,
                                          serial, k, static)>>
      /\ Hundreds(expiry) >= Hundreds(Month)
  BY <1>2, <1>3, <1>5, <1>6, LeadingIsPrefix DEF IccSays
<1>8. /\ Has({cert, exponent}) /\ Len(issuer.modulus) > IssuerOverhead
      /\ card.elements[remainder] = RemainderOf(k.modulus, Len(issuer.modulus) - IssuerOverhead)
      /\ card.elements[exponent] = <<k.exponent>>
  BY <1>2, <1>3 DEF IccSays
<1>9. IccAttested(issuer, k, cert, exponent, remainder, static)
  BY <1>7, <1>8 DEF IccAttested
<1> QED
  BY <1>4, <1>9 DEF k

\* And the other way round.
LEMMA IccComplete ==
    ASSUME card \in Cards, terminal \in Terminals, card.method # "XDA", Has({"pan"}),
           NEW cert, NEW remainder, NEW exponent, <<cert, remainder, exponent>> \in IccNames,
           NEW issuer \in RsaKey, NEW static, NEW k \in RsaKeys,
           IccAttested(issuer, k, cert, exponent, remainder, static)
    PROVE  /\ Has({cert, exponent})
           /\ recover_icc_public_key(issuer, The(cert), card.elements[remainder], The(exponent),
                                     static, The("pan"), Month)
           /\ recovered_key(The(cert), card.elements[remainder], The(exponent)) = k
<1>1. /\ Has({cert, exponent}) /\ Len(issuer.modulus) > IssuerOverhead
      /\ card.elements[remainder] = RemainderOf(k.modulus, Len(issuer.modulus) - IssuerOverhead)
      /\ card.elements[exponent] = <<k.exponent>>
  BY DEF IccAttested
<1>2. PICK p \in decode(The("pan")) \cap 0..20, expiry \in Expiries, serial \in Serials :
         /\ card.elements[cert] = <<Certificate(issuer, IssuerOverhead, "04", Leading(p, 20), expiry,
                                                serial, k, static)>>
         /\ Hundreds(expiry) >= Hundreds(Month)
  BY DEF IccAttested
<1>3. /\ The(cert) = Certificate(issuer, IssuerOverhead, "04", Prefix(The("pan"), p, 20), expiry,
                                 serial, k, static)
      /\ The(exponent) = k.exponent
  BY <1>1, <1>2, LeadingIsPrefix DEF The
<1>4. /\ k \in RsaKey /\ Month \in Moment(2) /\ expiry \in Moment(2) /\ The("pan") \in Seq(0..15)
  BY CardTyped, RsaElements, KeysAssumption, OdaAssumption
<1>5. /\ recover_icc_public_key(issuer, The(cert), card.elements[remainder], The(exponent),
                                static, The("pan"), Month)
      /\ recovered_key(The(cert), card.elements[remainder], The(exponent)) = k
  BY <1>1, <1>2, <1>3, <1>4, IccKeyComplete
<1> QED
  BY <1>1, <1>5
-----------------------------------------------------------------------------
(* The methods: what is recovered is attested. *)

\* The serial numbers the terminal's list does not revoke.
Fresh == Serials \ RevokedSerials(The("index"))

\* IssuerRecovered finds an issuer that is attested and not revoked.
LEMMA IssuerRecoveredSound ==
    ASSUME card \in Cards, terminal \in Terminals, card.method # "XDA", Has(IssuerData),
           IssuerRecovered
    PROVE  IssuerKey \in RsaKeys /\ IssuerAttested(IssuerKey, Fresh)
<1>1. PICK ca \in Ca(terminal.cas) :
         /\ recover_issuer_public_key(ca.key, The("issuerCert"), card.elements["issuerRemainder"],
                                      The("issuerExponent"), The("pan"), Month)
         /\ Unrevoked(ca, The("issuerCert"))
  BY DEF IssuerRecovered
<1>2. The("issuerCert").msg1.serial \in Fresh
  <2>1. The("issuerCert").msg1.serial \in Serials
    BY RsaElements DEF Has, IssuerData, RsaCertificate
  <2>2. <<card.rid, The("index"), The("issuerCert").msg1.serial>> \notin terminal.crl
    BY <1>1 DEF Unrevoked, is_revoked, Ca
  <2> QED
    BY <2>1, <2>2 DEF Fresh, RevokedSerials
<1> QED
  BY <1>1, <1>2, IssuerSound

\* An issuer that is attested and not revoked is found.
LEMMA IssuerRecoveredComplete ==
    ASSUME card \in Cards, terminal \in Terminals, card.method # "XDA",
           sda_static_data_builds, NEW k \in RsaKeys, IssuerAttested(k, Fresh)
    PROVE  Has(IssuerData) /\ IssuerRecovered /\ IssuerKey = k
<1>1. /\ Has(IssuerData) /\ IssuerKey = k /\ The("issuerCert").msg1.serial \in Fresh
      /\ \E ca \in Ca(terminal.cas) :
            recover_issuer_public_key(ca.key, The("issuerCert"), card.elements["issuerRemainder"],
                                      The("issuerExponent"), The("pan"), Month)
  BY IssuerComplete
<1>2. \A ca \in Ca(terminal.cas) : Unrevoked(ca, The("issuerCert"))
  BY <1>1 DEF Fresh, RevokedSerials, Unrevoked, is_revoked, Ca
<1> QED
  BY <1>1, <1>2 DEF IssuerRecovered

\* For SDA the issuer's key is attested if and only if it is recovered and the
\* signed static data verify.
LEMMA SdaAttested ==
    ASSUME card \in Cards, terminal \in Terminals, card.method = "SDA"
    PROVE  Attested # {} <=>
              Has(SdaData) /\ IssuerRecovered
              /\ verify_sda(IssuerKey, The("ssad"), sda_static_data_input)
<1> DEFINE ok == /\ Has(SdaData) /\ IssuerRecovered
                 /\ verify_sda(IssuerKey, The("ssad"), sda_static_data_input)
<1>1. ASSUME ok PROVE IssuerKey \in Attested
  <2>1. Has(IssuerData) /\ Has({"index"}) /\ Has({"ssad"})
    BY <1>1 DEF Has, SdaData, IssuerData
  <2>2. IssuerKey \in RsaKeys /\ IssuerAttested(IssuerKey, Fresh)
    BY <1>1, <2>1, IssuerRecoveredSound
  <2>3. sda_static_data_builds
    BY <1>1 DEF IssuerRecovered
  <2>4. card.elements["ssad"] = <<StaticSignature(IssuerKey)>>
    <3>1. card.elements \in Elements(RsaCertificate(8), RsaCertificate(20))
      BY CardTyped
    <3>2. card.elements["ssad"] \in Optional(SignedData)
      BY <3>1 DEF Elements
    <3>3. card.elements["ssad"] = <<The("ssad")>> /\ The("ssad") \in SignedData
      BY <2>1, <3>2, OptionalValue DEF Has, The
    <3>4. /\ The("ssad") = [by |-> The("ssad").by, msg1 |-> The("ssad").msg1,
                            msg2 |-> The("ssad").msg2]
          /\ The("ssad").msg1 = [format |-> The("ssad").msg1.format,
                                 padded |-> The("ssad").msg1.padded]
          /\ The("ssad").msg1.padded \in BOOLEAN
      BY <3>3 DEF SignedData
    <3>5. /\ The("ssad").by = IssuerKey /\ The("ssad").msg2 = sda_static_data_input
          /\ The("ssad").msg1.format = "03" /\ The("ssad").msg1.padded = TRUE
      BY <1>1, <3>4 DEF verify_sda, Recovers
    <3>6. The("ssad") = StaticSignature(IssuerKey)
      BY <3>4, <3>5 DEF StaticSignature
    <3> QED
      BY <3>3, <3>6
  <2> QED
    BY <2>1, <2>2, <2>3, <2>4 DEF Attested, Fresh
<1>2. ASSUME NEW k \in Attested PROVE ok
  <2>1. /\ sda_static_data_builds /\ k \in RsaKeys /\ IssuerAttested(k, Fresh)
        /\ card.elements["ssad"] = <<StaticSignature(k)>>
    BY DEF Attested, Fresh
  <2>2. Has(IssuerData) /\ IssuerRecovered /\ IssuerKey = k
    BY <2>1, IssuerRecoveredComplete
  <2>3. card.elements["ssad"] # Absent /\ The("ssad") = StaticSignature(k)
    BY <2>1 DEF Absent, The
  <2>4. Has(SdaData)
    BY <2>2, <2>3 DEF Has, SdaData, IssuerData
  <2>5. verify_sda(IssuerKey, The("ssad"), sda_static_data_input)
    BY <2>2, <2>3 DEF verify_sda, Recovers, StaticSignature
  <2> QED
    BY <2>2, <2>4, <2>5
<1> QED
  BY <1>1, <1>2

\* For DDA and CDA the key recovered from the chain is the one attested.
LEMMA IccKeyAttested ==
    ASSUME card \in Cards, terminal \in Terminals, card.method \in {"DDA", "CDA"}
    PROVE  /\ Has(IccData) /\ IccRecovered => IccKey \in Attested
           /\ Attested # {} => Has(IccData) /\ IccRecovered
<1>0. <<"iccCert", "iccRemainder", "iccExponent">> \in IccNames
  BY DEF IccNames
<1>1. ASSUME Has(IccData), IccRecovered PROVE IccKey \in Attested
  <2>1. Has(IssuerData) /\ Has({"index"}) /\ Has({"pan"}) /\ Has({"iccCert", "iccExponent"})
    BY <1>1 DEF Has, IccData, IssuerData
  <2>2. IssuerKey \in RsaKeys /\ IssuerAttested(IssuerKey, Fresh)
    BY <1>1, <2>1, IssuerRecoveredSound DEF IccRecovered
  <2>3. sda_static_data_builds
    BY <1>1 DEF IccRecovered, IssuerRecovered
  <2>4. /\ IccKey \in RsaKeys
        /\ IccAttested(IssuerKey, IccKey, "iccCert", "iccExponent", "iccRemainder",
                       sda_static_data_input)
    <3>1. IssuerKey \in RsaKey
      BY <2>2, KeysAssumption
    <3>2. recover_icc_public_key(IssuerKey, The("iccCert"), card.elements["iccRemainder"],
                                 The("iccExponent"), sda_static_data_input, The("pan"), Month)
      BY <1>1 DEF IccRecovered
    <3> QED
      BY <1>0, <2>1, <3>1, <3>2, IccSound DEF IccKey
  <2> QED
    BY <2>1, <2>2, <2>3, <2>4 DEF Attested, Fresh
<1>2. ASSUME NEW k \in Attested PROVE Has(IccData) /\ IccRecovered
  <2>1. sda_static_data_builds /\ k \in RsaKeys
    BY DEF Attested
  <2>2. PICK issuer \in RsaKeys :
           /\ IssuerAttested(issuer, Fresh)
           /\ IccAttested(issuer, k, "iccCert", "iccExponent", "iccRemainder", sda_static_data_input)
    BY DEF Attested, Fresh
  <2>3. Has(IssuerData) /\ IssuerRecovered /\ IssuerKey = issuer
    BY <2>1, <2>2, IssuerRecoveredComplete
  <2>4. /\ Has({"iccCert", "iccExponent"})
        /\ recover_icc_public_key(issuer, The("iccCert"), card.elements["iccRemainder"],
                                  The("iccExponent"), sda_static_data_input, The("pan"), Month)
    <3>1. Has({"pan"}) /\ issuer \in RsaKey
      BY <2>3, KeysAssumption DEF Has, IssuerData
    <3> QED
      BY <1>0, <2>1, <2>2, <3>1, IccComplete
  <2>5. Has(IccData)
    BY <2>3, <2>4 DEF Has, IssuerData, IccData
  <2> QED
    BY <2>3, <2>4, <2>5 DEF IccRecovered
<1> QED
  BY <1>1, <1>2

\* The card's own key for PIN encipherment, if it has one.
OwnPinKey ==
    /\ recover_issuer_public_key_for_pin
    /\ recover_icc_pin_encipherment_public_key(
          IssuerKey, The("pinCert"), card.elements["pinRemainder"], The("pinExponent"),
          The("pan"), Month)

\* It is recovered if and only if it is attested.
LEMMA PinKeyAttested ==
    ASSUME card \in Cards, terminal \in Terminals, Has({"pinCert", "pinExponent"})
    PROVE  /\ OwnPinKey =>
                 recovered_key(The("pinCert"), card.elements["pinRemainder"], The("pinExponent"))
                    \in PinAttested
           /\ PinAttested # {} => OwnPinKey
<1>0. <<"pinCert", "pinRemainder", "pinExponent">> \in IccNames
  BY DEF IccNames
<1>1. ASSUME OwnPinKey
      PROVE  recovered_key(The("pinCert"), card.elements["pinRemainder"], The("pinExponent"))
                \in PinAttested
  <2>1. /\ card.method # "XDA" /\ Has(IssuerData) /\ Has({"pan"})
        /\ \E ca \in Ca(terminal.cas) :
              recover_issuer_public_key(ca.key, The("issuerCert"), card.elements["issuerRemainder"],
                                        The("issuerExponent"), The("pan"), Month)
    BY <1>1 DEF OwnPinKey, recover_issuer_public_key_for_pin, Has, IssuerData
  <2>2. The("issuerCert").msg1.serial \in Serials
    BY <2>1, RsaElements DEF Has, IssuerData, RsaCertificate
  <2>3. IssuerKey \in RsaKeys /\ IssuerKey \in RsaKey /\ IssuerAttested(IssuerKey, Serials)
    BY <2>1, <2>2, IssuerSound, KeysAssumption
  <2>4. recover_icc_public_key(IssuerKey, The("pinCert"), card.elements["pinRemainder"],
                               The("pinExponent"), <<>>, The("pan"), Month)
    BY <1>1 DEF OwnPinKey, recover_icc_pin_encipherment_public_key
  <2> DEFINE k == recovered_key(The("pinCert"), card.elements["pinRemainder"], The("pinExponent"))
  <2>5. k \in RsaKeys /\ IccAttested(IssuerKey, k, "pinCert", "pinExponent", "pinRemainder", <<>>)
    BY <1>0, <2>1, <2>3, <2>4, IccSound
  <2> HIDE DEF k
  <2>6. k \in PinAttested
    BY <2>1, <2>3, <2>5 DEF PinAttested
  <2> QED
    BY <2>6 DEF k
<1>2. ASSUME NEW k \in PinAttested PROVE OwnPinKey
  <2>1. card.method # "XDA" /\ k \in RsaKeys
    BY DEF PinAttested
  <2>2. PICK issuer \in RsaKeys :
           /\ IssuerAttested(issuer, Serials)
           /\ IccAttested(issuer, k, "pinCert", "pinExponent", "pinRemainder", <<>>)
    BY DEF PinAttested
  <2>3. /\ Has(IssuerData) /\ IssuerKey = issuer
        /\ \E ca \in Ca(terminal.cas) :
              recover_issuer_public_key(ca.key, The("issuerCert"), card.elements["issuerRemainder"],
                                        The("issuerExponent"), The("pan"), Month)
    BY <2>1, <2>2, IssuerComplete
  <2>4. recover_icc_public_key(issuer, The("pinCert"), card.elements["pinRemainder"],
                               The("pinExponent"), <<>>, The("pan"), Month)
    <3>1. Has({"pan"}) /\ issuer \in RsaKey
      BY <2>3, KeysAssumption DEF Has, IssuerData
    <3> QED
      BY <1>0, <2>1, <2>2, <3>1, IccComplete
  <2> QED
    BY <2>1, <2>3, <2>4
    DEF OwnPinKey, recover_issuer_public_key_for_pin, recover_icc_pin_encipherment_public_key,
        IssuerData
<1> QED
  BY <1>1, <1>2

\* An issuer identifier of an ECC certificate matches the beginning of the PAN.
LEMMA IsIssuerEcc ==
    ASSUME NEW id \in Nibbles(10), NEW pan \in Seq(0..15)
    PROVE  issuer_identifier_matches_pan_ecc(id, pan)
             <=> \E p \in decode(pan), n \in 3..10 : n <= p /\ id = Prefix(pan, n, 10)
<1>1. 10 \in Nat /\ 10 <= 10
  OBVIOUS
<1>2. FitsDecoded(id, pan, 10) <=> FitsIssued(id, pan, 10, 10)
  BY <1>1, FitsPan, Zenon
<1> QED
  BY <1>2 DEF issuer_identifier_matches_pan_ecc, FitsDecoded, FitsIssued

\* The day of the transaction as ECC certificates spell it.
EccToday == bcd_yyyymmdd_from_yymmdd(terminal.date)

\* The types in ECC certificates.
LEMMA EccElements ==
    ASSUME card \in Cards, terminal \in Terminals, card.method = "XDA", Has(XdaData)
    PROVE  /\ The("pan") \in Seq(0..15)
           /\ The("issuerCert") \in EccIssuerCertificate
           /\ The("iccCert") \in EccIccCertificate
           /\ validate_x_on_curve(The("issuerCert").msg.key) => The("issuerCert").msg.key \in EccKeys
           /\ validate_x_on_curve(The("iccCert").msg.key) => The("iccCert").msg.key \in EccKeys
           /\ \A ca \in Ca(terminal.eccCas) : validate_x_on_curve(ca.key) => ca.key \in EccKeys
           /\ EccToday \in Moment(4) /\ terminal.time \in Moment(2)
<1>1. card.elements \in Elements(EccIssuerCertificate, EccIccCertificate)
  BY CardTyped
<1>2. /\ card.elements["pan"] \in Optional(Seq(0..15))
      /\ card.elements["issuerCert"] \in Optional(EccIssuerCertificate)
      /\ card.elements["iccCert"] \in Optional(EccIccCertificate)
  BY <1>1 DEF Elements
<1>3. \A type : \A name \in XdaData : card.elements[name] \in Optional(type) =>
         card.elements[name] = <<The(name)>> /\ The(name) \in type
  BY OptionalValue DEF Has, The
<1>4. /\ The("pan") \in Seq(0..15)
      /\ The("issuerCert") \in EccIssuerCertificate
      /\ The("iccCert") \in EccIccCertificate
      /\ card.elements["issuerCert"] = <<The("issuerCert")>>
      /\ card.elements["iccCert"] = <<The("iccCert")>>
  BY <1>2, <1>3 DEF XdaData
<1>5. /\ The("issuerCert") \in Range(card.elements.issuerCert)
      /\ The("iccCert") \in Range(card.elements.iccCert)
  BY <1>4 DEF Range
<1>6. \A cert \in Range(card.elements.issuerCert) \cup Range(card.elements.iccCert) :
         validate_x_on_curve(cert.msg.key) => cert.msg.key \in EccKeys
  BY KeysAssumption
<1>7. \A ca \in terminal.eccCas : validate_x_on_curve(ca.key) => ca.key \in EccKeys
  BY KeysAssumption
<1>8. EccToday \in Moment(4) /\ terminal.time \in Moment(2)
  <2>1. /\ terminal.date[1] \in 0..99 /\ terminal.date[2] \in 0..99 /\ terminal.date[3] \in 0..99
        /\ terminal.time \in Moment(2)
    BY CardTyped DEF Moment
  <2> QED
    BY <2>1 DEF EccToday, bcd_yyyymmdd_from_yymmdd, Moment
<1> QED
  BY <1>4, <1>5, <1>6, <1>7, <1>8 DEF Ca

\* The number a day is compared by.
LEMMA DayNumberType ==
    ASSUME NEW d \in Moment(4)
    PROVE  DayNumber(d) \in Int
<1>1. d[1] \in 0..99 /\ d[2] \in 0..99 /\ d[3] \in 0..99 /\ d[4] \in 0..99
  BY DEF Moment
<1>2. PICK d1 \in 0..99, d2 \in 0..99, d3 \in 0..99, d4 \in 0..99 :
         d1 = d[1] /\ d2 = d[2] /\ d3 = d[3] /\ d4 = d[4]
  BY <1>1
<1>3. DayNumber(d) = (10000 * ((100 * d1) + d2)) + (100 * d3) + d4
  BY <1>2 DEF DayNumber, Hundreds
<1> QED
  BY <1>3

\* On the last day the time decides.
LEMMA InstantsCompare ==
    ASSUME NEW date \in Moment(4), NEW time \in Moment(2), NEW today \in Moment(4),
           NEW now \in Moment(2)
    PROVE  yyyymmddhhmm_not_expired(date, time, today, now) <=>
              \/ DayNumber(date) > DayNumber(today)
              \/ DayNumber(date) = DayNumber(today) /\ Hundreds(time) >= Hundreds(now)
<1>1. /\ NotBefore(date, today) <=> DayNumber(date) >= DayNumber(today)
      /\ date = today <=> DayNumber(date) = DayNumber(today)
  BY DaysCompare
<1>2. NotBefore(time, now) <=> Hundreds(time) >= Hundreds(now)
  BY MonthsCompare
<1>3. PICK m \in Int, n \in Int : m = DayNumber(date) /\ n = DayNumber(today)
  <2>1. DayNumber(date) \in Int
    BY DayNumberType
  <2>2. DayNumber(today) \in Int
    BY DayNumberType
  <2> QED
    BY <2>1, <2>2
<1>4. CASE date = today
  BY <1>1, <1>2, <1>3, <1>4 DEF yyyymmddhhmm_not_expired
<1>5. CASE date # today
  <2>1. m # n
    BY <1>1, <1>3, <1>5
  <2>2. NotBefore(date, today) <=> m >= n
    BY <1>1, <1>3
  <2> QED
    BY <1>3, <1>5, <2>1, <2>2 DEF yyyymmddhhmm_not_expired
<1> QED
  BY <1>4, <1>5

\* For XDA the card's key is recovered if and only if it is attested.
LEMMA EccKeyAttested ==
    ASSUME card \in Cards, terminal \in Terminals, card.method = "XDA"
    PROVE  /\ Has(XdaData) /\ EccRecovered => The("iccCert").msg.key \in Attested
           /\ Attested # {} => Has(XdaData) /\ Ca(terminal.eccCas) # {} /\ EccRecovered
<1> DEFINE cert == The("issuerCert")
           own == The("iccCert")
<1>1. ASSUME Has(XdaData), EccRecovered PROVE own.msg.key \in Attested
  <2>1. PICK ca \in Ca(terminal.eccCas) :
           /\ recover_issuer_public_key_ecc(ca, cert, The("pan"), EccToday)
           /\ ~is_revoked(terminal.crl, card.rid, ca.index, cert.msg.serial)
           /\ recover_icc_public_key_ecc(cert.msg.key, own, xda_iccd_input, EccToday, terminal.time)
    BY <1>1 DEF EccRecovered, EccToday
  <2>2. /\ The("pan") \in Seq(0..15)
        /\ cert.msg.subject \in Nibbles(10) /\ cert.msg.expiry \in Moment(4)
        /\ own.msg.expiry \in Moment(4) /\ own.msg.time \in Moment(2)
        /\ EccToday \in Moment(4) /\ terminal.time \in Moment(2)
    BY <1>1, EccElements DEF EccIssuerCertificate, EccIccCertificate
  <2>3. /\ ca.key \in EccKeys /\ cert.msg.key \in EccKeys /\ own.msg.key \in EccKeys
        /\ cert.by = ca.key /\ own.by = cert.msg.key
    BY <1>1, <2>1, EccElements
    DEF recover_issuer_public_key_ecc, recover_icc_public_key_ecc, verify_ec_sdsa
  <2>4. PICK p \in decode(The("pan")), n \in 3..10 : n <= p /\ cert.msg.subject = Leading(n, 10)
    <3>1. issuer_identifier_matches_pan_ecc(cert.msg.subject, The("pan"))
      BY <2>1 DEF recover_issuer_public_key_ecc
    <3>2. PICK p \in decode(The("pan")), n \in 3..10 :
             n <= p /\ cert.msg.subject = Prefix(The("pan"), n, 10)
      BY <2>2, <3>1, IsIssuerEcc
    <3> QED
      BY <3>2, LeadingIsPrefix
  <2>5. DayNumber(cert.msg.expiry) >= DayNumber(EccToday)
    <3>1. NotBefore(cert.msg.expiry, EccToday)
      BY <2>1 DEF recover_issuer_public_key_ecc
    <3> QED
      BY <2>2, <3>1, DaysCompare
  <2>6. \/ DayNumber(own.msg.expiry) > DayNumber(EccToday)
        \/ /\ DayNumber(own.msg.expiry) = DayNumber(EccToday)
           /\ Hundreds(own.msg.time) >= Hundreds(terminal.time)
    <3>1. yyyymmddhhmm_not_expired(own.msg.expiry, own.msg.time, EccToday, terminal.time)
      BY <2>1 DEF recover_icc_public_key_ecc
    <3> QED
      BY <2>2, <3>1, InstantsCompare
  <2>7. /\ <<cert.msg.rid, cert.msg.index>> = <<card.rid, The("index")>>
        /\ cert.msg.serial \notin RevokedSerials(The("index"))
        /\ cert.msg.format = "12" /\ own.msg.format = "14"
        /\ own.msg.hashAlgorithm \in HashAlgorithms /\ own.msg.iccd = xda_iccd_input
    BY <2>1 DEF recover_issuer_public_key_ecc, recover_icc_public_key_ecc, Ca, is_revoked, RevokedSerials
  <2>8. EccAttested(own.msg.key)
    <3> HIDE DEF cert, own
    <3>1. cert = The("issuerCert") /\ own = The("iccCert")
      BY DEF cert, own
    <3> QED
      BY <1>1, <2>3, <2>4, <2>5, <2>6, <2>7, <3>1 DEF EccAttested, EccToday
  <2> QED
    BY <2>3, <2>8 DEF Attested
<1>2. ASSUME NEW k \in Attested
      PROVE  Has(XdaData) /\ Ca(terminal.eccCas) # {} /\ EccRecovered
  <2>1. Has(XdaData) /\ EccAttested(k) /\ k \in EccKeys
    BY DEF Attested, EccAttested
  <2>2. PICK ca \in Ca(terminal.eccCas), issuer \in EccKeys, length \in decode(The("pan")),
             n \in 3..10 :
           /\ ca.key \in EccKeys /\ cert.by = ca.key /\ own.by = issuer
           /\ <<cert.msg.rid, cert.msg.index>> = <<card.rid, The("index")>>
           /\ cert.msg.serial \notin RevokedSerials(The("index"))
           /\ cert.msg.key = issuer /\ own.msg.key = k
           /\ cert.msg.format = "12" /\ own.msg.format = "14"
           /\ n <= length /\ cert.msg.subject = Leading(n, 10)
           /\ DayNumber(cert.msg.expiry) >= DayNumber(EccToday)
           /\ \/ DayNumber(own.msg.expiry) > DayNumber(EccToday)
              \/ /\ DayNumber(own.msg.expiry) = DayNumber(EccToday)
                 /\ Hundreds(own.msg.time) >= Hundreds(terminal.time)
           /\ own.msg.hashAlgorithm \in HashAlgorithms /\ own.msg.iccd = xda_iccd_input
    BY <2>1 DEF EccAttested, EccToday
  <2>3. /\ The("pan") \in Seq(0..15)
        /\ cert.msg.subject \in Nibbles(10) /\ cert.msg.expiry \in Moment(4)
        /\ cert.msg.serial \in Serials
        /\ own.msg.expiry \in Moment(4) /\ own.msg.time \in Moment(2)
        /\ EccToday \in Moment(4) /\ terminal.time \in Moment(2)
    BY <2>1, EccElements DEF EccIssuerCertificate, EccIccCertificate
  <2>4. issuer_identifier_matches_pan_ecc(cert.msg.subject, The("pan"))
    BY <2>2, <2>3, IsIssuerEcc, LeadingIsPrefix
  <2>5. NotBefore(cert.msg.expiry, EccToday)
    BY <2>2, <2>3, DaysCompare
  <2>6. yyyymmddhhmm_not_expired(own.msg.expiry, own.msg.time, EccToday, terminal.time)
    BY <2>2, <2>3, InstantsCompare
  <2>7. /\ validate_x_on_curve(ca.key) /\ validate_x_on_curve(issuer) /\ validate_x_on_curve(k)
    BY <2>1, <2>2, KeysAssumption
  <2>8. cert.msg.rid = ca.rid /\ cert.msg.index = ca.index
        /\ ~is_revoked(terminal.crl, card.rid, ca.index, cert.msg.serial)
    BY <2>2, <2>3 DEF Ca, is_revoked, RevokedSerials
  <2>9. /\ recover_issuer_public_key_ecc(ca, cert, The("pan"), EccToday)
        /\ recover_icc_public_key_ecc(cert.msg.key, own, xda_iccd_input, EccToday, terminal.time)
    BY <2>2, <2>4, <2>5, <2>6, <2>7, <2>8
    DEF recover_issuer_public_key_ecc, recover_icc_public_key_ecc, verify_ec_sdsa
  <2> QED
    BY <2>1, <2>2, <2>8, <2>9 DEF EccRecovered, EccToday
<1> QED
  BY <1>1, <1>2
-----------------------------------------------------------------------------
(* The chain along the behaviours. *)

\* The key in use is attested, and static data that have been found authentic
\* rest on one; a key that is attested has been found.
ChainInvariant ==
    /\ card \in Cards /\ terminal \in Terminals
    /\ pc = "Authenticate" => key = Absent /\ store = {}
    /\ key # Absent => key = <<key[1]>> /\ key[1] \in Attested
    /\ "DAC" \in store => card.method = "SDA" /\ Attested # {}
    /\ pc # "Authenticate" /\ Attested # {} /\ (card.method = "DDA" => DdolUsable) => Authenticated

\* What is attested depends only on the card and the terminal.
LEMMA ConfigSame ==
    ASSUME card' = card, terminal' = terminal
    PROVE  Attested' = Attested /\ DdolUsable' = DdolUsable
<1>1. /\ Month' = Month /\ sda_static_data_builds' = sda_static_data_builds
      /\ sda_static_data_input' = sda_static_data_input /\ xda_iccd_input' = xda_iccd_input
  BY DEF Month, sda_static_data_builds, sda_static_data_input, xda_iccd_input
<1>2. \A name : The(name)' = The(name)
  BY DEF The
<1>3. \A names : Has(names)' = Has(names)
  BY DEF Has
<1>4. \A n, width : Leading(n, width)' = Leading(n, width)
  BY DEF Leading, The
<1>5. \A index : RevokedSerials(index)' = RevokedSerials(index)
  BY DEF RevokedSerials
<1>6. \A k, serials : IssuerAttested(k, serials)' = IssuerAttested(k, serials)
  BY DEF IssuerAttested, Has, The, Ca, Leading, Month
<1>7. \A issuer, k, cert, exponent, remainder, static :
         IccAttested(issuer, k, cert, exponent, remainder, static)'
            = IccAttested(issuer, k, cert, exponent, remainder, static)
  BY DEF IccAttested, Has, The, Ca, Leading, Month
<1>8. \A k : EccAttested(k)' = EccAttested(k)
  BY DEF EccAttested, Has, The, Ca, Leading, RevokedSerials, xda_iccd_input
<1>9. \A k : StaticSignature(k)' = StaticSignature(k)
  BY DEF StaticSignature, sda_static_data_input
<1>10. Attested' = Attested
  BY <1>1, <1>2, <1>3, <1>5, <1>6, <1>7, <1>8, <1>9 DEF Attested
<1>11. DdolUsable' = DdolUsable
  BY <1>3 DEF DdolUsable, Ddol
<1> QED
  BY <1>10, <1>11

\* No key is in use before the first step.
LEMMA ChainInit == Init => ChainInvariant
  BY DEF Init, ChainInvariant

\* perform_offline_data_authentication uses a key that is attested, and finds
\* one if there is one.
LEMMA ChainAuthentication ==
    ASSUME ChainInvariant, MethodInvariant, perform_offline_data_authentication
    PROVE  ChainInvariant'
<1>0. /\ card' = card /\ terminal' = terminal /\ card \in Cards /\ terminal \in Terminals
      /\ key = Absent /\ store = {}
  BY DEF ChainInvariant, perform_offline_data_authentication, config
<1>1. Attested' = Attested /\ DdolUsable' = DdolUsable
  BY <1>0, ConfigSame
<1>2. CASE perform_sda
  <2>1. card.method = "SDA" /\ pc' = "Over" /\ key' = Absent
    BY <1>0, <1>2 DEF perform_sda
  <2>2. CASE Has(SdaData) /\ IssuerRecovered
             /\ verify_sda(IssuerKey, The("ssad"), sda_static_data_input)
    <3>1. store' = {"DAC"} /\ Attested # {}
      BY <1>0, <1>2, <2>1, <2>2, SdaAttested DEF perform_sda
    <3> QED
      BY <1>0, <1>1, <2>1, <3>1 DEF ChainInvariant, Authenticated
  <2>3. CASE ~(Has(SdaData) /\ IssuerRecovered
               /\ verify_sda(IssuerKey, The("ssad"), sda_static_data_input))
    <3>1. store' = {} /\ Attested = {}
      BY <1>0, <1>2, <2>1, <2>3, SdaAttested DEF perform_sda
    <3> QED
      BY <1>0, <1>1, <2>1, <3>1 DEF ChainInvariant
  <2> QED
    BY <2>2, <2>3
<1>3. CASE perform_dda
  <2>1. card.method = "DDA" /\ pc' # "Authenticate" /\ store' = {}
    BY <1>0, <1>3 DEF perform_dda
  <2>2. /\ Has(IccData) /\ IccRecovered => IccKey \in Attested
        /\ Attested # {} => Has(IccData) /\ IccRecovered
    BY <1>0, <2>1, IccKeyAttested
  <2>3. CASE Has(IccData) /\ IccRecovered /\ DdolUsable
    <3>1. key' = <<IccKey>>
      BY <1>3, <2>3 DEF perform_dda
    <3>2. key' # Absent /\ key'[1] = IccKey
      BY <3>1 DEF Absent
    <3> QED
      BY <1>0, <1>1, <2>1, <2>2, <2>3, <3>1, <3>2 DEF ChainInvariant, Authenticated
  <2>4. CASE ~(Has(IccData) /\ IccRecovered /\ DdolUsable)
    <3>1. key' = Absent
      BY <1>0, <1>3, <2>4 DEF perform_dda
    <3> QED
      BY <1>0, <1>1, <2>1, <2>2, <2>4, <3>1 DEF ChainInvariant
  <2> QED
    BY <2>3, <2>4
<1>4. CASE perform_cda_arm
  <2>1. card.method = "CDA" /\ pc' # "Authenticate" /\ store' = {}
    BY <1>0, <1>4 DEF perform_cda_arm
  <2>2. /\ Has(IccData) /\ IccRecovered => IccKey \in Attested
        /\ Attested # {} => Has(IccData) /\ IccRecovered
    BY <1>0, <2>1, IccKeyAttested
  <2>3. CASE Has(IccData) /\ IccRecovered
    <3>1. key' = <<IccKey>>
      BY <1>4, <2>3 DEF perform_cda_arm
    <3>2. key' # Absent /\ key'[1] = IccKey
      BY <3>1 DEF Absent
    <3> QED
      BY <1>0, <1>1, <2>1, <2>2, <2>3, <3>1, <3>2 DEF ChainInvariant, Authenticated
  <2>4. CASE ~(Has(IccData) /\ IccRecovered)
    <3>1. key' = Absent
      BY <1>0, <1>4, <2>4 DEF perform_cda_arm
    <3> QED
      BY <1>0, <1>1, <2>1, <2>2, <2>4, <3>1 DEF ChainInvariant
  <2> QED
    BY <2>3, <2>4
<1>5. CASE perform_xda_arm
  <2>1. card.method = "XDA" /\ pc' # "Authenticate" /\ store' = {}
    BY <1>0, <1>5 DEF perform_xda_arm
  <2>2. /\ Has(XdaData) /\ EccRecovered => The("iccCert").msg.key \in Attested
        /\ Attested # {} => Has(XdaData) /\ Ca(terminal.eccCas) # {} /\ EccRecovered
    BY <1>0, <2>1, EccKeyAttested
  <2>3. CASE xda' = "Armed"
    <3>1. key' = <<The("iccCert").msg.key>> /\ Has(XdaData) /\ EccRecovered
      BY <1>5, <2>3 DEF perform_xda_arm
    <3>2. key' # Absent /\ key'[1] = The("iccCert").msg.key
      BY <3>1 DEF Absent
    <3> QED
      BY <1>0, <1>1, <2>1, <2>2, <3>1, <3>2 DEF ChainInvariant, Authenticated
  <2>4. CASE xda' # "Armed"
    <3>1. key' = Absent /\ ~(Has(XdaData) /\ Ca(terminal.eccCas) # {} /\ EccRecovered)
      BY <1>5, <2>4 DEF perform_xda_arm
    <3> QED
      BY <1>0, <1>1, <2>1, <2>2, <3>1 DEF ChainInvariant
  <2> QED
    BY <2>3, <2>4
<1> QED
  BY <1>2, <1>3, <1>4, <1>5 DEF perform_offline_data_authentication

\* Later steps leave the keys alone.
LEMMA ChainKept ==
    ASSUME ChainInvariant, card' = card, terminal' = terminal, key' = key, pc' # "Authenticate",
           "DAC" \in store' <=> "DAC" \in store, pc # "Authenticate"
    PROVE  ChainInvariant'
<1>1. Attested' = Attested /\ DdolUsable' = DdolUsable
  BY ConfigSame
<1> QED
  BY <1>1 DEF ChainInvariant, Authenticated

\* Every step preserves ChainInvariant.
LEMMA ChainStep == ChainInvariant /\ MethodInvariant /\ [Next]_vars => ChainInvariant'
<1> SUFFICES ASSUME ChainInvariant, MethodInvariant, [Next]_vars
             PROVE  ChainInvariant'
  OBVIOUS
<1>1. CASE perform_offline_data_authentication
  BY <1>1, ChainAuthentication
<1>2. CASE internal_authenticate
  <2>1. /\ card' = card /\ terminal' = terminal /\ key' = key
        /\ pc # "Authenticate" /\ pc' # "Authenticate"
        /\ store' = store \/ store' = store \cup {"ICC_DYNAMIC_NUMBER"}
    BY <1>2 DEF internal_authenticate, config
  <2> QED
    BY <2>1, ChainKept
<1>3. ASSUME NEW second \in BOOLEAN, Answered(second), pc # "Authenticate"
      PROVE  ChainInvariant'
  <2>1. card' = card /\ terminal' = terminal /\ key' = key
    BY <1>3 DEF Answered, config
  <2> DEFINE Kept == pc' # "Authenticate" /\ ("DAC" \in store' <=> "DAC" \in store)
  <2>2. Kept
    <3>1. CASE pc' = "Err" /\ UNCHANGED <<tvr, tsi, store, last>>
      BY <3>1
    <3>2. ASSUME NEW cid \in {"AAC", "TC", "ARQC"}, NEW children \in Children,
                 CdaAnswer(second, cid, children)
          PROVE  Kept
      <4>1. CASE cid = "AAC" /\ pc' = "Over" /\ UNCHANGED <<tvr, tsi, store, last>>
        BY <4>1
      <4>2. ASSUME NEW fault \in Faults, verify_cda_inner(second, cid, children, fault)
            PROVE  Kept
        <5>1. /\ pc' \in {"Over", "SecondAc"}
              /\ store' = store \/ store' = store \cup {"ICC_DYNAMIC_NUMBER", "APPLICATION_CRYPTOGRAM"}
          BY <4>2 DEF verify_cda_inner, After
        <5> QED
          BY <5>1
      <4> QED
        BY <3>2, <4>1, <4>2 DEF CdaAnswer
    <3>3. ASSUME NEW cid \in {"AAC", "TC", "ARQC"}, NEW children \in Children,
                 XdaAnswer(second, cid, children)
          PROVE  Kept
      <4>1. PICK fault \in Faults \ {"layout", "cid", "hash"} :
               verify_xda_inner(second, cid, children, fault)
        BY <3>3 DEF XdaAnswer
      <4>2. store' = store \/ store' = store \cup {"APPLICATION_CRYPTOGRAM"}
        BY <4>1 DEF verify_xda_inner, NotVerified, XdaVerdict, StoreCryptogram
      <4>3. pc' \in {"Over", "SecondAc"}
        BY <3>3 DEF XdaAnswer, After
      <4> QED
        BY <4>2, <4>3
    <3> QED
      BY <1>3, <3>1, <3>2, <3>3 DEF Answered
  <2> QED
    BY <1>3, <2>1, <2>2, ChainKept
<1>4. CASE first_generate_ac
  BY <1>3, <1>4 DEF first_generate_ac
<1>5. CASE second_generate_ac
  BY <1>3, <1>5 DEF second_generate_ac
<1>6. CASE UNCHANGED vars
  <2>1. /\ card' = card /\ terminal' = terminal /\ key' = key /\ store' = store /\ pc' = pc
    BY <1>6 DEF vars, config
  <2>2. Attested' = Attested /\ DdolUsable' = DdolUsable
    BY <2>1, ConfigSame
  <2> QED
    BY <2>1, <2>2 DEF ChainInvariant, Authenticated
<1>7. CASE Ended
  BY <1>6, <1>7 DEF Ended
<1> QED
  BY <1>1, <1>2, <1>4, <1>5, <1>6, <1>7 DEF Next

\* Without a certificate for PINs the card's key serves, in CDA.
LEMMA PinKeyWithout ==
    ASSUME card \in Cards, ~Has({"pinCert", "pinExponent"})
    PROVE  /\ recover_pin_encipherment_public_key = IF card.method = "CDA" THEN key ELSE Absent
           /\ PinAttested = {k \in Attested : card.method = "CDA"}
  BY DEF recover_pin_encipherment_public_key, PinAttested

\* With one it is the key certified by it.
LEMMA PinKeyWith ==
    ASSUME Has({"pinCert", "pinExponent"})
    PROVE  recover_pin_encipherment_public_key =
              IF OwnPinKey
              THEN <<recovered_key(The("pinCert"), card.elements["pinRemainder"], The("pinExponent"))>>
              ELSE Absent
  BY DEF recover_pin_encipherment_public_key, OwnPinKey

\* The invariants give soundness.
LEMMA ChainIsSound ==
    ASSUME ChainInvariant, MethodInvariant
    PROVE  AuthenticatedIsGenuine
<1>1. card \in Cards /\ terminal \in Terminals
  BY DEF ChainInvariant
<1>2. ASSUME NEW k \in Range(recover_pin_encipherment_public_key)
      PROVE  k \in PinAttested
  <2>1. CASE Has({"pinCert", "pinExponent"})
    <3>1. OwnPinKey
      <4>1. ASSUME ~OwnPinKey PROVE FALSE
        <5>1. recover_pin_encipherment_public_key = <<>>
          BY <2>1, <4>1, PinKeyWith DEF Absent
        <5> QED
          BY <1>2, <5>1 DEF Range
      <4> QED
        BY <4>1
    <3>2. k = recovered_key(The("pinCert"), card.elements["pinRemainder"], The("pinExponent"))
      <4>1. recover_pin_encipherment_public_key =
               <<recovered_key(The("pinCert"), card.elements["pinRemainder"], The("pinExponent"))>>
        BY <2>1, <3>1, PinKeyWith
      <4> QED
        BY <1>2, <4>1 DEF Range
    <3> QED
      BY <1>1, <2>1, <3>1, <3>2, PinKeyAttested
  <2>2. CASE ~Has({"pinCert", "pinExponent"})
    <3>1. card.method = "CDA" /\ recover_pin_encipherment_public_key = key /\ key # Absent
      <4>1. ASSUME recover_pin_encipherment_public_key = <<>> PROVE FALSE
        BY <1>2, <4>1 DEF Range
      <4> QED
        BY <1>1, <2>2, <4>1, PinKeyWithout DEF Absent
    <3>2. k = key[1] /\ key[1] \in Attested
      <4>1. key = <<key[1]>> /\ key[1] \in Attested
        BY <3>1 DEF ChainInvariant
      <4>2. k \in Range(<<key[1]>>)
        BY <1>2, <3>1, <4>1
      <4> QED
        BY <4>1, <4>2 DEF Range
    <3> QED
      BY <1>1, <2>2, <3>1, <3>2, PinKeyWithout
  <2> QED
    BY <2>1, <2>2
<1> QED
  BY <1>2 DEF AuthenticatedIsGenuine, ChainInvariant, MethodInvariant

\* They give completeness.
LEMMA ChainIsComplete ==
    ASSUME ChainInvariant
    PROVE  GenuineIsAuthenticated
<1>1. card \in Cards /\ terminal \in Terminals
  BY DEF ChainInvariant
<1>2. ASSUME pc # "Authenticate", PinAttested # {}
      PROVE  recover_pin_encipherment_public_key # Absent
  <2>1. CASE Has({"pinCert", "pinExponent"})
    <3>1. OwnPinKey
      BY <1>1, <1>2, <2>1, PinKeyAttested
    <3> QED
      BY <2>1, <3>1, PinKeyWith DEF Absent
  <2>2. CASE ~Has({"pinCert", "pinExponent"})
    <3>1. card.method = "CDA" /\ Attested # {} /\ recover_pin_encipherment_public_key = key
      BY <1>1, <1>2, <2>2, PinKeyWithout
    <3>2. key # Absent
      BY <1>2, <3>1 DEF ChainInvariant, Authenticated
    <3> QED
      BY <3>1, <3>2
  <2> QED
    BY <2>1, <2>2
<1>3. pc # "Authenticate" /\ Attested # {} /\ (card.method = "DDA" => DdolUsable) => Authenticated
  BY DEF ChainInvariant
<1> QED
  BY <1>2, <1>3 DEF GenuineIsAuthenticated

\* Soundness of the chain of certificates (recover_issuer_public_key,
\* recover_icc_public_key, recover_icc_public_key_ecc and the keys for PIN
\* encipherment), for all cards and terminals: whatever the key lengths, PANs,
\* dates and revocation lists are, the key in use is one the chain certifies.
THEOREM AuthenticatedIsGenuineAlways == Spec => []AuthenticatedIsGenuine
<1>1. Init => ChainInvariant /\ MethodInvariant
  BY ChainInit, InitMethod
<1>2. ChainInvariant /\ MethodInvariant /\ [Next]_vars => (ChainInvariant /\ MethodInvariant)'
  BY ChainStep, MethodStep
<1>3. ChainInvariant /\ MethodInvariant => AuthenticatedIsGenuine
  BY ChainIsSound
<1> QED
  BY <1>1, <1>2, <1>3, PTL DEF Spec

\* Completeness of the chain: no card that was issued correctly is refused, on
\* none of the days its certificates are valid.
THEOREM GenuineIsAuthenticatedAlways == Spec => []GenuineIsAuthenticated
<1>1. Init => ChainInvariant /\ MethodInvariant
  BY ChainInit, InitMethod
<1>2. ChainInvariant /\ MethodInvariant /\ [Next]_vars => (ChainInvariant /\ MethodInvariant)'
  BY ChainStep, MethodStep
<1>3. ChainInvariant => GenuineIsAuthenticated
  BY ChainIsComplete
<1> QED
  BY <1>1, <1>2, <1>3, PTL DEF Spec
-----------------------------------------------------------------------------
(* Dynamic signatures bind what was exchanged. *)

\* s is a signature of which only the parts that fault is about may differ from
\* those of a genuine one.
SignatureForm(s, fault, cid, hash) ==
    /\ s = [by |-> s.by,
            msg1 |-> [format |-> s.msg1.format, layout |-> s.msg1.layout,
                      cid |-> s.msg1.cid, hash |-> s.msg1.hash],
            msg2 |-> s.msg2]
    /\ s.msg1.layout \in BOOLEAN
    /\ fault \notin {"cid", "hash"} => s.msg1.cid = cid /\ s.msg1.hash = hash
    /\ fault # "layout" => s.msg1.layout = TRUE

\* Such a signature, from its parts.
LEMMA SignatureParts ==
    ASSUME NEW s, NEW fault, NEW cid, NEW hash,
           NEW by, NEW format, NEW layout \in BOOLEAN, NEW itsCid, NEW itsHash, NEW nonce,
           s = [by |-> by, msg1 |-> [format |-> format, layout |-> layout, cid |-> itsCid,
                                     hash |-> itsHash],
                msg2 |-> nonce],
           fault \notin {"cid", "hash"} => itsCid = cid /\ itsHash = hash,
           fault # "layout" => layout = TRUE
    PROVE  SignatureForm(s, fault, cid, hash)
<1>1. s.by = by /\ s.msg2 = nonce
  OBVIOUS
<1>2. s.msg1 = [format |-> format, layout |-> layout, cid |-> itsCid, hash |-> itsHash]
  OBVIOUS
<1>3. s.msg1.format = format /\ s.msg1.cid = itsCid /\ s.msg1.hash = itsHash
  BY <1>2
<1>4. s.msg1.layout = layout
  BY <1>2
<1>5. s = [by |-> s.by,
           msg1 |-> [format |-> s.msg1.format, layout |-> s.msg1.layout,
                     cid |-> s.msg1.cid, hash |-> s.msg1.hash],
           msg2 |-> s.msg2]
  BY <1>1, <1>2, <1>3, <1>4
<1> QED
  BY <1>3, <1>4, <1>5 DEF SignatureForm

\* SignedByCard spoils only the part that the fault is about.
LEMMA SignedForm ==
    ASSUME NEW by, NEW format, NEW cid, NEW hash, NEW nonce, NEW fault \in Fault
    PROVE  SignatureForm(SignedByCard(Genuine(by, format, cid, hash, nonce), fault), fault, cid, hash)
<1> DEFINE g == Genuine(by, format, cid, hash, nonce)
           s == SignedByCard(g, fault)
           Made(b, f, l, c, h, n) ==
              s = [by |-> b, msg1 |-> [format |-> f, layout |-> l, cid |-> c, hash |-> h],
                   msg2 |-> n]
<1> SUFFICES SignatureForm(s, fault, cid, hash)
  OBVIOUS
<1>1. g = [by |-> by, msg1 |-> [format |-> format, layout |-> TRUE, cid |-> cid, hash |-> hash],
           msg2 |-> nonce]
  BY DEF Genuine
<1>2. CASE fault = "none"
  <2>1. s = g
    BY <1>2 DEF SignedByCard
  <2> HIDE DEF g, s
  <2>2. Made(by, format, TRUE, cid, hash, nonce)
    BY <1>1, <2>1
  <2> QED
    BY <1>2, <2>2, SignatureParts
<1>3. CASE fault = "key"
  <2>1. s = [g EXCEPT !.by = card.issuer]
    BY <1>3 DEF SignedByCard
  <2> HIDE DEF g, s
  <2>2. Made(card.issuer, format, TRUE, cid, hash, nonce)
    BY <1>1, <2>1
  <2> QED
    BY <1>3, <2>2, SignatureParts
<1>4. CASE fault = "format"
  <2>1. s = [g EXCEPT !.msg1.format = "03"]
    BY <1>4 DEF SignedByCard
  <2> HIDE DEF g, s
  <2>2. Made(by, "03", TRUE, cid, hash, nonce)
    BY <1>1, <2>1
  <2> QED
    BY <1>4, <2>2, SignatureParts
<1>5. CASE fault = "layout"
  <2>1. s = [g EXCEPT !.msg1.layout = FALSE]
    BY <1>5 DEF SignedByCard
  <2> HIDE DEF g, s
  <2>2. Made(by, format, FALSE, cid, hash, nonce)
    BY <1>1, <2>1
  <2> QED
    BY <1>5, <2>2, SignatureParts
<1>6. CASE fault = "cid"
  <2>1. s = [g EXCEPT !.msg1.cid = "other"]
    BY <1>6 DEF SignedByCard
  <2> HIDE DEF g, s
  <2>2. Made(by, format, TRUE, "other", hash, nonce)
    BY <1>1, <2>1
  <2> QED
    BY <1>6, <2>2, SignatureParts
<1>7. CASE fault = "hash"
  <2>1. s = [g EXCEPT !.msg1.hash = Append(@, "other")]
    BY <1>7 DEF SignedByCard
  <2> HIDE DEF g, s
  <2>2. Made(by, format, TRUE, cid, Append(hash, "other"), nonce)
    BY <1>1, <2>1
  <2> QED
    BY <1>7, <2>2, SignatureParts
<1>8. CASE fault = "nonce"
  <2>1. s = [g EXCEPT !.msg2 = Append(@, "other")]
    BY <1>8 DEF SignedByCard
  <2> HIDE DEF g, s
  <2>2. Made(by, format, TRUE, cid, hash, Append(nonce, "other"))
    BY <1>1, <2>1
  <2> QED
    BY <1>8, <2>2, SignatureParts
<1> QED
  BY <1>2, <1>3, <1>4, <1>5, <1>6, <1>7, <1>8 DEF Fault

\* A signature verifies if and only if it is the genuine one over the same data.
LEMMA DdaVerifies ==
    ASSUME NEW s, NEW fault \in Fault \ {"cid", "hash"}, NEW by, NEW cid, NEW hash, NEW data,
           SignatureForm(s, fault, cid, hash)
    PROVE  verify_dda(by, s, data) <=> s = Genuine(by, "05", cid, hash, data)
  BY DEF SignatureForm, verify_dda, Recovers, Genuine

\* The same for CDA.
LEMMA CdaVerifies ==
    ASSUME NEW s, NEW fault \in Fault, NEW by, NEW cid, NEW hash, NEW data, NEW un,
           SignatureForm(s, fault, cid, hash)
    PROVE  verify_cda(by, s, un, data, cid) <=> s = Genuine(by, "05", cid, data, un)
  BY DEF SignatureForm, verify_cda, Recovers, Genuine

\* The same for XDA.
LEMMA XdaVerifies ==
    ASSUME NEW s, NEW fault \in Fault \ {"layout", "cid", "hash"}, NEW by, NEW cid, NEW hash,
           NEW data, SignatureForm(s, fault, cid, hash)
    PROVE  verify_xda(by, s, data) <=> s = Genuine(by, "15", cid, hash, data)
  BY DEF SignatureForm, verify_xda, Recovers, Genuine

\* What the card has heard is what the terminal verifies the signature over,
\* and a cryptogram that is stored is on record in the TSI.
ExchangeInvariant ==
    /\ stash \in [cdol1 : Seq(STRING), cdol2 : Seq(STRING)]
    /\ pc = "Authenticate" => last.verdict = "none"
    /\ pc = "InternalAuthenticate" => heard = Ddol[1].data
    /\ pc \in {"Authenticate", "FirstAc"} => heard = card.gpo /\ stash.cdol2 = <<>>
    /\ pc = "SecondAc" => heard = card.gpo \o stash.cdol1
    /\ "APPLICATION_CRYPTOGRAM" \in store => tsi # {}
    /\ SignatureBindsExchange

\* The TVR bits that tell that a signature did not verify.
SignatureFailure == {"dda_failed", "cda_failed", "xda_signature_verification_failed"}

\* Nothing is heard before the first step but the processing options.
LEMMA ExchangeInit == Init => ExchangeInvariant
  BY EmptySeq DEF Init, ExchangeInvariant, SignatureBindsExchange

\* What was recorded of the last signature stays on record.
LEMMA RecordKept ==
    ASSUME SignatureBindsExchange, last' = last, tvr \subseteq tvr', tsi # {} => tsi' # {}
    PROVE  SignatureBindsExchange'
<1>1. last.verdict = "rejected" => tvr' \cap SignatureFailure # {}
  BY DEF SignatureBindsExchange, SignatureFailure
<1> QED
  BY <1>1 DEF SignatureBindsExchange, SignatureFailure

\* Choosing the method stores no cryptogram and verifies no signature.
LEMMA ExchangeAuthentication ==
    ASSUME ExchangeInvariant, ChainInvariant, perform_offline_data_authentication
    PROVE  ExchangeInvariant'
<1>1. /\ card' = card /\ terminal' = terminal /\ stash' = stash /\ last' = last
      /\ last.verdict = "none" /\ heard = card.gpo /\ stash.cdol2 = <<>> /\ store = {}
  BY DEF ExchangeInvariant, ChainInvariant, perform_offline_data_authentication, config
<1>2. SignatureBindsExchange'
  BY <1>1 DEF SignatureBindsExchange
<1>3. "APPLICATION_CRYPTOGRAM" \notin store'
  BY <1>1 DEF perform_offline_data_authentication, perform_sda, perform_dda, perform_cda_arm,
              perform_xda_arm
<1>4. \/ pc' = "Over"
      \/ pc' = "InternalAuthenticate" /\ heard' = Ddol[1].data
      \/ pc' = "FirstAc" /\ heard' = heard
  BY DEF perform_offline_data_authentication, perform_sda, perform_dda, perform_cda_arm,
         perform_xda_arm
<1>5. Ddol' = Ddol
  BY <1>1 DEF Ddol, Has
<1> QED
  BY <1>1, <1>2, <1>3, <1>4, <1>5 DEF ExchangeInvariant

\* INTERNAL AUTHENTICATE signs the DDOL data the terminal sent.
LEMMA ExchangeInternalAuthenticate ==
    ASSUME ExchangeInvariant, ChainInvariant, internal_authenticate
    PROVE  ExchangeInvariant'
<1>1. /\ card' = card /\ stash' = stash /\ pc' \in {"Over", "Err"} /\ heard = Ddol[1].data
      /\ tvr \subseteq tvr'
      /\ store' = store \/ store' = store \cup {"ICC_DYNAMIC_NUMBER"}
      /\ tsi # {} => tsi' # {}
  BY DEF internal_authenticate, ExchangeInvariant, config, Performed
<1>2. "APPLICATION_CRYPTOGRAM" \in store' => tsi' # {}
  BY <1>1 DEF ExchangeInvariant
<1>3. SignatureBindsExchange'
  <2>1. CASE last' = last
    BY <1>1, <2>1, RecordKept DEF ExchangeInvariant
  <2>2. ASSUME NEW fault \in Faults \ {"cid", "hash"},
               NEW sdad, sdad = SignedByCard(Genuine(card.own, "05", Absent, Absent, heard), fault),
               last' = [genuine |-> sdad = Genuine(key[1], "05", Absent, Absent, heard),
                        verdict |-> IF verify_dda(key[1], sdad, Ddol[1].data)
                                    THEN "verified" ELSE "rejected"],
               ~verify_dda(key[1], sdad, Ddol[1].data) => tvr' = tvr \cup {"dda_failed"},
               Performed
        PROVE  SignatureBindsExchange'
    <3>1. fault \in Fault \ {"cid", "hash"}
      BY OdaAssumption
    <3>2. SignatureForm(sdad, fault, Absent, Absent)
      BY <2>2, <3>1, SignedForm
    <3>3. verify_dda(key[1], sdad, heard) <=> sdad = Genuine(key[1], "05", Absent, Absent, heard)
      BY <3>1, <3>2, DdaVerifies
    <3>4. CASE verify_dda(key[1], sdad, heard)
      <4>0. sdad = Genuine(key[1], "05", Absent, Absent, heard) /\ verify_dda(key[1], sdad, Ddol[1].data)
        BY <1>1, <3>3, <3>4
      <4>1. last'.verdict = "verified" /\ last'.genuine = TRUE
        BY <2>2, <4>0
      <4> QED
        BY <2>2, <4>1 DEF SignatureBindsExchange, Performed
    <3>5. CASE ~verify_dda(key[1], sdad, heard)
      <4>0. sdad # Genuine(key[1], "05", Absent, Absent, heard) /\ ~verify_dda(key[1], sdad, Ddol[1].data)
        BY <1>1, <3>3, <3>5
      <4>1. last'.verdict = "rejected" /\ last'.genuine = FALSE /\ "dda_failed" \in tvr'
        BY <2>2, <4>0
      <4> QED
        BY <4>1 DEF SignatureBindsExchange
    <3> QED
      BY <3>4, <3>5
  <2>3. CASE \E fault \in Faults \ {"cid", "hash"} :
                LET sdad == SignedByCard(Genuine(card.own, "05", Absent, Absent, heard), fault)
                    verified == verify_dda(key[1], sdad, Ddol[1].data)
                IN  /\ last' = [genuine |-> sdad = Genuine(key[1], "05", Absent, Absent, heard),
                                verdict |-> IF verified THEN "verified" ELSE "rejected"]
                    /\ IF verified
                       THEN store' = store \cup {"ICC_DYNAMIC_NUMBER"} /\ UNCHANGED tvr
                       ELSE tvr' = tvr \cup {"dda_failed"} /\ UNCHANGED store
                    /\ Performed /\ pc' = "Over"
    BY <2>2, <2>3
  <2> QED
    BY <2>1, <2>3 DEF internal_authenticate
<1> QED
  BY <1>1, <1>2, <1>3 DEF ExchangeInvariant

\* Data sent with the GENERATE ACs are all the card has heard.
LEMMA HeardIsSent ==
    ASSUME ExchangeInvariant, ChainInvariant
    PROVE  /\ first_generate_ac =>
                 /\ heard' = RequestData(FALSE, stash') /\ heard' = card.gpo \o stash'.cdol1
                 /\ stash' \in [cdol1 : Seq(STRING), cdol2 : Seq(STRING)]
           /\ second_generate_ac =>
                 /\ heard' = RequestData(TRUE, stash')
                 /\ stash' \in [cdol1 : Seq(STRING), cdol2 : Seq(STRING)]
<1>0. card.gpo \in Seq(STRING) /\ Cdol1 \subseteq Seq(STRING) /\ Cdol2 \subseteq Seq(STRING)
      /\ stash \in [cdol1 : Seq(STRING), cdol2 : Seq(STRING)]
  BY OdaAssumption DEF ChainInvariant, CardType, ExchangeInvariant
<1>1. ASSUME first_generate_ac
      PROVE  /\ heard' = RequestData(FALSE, stash') /\ heard' = card.gpo \o stash'.cdol1
             /\ stash' \in [cdol1 : Seq(STRING), cdol2 : Seq(STRING)]
  <2>1. PICK data \in Cdol1 : stash' = [stash EXCEPT !.cdol1 = data] /\ heard' = heard \o data
    BY <1>1 DEF first_generate_ac
  <2>2. heard = card.gpo
    BY <1>1 DEF first_generate_ac, ExchangeInvariant
  <2>3. stash'.cdol1 = data /\ stash' \in [cdol1 : Seq(STRING), cdol2 : Seq(STRING)]
    BY <1>0, <2>1
  <2>4. card.gpo \o data \in Seq(STRING)
    BY <1>0, ConcatProperties
  <2>5. (card.gpo \o data) \o <<>> = card.gpo \o data
    BY <2>4, ConcatEmptySeq
  <2> QED
    BY <2>1, <2>2, <2>3, <2>5 DEF RequestData
<1>2. ASSUME second_generate_ac
      PROVE  /\ heard' = RequestData(TRUE, stash')
             /\ stash' \in [cdol1 : Seq(STRING), cdol2 : Seq(STRING)]
  <2>1. PICK data \in Cdol2 : stash' = [stash EXCEPT !.cdol2 = data] /\ heard' = heard \o data
    BY <1>2 DEF second_generate_ac
  <2>2. heard = card.gpo \o stash.cdol1
    BY <1>2 DEF second_generate_ac, ExchangeInvariant
  <2>3. /\ stash'.cdol2 = data /\ stash'.cdol1 = stash.cdol1
        /\ stash' \in [cdol1 : Seq(STRING), cdol2 : Seq(STRING)]
    BY <1>0, <2>1
  <2> QED
    BY <2>1, <2>2, <2>3 DEF RequestData
<1> QED
  BY <1>1, <1>2

\* A CDA signature verifies if and only if it is genuine over the exchange.
LEMMA CdaBinds ==
    ASSUME NEW second \in BOOLEAN, NEW cid, NEW children, NEW fault \in Faults,
           heard' = RequestData(second, stash'), verify_cda_inner(second, cid, children, fault),
           "APPLICATION_CRYPTOGRAM" \in store => tsi # {}
    PROVE  /\ SignatureBindsExchange'
           /\ "APPLICATION_CRYPTOGRAM" \in store' => tsi' # {}
           /\ pc' = "Over" \/ pc' = After(second, cid)
<1> DEFINE said == Objects(cid, children)
           sdad == SignedByCard(Genuine(card.own, "05", cid, heard' \o said, UN), fault)
           sent == HasSdad(children)
           verified == sent /\ verify_cda(key[1], sdad, UN, heard' \o said, cid)
           genuine == sent /\ sdad = Genuine(key[1], "05", cid, heard' \o said, UN)
<1>1. fault \in Fault
  BY OdaAssumption
<1>2. verify_cda(key[1], sdad, UN, heard' \o said, cid)
         <=> sdad = Genuine(key[1], "05", cid, heard' \o said, UN)
  <2>1. SignatureForm(sdad, fault, cid, heard' \o said)
    BY <1>1, SignedForm
  <2> HIDE DEF sdad, said
  <2> QED
    BY <1>1, <2>1, CdaVerifies
<1>3. genuine = verified
  BY <1>2
<1>4. \/ /\ ~verified /\ tvr' = tvr \cup {"cda_failed"}
         /\ last' = [genuine |-> genuine, verdict |-> "rejected"] /\ pc' = "Over"
         /\ UNCHANGED <<store, tsi>>
      \/ /\ last' = [genuine |-> genuine, verdict |-> "skipped"] /\ pc' = "Over"
         /\ UNCHANGED <<tvr, tsi, store>>
      \/ /\ verified /\ Performed /\ pc' = After(second, cid)
         /\ last' = [genuine |-> genuine, verdict |-> "verified"]
  BY DEF verify_cda_inner
<1> HIDE DEF genuine, verified
<1>5. CASE /\ ~verified /\ tvr' = tvr \cup {"cda_failed"}
           /\ last' = [genuine |-> genuine, verdict |-> "rejected"] /\ pc' = "Over"
           /\ UNCHANGED <<store, tsi>>
  <2>1. last'.verdict = "rejected" /\ ~last'.genuine /\ "cda_failed" \in tvr'
    BY <1>3, <1>5
  <2> QED
    BY <1>5, <2>1 DEF SignatureBindsExchange
<1>6. CASE /\ last' = [genuine |-> genuine, verdict |-> "skipped"] /\ pc' = "Over"
           /\ UNCHANGED <<tvr, tsi, store>>
  BY <1>6 DEF SignatureBindsExchange
<1>7. CASE /\ verified /\ Performed /\ pc' = After(second, cid)
           /\ last' = [genuine |-> genuine, verdict |-> "verified"]
  <2>1. last'.verdict = "verified" /\ last'.genuine /\ tsi' # {}
    BY <1>3, <1>7 DEF Performed
  <2> QED
    BY <1>7, <2>1 DEF SignatureBindsExchange
<1> QED
  BY <1>4, <1>5, <1>6, <1>7

\* An XDA signature verifies if and only if it is genuine over the exchange.
LEMMA XdaBinds ==
    ASSUME NEW second \in BOOLEAN, NEW cid, NEW children,
           NEW fault \in Faults \ {"layout", "cid", "hash"},
           heard' = RequestData(second, stash'), verify_xda_inner(second, cid, children, fault),
           "APPLICATION_CRYPTOGRAM" \in store => tsi # {}
    PROVE  /\ SignatureBindsExchange'
           /\ "APPLICATION_CRYPTOGRAM" \in store' => tsi' # {}
<1> DEFINE said == Objects(cid, children)
           sdad == SignedByCard(Genuine(card.own, "15", Absent, Absent, heard' \o said), fault)
           sent == HasSdad(children)
           verified == sent /\ verify_xda(key[1], sdad, heard' \o said)
           genuine == sent /\ sdad = Genuine(key[1], "15", Absent, Absent, heard' \o said)
<1>1. fault \in Fault \ {"layout", "cid", "hash"}
  BY OdaAssumption
<1>2. verify_xda(key[1], sdad, heard' \o said)
         <=> sdad = Genuine(key[1], "15", Absent, Absent, heard' \o said)
  <2>1. SignatureForm(sdad, fault, Absent, Absent)
    BY <1>1, SignedForm
  <2> HIDE DEF sdad, said
  <2> QED
    BY <1>1, <2>1, XdaVerifies
<1>3. genuine = verified
  BY <1>2
<1>4. \/ last' = [genuine |-> FALSE, verdict |-> "skipped"] /\ UNCHANGED <<tsi, store>>
      \/ /\ verified /\ StoreCryptogram(children)
         /\ last' = [genuine |-> genuine, verdict |-> "verified"]
      \/ /\ ~verified /\ tvr' = tvr \cup {"xda_signature_verification_failed"}
         /\ last' = [genuine |-> genuine, verdict |-> "rejected"] /\ UNCHANGED <<tsi, store>>
  BY DEF verify_xda_inner, NotVerified, XdaVerdict
<1> HIDE DEF genuine, verified
<1>5. CASE last' = [genuine |-> FALSE, verdict |-> "skipped"] /\ UNCHANGED <<tsi, store>>
  BY <1>5 DEF SignatureBindsExchange
<1>6. CASE /\ verified /\ StoreCryptogram(children)
           /\ last' = [genuine |-> genuine, verdict |-> "verified"]
  <2>1. tsi' # {}
    BY <1>6 DEF StoreCryptogram, Performed
  <2>2. last'.verdict = "verified" /\ last'.genuine
    BY <1>3, <1>6
  <2> QED
    BY <2>1, <2>2 DEF SignatureBindsExchange
<1>7. CASE /\ ~verified /\ tvr' = tvr \cup {"xda_signature_verification_failed"}
           /\ last' = [genuine |-> genuine, verdict |-> "rejected"] /\ UNCHANGED <<tsi, store>>
  <2>1. last'.verdict = "rejected" /\ ~last'.genuine /\ "xda_signature_verification_failed" \in tvr'
    BY <1>3, <1>7
  <2> QED
    BY <1>7, <2>1 DEF SignatureBindsExchange
<1> QED
  BY <1>4, <1>5, <1>6, <1>7

\* The answer to a GENERATE AC, of all kinds.
LEMMA ExchangeAnswered ==
    ASSUME ExchangeInvariant, NEW second \in BOOLEAN, Answered(second),
           heard' = RequestData(second, stash')
    PROVE  /\ SignatureBindsExchange' /\ card' = card
           /\ "APPLICATION_CRYPTOGRAM" \in store' => tsi' # {}
           /\ pc' \in {"Over", "Err"} \/ (~second /\ pc' = "SecondAc")
<1>1. card' = card
  BY DEF Answered, config
<1>2. CASE pc' = "Err" /\ UNCHANGED <<tvr, tsi, store, last>>
  <2>1. SignatureBindsExchange'
    BY <1>2, RecordKept DEF ExchangeInvariant
  <2> QED
    BY <1>1, <1>2, <2>1 DEF ExchangeInvariant
<1>3. ASSUME NEW cid \in {"AAC", "TC", "ARQC"}, NEW children \in Children,
             CdaAnswer(second, cid, children)
      PROVE  /\ SignatureBindsExchange'
             /\ "APPLICATION_CRYPTOGRAM" \in store' => tsi' # {}
             /\ pc' = "Over" \/ (~second /\ pc' = "SecondAc")
  <2>1. CASE pc' = "Over" /\ UNCHANGED <<tvr, tsi, store, last>>
    <3>1. SignatureBindsExchange'
      BY <2>1, RecordKept DEF ExchangeInvariant
    <3> QED
      BY <2>1, <3>1 DEF ExchangeInvariant
  <2>2. ASSUME NEW fault \in Faults, verify_cda_inner(second, cid, children, fault)
        PROVE  /\ SignatureBindsExchange'
               /\ "APPLICATION_CRYPTOGRAM" \in store' => tsi' # {}
               /\ pc' = "Over" \/ (~second /\ pc' = "SecondAc")
    BY <2>2, CdaBinds DEF ExchangeInvariant, After
  <2> QED
    BY <1>3, <2>1, <2>2 DEF CdaAnswer
<1>4. ASSUME NEW cid \in {"AAC", "TC", "ARQC"}, NEW children \in Children,
             XdaAnswer(second, cid, children)
      PROVE  /\ SignatureBindsExchange'
             /\ "APPLICATION_CRYPTOGRAM" \in store' => tsi' # {}
             /\ pc' = "Over" \/ (~second /\ pc' = "SecondAc")
  <2>1. PICK fault \in Faults \ {"layout", "cid", "hash"} :
           verify_xda_inner(second, cid, children, fault)
    BY <1>4 DEF XdaAnswer
  <2>2. pc' = "Over" \/ (~second /\ pc' = "SecondAc")
    BY <1>4 DEF XdaAnswer, After
  <2> QED
    BY <2>1, <2>2, XdaBinds DEF ExchangeInvariant
<1> QED
  BY <1>1, <1>2, <1>3, <1>4 DEF Answered

\* Every step preserves ExchangeInvariant.
LEMMA ExchangeStep == ExchangeInvariant /\ ChainInvariant /\ [Next]_vars => ExchangeInvariant'
<1> SUFFICES ASSUME ExchangeInvariant, ChainInvariant, [Next]_vars
             PROVE  ExchangeInvariant'
  OBVIOUS
<1>1. CASE perform_offline_data_authentication
  BY <1>1, ExchangeAuthentication
<1>2. CASE internal_authenticate
  BY <1>2, ExchangeInternalAuthenticate
<1>3. CASE first_generate_ac
  <2>1. /\ heard' = RequestData(FALSE, stash') /\ heard' = card.gpo \o stash'.cdol1
        /\ stash' \in [cdol1 : Seq(STRING), cdol2 : Seq(STRING)]
    BY <1>3, HeardIsSent
  <2>2. /\ SignatureBindsExchange' /\ card' = card
        /\ "APPLICATION_CRYPTOGRAM" \in store' => tsi' # {}
        /\ pc' \in {"Over", "Err", "SecondAc"}
    BY <1>3, <2>1, ExchangeAnswered DEF first_generate_ac
  <2> QED
    BY <2>1, <2>2 DEF ExchangeInvariant
<1>4. CASE second_generate_ac
  <2>1. /\ heard' = RequestData(TRUE, stash')
        /\ stash' \in [cdol1 : Seq(STRING), cdol2 : Seq(STRING)]
    BY <1>4, HeardIsSent
  <2>2. /\ SignatureBindsExchange' /\ card' = card
        /\ "APPLICATION_CRYPTOGRAM" \in store' => tsi' # {}
        /\ pc' \in {"Over", "Err"}
    BY <1>4, <2>1, ExchangeAnswered DEF second_generate_ac
  <2> QED
    BY <2>1, <2>2 DEF ExchangeInvariant
<1>5. CASE UNCHANGED vars
  <2>1. UNCHANGED <<card, terminal, pc, tvr, tsi, store, stash, heard, last>>
    BY <1>5 DEF vars, config
  <2>2. SignatureBindsExchange'
    BY <2>1, RecordKept DEF ExchangeInvariant
  <2>3. Ddol' = Ddol
    BY <2>1 DEF Ddol, Has
  <2> QED
    BY <2>1, <2>2, <2>3 DEF ExchangeInvariant
<1>6. CASE Ended
  BY <1>5, <1>6 DEF Ended
<1> QED
  BY <1>1, <1>2, <1>3, <1>4, <1>5, <1>6 DEF Next

\* verify_dda, verify_cda and verify_xda accept a signature if and only if the
\* certified key made it over both GENERATE ACs and both answers, whatever the
\* data are and whatever a faulty card spoils; the verdict is on record.
THEOREM SignatureBindsExchangeAlways == Spec => []SignatureBindsExchange
<1> DEFINE Inv == ExchangeInvariant /\ ChainInvariant /\ MethodInvariant
<1>1. Init => Inv
  BY ExchangeInit, ChainInit, InitMethod
<1>2. Inv /\ [Next]_vars => Inv'
  BY ExchangeStep, ChainStep, MethodStep
<1>3. Inv => SignatureBindsExchange
  BY DEF ExchangeInvariant
<1> QED
  BY <1>1, <1>2, <1>3, PTL DEF Spec
=============================================================================
