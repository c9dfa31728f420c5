---------------------------- MODULE CardData_proofs ----------------------------
(***************************************************************************)
(* Theorems about CardData, for every card and terminal the assumptions of *)
(* that module describe: whatever the application's records hold, in       *)
(* whatever form the card encodes their lengths, the terminal asks for     *)
(* them as the locator lists them, keeps what they hold, byte by byte, and *)
(* decides by the action codes among them.                                 *)
(*                                                                         *)
(* The parsers are recursive functions.  Induction is over sets of numbers *)
(* here (EveryNumber), and a recursion is what its definition says once a  *)
(* function that satisfies it has been put together length by length       *)
(* (RecursionUpTo, ParserExists, ListerExists).                            *)
(***************************************************************************)
EXTENDS CardData, SequenceTheorems, WellFoundedInduction, TLAPS
-----------------------------------------------------------------------------
(* Numbers, and definitions by recursion over them. *)

\* A set of numbers that is not empty has a least.
LEMMA LeastOf ==
    ASSUME NEW T, T \subseteq Nat, T # {}
    PROVE  \E x \in T : \A y \in T : x <= y
<1>1. OpToRel(<, Nat) = {ss \in Nat \X Nat : ss[1] < ss[2]}
  BY DEF OpToRel
<1>2. PICK x \in T : \A y \in T : <<y, x>> \notin OpToRel(<, Nat)
  BY NatLessThanWellFounded, WFMin
<1>3. \A y \in T : ~(y < x)
  BY <1>1, <1>2
<1>4. \A y \in T : x <= y
  BY <1>3
<1> QED
  BY <1>4

\* Induction, over a set of numbers; and from all smaller numbers.
LEMMA EveryNumber ==
    ASSUME NEW S, 0 \in S, \A n \in Nat : n \in S => n + 1 \in S
    PROVE  Nat \subseteq S
<1> DEFINE T == Nat \ S
<1> SUFFICES ASSUME T # {} PROVE FALSE
  OBVIOUS
<1>1. PICK x \in T : \A y \in T : x <= y
  BY LeastOf
<1>2. x - 1 \in Nat /\ ~(x <= x - 1)
  OBVIOUS
<1> QED
  BY <1>1, <1>2

\* The same from all smaller numbers.
LEMMA EveryNumberFromBelow ==
    ASSUME NEW S, \A n \in Nat : (\A m \in Nat : m < n => m \in S) => n \in S
    PROVE  Nat \subseteq S
<1> DEFINE T == Nat \ S
<1> SUFFICES ASSUME T # {} PROVE FALSE
  OBVIOUS
<1>1. PICK x \in T : \A y \in T : x <= y
  BY LeastOf
<1>2. \A m \in Nat : m < x => m \in S
  BY <1>1
<1> QED
  BY <1>1, <1>2

\* Two functions that start alike and go on alike are alike.
LEMMA AlikeUpTo ==
    ASSUME NEW f, NEW g, NEW last \in Nat, f[0] = g[0],
           \A n \in 1..last : f[n - 1] = g[n - 1] => f[n] = g[n]
    PROVE  \A n \in 0..last : f[n] = g[n]
<1> DEFINE S == {n \in Nat : n <= last => f[n] = g[n]}
<1>1. 0 \in S
  OBVIOUS
<1>2. ASSUME NEW n \in Nat, n \in S PROVE n + 1 \in S
  <2> SUFFICES ASSUME n + 1 <= last PROVE f[n + 1] = g[n + 1]
    OBVIOUS
  <2>1. f[n] = g[n] /\ n + 1 \in 1..last /\ (n + 1) - 1 = n
    BY <1>2
  <2> QED
    BY <2>1
<1>3. Nat \subseteq S
  <2> HIDE DEF S
  <2> QED
    BY <1>1, <1>2, EveryNumber
<1> QED
  BY <1>3
\* There is a sequence of values each got from the one before it.
Goes(f, base, last, G) == f[0] = base /\ \A n \in 1..last : f[n] = G[<<n, f[n - 1]>>]

\* For every base and every step there is one.
LEMMA RecursionUpTo ==
    ASSUME NEW V, NEW base \in V, NEW last \in Nat, NEW G \in [(1..last) \X V -> V]
    PROVE  \E f \in [0..last -> V] : Goes(f, base, last, G)
<1> DEFINE Good(f, m) == Goes(f, base, m, G)
           S == {m \in Nat : m <= last => \E f \in [0..m -> V] : Good(f, m)}
<1>1. 0 \in S
  <2> DEFINE f == [n \in 0..0 |-> base]
  <2>1. f \in [0..0 -> V] /\ Good(f, 0)
    BY DEF Goes
  <2> QED
    BY <2>1
<1>2. ASSUME NEW m \in Nat, m \in S PROVE m + 1 \in S
  <2> SUFFICES ASSUME m + 1 <= last PROVE \E f \in [0..(m + 1) -> V] : Good(f, m + 1)
    OBVIOUS
  <2>1. PICK f \in [0..m -> V] : Good(f, m)
    BY <1>2
  <2>2. f[m] \in V /\ m + 1 \in 1..last
    OBVIOUS
  <2> DEFINE next == G[<<m + 1, f[m]>>]
             g == [n \in 0..(m + 1) |-> IF n <= m THEN f[n] ELSE next]
  <2>3. next \in V
    BY <2>2
  <2> HIDE DEF next
  <2>4. g \in [0..(m + 1) -> V]
    BY <2>3
  <2>5. (\A n \in 0..m : g[n] = f[n]) /\ g[m + 1] = next
    <3>1. \A n \in 0..m : n \in 0..(m + 1) /\ n <= m
      OBVIOUS
    <3>2. m + 1 \in 0..(m + 1) /\ ~(m + 1 <= m)
      OBVIOUS
    <3> QED
      BY <3>1, <3>2
  <2> HIDE DEF g
  <2>6. \A n \in 1..m : g[n] = G[<<n, g[n - 1]>>]
    <3>1. \A n \in 1..m : n \in 0..m /\ n - 1 \in 0..m
      OBVIOUS
    <3> QED
      BY <2>1, <2>5, <3>1 DEF Goes
  <2>7. g[m + 1] = G[<<m + 1, g[(m + 1) - 1]>>]
    <3>1. (m + 1) - 1 = m /\ m \in 0..m
      OBVIOUS
    <3> QED
      BY <2>5, <3>1 DEF next
  <2>8. g[0] = base
    <3>1. 0 \in 0..m
      OBVIOUS
    <3> QED
      BY <2>1, <2>5, <3>1 DEF Goes
  <2>9. \A n \in 1..(m + 1) : n \in 1..m \/ n = m + 1
    OBVIOUS
  <2>10. Good(g, m + 1)
    BY <2>6, <2>7, <2>8, <2>9 DEF Goes
  <2> QED
    BY <2>4, <2>10
<1>3. Nat \subseteq S
  <2> HIDE DEF S
  <2> QED
    BY <1>1, <1>2, EveryNumber
<1>4. last \in S /\ last <= last
  <2> HIDE DEF S
  <2> QED
    BY <1>3
<1> QED
  BY <1>4
-----------------------------------------------------------------------------
(* Joined. *)

\* What Joined makes of more and more of the strings.
Row(row, strings) ==
    /\ row[0] = <<>>
    /\ \A n \in 1..Len(strings) : row[n] = row[n - 1] \o strings[n]
    /\ Joined(strings) = row[Len(strings)]

\* Joined is the last of the rows its definition speaks of.
LEMMA JoinedRow ==
    ASSUME NEW S, NEW strings \in Seq(Seq(S))
    PROVE  \E row \in [0..Len(strings) -> Seq(S)] : Row(row, strings)
<1> DEFINE last == Len(strings)
           G == [p \in (1..last) \X Seq(S) |-> p[2] \o strings[p[1]]]
           row == CHOOSE f : f = [n \in 0..last |-> IF n = 0 THEN <<>> ELSE f[n - 1] \o strings[n]]
<1>1. last \in Nat /\ <<>> \in Seq(S)
  BY LenProperties, EmptySeq
<1>2. \A n \in 1..last : \A s \in Seq(S) : s \o strings[n] \in Seq(S)
  <2> SUFFICES ASSUME NEW n \in 1..last, NEW s \in Seq(S) PROVE s \o strings[n] \in Seq(S)
    OBVIOUS
  <2>1. strings[n] \in Seq(S)
    BY ElementOfSeq
  <2> QED
    BY <2>1, ConcatProperties
<1>3. G \in [(1..last) \X Seq(S) -> Seq(S)]
  <2>1. \A p \in (1..last) \X Seq(S) : p[2] \o strings[p[1]] \in Seq(S)
    BY <1>2
  <2> QED
    BY <2>1
<1>4. \A n \in 1..last : \A s \in Seq(S) : G[<<n, s>>] = s \o strings[n]
  OBVIOUS
<1> HIDE DEF G
<1>5. PICK f \in [0..last -> Seq(S)] : Goes(f, <<>>, last, G)
  <2> HIDE DEF last
  <2>1. PICK V : V = Seq(S)
    OBVIOUS
  <2>2. G \in [(1..last) \X V -> V] /\ <<>> \in V
    BY <1>1, <1>3, <2>1
  <2>3. \E f \in [0..last -> V] : Goes(f, <<>>, last, G)
    BY <1>1, <2>2, RecursionUpTo
  <2> QED
    BY <2>1, <2>3
<1>6. \A n \in 1..last : n - 1 \in 0..last
  BY <1>1
<1>7. \A n \in 1..last : f[n] = f[n - 1] \o strings[n]
  BY <1>4, <1>5, <1>6 DEF Goes
<1>8. \A n \in 0..last : f[n] = (IF n = 0 THEN <<>> ELSE f[n - 1] \o strings[n])
  <2>1. \A n \in 0..last : n = 0 \/ n \in 1..last
    BY <1>1
  <2> QED
    BY <1>5, <1>7, <2>1 DEF Goes
<1>9. f = [n \in 0..last |-> IF n = 0 THEN <<>> ELSE f[n - 1] \o strings[n]]
  BY <1>8
<1>10. row = [n \in 0..last |-> IF n = 0 THEN <<>> ELSE row[n - 1] \o strings[n]]
  BY <1>9
<1>11. Joined(strings) = row[last]
  BY DEF Joined
<1> HIDE DEF row
<1>12. \A n \in 0..last : row[n] = (IF n = 0 THEN <<>> ELSE row[n - 1] \o strings[n])
  BY <1>10
<1>13. row[0] = <<>>
  <2>1. 0 \in 0..last
    BY <1>1
  <2>2. row[0] = (IF 0 = 0 THEN <<>> ELSE row[0 - 1] \o strings[0])
    BY <1>12, <2>1
  <2> QED
    BY <2>2
<1>14. \A n \in 1..last : row[n] = row[n - 1] \o strings[n]
  <2>1. \A n \in 1..last : n \in 0..last /\ n # 0
    BY <1>1
  <2> QED
    BY <1>12, <2>1
<1>15. \A n \in 0..last : f[n] = row[n]
  <2>1. f[0] = row[0]
    BY <1>5, <1>13 DEF Goes
  <2>2. \A n \in 1..last : f[n - 1] = row[n - 1] => f[n] = row[n]
    BY <1>7, <1>14
  <2> QED
    BY <1>1, <2>1, <2>2, AlikeUpTo
<1>16. Row(f, strings)
  <2>1. last \in 0..last
    BY <1>1
  <2> QED
    BY <1>5, <1>7, <1>11, <1>15, <2>1 DEF Row, Goes
<1> QED
  BY <1>16

\* Joined over no string is the empty one.
LEMMA JoinedNone == Joined(<<>>) = <<>>
<1>1. Len(<<>>) = 0 /\ <<>> \in Seq(Seq({}))
  BY EmptySeq
<1>2. PICK row : Row(row, <<>>)
  BY <1>1, JoinedRow
<1> QED
  BY <1>1, <1>2 DEF Row

\* Joined of one more string has that string at its end.
LEMMA JoinedAppend ==
    ASSUME NEW S, NEW strings \in Seq(Seq(S)), NEW one \in Seq(S)
    PROVE  Joined(Append(strings, one)) = Joined(strings) \o one
<1> DEFINE longer == Append(strings, one)
           last == Len(strings)
<1>1. /\ last \in Nat /\ Len(longer) = last + 1 /\ longer[last + 1] = one
      /\ longer \in Seq(Seq(S))
  BY LenProperties, AppendProperties
<1>2. \A n \in 1..last : longer[n] = strings[n]
  BY AppendProperties
<1> HIDE DEF longer
<1>3. PICK f : Row(f, strings)
  BY JoinedRow
<1>4. PICK g : Row(g, longer)
  BY <1>1, JoinedRow
<1>5. f[0] = g[0] /\ \A n \in 1..last : f[n - 1] = g[n - 1] => f[n] = g[n]
  <2>1. \A n \in 1..last : n \in 1..(last + 1)
    BY <1>1
  <2> QED
    BY <1>1, <1>2, <1>3, <1>4, <2>1 DEF Row
<1>6. f[last] = g[last]
  <2>1. \A n \in 0..last : f[n] = g[n]
    BY <1>1, <1>5, AlikeUpTo
  <2> QED
    BY <1>1, <2>1
<1>7. last + 1 \in 1..(last + 1) /\ (last + 1) - 1 = last
  BY <1>1
<1> QED
  BY <1>1, <1>3, <1>4, <1>6, <1>7 DEF Row, longer

\* Induction over sequences, from the end.
LEMMA EverySequence ==
    ASSUME NEW S, NEW T, <<>> \in T, \A s \in Seq(S) : \A e \in S : s \in T => Append(s, e) \in T
    PROVE  Seq(S) \subseteq T
<1> DEFINE N == {n \in Nat : \A s \in Seq(S) : Len(s) = n => s \in T}
<1>1. 0 \in N
  <2>1. \A s \in Seq(S) : Len(s) = 0 => s = <<>>
    OBVIOUS
  <2> QED
    BY <2>1
<1>2. ASSUME NEW n \in Nat, n \in N PROVE n + 1 \in N
  <2> SUFFICES ASSUME NEW s \in Seq(S), Len(s) = n + 1 PROVE s \in T
    OBVIOUS
  <2>1. s # <<>>
    OBVIOUS
  <2>2. PICK r \in Seq(S), e \in S : s = Append(r, e)
    BY <2>1, SequenceEmptyOrAppend
  <2>3. Len(r) = n
    BY <2>2
  <2>4. r \in T
    BY <1>2, <2>3
  <2> QED
    BY <2>2, <2>4
<1>3. Nat \subseteq N
  <2> HIDE DEF N
  <2> QED
    BY <1>1, <1>2, EveryNumber
<1>4. \A s \in Seq(S) : Len(s) \in N
  BY <1>3
<1> QED
  BY <1>4

\* Strings over a set, joined, are a string over it.
LEMMA JoinedType ==
    ASSUME NEW S, NEW strings \in Seq(Seq(S))
    PROVE  Joined(strings) \in Seq(S)
<1> DEFINE T == {s \in Seq(Seq(S)) : Joined(s) \in Seq(S)}
<1>1. <<>> \in T
  BY JoinedNone, EmptySeq
<1>2. ASSUME NEW s \in Seq(Seq(S)), NEW e \in Seq(S), s \in T PROVE Append(s, e) \in T
  <2>1. Append(s, e) \in Seq(Seq(S))
    OBVIOUS
  <2>2. Joined(Append(s, e)) = Joined(s) \o e
    BY JoinedAppend
  <2>3. Joined(s) \o e \in Seq(S)
    BY <1>2, ConcatProperties
  <2> QED
    BY <2>1, <2>2, <2>3
<1>3. Seq(Seq(S)) \subseteq T
  <2> HIDE DEF T
  <2> QED
    BY <1>1, <1>2, EverySequence
<1> QED
  BY <1>3

\* Joined begins with the first string and goes on with the others joined.
LEMMA JoinedFirst ==
    ASSUME NEW S, NEW one \in Seq(S), NEW strings \in Seq(Seq(S))
    PROVE  Joined(<<one>> \o strings) = one \o Joined(strings)
<1> DEFINE T == {s \in Seq(Seq(S)) : Joined(<<one>> \o s) = one \o Joined(s)}
<1>0. <<one>> \in Seq(Seq(S)) /\ Joined(<<one>>) = one
  <2>1. <<one>> = Append(<<>>, one)
    OBVIOUS
  <2>1a. <<>> \in Seq(Seq(S)) /\ <<one>> \in Seq(Seq(S))
    BY <2>1, EmptySeq, AppendProperties
  <2>2. Joined(<<one>>) = <<>> \o one
    BY <2>1, <2>1a, JoinedAppend, JoinedNone
  <2> QED
    BY <2>1a, <2>2, ConcatEmptySeq
<1>1. <<>> \in T
  <2>1. <<one>> \o <<>> = <<one>>
    OBVIOUS
  <2> QED
    BY <1>0, <2>1, JoinedNone, ConcatEmptySeq
<1>2. ASSUME NEW s \in Seq(Seq(S)), NEW e \in Seq(S), s \in T PROVE Append(s, e) \in T
  <2>1. <<one>> \o Append(s, e) = Append(<<one>> \o s, e)
    BY <1>0
  <2>2. <<one>> \o s \in Seq(Seq(S)) /\ Append(s, e) \in Seq(Seq(S))
    BY <1>0
  <2>3. Joined(<<one>> \o Append(s, e)) = (one \o Joined(s)) \o e
    BY <1>2, <2>1, <2>2, JoinedAppend
  <2>4. Joined(Append(s, e)) = Joined(s) \o e
    BY JoinedAppend
  <2>5. Joined(s) \in Seq(S)
    BY JoinedType
  <2>6. (one \o Joined(s)) \o e = one \o (Joined(s) \o e)
    BY <2>5, ConcatAssociative
  <2> QED
    BY <2>2, <2>3, <2>4, <2>6
<1>3. Seq(Seq(S)) \subseteq T
  <2> HIDE DEF T
  <2> QED
    BY <1>1, <1>2, EverySequence
<1> QED
  BY <1>3

-----------------------------------------------------------------------------
(* Objects. *)

\* Bytes are numbers.
LEMMA ByteIsNat == \A b \in Byte : b \in Nat /\ b < 256
BY DEF Byte

\* Strings of bytes can be put together from either side.
LEMMA BytesAssociate ==
    \A a, b, c \in Seq(Byte) : (a \o b) \o c = a \o (b \o c)
BY ConcatAssociative

\* Strings as long as each other and alike everywhere are the same.
LEMMA AlikeToTheEnd ==
    \A last \in Nat : \A g, h :
      (g[0] = h[0] /\ \A n \in 1..last : g[n - 1] = h[n - 1] => g[n] = h[n]) => g[last] = h[last]
<1> TAKE last \in Nat
<1> TAKE g, h
<1>0. last \in 0..last
  OBVIOUS
<1> SUFFICES ASSUME g[0] = h[0], \A n \in 1..last : g[n - 1] = h[n - 1] => g[n] = h[n]
             PROVE  g[last] = h[last]
  OBVIOUS
<1>1. \A n \in 0..last : g[n] = h[n]
  BY AlikeUpTo
<1> QED
  BY <1>0, <1>1

\* A value is not None, and can be unwrapped.
LEMMA OfSome == \A x : Some(x) # None /\ Unwrap(Some(x)) = x
BY DEF Some, None, Unwrap

\* What is in the front of a string, and behind it.
LEMMA FrontAndRest ==
    ASSUME NEW S, NEW s \in Seq(S), NEW t \in Seq(S)
    PROVE  /\ SubSeq(s \o t, 1, Len(s)) = s
           /\ SubSeq(s \o t, Len(s) + 1, Len(s \o t)) = t
<1>1. /\ s \o t \in Seq(S) /\ Len(s \o t) = Len(s) + Len(t)
      /\ \A i \in 1..(Len(s) + Len(t)) : (s \o t)[i] = IF i <= Len(s) THEN s[i] ELSE t[i - Len(s)]
  BY ConcatProperties
<1>2. Len(s) \in Nat /\ Len(t) \in Nat /\ s \in [1..Len(s) -> S] /\ t \in [1..Len(t) -> S]
  BY LenProperties
<1> DEFINE data == s \o t
<1>3. /\ \A i \in 1..Len(s) : data[i] = s[i]
      /\ \A i \in 1..Len(t) : data[Len(s) + i] = t[i]
  <2>1. \A i \in 1..Len(s) : i \in 1..(Len(s) + Len(t)) /\ i <= Len(s)
    BY <1>2
  <2>2. \A i \in 1..Len(t) : /\ Len(s) + i \in 1..(Len(s) + Len(t)) /\ ~(Len(s) + i <= Len(s))
                             /\ (Len(s) + i) - Len(s) = i
    BY <1>2
  <2> QED
    BY <1>1, <2>1, <2>2
<1> HIDE DEF data
<1>4. SubSeq(data, 1, Len(s)) = s
  <2>1. /\ SubSeq(data, 1, Len(s)) \in Seq(S) /\ Len(SubSeq(data, 1, Len(s))) = Len(s)
        /\ \A i \in 1..Len(s) : SubSeq(data, 1, Len(s))[i] = data[i]
    <3>1. \A i \in 1..Len(s) : data[i] \in S
      BY <1>2, <1>3
    <3> QED
      BY <1>2, <3>1, SubSeqProperties
  <2> QED
    BY <1>3, <2>1, SeqEqual
<1>5. SubSeq(data, Len(s) + 1, Len(s) + Len(t)) = t
  <2> DEFINE m == Len(s) + 1
             n == Len(s) + Len(t)
             part == SubSeq(data, m, n)
  <2>1. m \in Int /\ n \in Int
    BY <1>2
  <2>2. \A i \in m..n : data[i] \in S
    <3>1. \A i \in m..n : i - Len(s) \in 1..Len(t) /\ Len(s) + (i - Len(s)) = i
      BY <1>2
    <3> QED
      BY <1>2, <1>3, <3>1
  <2>3. /\ part \in Seq(S) /\ Len(part) = IF m <= n THEN (n - m) + 1 ELSE 0
        /\ \A i \in 1..((n - m) + 1) : part[i] = data[(m + i) - 1]
    BY <2>1, <2>2, SubSeqProperties
  <2>4. Len(part) = Len(t)
    BY <1>2, <2>3
  <2>5. \A i \in 1..Len(t) : part[i] = t[i]
    <3>1. \A i \in 1..Len(t) : i \in 1..((n - m) + 1) /\ (m + i) - 1 = Len(s) + i
      BY <1>2
    <3> HIDE DEF part
    <3> QED
      BY <1>3, <2>3, <3>1
  <2> HIDE DEF part
  <2>6. part = t
    BY <2>3, <2>4, <2>5, SeqEqual
  <2> QED
    BY <2>6 DEF part
<1> QED
  BY <1>1, <1>4, <1>5 DEF data

\* The tag at the start of a string is read.
LEMMA TagParses ==
    ASSUME NEW tag, IsTag(tag), NEW rest \in Seq(Byte)
    PROVE  ParseTag(tag \o rest) = Some(tag)
<1> DEFINE data == tag \o rest
           ends == {i \in 2..4 : i <= Len(data) /\ data[i] < 128}
<1>0. PICK n : n = Len(tag)
  OBVIOUS
<1>1. tag \in Seq(Byte) /\ n \in Nat /\ n > 0
  BY <1>0, LenProperties DEF IsTag
<1>2. /\ data \in Seq(Byte) /\ Len(data) = n + Len(rest) /\ Len(rest) \in Nat
      /\ \A i \in 1..n : data[i] = tag[i]
  <2>1. /\ data \in Seq(Byte) /\ Len(data) = n + Len(rest) /\ Len(rest) \in Nat
        /\ \A i \in 1..(n + Len(rest)) : data[i] = IF i <= n THEN tag[i] ELSE rest[i - n]
    BY <1>0, <1>1, ConcatProperties, LenProperties
  <2>2. \A i \in 1..n : i \in 1..(n + Len(rest)) /\ i <= n
    BY <1>1, <2>1
  <2> QED
    BY <2>1, <2>2
<1>3. data # <<>> /\ data[1] = tag[1]
  BY <1>1, <1>2
<1>4. First(data, n) = tag
  BY <1>0, <1>1, FrontAndRest DEF First
<1>5. CASE tag[1] % 32 # 31
  <2>1. n = 1
    BY <1>0, <1>5 DEF IsTag
  <2> HIDE DEF data
  <2> QED
    BY <1>3, <1>4, <1>5, <2>1 DEF ParseTag, data
<1>6. CASE tag[1] % 32 = 31
  <2>1. n \in 2..4 /\ \A i \in 2..n : tag[i] < 128 <=> i = n
    BY <1>0, <1>6 DEF IsTag
  <2>2. n \in ends
    <3>1. n \in 2..n /\ n \in 1..n /\ n <= Len(data)
      BY <1>2, <2>1
    <3>2. data[n] = tag[n]
      BY <1>2, <3>1
    <3>2a. tag[n] < 128
      BY <2>1, <3>1
    <3> QED
      BY <2>1, <3>1, <3>2, <3>2a
  <2>3. \A j \in ends : n <= j
    <3> SUFFICES ASSUME NEW j \in ends, j < n PROVE FALSE
      BY <2>1
    <3>1. j \in 2..n /\ j \in 1..n /\ j # n /\ data[j] < 128
      BY <2>1
    <3> QED
      BY <1>2, <2>1, <3>1
  <2>4. ends \subseteq Int /\ n \in Int
    BY <2>1
  <2> HIDE DEF ends, data
  <2>5. (CHOOSE i \in ends : \A j \in ends : i <= j) = n
    <3>1. \A i \in ends : (\A j \in ends : i <= j) => i = n
      BY <2>2, <2>3, <2>4
    <3> QED
      BY <2>2, <2>3, <3>1
  <2>6. Check(ends # {}, Some(First(data, CHOOSE i \in ends : \A j \in ends : i <= j))) = Some(tag)
    BY <1>4, <2>2, <2>5 DEF Check
  <2> USE DEF ends
  <2> QED
    BY <1>3, <1>6, <2>6 DEF ParseTag, data
<1> QED
  BY <1>5, <1>6

\* A number of up to four bytes that has only its last.
LEMMA NumberOfOne ==
    ASSUME NEW bytes \in Seq(Byte), NEW last \in 1..4, last = Len(bytes),
           \A i \in 1..(last - 1) : bytes[i] = 0
    PROVE  Number(bytes) = bytes[last]
<1> DEFINE f == [n \in 0..last |-> IF n = last THEN bytes[n] ELSE 0]
           upTo == CHOOSE g : g = [n \in 0..last |->
                                     IF n = 0 THEN 0 ELSE (256 * g[n - 1]) + bytes[n]]
<1>1. \A i \in 1..last : bytes[i] \in Int
  <2>1. \A i \in 1..last : bytes[i] \in Byte
    BY ElementOfSeq
  <2> QED
    BY <2>1, ByteIsNat
<1>2. \A n \in 0..last : f[n] = IF n = last THEN bytes[n] ELSE 0
  OBVIOUS
<1> HIDE DEF f
<1>3. \A n \in 0..last : f[n] = (IF n = 0 THEN 0 ELSE (256 * f[n - 1]) + bytes[n])
  <2>1. f[0] = 0
    <3>1. 0 \in 0..last /\ 0 # last
      OBVIOUS
    <3> QED
      BY <1>2, <3>1
  <2>2. ASSUME NEW n \in 1..last PROVE f[n] = (256 * f[n - 1]) + bytes[n]
    <3>1. n - 1 \in 0..last /\ n - 1 # last /\ n \in 0..last
      OBVIOUS
    <3>2. f[n - 1] = 0
      BY <1>2, <3>1
    <3>3. f[n] = bytes[n]
      <4>1. n # last => n \in 1..(last - 1)
        OBVIOUS
      <4> QED
        BY <1>2, <3>1, <4>1
    <3> QED
      BY <1>1, <3>2, <3>3
  <2>3. \A n \in 0..last : n = 0 \/ n \in 1..last
    OBVIOUS
  <2> QED
    BY <2>1, <2>2, <2>3
<1>4. f = [n \in 0..last |-> IF n = 0 THEN 0 ELSE (256 * f[n - 1]) + bytes[n]]
  <2>1. f = [n \in 0..last |-> f[n]]
    BY DEF f
  <2> QED
    BY <1>3, <2>1
<1>5. upTo = [n \in 0..last |-> IF n = 0 THEN 0 ELSE (256 * upTo[n - 1]) + bytes[n]]
  BY <1>4
<1>6. Number(bytes) = upTo[last]
  BY DEF Number
<1> HIDE DEF upTo
<1>7. \A n \in 0..last : upTo[n] = (IF n = 0 THEN 0 ELSE (256 * upTo[n - 1]) + bytes[n])
  BY <1>5
<1>8. f[0] = upTo[0] /\ \A n \in 1..last : f[n - 1] = upTo[n - 1] => f[n] = upTo[n]
  <2>1. \A n \in 1..last : n \in 0..last /\ n # 0
    OBVIOUS
  <2>2. 0 \in 0..last
    OBVIOUS
  <2> QED
    BY <1>3, <1>7, <2>1, <2>2
<1>9. f[last] = upTo[last]
  BY <1>8, AlikeToTheEnd
<1>10. f[last] = bytes[last]
  BY <1>2
<1> QED
  BY <1>6, <1>9, <1>10

\* The length at the start of a string is read.
LEMMA LengthParses ==
    ASSUME NEW n \in 0..255, NEW length \in Lengths(n), NEW rest \in Seq(Byte)
    PROVE  /\ length \in Seq(Byte) /\ Len(length) \in 1..5
           /\ ParseLength(length \o rest) = Some([length |-> n, size |-> Len(length)])
<1> DEFINE data == length \o rest
<1>1. n \in Byte /\ 0 \in Byte /\ 129 \in Byte /\ 130 \in Byte /\ 131 \in Byte /\ 132 \in Byte
  BY DEF Byte
<1>2. \/ n < 128 /\ length = <<n>>
      \/ length = <<129, n>>
      \/ length = <<130, 0, n>>
      \/ length = <<131, 0, 0, n>>
      \/ length = <<132, 0, 0, 0, n>>
  BY DEF Lengths
<1>3. length \in Seq(Byte) /\ Len(length) \in 1..5
  <2>1. /\ <<n>> \in Seq(Byte) /\ <<129, n>> \in Seq(Byte) /\ <<130, 0, n>> \in Seq(Byte)
        /\ <<131, 0, 0, n>> \in Seq(Byte) /\ <<132, 0, 0, 0, n>> \in Seq(Byte)
    BY <1>1
  <2>2. /\ Len(<<n>>) = 1 /\ Len(<<129, n>>) = 2 /\ Len(<<130, 0, n>>) = 3
        /\ Len(<<131, 0, 0, n>>) = 4 /\ Len(<<132, 0, 0, 0, n>>) = 5
    OBVIOUS
  <2>3. length \in Seq(Byte)
    BY <1>2, <2>1
  <2>4. Len(length) \in 1..5
    BY <1>2, <2>2
  <2> QED
    BY <2>3, <2>4
<1>4. PICK k \in 1..5 : k = Len(length)
  BY <1>3
<1>5. /\ data \in Seq(Byte) /\ Len(data) = k + Len(rest) /\ Len(rest) \in Nat
      /\ \A i \in 1..k : data[i] = length[i]
  <2>1. /\ data \in Seq(Byte) /\ Len(data) = k + Len(rest) /\ Len(rest) \in Nat
        /\ \A i \in 1..(k + Len(rest)) : data[i] = IF i <= k THEN length[i] ELSE rest[i - k]
    BY <1>3, <1>4, ConcatProperties, LenProperties
  <2>2. \A i \in 1..k : i \in 1..(k + Len(rest)) /\ i <= k
    BY <1>4, <2>1
  <2> QED
    BY <2>1, <2>2
<1>6. data # <<>> /\ data[1] = length[1]
  BY <1>4, <1>5
<1> HIDE DEF data
<1>7. CASE n < 128 /\ length = <<n>>
  <2>1. data[1] = n /\ Len(length) = 1
    BY <1>6, <1>7
  <2> QED
    BY <1>3, <1>6, <1>7, <2>1 DEF ParseLength, data
<1>8. CASE length \in {<<129, n>>, <<130, 0, n>>, <<131, 0, 0, n>>, <<132, 0, 0, 0, n>>}
  <2>1. /\ k \in 2..5 /\ length[1] = 127 + k /\ length[k] = n
        /\ \A i \in 2..(k - 1) : length[i] = 0
    <3>1. CASE length = <<129, n>>
      BY <1>4, <3>1
    <3>2. CASE length = <<130, 0, n>>
      BY <1>4, <3>2
    <3>3. CASE length = <<131, 0, 0, n>>
      BY <1>4, <3>3
    <3>4. CASE length = <<132, 0, 0, 0, n>>
      BY <1>4, <3>4
    <3> QED
      BY <1>8, <3>1, <3>2, <3>3, <3>4
  <2> DEFINE part == SubSeq(data, 2, k)
  <2>2. /\ part \in Seq(Byte) /\ Len(part) = k - 1 /\ k - 1 \in 1..4
        /\ \A i \in 1..(k - 1) : part[i] = length[i + 1]
    <3>1. \A i \in 2..k : data[i] \in Byte /\ i \in 1..k
      <4>1. \A i \in 2..k : i \in 1..Len(data)
        BY <1>5
      <4> QED
        BY <1>5, <4>1, ElementOfSeq
    <3>2. /\ part \in Seq(Byte) /\ Len(part) = (IF 2 <= k THEN (k - 2) + 1 ELSE 0)
          /\ \A i \in 1..((k - 2) + 1) : part[i] = data[(2 + i) - 1]
      BY <3>1, SubSeqProperties
    <3>3. \A i \in 1..(k - 1) : i \in 1..((k - 2) + 1) /\ (2 + i) - 1 = i + 1 /\ i + 1 \in 2..k
      OBVIOUS
    <3>4. (k - 2) + 1 = k - 1 /\ k - 1 \in 1..4 /\ 2 <= k
      BY <2>1
    <3> HIDE DEF part
    <3> QED
      BY <1>5, <3>1, <3>2, <3>3, <3>4
  <2> HIDE DEF part
  <2>3. Number(part) = n
    <3>1. PICK m \in 1..4 : m = k - 1
      BY <2>2
    <3>2. \A i \in 1..(m - 1) : part[i] = 0
      <4>1. \A i \in 1..(m - 1) : i \in 1..(k - 1) /\ i + 1 \in 2..(k - 1)
        BY <3>1
      <4> QED
        BY <2>1, <2>2, <4>1
    <3>3. part[m] = n
      BY <2>1, <2>2, <3>1
    <3> QED
      BY <2>2, <3>1, <3>2, <3>3, NumberOfOne
  <2>4. data[1] = 127 + k /\ ~(data[1] < 128) /\ data[1] - 128 = k - 1 /\ (k - 1) + 1 = k
    BY <1>6, <2>1
  <2>5. k - 1 \in 1..4 /\ Len(data) > k - 1
    BY <1>5, <2>2
  <2>6. ParseLength(data) = Some([length |-> Number(SubSeq(data, 2, k)), size |-> k])
    BY <1>6, <2>4, <2>5 DEF ParseLength, Check
  <2> QED
    BY <1>3, <1>4, <2>3, <2>6 DEF part, data
<1> QED
  BY <1>2, <1>7, <1>8

\* The object at the start of a string is found.
LEMMA ObjectParses ==
    ASSUME NEW object, NEW tag, NEW value, Holds(object, tag, value), NEW rest \in Seq(Byte)
    PROVE  LET data == object \o rest
               first == (Len(object) - Len(value)) + 1
           IN  /\ object \in Seq(Byte) /\ Len(object) > Len(value) + Len(tag) /\ object[1] # 0
               /\ NodeHeader(data) = Some([tag |-> tag, first |-> first, last |-> Len(object)])
               /\ SubSeq(data, first, Len(object)) = value
<1>1. IsTag(tag) /\ value \in Seq(Byte) /\ tag \in Seq(Byte) /\ tag # <<>> /\ tag[1] # 0
  BY DEF Holds, IsTag
<1>2. PICK length \in Lengths(Len(value)) : object = tag \o length \o value
  BY DEF Holds
<1>3. PICK n \in 0..255 : n = Len(value)
  <2>1. Len(value) < 256
    BY DEF Holds
  <2>2. PICK n \in Nat : n = Len(value)
    BY <1>1, LenProperties
  <2>3. n < 256
    BY <2>1, <2>2, Zenon
  <2>4. n \in 0..255
    BY <2>3
  <2> QED
    BY <2>2, <2>4
<1>4. PICK k \in 1..5 : k = Len(length)
  BY <1>2, <1>3, LengthParses
<1>5. PICK t \in Nat : t = Len(tag)
  BY <1>1, LenProperties
<1>5a. t > 0
  BY <1>1, <1>5
<1>6. length \in Seq(Byte)
  BY <1>2, <1>3, LengthParses
<1>6a. PICK data, body : data = object \o rest /\ body = value \o rest
  OBVIOUS
<1>6b. PICK head : head = tag \o length
  OBVIOUS
<1>6c. head \in Seq(Byte) /\ Len(head) = t + k
  BY <1>1, <1>4, <1>5, <1>6, <1>6b, ConcatProperties
<1>6d. object = head \o value
  BY <1>2, <1>6b
<1>6e. object \in Seq(Byte) /\ Len(object) = t + k + n
  BY <1>1, <1>3, <1>6c, <1>6d, ConcatProperties
<1>10. PICK r \in Nat : r = Len(rest)
  BY LenProperties
<1>7. body \in Seq(Byte) /\ Len(body) = n + r
  BY <1>1, <1>3, <1>6a, <1>10, ConcatProperties
<1>7a. length \o body \in Seq(Byte)
  BY <1>6, <1>7, ConcatProperties
<1>11. data \in Seq(Byte) /\ Len(data) = t + k + n + r
  BY <1>6a, <1>6e, <1>10, ConcatProperties
<1>8. data = tag \o (length \o body)
  <2>1. data = (head \o value) \o rest
    BY <1>6a, <1>6d
  <2>2. data = head \o body
    <3>1. head \in Seq(Byte) /\ value \in Seq(Byte)
      BY <1>1, <1>6c
    <3>2. (head \o value) \o rest = head \o (value \o rest)
      BY <3>1, BytesAssociate
    <3> QED
      BY <1>6a, <2>1, <3>2
  <2>3. head \o body = tag \o (length \o body)
    <3>1. tag \in Seq(Byte) /\ length \in Seq(Byte) /\ body \in Seq(Byte)
      BY <1>1, <1>6, <1>7
    <3>2. (tag \o length) \o body = tag \o (length \o body)
      BY <3>1, BytesAssociate
    <3> QED
      BY <1>6b, <3>2
  <2> QED
    BY <2>2, <2>3
<1>12. ParseTag(data) = Some(tag)
  BY <1>1, <1>7a, <1>8, TagParses
<1>13. From(data, t + 1) = length \o body
  <2>1. PICK later : later = length \o body
    OBVIOUS
  <2>2. SubSeq(tag \o later, Len(tag) + 1, Len(tag \o later)) = later
    BY <1>1, <1>7a, <2>1, FrontAndRest
  <2> QED
    BY <1>5, <1>8, <2>1, <2>2 DEF From
<1>14. ParseLength(length \o body) = Some([length |-> n, size |-> k])
  BY <1>2, <1>3, <1>4, <1>7, LengthParses
<1>15. SubSeq(data, (t + k) + 1, t + k + n) = value
  <2>1. SubSeq(object, (t + k) + 1, t + k + n) = value
    <3>1. SubSeq(head \o value, Len(head) + 1, Len(head \o value)) = value
      BY <1>1, <1>6c, FrontAndRest
    <3> QED
      BY <1>6c, <1>6d, <1>6e, <3>1
  <2>2. CASE n = 0
    <3>1. \A s \in Seq(Byte) : Len(s) = 0 => s = <<>>
      BY EmptySeq
    <3>2. value = <<>>
      BY <1>1, <1>3, <2>2, <3>1
    <3> QED
      BY <2>2, <3>2, SubSeqEmpty
  <2>3. CASE n # 0
    <3>1. (t + k) + 1 \in 1..Len(object) /\ t + k + n \in 1..Len(object)
      BY <1>6e, <2>3
    <3>2. SubSeq(object \o rest, (t + k) + 1, t + k + n) = SubSeq(object, (t + k) + 1, t + k + n)
      BY <1>6e, <3>1, SubSeqOfConcat1
    <3> QED
      BY <1>6a, <2>1, <3>2
  <2> QED
    BY <2>2, <2>3
<1>16. NodeHeader(data) = Some([tag |-> tag, first |-> (t + k) + 1, last |-> t + k + n])
  <2> DEFINE found == [length |-> n, size |-> k]
  <2>1. Unwrap(ParseTag(data)) = tag /\ ParseTag(data) # None
    BY <1>12, OfSome
  <2>2. ParseLength(From(data, Len(tag) + 1)) = Some(found)
    BY <1>5, <1>13, <1>14
  <2> HIDE DEF found
  <2>3. /\ Unwrap(ParseLength(From(data, Len(tag) + 1))) = found
        /\ ParseLength(From(data, Len(tag) + 1)) # None
    BY <2>2, OfSome
  <2>4. found.length = n /\ found.size = k
    BY DEF found
  <2>5. NodeHeader(data) =
          Check((Len(tag) + found.size) + found.length <= Len(data),
                Some([tag |-> tag, first |-> (Len(tag) + found.size) + 1,
                      last |-> (Len(tag) + found.size) + found.length]))
    BY <2>1, <2>3 DEF NodeHeader, Then
  <2>6. (t + k) + n <= Len(data) /\ (t + k) + n = t + k + n
    BY <1>11
  <2> QED
    BY <1>5, <2>4, <2>5, <2>6 DEF Check
<1>17. object[1] # 0
  <2>1. object = tag \o (length \o value)
    BY <1>1, <1>2, <1>6, ConcatAssociative
  <2>2. length \o value \in Seq(Byte)
    BY <1>1, <1>6, ConcatProperties
  <2>3. 1 \in 1..(Len(tag) + Len(length \o value)) /\ 1 <= Len(tag)
    BY <1>5, <1>5a, <2>2, LenProperties
  <2>4. object[1] = tag[1]
    BY <1>1, <2>1, <2>2, <2>3, ConcatProperties
  <2> QED
    BY <1>1, <2>4
<1>18. (Len(object) - Len(value)) + 1 = (t + k) + 1 /\ Len(object) > Len(value) + Len(tag)
  BY <1>3, <1>5, <1>6e
<1> QED
  BY <1>6a, <1>6e, <1>15, <1>16, <1>17, <1>18

-----------------------------------------------------------------------------
\* The number that bytes stand for is one.
LEMMA NumberIsNat ==
    ASSUME NEW bytes \in Seq(Byte)
    PROVE  Number(bytes) \in Nat
<1> DEFINE last == Len(bytes)
           G == [p \in (1..last) \X Nat |-> (256 * p[2]) + bytes[p[1]]]
           upTo == CHOOSE f : f = [n \in 0..last |-> IF n = 0 THEN 0 ELSE (256 * f[n - 1]) + bytes[n]]
<1>1. last \in Nat /\ \A n \in 1..last : bytes[n] \in Nat
  BY LenProperties, ElementOfSeq, ByteIsNat
<1>2. G \in [(1..last) \X Nat -> Nat]
  <2>1. \A p \in (1..last) \X Nat : (256 * p[2]) + bytes[p[1]] \in Nat
    BY <1>1
  <2> QED
    BY <2>1
<1>3. \A n \in 1..last : \A m \in Nat : G[<<n, m>>] = (256 * m) + bytes[n]
  OBVIOUS
<1> HIDE DEF G
<1>4. PICK f \in [0..last -> Nat] : Goes(f, 0, last, G)
  <2> HIDE DEF last
  <2> QED
    BY <1>1, <1>2, RecursionUpTo
<1>5. \A n \in 1..last : n - 1 \in 0..last /\ n \in 0..last /\ n # 0
  BY <1>1
<1>6. \A n \in 1..last : f[n] = (256 * f[n - 1]) + bytes[n]
  BY <1>3, <1>4, <1>5 DEF Goes
<1>7. \A n \in 0..last : f[n] = (IF n = 0 THEN 0 ELSE (256 * f[n - 1]) + bytes[n])
  <2>1. \A n \in 0..last : n = 0 \/ n \in 1..last
    BY <1>1
  <2> QED
    BY <1>4, <1>6, <2>1 DEF Goes
<1>8. f = [n \in 0..last |-> IF n = 0 THEN 0 ELSE (256 * f[n - 1]) + bytes[n]]
  BY <1>7
<1>9. upTo = [n \in 0..last |-> IF n = 0 THEN 0 ELSE (256 * upTo[n - 1]) + bytes[n]]
  BY <1>8
<1>10. Number(bytes) = upTo[last]
  BY DEF Number
<1> HIDE DEF upTo
<1>11. \A n \in 0..last : upTo[n] = (IF n = 0 THEN 0 ELSE (256 * upTo[n - 1]) + bytes[n])
  BY <1>9
<1>12. f[0] = upTo[0] /\ \A n \in 1..last : f[n - 1] = upTo[n - 1] => f[n] = upTo[n]
  <2>1. 0 \in 0..last
    BY <1>1
  <2> QED
    BY <1>5, <1>7, <1>11, <2>1
<1>13. f[last] = upTo[last]
  BY <1>1, <1>12, AlikeToTheEnd
<1>14. f[last] \in Nat
  <2>1. last \in 0..last
    BY <1>1
  <2> QED
    BY <1>4, <2>1
<1> QED
  BY <1>10, <1>13, <1>14

\* A part of a string is a string.
LEMMA PartIsBytes ==
    ASSUME NEW S, NEW data \in Seq(S), NEW m \in Nat, NEW n \in Nat, m >= 1, n <= Len(data)
    PROVE  /\ SubSeq(data, m, n) \in Seq(S)
           /\ Len(SubSeq(data, m, n)) = IF m <= n THEN (n - m) + 1 ELSE 0
           /\ \A i \in 1..((n - m) + 1) : SubSeq(data, m, n)[i] = data[(m + i) - 1]
<1>1. Len(data) \in Nat
  BY LenProperties
<1>2. \A i \in m..n : data[i] \in S
  <2>1. \A i \in m..n : i \in 1..Len(data)
    BY <1>1
  <2> QED
    BY <2>1, ElementOfSeq
<1> QED
  BY <1>2, SubSeqProperties

\* A tag that is read is a front of the string, of four bytes at most.
LEMMA TagIsRead ==
    ASSUME NEW data \in Seq(Byte), ParseTag(data) # None
    PROVE  \E k \in 1..4 : /\ k <= Len(data) /\ ParseTag(data) = Some(First(data, k))
                           /\ data # <<>> /\ (data[1] % 32 # 31 => k = 1) /\ (data[1] % 32 = 31 => k > 1)
<1> DEFINE ends == {i \in 2..4 : i <= Len(data) /\ data[i] < 128}
<1>1. data # <<>>
  BY DEF ParseTag
<1>2. Len(data) \in Nat /\ Len(data) >= 1
  BY <1>1, LenProperties
<1>3. CASE data[1] % 32 # 31
  BY <1>1, <1>2, <1>3 DEF ParseTag
<1>4. CASE ~(data[1] % 32 # 31)
  <2> DEFINE k == CHOOSE i \in ends : \A j \in ends : i <= j
  <2>1. ParseTag(data) = Check(ends # {}, Some(First(data, k)))
    BY <1>1, <1>4 DEF ParseTag
  <2>2. ends # {}
    BY <2>1 DEF Check
  <2>3. k \in ends
    <3>1. ends \subseteq Nat
      OBVIOUS
    <3>2. \E i \in ends : \A j \in ends : i <= j
      <4> HIDE DEF ends
      <4> QED
        BY <2>2, <3>1, LeastOf
    <3> HIDE DEF ends
    <3> QED
      BY <3>2
  <2>4. ParseTag(data) = Some(First(data, k))
    BY <2>1, <2>2 DEF Check
  <2>5. k \in 2..4 /\ k <= Len(data)
    <3> HIDE DEF k
    <3> QED
      BY <2>3
  <2> HIDE DEF k
  <2> QED
    BY <1>1, <1>4, <2>4, <2>5
<1> QED
  BY <1>3, <1>4

\* A length that is read lies within the string and counts what follows.
LEMMA LengthIsRead ==
    ASSUME NEW data \in Seq(Byte), ParseLength(data) # None
    PROVE  \E n \in Nat : \E k \in 1..5 : ParseLength(data) = Some([length |-> n, size |-> k])
<1> DEFINE n == data[1] - 128
<1>1. data # <<>>
  BY DEF ParseLength
<1>2. Len(data) \in Nat /\ Len(data) >= 1
  BY <1>1, LenProperties
<1>3. data[1] \in Nat
  <2>1. 1 \in 1..Len(data)
    BY <1>2
  <2> QED
    BY <2>1, ElementOfSeq, ByteIsNat
<1>4. CASE data[1] < 128
  <2>1. ParseLength(data) = Some([length |-> data[1], size |-> 1])
    BY <1>1, <1>4 DEF ParseLength
  <2> QED
    BY <1>3, <2>1
<1>5. CASE ~(data[1] < 128)
  <2>1. ParseLength(data) = Check(n \in 1..4 /\ Len(data) > n,
                          Some([length |-> Number(SubSeq(data, 2, n + 1)), size |-> n + 1]))
    BY <1>1, <1>5 DEF ParseLength
  <2>2. n \in 1..4 /\ Len(data) > n
    BY <2>1 DEF Check
  <2>3. SubSeq(data, 2, n + 1) \in Seq(Byte)
    <3>1. n + 1 \in Nat /\ n + 1 <= Len(data)
      BY <1>2, <2>2
    <3> QED
      BY <3>1, PartIsBytes
  <2>4. Number(SubSeq(data, 2, n + 1)) \in Nat
    BY <2>3, NumberIsNat
  <2>5. n + 1 \in 1..5
    BY <2>2
  <2>6. ParseLength(data) = Some([length |-> Number(SubSeq(data, 2, n + 1)), size |-> n + 1])
    BY <2>1, <2>2 DEF Check
  <2> HIDE DEF n
  <2> QED
    BY <2>4, <2>5, <2>6
<1> QED
  BY <1>4, <1>5

\* A header lies within the string, and so does what it announces.
LEMMA HeaderIsRead ==
    ASSUME NEW data \in Seq(Byte), NodeHeader(data) # None
    PROVE  \E tag \in Seq(Byte) : \E first, last \in Nat :
             /\ NodeHeader(data) = Some([tag |-> tag, first |-> first, last |-> last])
             /\ ParseTag(data) = Some(tag) /\ tag # <<>>
             /\ first > 2 /\ last >= first - 1 /\ last <= Len(data)
             /\ SubSeq(data, first, last) \in Seq(Byte)
             /\ Len(SubSeq(data, first, last)) = (last - first) + 1
             /\ From(data, last + 1) \in Seq(Byte)
             /\ Len(From(data, last + 1)) = Len(data) - last
<1>1. ParseTag(data) # None
  BY DEF NodeHeader, Then
<1>2. PICK t \in 1..4 : t <= Len(data) /\ ParseTag(data) = Some(First(data, t))
  BY <1>1, TagIsRead
<1>3. PICK tag : tag = First(data, t)
  OBVIOUS
<1>4. tag \in Seq(Byte) /\ Len(tag) = t /\ tag # <<>>
  <2>1. tag \in Seq(Byte) /\ Len(tag) = t
    BY <1>2, <1>3, PartIsBytes DEF First
  <2> QED
    BY <2>1
<1>5. PICK all \in Nat : all = Len(data)
  BY LenProperties
<1>6. PICK later : later = From(data, t + 1)
  OBVIOUS
<1>7. later \in Seq(Byte)
  <2>1. t + 1 \in Nat /\ t + 1 >= 1 /\ Len(data) \in Nat /\ Len(data) <= Len(data)
    BY <1>5
  <2> QED
    BY <1>6, <2>1, PartIsBytes DEF From
<1>8. ParseTag(data) = Some(tag)
  BY <1>2, <1>3
<1>9. Unwrap(ParseTag(data)) = tag
  BY <1>8, OfSome
<1> DEFINE Rest(head) == Check((t + head.size) + head.length <= all,
                 Some([tag |-> tag, first |-> (t + head.size) + 1, last |-> (t + head.size) + head.length]))
<1>10. NodeHeader(data) = Then(ParseLength(later), Rest)
  BY <1>1, <1>4, <1>5, <1>6, <1>9 DEF NodeHeader, Then
<1>11. ParseLength(later) # None
  BY <1>10 DEF Then
<1>12. PICK n \in Nat, k \in 1..5 : ParseLength(later) = Some([length |-> n, size |-> k])
  BY <1>7, <1>11, LengthIsRead
<1>13. PICK head : head = [length |-> n, size |-> k]
  OBVIOUS
<1>14. NodeHeader(data) = Rest(head)
  <2>1. Unwrap(ParseLength(later)) = head
    BY <1>12, <1>13, OfSome
  <2> QED
    BY <1>10, <1>11, <2>1 DEF Then
<1>15. head.length = n /\ head.size = k
  BY <1>13
<1>16. NodeHeader(data) = Check((t + k) + n <= all,
                 Some([tag |-> tag, first |-> (t + k) + 1, last |-> (t + k) + n]))
  BY <1>14, <1>15
<1>17. (t + k) + n <= all
  BY <1>16 DEF Check
<1>18. PICK first, last \in Nat : first = (t + k) + 1 /\ last = (t + k) + n
  <2>1. (t + k) + 1 \in Nat /\ (t + k) + n \in Nat
    OBVIOUS
  <2> QED
    BY <2>1
<1>19. NodeHeader(data) = Some([tag |-> tag, first |-> first, last |-> last])
  BY <1>16, <1>17, <1>18 DEF Check
<1>20. first > 2 /\ last >= first - 1 /\ last <= all
  BY <1>17, <1>18
<1>21. /\ SubSeq(data, first, last) \in Seq(Byte)
       /\ Len(SubSeq(data, first, last)) = (last - first) + 1
  <2>1. /\ SubSeq(data, first, last) \in Seq(Byte)
        /\ Len(SubSeq(data, first, last)) = IF first <= last THEN (last - first) + 1 ELSE 0
    BY <1>5, <1>20, PartIsBytes
  <2>2. (last - first) + 1 = IF first <= last THEN (last - first) + 1 ELSE 0
    BY <1>20
  <2> QED
    BY <2>1, <2>2
<1>22. From(data, last + 1) \in Seq(Byte) /\ Len(From(data, last + 1)) = all - last
  <2>1. /\ SubSeq(data, last + 1, all) \in Seq(Byte)
        /\ Len(SubSeq(data, last + 1, all)) = IF last + 1 <= all THEN (all - (last + 1)) + 1 ELSE 0
    <3>1. last + 1 \in Nat /\ last + 1 >= 1 /\ all <= Len(data)
      BY <1>5
    <3> QED
      BY <3>1, PartIsBytes
  <2>2. all - last = IF last + 1 <= all THEN (all - (last + 1)) + 1 ELSE 0
    BY <1>20
  <2> QED
    BY <1>5, <2>1, <2>2 DEF From
<1> QED
  BY <1>4, <1>5, <1>8, <1>19, <1>20, <1>21, <1>22

-----------------------------------------------------------------------------
(* ParseAll is what its definition says it is. *)

AllBody(data, f) ==
  CASE data = <<>> -> Some(<<>>)
    [] data # <<>> /\ data[1] = 0 -> f[Tail(data)]
    [] OTHER -> Then(ParseWith(data, f), LAMBDA one :
                  Then(f[From(data, one.size + 1)], LAMBDA rest :
                    Some(<<one.tlv>> \o rest)))
Shorter(n) == {s \in Seq(Byte) : Len(s) < n}
Alike(f, g, n) == \A s \in Shorter(n) : f[s] = g[s]

\* What follows a header is shorter than the string.
LEMMA TailIsShorter ==
    ASSUME NEW data \in Seq(Byte), data # <<>>
    PROVE  Tail(data) \in Shorter(Len(data))
<1>1. Tail(data) \in Seq(Byte) /\ Len(Tail(data)) = Len(data) - 1
  BY HeadTailProperties
<1>2. Len(data) \in Nat
  BY LenProperties
<1> QED
  BY <1>1, <1>2 DEF Shorter

\* The node at the start of a string, by what parses shorter strings.
LEMMA NodeIsRead ==
    ASSUME NEW data \in Seq(Byte), NEW f, ParseWith(data, f) # None
    PROVE  \E tag \in Seq(Byte) : \E last \in Nat : \E value \in Shorter(Len(data)) :
             /\ tag # <<>> /\ ParseTag(data) = Some(tag) /\ last > 0 /\ last <= Len(data)
             /\ From(data, last + 1) \in Shorter(Len(data))
             /\ \/ /\ ~IsConstructed(tag)
                   /\ ParseWith(data, f) = Some([tlv |-> Primitive(tag, value), size |-> last])
                \/ /\ IsConstructed(tag) /\ f[value] # None
                   /\ ParseWith(data, f) = Some([tlv |-> Constructed(tag, Unwrap(f[value])), size |-> last])
<1>1. NodeHeader(data) # None
  BY DEF ParseWith, Then
<1>2. PICK tag \in Seq(Byte), first \in Nat, last \in Nat :
             /\ NodeHeader(data) = Some([tag |-> tag, first |-> first, last |-> last])
             /\ ParseTag(data) = Some(tag) /\ tag # <<>>
             /\ first > 2 /\ last >= first - 1 /\ last <= Len(data)
             /\ SubSeq(data, first, last) \in Seq(Byte)
             /\ Len(SubSeq(data, first, last)) = (last - first) + 1
             /\ From(data, last + 1) \in Seq(Byte)
             /\ Len(From(data, last + 1)) = Len(data) - last
  BY <1>1, HeaderIsRead
<1>3. PICK value : value = SubSeq(data, first, last)
  OBVIOUS
<1>4. PICK head : head = [tag |-> tag, first |-> first, last |-> last]
  OBVIOUS
<1>5. head.tag = tag /\ head.first = first /\ head.last = last
  BY <1>4
<1>6. Unwrap(NodeHeader(data)) = head
  BY <1>2, <1>4, OfSome
<1>7. ParseWith(data, f) =
        IF IsConstructed(tag)
        THEN Then(f[value], LAMBDA children :
               Some([tlv |-> Constructed(tag, children), size |-> last]))
        ELSE Some([tlv |-> Primitive(tag, value), size |-> last])
  BY <1>1, <1>3, <1>5, <1>6 DEF ParseWith, Then
<1>8. PICK all \in Nat : all = Len(data)
  BY LenProperties
<1>9. value \in Shorter(Len(data))
  <2>1. Len(value) < all
    BY <1>2, <1>3, <1>8
  <2> QED
    BY <1>2, <1>3, <1>8, <2>1 DEF Shorter
<1>10. From(data, last + 1) \in Shorter(Len(data)) /\ last > 0
  <2>1. all - last < all /\ last > 0
    BY <1>2, <1>8
  <2> QED
    BY <1>2, <1>8, <2>1 DEF Shorter
<1>11. CASE IsConstructed(tag)
  <2>1. f[value] # None
    BY <1>7, <1>11 DEF Then
  <2>2. ParseWith(data, f) = Some([tlv |-> Constructed(tag, Unwrap(f[value])), size |-> last])
    BY <1>7, <1>11, <2>1 DEF Then
  <2> QED
    BY <1>2, <1>9, <1>10, <1>11, <2>1, <2>2
<1>12. CASE ~IsConstructed(tag)
  <2>2. ParseWith(data, f) = Some([tlv |-> Primitive(tag, value), size |-> last])
    BY <1>7, <1>12
  <2> QED
    BY <1>2, <1>9, <1>10, <1>12, <2>2
<1> QED
  BY <1>11, <1>12

\* Parsing a node needs the parser for shorter strings only...
LEMMA ParseWithAlike ==
    ASSUME NEW data \in Seq(Byte), NEW f, NEW g, Alike(f, g, Len(data))
    PROVE  ParseWith(data, f) = ParseWith(data, g)
<1>1. CASE NodeHeader(data) = None
  BY <1>1 DEF ParseWith, Then
<1>2. CASE NodeHeader(data) # None
  <2>1. PICK tag \in Seq(Byte), first \in Nat, last \in Nat :
             /\ NodeHeader(data) = Some([tag |-> tag, first |-> first, last |-> last])
             /\ first > 2 /\ last <= Len(data)
             /\ SubSeq(data, first, last) \in Seq(Byte)
             /\ Len(SubSeq(data, first, last)) = (last - first) + 1
    BY <1>2, HeaderIsRead
  <2>2. PICK head : head = [tag |-> tag, first |-> first, last |-> last]
    OBVIOUS
  <2>3. PICK value : value = SubSeq(data, first, last)
    OBVIOUS
  <2>4. head.tag = tag /\ head.first = first /\ head.last = last
    BY <2>2
  <2>5. Unwrap(NodeHeader(data)) = head
    BY <2>1, <2>2, OfSome
  <2>6. PICK all \in Nat : all = Len(data)
    BY LenProperties
  <2>7. value \in Shorter(Len(data))
    <3>1. Len(value) < all
      BY <2>1, <2>3, <2>6
    <3> QED
      BY <2>1, <2>3, <2>6, <3>1 DEF Shorter
  <2>8. f[value] = g[value]
    BY <2>7 DEF Alike
  <2> DEFINE Node(h) ==
        IF IsConstructed(tag)
        THEN Then(h[value], LAMBDA children :
               Some([tlv |-> Constructed(tag, children), size |-> last]))
        ELSE Some([tlv |-> Primitive(tag, value), size |-> last])
  <2>9. ParseWith(data, f) = Node(f) /\ ParseWith(data, g) = Node(g)
    BY <1>2, <2>3, <2>4, <2>5 DEF ParseWith, Then
  <2>10. Node(f) = Node(g)
    BY <2>8 DEF Then
  <2> HIDE DEF Node
  <2> QED
    BY <2>9, <2>10
<1> QED
  BY <1>1, <1>2

\* ... and so does parsing all nodes...
LEMMA AllBodyAlike ==
    ASSUME NEW data \in Seq(Byte), NEW f, NEW g, Alike(f, g, Len(data))
    PROVE  AllBody(data, f) = AllBody(data, g)
<1>1. CASE data = <<>>
  BY <1>1 DEF AllBody
<1>2. CASE data # <<>> /\ data[1] = 0
  <2>1. f[Tail(data)] = g[Tail(data)]
    BY <1>2, TailIsShorter DEF Alike
  <2> QED
    BY <1>2, <2>1 DEF AllBody
<1>3. CASE data # <<>> /\ data[1] # 0
  <2> DEFINE Body(one, h) == Then(h[From(data, one.size + 1)], LAMBDA rest : Some(<<one.tlv>> \o rest))
             All(h) == Then(ParseWith(data, h), LAMBDA one : Body(one, h))
  <2>1. AllBody(data, f) = All(f) /\ AllBody(data, g) = All(g)
    BY <1>3 DEF AllBody
  <2>2. ParseWith(data, f) = ParseWith(data, g)
    BY ParseWithAlike
  <2>3. CASE ParseWith(data, f) = None
    <3>1. All(f) = None /\ All(g) = None
      BY <2>2, <2>3 DEF Then
    <3> HIDE DEF All
    <3> QED
      BY <2>1, <3>1
  <2>4. CASE ParseWith(data, f) # None
    <3>1. PICK tlv, last : /\ ParseWith(data, f) = Some([tlv |-> tlv, size |-> last])
                           /\ From(data, last + 1) \in Shorter(Len(data))
      BY <2>4, NodeIsRead
    <3>2. PICK one : one = [tlv |-> tlv, size |-> last]
      OBVIOUS
    <3>3. one.size = last
      BY <3>2
    <3>4. Unwrap(ParseWith(data, f)) = one
      BY <3>1, <3>2, OfSome
    <3>5. All(f) = Body(one, f) /\ All(g) = Body(one, g)
      BY <2>2, <2>4, <3>4 DEF Then
    <3>6. f[From(data, one.size + 1)] = g[From(data, one.size + 1)]
      BY <3>1, <3>3 DEF Alike
    <3>7. Body(one, f) = Body(one, g)
      BY <3>6 DEF Then
    <3> HIDE DEF All, Body
    <3> QED
      BY <2>1, <3>5, <3>7
  <2> QED
    BY <2>3, <2>4
<1> QED
  BY <1>1, <1>2, <1>3

\* A function parses the strings shorter than n.
Parses(f, n) == \A s \in Shorter(n) : f[s] = AllBody(s, f)

\* ... so two functions that parse the shorter strings parse them alike.
LEMMA ParsesAlike ==
    ASSUME NEW f, NEW g, NEW n \in Nat, NEW m \in Nat, Parses(f, n), Parses(g, m), n <= m
    PROVE  Alike(f, g, n)
<1> DEFINE S == {k \in Nat : \A s \in Shorter(n) : Len(s) = k => f[s] = g[s]}
<1>1. ASSUME NEW k \in Nat, \A j \in Nat : j < k => j \in S PROVE k \in S
  <2> SUFFICES ASSUME NEW s \in Shorter(n), Len(s) = k PROVE f[s] = g[s]
    OBVIOUS
  <2>1. s \in Seq(Byte) /\ Len(s) < n
    BY DEF Shorter
  <2>2. s \in Shorter(m)
    <3>1. k < n /\ k < m
      BY <2>1
    <3> QED
      BY <2>1, <3>1 DEF Shorter
  <2>3. Alike(f, g, Len(s))
    <3> SUFFICES ASSUME NEW r \in Shorter(Len(s)) PROVE f[r] = g[r]
      BY DEF Alike
    <3>1. r \in Seq(Byte) /\ Len(r) < k
      BY DEF Shorter
    <3>2. PICK j \in Nat : j = Len(r)
      BY <3>1, LenProperties
    <3>3. j < n /\ j < k
      <4>1. k < n
        BY <2>1
      <4> QED
        BY <3>1, <3>2, <4>1
    <3>4. r \in Shorter(n)
      BY <3>1, <3>2, <3>3 DEF Shorter
    <3>5. j \in S
      BY <1>1, <3>3
    <3> QED
      BY <3>2, <3>4, <3>5
  <2>4. AllBody(s, f) = AllBody(s, g)
    BY <2>1, <2>3, AllBodyAlike
  <2>5. f[s] = AllBody(s, f) /\ g[s] = AllBody(s, g)
    BY <2>2 DEF Parses
  <2> QED
    BY <2>4, <2>5
<1>2. Nat \subseteq S
  <2> HIDE DEF S
  <2> QED
    BY <1>1, EveryNumberFromBelow
<1> SUFFICES ASSUME NEW s \in Shorter(n) PROVE f[s] = g[s]
  BY DEF Alike
<1>3. Len(s) \in Nat
  BY LenProperties DEF Shorter
<1> QED
  BY <1>2, <1>3

\* For every length there is a function that parses the strings below it.
LEMMA ParserExists ==
    ASSUME NEW n \in Nat
    PROVE  \E f : Parses(f, n)
<1> DEFINE S == {k \in Nat : \E f : Parses(f, k)}
<1>1. 0 \in S
  <2>1. \A s \in Seq(Byte) : ~(Len(s) < 0)
    BY LenProperties
  <2>2. \A s \in Shorter(0) : FALSE
    BY <2>1 DEF Shorter
  <2> QED
    BY <2>2 DEF Parses
<1>2. ASSUME NEW k \in Nat, k \in S PROVE k + 1 \in S
  <2>1. PICK f : Parses(f, k)
    BY <1>2
  <2> DEFINE g == [s \in Shorter(k + 1) |-> AllBody(s, f)]
  <2>2. \A s \in Shorter(k + 1) : g[s] = AllBody(s, f)
    OBVIOUS
  <2>3. \A s \in Shorter(k) : s \in Shorter(k + 1)
    <3> SUFFICES ASSUME NEW s \in Shorter(k) PROVE s \in Shorter(k + 1)
      OBVIOUS
    <3>1. s \in Seq(Byte) /\ Len(s) < k
      BY DEF Shorter
    <3>2. PICK j \in Nat : j = Len(s)
      BY <3>1, LenProperties
    <3>3. j < k + 1
      BY <3>1, <3>2
    <3> QED
      BY <3>1, <3>2, <3>3 DEF Shorter
  <2> HIDE DEF g
  <2>4. \A s \in Shorter(k) : f[s] = g[s]
    BY <2>1, <2>2, <2>3 DEF Parses
  <2>5. ASSUME NEW s \in Shorter(k + 1) PROVE g[s] = AllBody(s, g)
    <3>1. s \in Seq(Byte) /\ Len(s) < k + 1
      BY DEF Shorter
    <3>2. PICK j \in Nat : j = Len(s)
      BY <3>1, LenProperties
    <3>3. Alike(f, g, Len(s))
      <4> SUFFICES ASSUME NEW r \in Shorter(Len(s)) PROVE f[r] = g[r]
        BY DEF Alike
      <4>1. r \in Seq(Byte) /\ Len(r) < j
        BY <3>2 DEF Shorter
      <4>2. PICK i \in Nat : i = Len(r)
        BY <4>1, LenProperties
      <4>2a. j < k + 1
        BY <3>1, <3>2
      <4>3. i < k
        BY <4>1, <4>2, <4>2a
      <4>4. r \in Shorter(k)
        BY <4>1, <4>2, <4>3 DEF Shorter
      <4> QED
        BY <2>4, <4>4
    <3>4. AllBody(s, f) = AllBody(s, g)
      BY <3>1, <3>3, AllBodyAlike
    <3> QED
      BY <2>2, <3>4
  <2>6. Parses(g, k + 1)
    BY <2>5 DEF Parses
  <2> QED
    BY <2>6
<1>3. Nat \subseteq S
  <2> HIDE DEF S
  <2> QED
    BY <1>1, <1>2, EveryNumber
<1> QED
  BY <1>3

\* The recursion of ParseAll is well founded: its definition holds.
LEMMA ParseAllUnfolds ==
    \A data \in Seq(Byte) : ParseAll[data] = AllBody(data, ParseAll)
<1> DEFINE P(n) == CHOOSE f : Parses(f, n)
           F == [data \in Seq(Byte) |-> P(Len(data) + 1)[data]]
<1>1. \A n \in Nat : Parses(P(n), n)
  BY ParserExists
<1> HIDE DEF P
<1>2. \A data \in Seq(Byte) : F[data] = P(Len(data) + 1)[data]
  OBVIOUS
<1> HIDE DEF F
<1>3. ASSUME NEW data \in Seq(Byte) PROVE F[data] = AllBody(data, F)
  <2>1. PICK n \in Nat : n = Len(data)
    BY LenProperties
  <2>2. n < n + 1 /\ n + 1 \in Nat
    OBVIOUS
  <2>3. data \in Shorter(n + 1)
    BY <2>1, <2>2 DEF Shorter
  <2>4. PICK f : f = P(n + 1)
    OBVIOUS
  <2>5. Parses(f, n + 1)
    BY <1>1, <2>2, <2>4
  <2>6. F[data] = AllBody(data, f)
    BY <1>2, <2>1, <2>3, <2>4, <2>5 DEF Parses
  <2>7. Alike(f, F, Len(data))
    <3> SUFFICES ASSUME NEW r \in Shorter(Len(data)) PROVE f[r] = F[r]
      BY DEF Alike
    <3>1. r \in Seq(Byte) /\ Len(r) < n
      BY <2>1 DEF Shorter
    <3>2. PICK j \in Nat : j = Len(r)
      BY <3>1, LenProperties
    <3>3. j + 1 \in Nat /\ j + 1 <= n + 1 /\ j < j + 1
      BY <3>1, <3>2
    <3>4. PICK g : g = P(j + 1)
      OBVIOUS
    <3>5. Parses(g, j + 1)
      BY <1>1, <3>3, <3>4
    <3>6. Alike(g, f, j + 1)
      BY <2>2, <2>5, <3>3, <3>5, ParsesAlike
    <3>7. r \in Shorter(j + 1)
      BY <3>1, <3>2, <3>3 DEF Shorter
    <3>8. g[r] = f[r]
      BY <3>6, <3>7 DEF Alike
    <3>9. F[r] = g[r]
      BY <1>2, <3>1, <3>2, <3>4
    <3> QED
      BY <3>8, <3>9
  <2>8. AllBody(data, f) = AllBody(data, F)
    BY <2>7, AllBodyAlike
  <2> QED
    BY <2>6, <2>8
<1>4. F = [data \in Seq(Byte) |-> AllBody(data, F)]
  <2>1. F = [data \in Seq(Byte) |-> F[data]]
    BY DEF F
  <2> QED
    BY <1>3, <2>1
<1>5. ParseAll = CHOOSE f : f = [data \in Seq(Byte) |-> AllBody(data, f)]
  BY DEF ParseAll, AllBody
<1>6. ParseAll = [data \in Seq(Byte) |-> AllBody(data, ParseAll)]
  BY <1>4, <1>5
<1> QED
  BY <1>6

-----------------------------------------------------------------------------
(* What is parsed. *)

Pair == Seq(Byte) \X Seq(Byte)
Nodes == {Primitive(p[1], p[2]) : p \in Pair}
         \cup {Constructed(p[1], Unwrap(ParseAll[p[2]])) : p \in {q \in Pair : ParseAll[q[2]] # None}}

\* Primitive objects of bytes are nodes...
LEMMA PrimitiveIsNode ==
    ASSUME NEW tag \in Seq(Byte), NEW value \in Seq(Byte)
    PROVE  Primitive(tag, value) \in Nodes
<1>1. PICK p : p = <<tag, value>>
  OBVIOUS
<1>2. p \in Pair /\ p[1] = tag /\ p[2] = value
  BY <1>1 DEF Pair
<1> QED
  BY <1>2 DEF Nodes

\* ... and so are templates of nodes.
LEMMA ConstructedIsNode ==
    ASSUME NEW tag \in Seq(Byte), NEW value \in Seq(Byte), ParseAll[value] # None
    PROVE  Constructed(tag, Unwrap(ParseAll[value])) \in Nodes
<1>1. PICK p : p = <<tag, value>>
  OBVIOUS
<1>2. p \in {q \in Pair : ParseAll[q[2]] # None} /\ p[1] = tag /\ p[2] = value
  BY <1>1 DEF Pair
<1> QED
  BY <1>2 DEF Nodes

\* Where the shorter strings give nodes, so does a node of this string...
LEMMA ParseWithGivesNodes ==
    ASSUME NEW data \in Seq(Byte), ParseWith(data, ParseAll) # None
    PROVE  \E node \in Nodes : \E last \in Nat :
             /\ ParseWith(data, ParseAll) = Some([tlv |-> node, size |-> last])
             /\ ParseTag(data) = Some(node.tag) /\ last <= Len(data)
             /\ From(data, last + 1) \in Shorter(Len(data))
<1>1. PICK tag \in Seq(Byte), last \in Nat, value \in Shorter(Len(data)) :
             /\ tag # <<>> /\ ParseTag(data) = Some(tag) /\ last > 0 /\ last <= Len(data)
             /\ From(data, last + 1) \in Shorter(Len(data))
             /\ \/ /\ ~IsConstructed(tag)
                   /\ ParseWith(data, ParseAll) = Some([tlv |-> Primitive(tag, value), size |-> last])
                \/ /\ IsConstructed(tag) /\ ParseAll[value] # None
                   /\ ParseWith(data, ParseAll)
                        = Some([tlv |-> Constructed(tag, Unwrap(ParseAll[value])), size |-> last])
  BY NodeIsRead
<1>2. value \in Seq(Byte)
  BY DEF Shorter
<1>3. Primitive(tag, value).tag = tag
  BY DEF Primitive
<1>4. Constructed(tag, Unwrap(ParseAll[value])).tag = tag
  BY DEF Constructed
<1>5. CASE ~IsConstructed(tag)
  <2>1. Primitive(tag, value) \in Nodes
    BY <1>2, PrimitiveIsNode
  <2> QED
    BY <1>1, <1>3, <1>5, <2>1
<1>6. CASE IsConstructed(tag)
  <2>1. Constructed(tag, Unwrap(ParseAll[value])) \in Nodes
    BY <1>1, <1>2, <1>6, ConstructedIsNode
  <2> QED
    BY <1>1, <1>4, <1>6, <2>1
<1> QED
  BY <1>5, <1>6

\* ... hence every string that parses gives nodes.
LEMMA ParseAllGivesNodes ==
    \A data \in Seq(Byte) : ParseAll[data] = None \/ \E nodes \in Seq(Nodes) : ParseAll[data] = Some(nodes)
<1> DEFINE Good(data) == ParseAll[data] = None \/ \E nodes \in Seq(Nodes) : ParseAll[data] = Some(nodes)
           S == {n \in Nat : \A data \in Seq(Byte) : Len(data) = n => Good(data)}
<1>1. ASSUME NEW n \in Nat, \A m \in Nat : m < n => m \in S PROVE n \in S
  <2> SUFFICES ASSUME NEW data \in Seq(Byte), Len(data) = n PROVE Good(data)
    OBVIOUS
  <2>1. ASSUME NEW s \in Shorter(n) PROVE Good(s)
    <3>1. s \in Seq(Byte) /\ Len(s) < n
      BY DEF Shorter
    <3>2. PICK m \in Nat : m = Len(s)
      BY <3>1, LenProperties
    <3>3. m \in S
      BY <1>1, <3>1, <3>2
    <3> QED
      BY <3>1, <3>2, <3>3
  <2> HIDE DEF S
  <2>2. ParseAll[data] = AllBody(data, ParseAll)
    BY ParseAllUnfolds
  <2>3. CASE data = <<>>
    <3>1. ParseAll[data] = Some(<<>>) /\ <<>> \in Seq(Nodes)
      BY <2>2, <2>3, EmptySeq DEF AllBody
    <3> QED
      BY <3>1
  <2>4. CASE data # <<>> /\ data[1] = 0
    <3>1. ParseAll[data] = ParseAll[Tail(data)]
      BY <2>2, <2>4 DEF AllBody
    <3>2. Good(Tail(data))
      BY <2>1, <2>4, TailIsShorter
    <3> QED
      BY <3>1, <3>2
  <2>5. CASE data # <<>> /\ data[1] # 0
    <3>1. ParseAll[data] = Then(ParseWith(data, ParseAll), LAMBDA one :
                  Then(ParseAll[From(data, one.size + 1)], LAMBDA rest : Some(<<one.tlv>> \o rest)))
      BY <2>2, <2>5 DEF AllBody
    <3>2. CASE ParseWith(data, ParseAll) = None
      BY <3>1, <3>2 DEF Then
    <3>3. CASE ParseWith(data, ParseAll) # None
      <4>1. PICK node \in Nodes, last \in Nat :
              /\ ParseWith(data, ParseAll) = Some([tlv |-> node, size |-> last])
              /\ From(data, last + 1) \in Shorter(Len(data))
        BY <3>3, ParseWithGivesNodes
      <4>2. PICK one : one = [tlv |-> node, size |-> last]
        OBVIOUS
      <4>3. one.tlv = node /\ one.size = last /\ Unwrap(ParseWith(data, ParseAll)) = one
        BY <4>1, <4>2, OfSome
      <4>4. PICK rest : rest = From(data, last + 1)
        OBVIOUS
      <4>5. ParseAll[data] = Then(ParseAll[rest], LAMBDA more : Some(<<node>> \o more))
        BY <3>1, <3>3, <4>3, <4>4 DEF Then
      <4>6. Good(rest)
        BY <2>1, <4>1, <4>4
      <4>7. CASE ParseAll[rest] = None
        BY <4>5, <4>7 DEF Then
      <4>8. CASE ParseAll[rest] # None
        <5>1. PICK nodes \in Seq(Nodes) : ParseAll[rest] = Some(nodes)
          BY <4>6, <4>8
        <5>2. ParseAll[data] = Some(<<node>> \o nodes)
          BY <4>5, <4>8, <5>1, OfSome DEF Then
        <5>3. <<node>> \o nodes \in Seq(Nodes)
          BY ConcatProperties
        <5> QED
          BY <5>2, <5>3
      <4> QED
        BY <4>7, <4>8
    <3> QED
      BY <3>2, <3>3
  <2> QED
    BY <2>3, <2>4, <2>5
<1>2. Nat \subseteq S
  <2> HIDE DEF S
  <2> QED
    BY <1>1, EveryNumberFromBelow
<1>3. \A data \in Seq(Byte) : Len(data) \in S
  BY <1>2, LenProperties
<1> QED
  BY <1>3

\* What is in a node: a tag of bytes, and bytes or nodes.
LEMMA NodeType ==
    ASSUME NEW node \in Nodes
    PROVE  /\ node.tag \in Seq(Byte) /\ node.value \in Seq(Byte) /\ node.children \in Seq(Nodes)
<1>1. CASE node \in {Primitive(p[1], p[2]) : p \in Pair}
  <2>1. PICK p \in Pair : node = Primitive(p[1], p[2])
    BY <1>1
  <2>2. p[1] \in Seq(Byte) /\ p[2] \in Seq(Byte) /\ <<>> \in Seq(Nodes)
    BY EmptySeq DEF Pair
  <2>3. node.tag = p[1] /\ node.value = p[2] /\ node.children = <<>>
    BY <2>1 DEF Primitive
  <2> QED
    BY <2>2, <2>3
<1>2. CASE node \in {Constructed(p[1], Unwrap(ParseAll[p[2]])) : p \in {q \in Pair : ParseAll[q[2]] # None}}
  <2>1. PICK p \in Pair : ParseAll[p[2]] # None /\ node = Constructed(p[1], Unwrap(ParseAll[p[2]]))
    BY <1>2
  <2>2. p[1] \in Seq(Byte) /\ p[2] \in Seq(Byte) /\ <<>> \in Seq(Byte)
    BY EmptySeq DEF Pair
  <2>3. node.tag = p[1] /\ node.value = <<>> /\ node.children = Unwrap(ParseAll[p[2]])
    BY <2>1 DEF Constructed
  <2>4. PICK nodes \in Seq(Nodes) : ParseAll[p[2]] = Some(nodes)
    BY <2>1, <2>2, ParseAllGivesNodes
  <2>5. Unwrap(ParseAll[p[2]]) = nodes
    BY <2>4, OfSome
  <2> QED
    BY <2>2, <2>3, <2>5
<1> QED
  BY <1>1, <1>2 DEF Nodes

\* One node at the start of a string...
LEMMA ParseGivesNode ==
    ASSUME NEW data \in Seq(Byte), Parse(data) # None
    PROVE  \E node \in Nodes : \E last \in Nat : Parse(data) = Some([tlv |-> node, size |-> last])
BY ParseWithGivesNodes DEF Parse

\* ... and a whole string that is one node.
LEMMA FromBytesGivesNode ==
    ASSUME NEW data \in Seq(Byte), from_bytes(data) # None
    PROVE  \E node \in Nodes : from_bytes(data) = Some(node) /\ ParseTag(data) = Some(node.tag)
<1>1. Parse(data) # None
  BY DEF from_bytes, Then
<1>2. PICK node \in Nodes, last \in Nat :
             /\ Parse(data) = Some([tlv |-> node, size |-> last]) /\ ParseTag(data) = Some(node.tag)
  BY <1>1, ParseWithGivesNodes DEF Parse
<1>3. PICK one : one = [tlv |-> node, size |-> last]
  OBVIOUS
<1>4. Unwrap(Parse(data)) = one /\ one.tlv = node
  BY <1>2, <1>3, OfSome
<1>5. from_bytes(data) = Check(one.size = Len(data), Some(one.tlv))
  BY <1>1, <1>4 DEF from_bytes, Then
<1> QED
  BY <1>2, <1>4, <1>5 DEF Check
-----------------------------------------------------------------------------
(* Primitive objects one after the other. *)

Described(objects, elements) ==
  /\ objects \in Seq(Seq(Byte)) /\ elements \in Seq(Seq(Byte) \X Seq(Byte))
  /\ Len(objects) = Len(elements)
  /\ \A i \in DOMAIN elements : /\ ~IsConstructed(elements[i][1])
                                /\ Holds(objects[i], elements[i][1], elements[i][2])
NodesOf(elements) == [i \in DOMAIN elements |-> Primitive(elements[i][1], elements[i][2])]

\* An object is bytes, and it is not empty.
LEMMA HoldsType ==
    ASSUME NEW object, NEW tag, NEW value, Holds(object, tag, value)
    PROVE  /\ tag \in Seq(Byte) /\ value \in Seq(Byte) /\ object \in Seq(Byte)
           /\ object # <<>> /\ object[1] # 0 /\ Len(object) > Len(value) /\ Len(object) \in Nat
<1>1. tag \in Seq(Byte) /\ value \in Seq(Byte)
  BY DEF Holds, IsTag
<1>2. <<>> \in Seq(Byte)
  BY EmptySeq
<1>3. object \in Seq(Byte) /\ Len(object) > Len(value) + Len(tag) /\ object[1] # 0
  BY <1>2, ObjectParses
<1>4. Len(value) \in Nat /\ Len(tag) \in Nat /\ Len(object) \in Nat
  BY <1>1, <1>3, LenProperties
<1>5. Len(object) > Len(value) /\ Len(object) > 0
  BY <1>3, <1>4
<1>6. object # <<>>
  BY <1>5, EmptySeq
<1> QED
  BY <1>1, <1>3, <1>4, <1>5, <1>6

\* An object before other bytes is read, and the others are what is left.
LEMMA ObjectThenRest ==
    ASSUME NEW object, NEW tag, NEW value, Holds(object, tag, value), ~IsConstructed(tag),
           NEW rest \in Seq(Byte), NEW nodes, ParseAll[rest] = Some(nodes)
    PROVE  ParseAll[object \o rest] = Some(<<Primitive(tag, value)>> \o nodes)
<1>1. PICK data : data = object \o rest
  OBVIOUS
<1>2. object \in Seq(Byte) /\ object[1] # 0 /\ object # <<>> /\ Len(object) \in Nat
  BY HoldsType
<1>3. PICK first : first = (Len(object) - Len(value)) + 1
  OBVIOUS
<1>4. /\ NodeHeader(data) = Some([tag |-> tag, first |-> first, last |-> Len(object)])
      /\ SubSeq(data, first, Len(object)) = value
  BY <1>1, <1>3, ObjectParses
<1>5. PICK head : head = [tag |-> tag, first |-> first, last |-> Len(object)]
  OBVIOUS
<1>6. /\ head.tag = tag /\ head.first = first /\ head.last = Len(object)
      /\ NodeHeader(data) # None /\ Unwrap(NodeHeader(data)) = head
  BY <1>4, <1>5, OfSome
<1>7. ParseWith(data, ParseAll) = Some([tlv |-> Primitive(tag, value), size |-> Len(object)])
  BY <1>4, <1>6 DEF ParseWith, Then
<1>8. data \in Seq(Byte) /\ data # <<>> /\ data[1] = object[1]
  <2>1. data \in Seq(Byte) /\ Len(data) = Len(object) + Len(rest)
    BY <1>1, <1>2, ConcatProperties
  <2>2. Len(rest) \in Nat /\ Len(object) > 0
    BY <1>2, LenProperties, EmptySeq
  <2>3. 1 \in 1..(Len(object) + Len(rest)) /\ 1 <= Len(object)
    BY <1>2, <2>2
  <2>4. data[1] = object[1]
    BY <1>1, <1>2, <2>3, ConcatProperties
  <2> QED
    BY <2>1, <2>2, <2>4, <1>2
<1>9. From(data, Len(object) + 1) = rest
  BY <1>1, <1>2, FrontAndRest DEF From
<1>10. ParseAll[data] = Then(ParseWith(data, ParseAll), LAMBDA one :
                  Then(ParseAll[From(data, one.size + 1)], LAMBDA more : Some(<<one.tlv>> \o more)))
  BY <1>2, <1>8, ParseAllUnfolds DEF AllBody
<1>11. PICK one : one = [tlv |-> Primitive(tag, value), size |-> Len(object)]
  OBVIOUS
<1>12. /\ one.size = Len(object) /\ one.tlv = Primitive(tag, value)
       /\ ParseWith(data, ParseAll) # None /\ Unwrap(ParseWith(data, ParseAll)) = one
  BY <1>7, <1>11, OfSome
<1>13. ParseAll[data] = Then(ParseAll[rest], LAMBDA more : Some(<<Primitive(tag, value)>> \o more))
  BY <1>9, <1>10, <1>12 DEF Then
<1> QED
  BY <1>1, <1>13, OfSome DEF Then

\* Primitive objects side by side parse to their tags and their values.
LEMMA ObjectsParse ==
    \A objects, elements : Described(objects, elements) =>
      ParseAll[Joined(objects)] = Some(NodesOf(elements))
<1> DEFINE S == {n \in Nat : \A objects, elements :
                   (Described(objects, elements) /\ Len(elements) = n) =>
                     ParseAll[Joined(objects)] = Some(NodesOf(elements))}
<1>1. 0 \in S
  <2> SUFFICES ASSUME NEW objects, NEW elements, Described(objects, elements), Len(elements) = 0
               PROVE  ParseAll[Joined(objects)] = Some(NodesOf(elements))
    OBVIOUS
  <2>1. objects = <<>> /\ elements = <<>>
    BY EmptySeq DEF Described
  <2>2. <<>> \in Seq(Byte)
    BY EmptySeq
  <2>3. ParseAll[<<>>] = Some(<<>>)
    BY <2>2, ParseAllUnfolds DEF AllBody
  <2>4. NodesOf(<<>>) = <<>>
    BY DEF NodesOf
  <2> QED
    BY <2>1, <2>3, <2>4, JoinedNone
<1>2. ASSUME NEW n \in Nat, n \in S PROVE n + 1 \in S
  <2> SUFFICES ASSUME NEW objects, NEW elements, Described(objects, elements), Len(elements) = n + 1
               PROVE  ParseAll[Joined(objects)] = Some(NodesOf(elements))
    OBVIOUS
  <2>1. /\ objects \in Seq(Seq(Byte)) /\ elements \in Seq(Pair)
        /\ Len(objects) = n + 1 /\ Len(elements) = n + 1
    BY DEF Described, Pair
  <2>2. PICK o, os : o = Head(objects) /\ os = Tail(objects)
    OBVIOUS
  <2>3. PICK e, es : e = Head(elements) /\ es = Tail(elements)
    OBVIOUS
  <2>4. objects # <<>> /\ elements # <<>>
    BY <2>1, EmptySeq
  <2>5. /\ o \in Seq(Byte) /\ os \in Seq(Seq(Byte)) /\ Len(os) = n
        /\ o = objects[1] /\ \A i \in 1..n : os[i] = objects[i + 1]
    BY <2>1, <2>2, <2>4, HeadTailProperties
  <2>6. /\ e \in Pair /\ es \in Seq(Pair) /\ Len(es) = n
        /\ e = elements[1] /\ \A i \in 1..n : es[i] = elements[i + 1]
    BY <2>1, <2>3, <2>4, HeadTailProperties
  <2>7. \A i \in 1..(n + 1) : /\ ~IsConstructed(elements[i][1])
                              /\ Holds(objects[i], elements[i][1], elements[i][2])
    <3>1. DOMAIN elements = 1..(n + 1)
      BY <2>1, LenProperties
    <3> QED
      BY <3>1 DEF Described
  <2>8. Described(os, es)
    <3>1. DOMAIN es = 1..n /\ \A i \in 1..n : i + 1 \in 1..(n + 1)
      BY <2>6, LenProperties
    <3>2. \A i \in DOMAIN es : /\ ~IsConstructed(es[i][1])
                               /\ Holds(os[i], es[i][1], es[i][2])
      BY <2>5, <2>6, <2>7, <3>1
    <3> QED
      BY <2>5, <2>6, <3>2 DEF Described, Pair
  <2>9. ParseAll[Joined(os)] = Some(NodesOf(es))
    BY <1>2, <2>6, <2>8
  <2>10. Joined(objects) = o \o Joined(os)
    <3>1. objects = <<o>> \o os
      BY <2>1, <2>2, <2>4, HeadTailProperties
    <3> QED
      BY <2>5, <3>1, JoinedFirst
  <2>11. Joined(os) \in Seq(Byte)
    BY <2>5, JoinedType
  <2>12. ~IsConstructed(e[1]) /\ Holds(o, e[1], e[2])
    <3>1. 1 \in 1..(n + 1)
      OBVIOUS
    <3> QED
      BY <2>5, <2>6, <2>7, <3>1
  <2>13. ParseAll[Joined(objects)] = Some(<<Primitive(e[1], e[2])>> \o NodesOf(es))
    BY <2>9, <2>10, <2>11, <2>12, ObjectThenRest
  <2>14. <<Primitive(e[1], e[2])>> \o NodesOf(es) = NodesOf(elements)
    <3> DEFINE one == Primitive(e[1], e[2])
               P == {Primitive(elements[i][1], elements[i][2]) : i \in 1..(n + 1)}
    <3>1. DOMAIN elements = 1..(n + 1) /\ DOMAIN es = 1..n
      BY <2>1, <2>6, LenProperties
    <3>2. one \in P /\ \A i \in 1..n : Primitive(es[i][1], es[i][2]) \in P
      <4>1. 1 \in 1..(n + 1) /\ \A i \in 1..n : i + 1 \in 1..(n + 1)
        OBVIOUS
      <4> QED
        BY <2>6, <4>1
    <3>3. NodesOf(elements) \in [1..(n + 1) -> P] /\ NodesOf(es) \in [1..n -> P]
      BY <3>1, <3>2 DEF NodesOf
    <3>3a. /\ \A i \in 1..(n + 1) : NodesOf(elements)[i] = Primitive(elements[i][1], elements[i][2])
           /\ \A i \in 1..n : NodesOf(es)[i] = Primitive(es[i][1], es[i][2])
      BY <3>1 DEF NodesOf
    <3> HIDE DEF one, P
    <3>4. /\ NodesOf(elements) \in Seq(P) /\ Len(NodesOf(elements)) = n + 1
          /\ NodesOf(es) \in Seq(P) /\ Len(NodesOf(es)) = n
      BY <3>3
    <3>5. <<one>> \in Seq(P) /\ Len(<<one>>) = 1 /\ <<one>>[1] = one
      BY <3>2
    <3>6. PICK a, b : a = <<one>> /\ b = NodesOf(es)
      OBVIOUS
    <3>7. /\ a \o b \in Seq(P) /\ Len(a \o b) = 1 + n
          /\ \A i \in 1..(1 + n) : (a \o b)[i] = IF i <= 1 THEN a[i] ELSE b[i - 1]
      BY <3>4, <3>5, <3>6, ConcatProperties
    <3>8. ASSUME NEW i \in 1..(n + 1) PROVE (a \o b)[i] = NodesOf(elements)[i]
      <4>1. CASE i = 1
        <5>1. (a \o b)[1] = one
          BY <3>5, <3>6, <3>7
        <5>2. NodesOf(elements)[1] = one
          BY <2>6, <3>3a DEF one
        <5> QED
          BY <4>1, <5>1, <5>2
      <4>2. CASE i # 1
        <5>1. i - 1 \in 1..n /\ (i - 1) + 1 = i /\ ~(i <= 1) /\ i \in 1..(1 + n)
          BY <4>2
        <5>2. (a \o b)[i] = b[i - 1]
          BY <3>7, <5>1
        <5>3. b[i - 1] = Primitive(es[i - 1][1], es[i - 1][2])
          BY <3>3a, <3>6, <5>1
        <5>4. es[i - 1] = elements[i]
          BY <2>6, <5>1
        <5> QED
          BY <3>3a, <5>2, <5>3, <5>4
      <4> QED
        BY <4>1, <4>2
    <3>9. a \o b = NodesOf(elements)
      <4>1. PICK c : c = a \o b
        OBVIOUS
      <4>2. c \in Seq(P) /\ Len(c) = n + 1 /\ \A i \in 1..Len(c) : c[i] = NodesOf(elements)[i]
        BY <3>7, <3>8, <4>1
      <4>3. c = NodesOf(elements)
        BY <3>4, <4>2, SeqEqual
      <4> QED
        BY <4>1, <4>3
    <3> QED
      BY <3>6, <3>9 DEF one
  <2> QED
    BY <2>13, <2>14
<1>3. Nat \subseteq S
  <2> HIDE DEF S
  <2> QED
    BY <1>1, <1>2, EveryNumber
<1> SUFFICES ASSUME NEW objects, NEW elements, Described(objects, elements)
             PROVE  ParseAll[Joined(objects)] = Some(NodesOf(elements))
  OBVIOUS
<1>4. Len(elements) \in Nat
  BY LenProperties DEF Described
<1> QED
  BY <1>3, <1>4

-----------------------------------------------------------------------------
(* A template, and a record. *)

\* The header of an object that a card describes is read as it is meant.
LEMMA HeldHeader ==
    ASSUME NEW bytes, NEW tag, NEW value, Holds(bytes, tag, value)
    PROVE  LET first == (Len(bytes) - Len(value)) + 1
           IN  /\ NodeHeader(bytes) = Some([tag |-> tag, first |-> first, last |-> Len(bytes)])
               /\ SubSeq(bytes, first, Len(bytes)) = value
<1>1. bytes \in Seq(Byte) /\ bytes \o <<>> = bytes /\ <<>> \in Seq(Byte)
  BY HoldsType, ConcatEmptySeq, EmptySeq
<1>2. PICK first : first = (Len(bytes) - Len(value)) + 1
  OBVIOUS
<1>3. /\ NodeHeader(bytes) = Some([tag |-> tag, first |-> first, last |-> Len(bytes)])
      /\ SubSeq(bytes, first, Len(bytes)) = value
  <2>1. /\ NodeHeader(bytes \o <<>>) = Some([tag |-> tag, first |-> first, last |-> Len(bytes)])
        /\ SubSeq(bytes \o <<>>, first, Len(bytes)) = value
    BY <1>1, <1>2, ObjectParses
  <2> QED
    BY <1>1, <2>1
<1> QED
  BY <1>2, <1>3

\* An object that is described is the node of its tag and its value.
LEMMA HeldIsRead ==
    ASSUME NEW bytes, NEW tag, NEW value, Holds(bytes, tag, value)
    PROVE  from_bytes(bytes) =
             IF IsConstructed(tag)
             THEN Then(ParseAll[value], LAMBDA children : Some(Constructed(tag, children)))
             ELSE Some(Primitive(tag, value))
<1>2. PICK first : first = (Len(bytes) - Len(value)) + 1
  OBVIOUS
<1>3. /\ NodeHeader(bytes) = Some([tag |-> tag, first |-> first, last |-> Len(bytes)])
      /\ SubSeq(bytes, first, Len(bytes)) = value
  BY <1>2, HeldHeader
<1>4. PICK head : head = [tag |-> tag, first |-> first, last |-> Len(bytes)]
  OBVIOUS
<1>5. /\ head.tag = tag /\ head.first = first /\ head.last = Len(bytes)
      /\ NodeHeader(bytes) # None /\ Unwrap(NodeHeader(bytes)) = head
  BY <1>3, <1>4, OfSome
<1>6. Parse(bytes) =
        IF IsConstructed(tag)
        THEN Then(ParseAll[value], LAMBDA children :
               Some([tlv |-> Constructed(tag, children), size |-> Len(bytes)]))
        ELSE Some([tlv |-> Primitive(tag, value), size |-> Len(bytes)])
  BY <1>3, <1>5 DEF Parse, ParseWith, Then
<1>7. ASSUME NEW node, Parse(bytes) = Some([tlv |-> node, size |-> Len(bytes)])
      PROVE  from_bytes(bytes) = Some(node)
  <2>1. PICK one : one = [tlv |-> node, size |-> Len(bytes)]
    OBVIOUS
  <2>2. one.tlv = node /\ one.size = Len(bytes) /\ Parse(bytes) # None /\ Unwrap(Parse(bytes)) = one
    BY <1>7, <2>1, OfSome
  <2> QED
    BY <2>2 DEF from_bytes, Then, Check
<1>8. CASE ~IsConstructed(tag)
  BY <1>6, <1>7, <1>8
<1>9. CASE IsConstructed(tag) /\ ParseAll[value] = None
  <2>1. Parse(bytes) = None
    BY <1>6, <1>9 DEF Then
  <2> QED
    BY <1>9, <2>1 DEF from_bytes, Then
<1>10. CASE IsConstructed(tag) /\ ParseAll[value] # None
  <2>1. PICK node : node = Constructed(tag, Unwrap(ParseAll[value]))
    OBVIOUS
  <2>2. Parse(bytes) = Some([tlv |-> node, size |-> Len(bytes)])
    BY <1>6, <1>10, <2>1 DEF Then
  <2>3. from_bytes(bytes) = Some(node)
    BY <1>7, <2>2
  <2> QED
    BY <1>10, <2>1, <2>3 DEF Then
<1> QED
  BY <1>8, <1>9, <1>10

\* A template is the node of the elements it is described with.
LEMMA TemplateIsRead ==
    ASSUME NEW bytes, NEW tag, NEW objects, NEW elements,
           IsTemplate(bytes, tag, objects, elements), IsConstructed(tag)
    PROVE  from_bytes(bytes) = Some(Constructed(tag, NodesOf(elements)))
<1>1. Described(objects, elements) /\ Holds(bytes, tag, Joined(objects))
  BY DEF IsTemplate, Described
<1>2. ParseAll[Joined(objects)] = Some(NodesOf(elements))
  BY <1>1, ObjectsParse
<1>3. from_bytes(bytes) = Then(ParseAll[Joined(objects)], LAMBDA children : Some(Constructed(tag, children)))
  BY <1>1, HeldIsRead
<1> QED
  BY <1>2, <1>3, OfSome DEF Then

\* Which of the templates are constructed.
LEMMA TemplateTags ==
    /\ IsConstructed(<<\h70>>) /\ IsConstructed(<<\h77>>) /\ ~IsConstructed(<<\h80>>)
    /\ <<\h70>> # <<\h77>> /\ <<\h80>> # <<\h77>>
<1>1. <<\h70>>[1] = 112 /\ <<\h77>>[1] = 119 /\ <<\h80>>[1] = 128
  OBVIOUS
<1>2. HasBit(112, 6) /\ HasBit(119, 6) /\ ~HasBit(128, 6)
  BY DEF HasBit
<1> QED
  BY <1>1, <1>2 DEF IsConstructed

\* A record that is a template 70 is read as its elements...
LEMMA RecordIsRead ==
    ASSUME NEW r, NEW sfi, RecordIsAsDescribed(r, sfi), r.seventy
    PROVE  ReadRecordResponse(r.bytes)
             = Some([raw |-> r.bytes, tlv |-> Constructed(<<\h70>>, NodesOf(r.elements))])
<1>1. IsTemplate(r.bytes, <<\h70>>, r.objects, r.elements)
  BY DEF RecordIsAsDescribed
<1>2. PICK node : node = Constructed(<<\h70>>, NodesOf(r.elements))
  OBVIOUS
<1>3. from_bytes(r.bytes) = Some(node)
  BY <1>1, <1>2, TemplateIsRead, TemplateTags
<1>4. node.tag = <<\h70>>
  BY <1>2 DEF Constructed
<1> QED
  BY <1>2, <1>3, <1>4, OfSome DEF ReadRecordResponse, Then, Check

\* ... and one that is none is not read.
LEMMA OtherRecordIsNone ==
    ASSUME NEW r, NEW sfi, RecordIsAsDescribed(r, sfi), ~r.seventy
    PROVE  ReadRecordResponse(r.bytes) = None
<1>1. PICK data \in Seq(Byte) : data = r.bytes /\ First(data, 1) # <<\h70>>
  BY DEF RecordIsAsDescribed
<1>2. CASE from_bytes(data) = None
  BY <1>1, <1>2 DEF ReadRecordResponse, Then
<1>3. CASE from_bytes(data) # None
  <2>1. PICK node \in Nodes : from_bytes(data) = Some(node) /\ ParseTag(data) = Some(node.tag)
    BY <1>3, FromBytesGivesNode
  <2>2. ParseTag(data) # None
    BY <2>1, OfSome
  <2>3. PICK k \in 1..4 : k <= Len(data) /\ ParseTag(data) = Some(First(data, k))
    BY <2>2, TagIsRead
  <2>4. node.tag = First(data, k)
    <3>1. Unwrap(ParseTag(data)) = node.tag
      BY <2>1, OfSome
    <3>2. Unwrap(ParseTag(data)) = First(data, k)
      BY <2>3, OfSome
    <3> QED
      BY <3>1, <3>2
  <2>5. node.tag # <<\h70>>
    <3>1. CASE k = 1
      BY <1>1, <2>4, <3>1
    <3>2. CASE k # 1
      <4>1. Len(First(data, k)) = k
        BY <2>3, PartIsBytes DEF First
      <4>2. Len(<<\h70>>) = 1
        OBVIOUS
      <4> QED
        BY <2>4, <3>2, <4>1, <4>2
    <3> QED
      BY <3>1, <3>2
  <2> QED
    BY <1>1, <1>3, <2>1, <2>5, OfSome DEF ReadRecordResponse, Then, Check
<1> QED
  BY <1>2, <1>3

\* The sequence put together of its single elements is itself.
LEMMA JoinedOnes ==
    ASSUME NEW S
    PROVE  \A s \in Seq(S) : Joined([i \in DOMAIN s |-> <<s[i]>>]) = s
<1> DEFINE Ones(s) == [i \in DOMAIN s |-> <<s[i]>>]
           T == {s \in Seq(S) : Joined(Ones(s)) = s}
<1>1. <<>> \in T
  <2>1. Ones(<<>>) = <<>>
    OBVIOUS
  <2> QED
    BY <2>1, JoinedNone, EmptySeq
<1>2. ASSUME NEW s \in Seq(S), NEW e \in S, s \in T PROVE Append(s, e) \in T
  <2>1. PICK n \in Nat : n = Len(s)
    BY LenProperties
  <2>2. PICK u : u = Append(s, e)
    OBVIOUS
  <2>3. /\ u \in Seq(S) /\ Len(u) = n + 1 /\ u[n + 1] = e
        /\ \A i \in 1..n : u[i] = s[i]
    BY <2>1, <2>2, AppendProperties
  <2>4. DOMAIN s = 1..n /\ DOMAIN u = 1..(n + 1)
    BY <2>1, <2>3, LenProperties
  <2>5. /\ \A i \in 1..n : s[i] \in S /\ <<s[i]>> \in Seq(S)
        /\ \A i \in 1..(n + 1) : u[i] \in S /\ <<u[i]>> \in Seq(S)
        /\ <<e>> \in Seq(S)
    BY <2>1, <2>3, <2>4, ElementOfSeq
  <2>6. Ones(s) \in [1..n -> Seq(S)] /\ Ones(u) \in [1..(n + 1) -> Seq(S)]
    BY <2>4, <2>5
  <2>6a. /\ \A i \in 1..n : Ones(s)[i] = <<s[i]>>
         /\ \A i \in 1..(n + 1) : Ones(u)[i] = <<u[i]>>
    BY <2>4
  <2> HIDE DEF Ones
  <2>7. /\ Ones(s) \in Seq(Seq(S)) /\ Len(Ones(s)) = n
        /\ Ones(u) \in Seq(Seq(S)) /\ Len(Ones(u)) = n + 1
    BY <2>6
  <2>8. Ones(u) = Append(Ones(s), <<e>>)
    <3>1. PICK v : v = Append(Ones(s), <<e>>)
      OBVIOUS
    <3>2. /\ v \in Seq(Seq(S)) /\ Len(v) = n + 1 /\ v[n + 1] = <<e>>
          /\ \A i \in 1..n : v[i] = Ones(s)[i]
      BY <2>5, <2>7, <3>1, AppendProperties
    <3>3. ASSUME NEW i \in 1..(n + 1) PROVE Ones(u)[i] = v[i]
      <4>1. CASE i = n + 1
        BY <2>3, <2>6a, <3>2, <4>1
      <4>2. CASE i # n + 1
        <5>1. i \in 1..n
          BY <4>2
        <5> QED
          BY <2>3, <2>6a, <3>2, <5>1
      <4> QED
        BY <4>1, <4>2
    <3>4. Ones(u) = v
      BY <2>7, <3>2, <3>3, SeqEqual
    <3> QED
      BY <3>1, <3>4
  <2>9. Joined(Ones(u)) = s \o <<e>>
    <3>1. Joined(Ones(s)) = s
      BY <1>2
    <3> QED
      BY <2>5, <2>7, <2>8, <3>1, JoinedAppend
  <2>10. s \o <<e>> = u
    BY <2>2
  <2> QED
    BY <2>2, <2>3, <2>9, <2>10
<1>3. Seq(S) \subseteq T
  <2> HIDE DEF T
  <2> QED
    BY <1>1, <1>2, EverySequence
<1> QED
  BY <1>3

LeavesOf(elements) == [i \in DOMAIN elements |-> [tag |-> elements[i][1], value |-> elements[i][2]]]
Leaf == [tag : Seq(Byte), value : Seq(Byte)]

\* The leaves of elements are elements.
LEMMA LeavesOfType ==
    ASSUME NEW elements \in Seq(Seq(Byte) \X Seq(Byte))
    PROVE  /\ LeavesOf(elements) \in Seq(Leaf) /\ Len(LeavesOf(elements)) = Len(elements)
           /\ \A i \in DOMAIN elements : LeavesOf(elements)[i].tag = elements[i][1]
                                         /\ LeavesOf(elements)[i].value = elements[i][2]
<1>1. PICK n \in Nat : n = Len(elements)
  BY LenProperties
<1>2. DOMAIN elements = 1..n
  BY <1>1, LenProperties
<1>3. \A i \in 1..n : elements[i] \in Seq(Byte) \X Seq(Byte)
  <2>1. PICK P : P = Seq(Byte) \X Seq(Byte)
    OBVIOUS
  <2>2. elements \in Seq(P)
    BY <2>1
  <2>3. \A i \in 1..n : elements[i] \in P
    BY <1>1, <2>2, ElementOfSeq
  <2> QED
    BY <2>1, <2>3
<1>4. \A i \in 1..n : elements[i][1] \in Seq(Byte) /\ elements[i][2] \in Seq(Byte)
  BY <1>3
<1>5. LeavesOf(elements) \in [1..n -> Leaf]
  BY <1>2, <1>4 DEF LeavesOf, Leaf
<1>6. LeavesOf(elements) \in Seq(Leaf) /\ Len(LeavesOf(elements)) = n
  BY <1>5
<1>7. \A i \in DOMAIN elements : LeavesOf(elements)[i] = [tag |-> elements[i][1], value |-> elements[i][2]]
  BY DEF LeavesOf
<1>8. ASSUME NEW i \in DOMAIN elements
      PROVE  LeavesOf(elements)[i].tag = elements[i][1] /\ LeavesOf(elements)[i].value = elements[i][2]
  <2>1. PICK leaf : leaf = [tag |-> elements[i][1], value |-> elements[i][2]]
    OBVIOUS
  <2>2. LeavesOf(elements)[i] = leaf
    BY <1>7, <2>1
  <2>3. leaf.tag = elements[i][1] /\ leaf.value = elements[i][2]
    BY <2>1
  <2> QED
    BY <2>2, <2>3
<1> QED
  BY <1>1, <1>6, <1>8

\* The primitive data elements of a template of them are the elements.
LEMMA TemplateLeaves ==
    ASSUME NEW tag, NEW elements \in Seq(Seq(Byte) \X Seq(Byte))
    PROVE  Leaves(Constructed(tag, NodesOf(elements))) = LeavesOf(elements)
<1>1. PICK nodes : nodes = NodesOf(elements)
  OBVIOUS
<1>2. DOMAIN nodes = DOMAIN elements
  BY <1>1 DEF NodesOf
<1>3. \A i \in DOMAIN nodes : nodes[i].leaves = <<LeavesOf(elements)[i]>>
  <2> SUFFICES ASSUME NEW i \in DOMAIN elements PROVE nodes[i].leaves = <<LeavesOf(elements)[i]>>
    BY <1>2
  <2>1. nodes[i] = Primitive(elements[i][1], elements[i][2])
    BY <1>1 DEF NodesOf
  <2>2. nodes[i].leaves = <<[tag |-> elements[i][1], value |-> elements[i][2]]>>
    BY <2>1 DEF Primitive
  <2> QED
    BY <2>2 DEF LeavesOf
<1>4. Leaves(Constructed(tag, nodes)) = Joined([i \in DOMAIN nodes |-> nodes[i].leaves])
  BY DEF Leaves, Constructed
<1>5. PICK leaves \in Seq(Leaf) : leaves = LeavesOf(elements)
  BY LeavesOfType
<1>6. DOMAIN leaves = DOMAIN nodes
  BY <1>2, <1>5 DEF LeavesOf
<1>7. [i \in DOMAIN nodes |-> nodes[i].leaves] = [i \in DOMAIN leaves |-> <<leaves[i]>>]
  BY <1>3, <1>5, <1>6
<1>8. Joined([i \in DOMAIN leaves |-> <<leaves[i]>>]) = leaves
  BY JoinedOnes
<1> QED
  BY <1>1, <1>4, <1>5, <1>7, <1>8

\* Written again, the value of a template has its elements in shortest lengths.
LEMMA TemplateContent ==
    ASSUME NEW tag, NEW elements
    PROVE  Constructed(tag, NodesOf(elements)).content = Rewritten(elements)
<1>1. PICK nodes : nodes = NodesOf(elements)
  OBVIOUS
<1>2. DOMAIN nodes = DOMAIN elements
  BY <1>1 DEF NodesOf
<1> DEFINE Short(i) == elements[i][1] \o encode_length(Len(elements[i][2])) \o elements[i][2]
<1>4. ASSUME NEW i \in DOMAIN elements PROVE Encode(nodes[i]) = Short(i)
  <2>1. nodes[i] = Primitive(elements[i][1], elements[i][2])
    BY <1>1 DEF NodesOf
  <2>2. nodes[i].tag = elements[i][1] /\ nodes[i].content = elements[i][2]
    BY <2>1 DEF Primitive
  <2> QED
    BY <2>2 DEF Encode
<1>5. Constructed(tag, nodes).content = Joined([i \in DOMAIN nodes |-> Encode(nodes[i])])
  BY DEF Constructed
<1> HIDE DEF Short
<1>6. [i \in DOMAIN nodes |-> Encode(nodes[i])] = [i \in DOMAIN elements |-> Short(i)]
  BY <1>2, <1>4
<1>7. Rewritten(elements) = Joined([i \in DOMAIN elements |-> Short(i)])
  BY DEF Rewritten, Short
<1> QED
  BY <1>1, <1>5, <1>6, <1>7

\* The shortest form of a length is no longer than any other.
LEMMA ShortestLength ==
    ASSUME NEW n \in 0..255, NEW length \in Lengths(n)
    PROVE  /\ encode_length(n) \in Seq(Byte) /\ length \in Seq(Byte)
           /\ Len(encode_length(n)) <= Len(length)
<1>1. n \in Byte /\ 129 \in Byte
  BY DEF Byte
<1>2. \/ n < 128 /\ length = <<n>>
      \/ length = <<129, n>>
      \/ length = <<130, 0, n>>
      \/ length = <<131, 0, 0, n>>
      \/ length = <<132, 0, 0, 0, n>>
  BY DEF Lengths
<1>3. length \in Seq(Byte) /\ Len(length) \in 1..5
  BY LengthParses, EmptySeq
<1> DEFINE Long(a, k) == <<a>> \o be_bytes(n, k)
<1>4. PICK short, one, two, three, four :
        short = <<n>> /\ one = <<129, n>> /\ two = Long(130, 2) /\ three = Long(131, 3) /\ four = Long(132, 4)
  OBVIOUS
<1>5. encode_length(n) = CASE n <= 127 -> short
                           [] 127 < n /\ n <= 255 -> one
                           [] 255 < n /\ n <= 65535 -> two
                           [] 65535 < n /\ n <= 16777215 -> three
                           [] OTHER -> four
  BY <1>4, SMT DEF encode_length
<1> HIDE DEF Long
<1>6. short \in Seq(Byte) /\ one \in Seq(Byte) /\ Len(short) = 1 /\ Len(one) = 2
  BY <1>1, <1>4
<1>7. encode_length(n) = IF n <= 127 THEN short ELSE one
  BY <1>5
<1>8. ~(n <= 127) => Len(length) >= 2
  <2> SUFFICES ASSUME ~(n <= 127) PROVE Len(length) >= 2
    OBVIOUS
  <2>1. ~(n < 128)
    OBVIOUS
  <2>2. CASE length = <<129, n>>
    BY <2>2
  <2>3. CASE length = <<130, 0, n>>
    BY <2>3
  <2>4. CASE length = <<131, 0, 0, n>>
    BY <2>4
  <2>5. CASE length = <<132, 0, 0, 0, n>>
    BY <2>5
  <2> QED
    BY <1>2, <2>1, <2>2, <2>3, <2>4, <2>5, Zenon
<1>9. PICK k \in 1..5 : k = Len(length)
  BY <1>3
<1>10. Len(encode_length(n)) <= k /\ encode_length(n) \in Seq(Byte)
  <2>1. CASE n <= 127
    <3>1. encode_length(n) = short
      BY <1>7, <2>1
    <3>2. Len(short) <= k
      BY <1>6, <1>9
    <3> QED
      BY <1>6, <3>1, <3>2, Zenon
  <2>2. CASE ~(n <= 127)
    <3>1. encode_length(n) = one
      BY <1>7, <2>2
    <3>2. k >= 2
      BY <1>8, <1>9, <2>2, Zenon
    <3>3. Len(one) <= k
      BY <1>6, <3>2
    <3> QED
      BY <1>6, <3>1, <3>3, Zenon
  <2> QED
    BY <2>1, <2>2
<1> QED
  BY <1>3, <1>9, <1>10

\* Strings that are each no longer than another are no longer, joined.
LEMMA JoinedNoLonger ==
    ASSUME NEW S, NEW a \in Seq(Seq(S)), NEW b \in Seq(Seq(S)), Len(a) = Len(b),
           \A i \in 1..Len(a) : Len(a[i]) <= Len(b[i])
    PROVE  Len(Joined(a)) <= Len(Joined(b))
<1> DEFINE Each(x, y) == \A i \in 1..Len(x) : Len(x[i]) <= Len(y[i])
           T == {x \in Seq(Seq(S)) : \A y \in Seq(Seq(S)) :
                   (Len(x) = Len(y) /\ Each(x, y)) => Len(Joined(x)) <= Len(Joined(y))}
<1>1. <<>> \in T
  <2> SUFFICES ASSUME NEW y \in Seq(Seq(S)), Len(<<>>) = Len(y)
               PROVE  Len(Joined(<<>>)) <= Len(Joined(y))
    BY EmptySeq
  <2>1. y = <<>>
    BY EmptySeq
  <2>2. Len(Joined(<<>>)) = 0
    BY JoinedNone, EmptySeq
  <2> QED
    BY <2>1, <2>2
<1>2. ASSUME NEW x \in Seq(Seq(S)), NEW e \in Seq(S), x \in T PROVE Append(x, e) \in T
  <2>0. Append(x, e) \in Seq(Seq(S))
    BY AppendProperties
  <2> SUFFICES ASSUME NEW y \in Seq(Seq(S)), Len(Append(x, e)) = Len(y), Each(Append(x, e), y)
               PROVE  Len(Joined(Append(x, e))) <= Len(Joined(y))
    BY <2>0
  <2>a. PICK U : U = Seq(S)
    OBVIOUS
  <2>b. x \in Seq(U) /\ e \in U /\ y \in Seq(U)
    BY <2>a
  <2>1. Len(x) \in Nat /\ Len(Append(x, e)) = Len(x) + 1 /\ Append(x, e)[Len(x) + 1] = e
        /\ \A i \in 1..Len(x) : Append(x, e)[i] = x[i]
    BY <2>b, LenProperties, AppendProperties
  <2>2. y # <<>>
    <3>1. PICK k, other : k = Len(x) /\ other = Append(x, e)
      OBVIOUS
    <3>2. k \in Nat /\ Len(y) = k + 1
      BY <2>1, <3>1
    <3>3. Len(y) # 0
      BY <3>2
    <3> QED
      BY <3>3, EmptySeq
  <2>3. PICK z \in Seq(Seq(S)), last \in Seq(S) : y = Append(z, last)
    BY <2>2, SequenceEmptyOrAppend
  <2>4. Len(z) \in Nat /\ Len(y) = Len(z) + 1 /\ y[Len(z) + 1] = last /\ \A i \in 1..Len(z) : y[i] = z[i]
    <3>1. z \in Seq(U) /\ last \in U
      BY <2>a
    <3> QED
      BY <2>3, <3>1, LenProperties, AppendProperties
  <2>5. Len(x) = Len(z)
    <3>1. PICK k, m, other : k = Len(x) /\ m = Len(z) /\ other = Append(x, e)
      OBVIOUS
    <3>2. k \in Nat /\ m \in Nat /\ k + 1 = m + 1
      BY <2>1, <2>4, <3>1
    <3> QED
      BY <3>1, <3>2
  <2>6. \A i \in 1..(Len(x) + 1) : Len(Append(x, e)[i]) <= Len(y[i])
    BY <2>1
  <2>7. Len(e) <= Len(last)
    BY <2>1, <2>4, <2>5, <2>6
  <2>8. Each(x, z)
    BY <2>1, <2>4, <2>5, <2>6
  <2> HIDE DEF Each
  <2>9. Len(Joined(x)) <= Len(Joined(z))
    BY <1>2, <2>5, <2>8
  <2>10. Joined(Append(x, e)) = Joined(x) \o e /\ Joined(y) = Joined(z) \o last
    BY <2>3, JoinedAppend
  <2>11. Joined(x) \in Seq(S) /\ Joined(z) \in Seq(S)
    BY JoinedType
  <2>12. /\ Len(Joined(x) \o e) = Len(Joined(x)) + Len(e)
         /\ Len(Joined(z) \o last) = Len(Joined(z)) + Len(last)
    BY <2>11, ConcatProperties
  <2>13. /\ Len(Joined(x)) \in Nat /\ Len(e) \in Nat /\ Len(Joined(z)) \in Nat /\ Len(last) \in Nat
    BY <2>11, LenProperties
  <2> QED
    BY <2>7, <2>9, <2>10, <2>12, <2>13
<1>3. Seq(Seq(S)) \subseteq T
  <2> HIDE DEF T
  <2> QED
    BY <1>1, <1>2, EverySequence
<1>4. a \in T /\ Each(a, b)
  BY <1>3
<1> HIDE DEF Each
<1> QED
  BY <1>4

\* Elements in shortest lengths take no more bytes than their objects.
LEMMA RewrittenNoLonger ==
    ASSUME NEW objects, NEW elements, Described(objects, elements)
    PROVE  Rewritten(elements) \in Seq(Byte) /\ Len(Rewritten(elements)) <= Len(Joined(objects))
<1> DEFINE Short(i) == elements[i][1] \o encode_length(Len(elements[i][2])) \o elements[i][2]
           short == [i \in DOMAIN elements |-> Short(i)]
<1>1. /\ objects \in Seq(Seq(Byte)) /\ elements \in Seq(Seq(Byte) \X Seq(Byte))
      /\ Len(objects) = Len(elements) /\ Len(elements) \in Nat /\ DOMAIN elements = 1..Len(elements)
  BY LenProperties DEF Described
<1>2. ASSUME NEW i \in 1..Len(elements) PROVE Short(i) \in Seq(Byte) /\ Len(Short(i)) <= Len(objects[i])
  <2>1. PICK tag, value : tag = elements[i][1] /\ value = elements[i][2]
    OBVIOUS
  <2>2. Holds(objects[i], tag, value)
    BY <1>1, <2>1 DEF Described
  <2>3. tag \in Seq(Byte) /\ value \in Seq(Byte) /\ Len(value) < 256
    BY <2>2 DEF Holds, IsTag
  <2>4. PICK length \in Lengths(Len(value)) : objects[i] = tag \o length \o value
    BY <2>2 DEF Holds
  <2>5. Len(value) \in 0..255 /\ Len(tag) \in Nat
    <3>1. Len(value) \in Nat /\ Len(tag) \in Nat
      BY <2>3, LenProperties
    <3>2. \A v \in Nat : v < 256 => v \in 0..255
      OBVIOUS
    <3> QED
      BY <2>3, <3>1, <3>2, Zenon
  <2>6. PICK shortest : shortest = encode_length(Len(value))
    OBVIOUS
  <2>7. shortest \in Seq(Byte) /\ length \in Seq(Byte) /\ Len(shortest) <= Len(length)
    BY <2>5, <2>6, ShortestLength, Zenon
  <2>8. Len(shortest) \in Nat /\ Len(length) \in Nat
    BY <2>7, LenProperties
  <2>9. ASSUME NEW middle \in Seq(Byte)
        PROVE  tag \o middle \o value \in Seq(Byte)
               /\ Len(tag \o middle \o value) = Len(tag) + Len(middle) + Len(value)
    <3>1. tag \o middle \in Seq(Byte) /\ Len(tag \o middle) = Len(tag) + Len(middle)
      BY <2>3, ConcatProperties
    <3> QED
      BY <2>3, <3>1, ConcatProperties
  <2>10. Short(i) = tag \o shortest \o value
    BY <2>1, <2>6
  <2> QED
    <3>1. PICK a, b : a = tag \o shortest \o value /\ b = tag \o length \o value
      OBVIOUS
    <3>a. a \in Seq(Byte) /\ Len(a) = Len(tag) + Len(shortest) + Len(value)
      <4>1. /\ tag \o shortest \o value \in Seq(Byte)
            /\ Len(tag \o shortest \o value) = Len(tag) + Len(shortest) + Len(value)
        BY <2>7, <2>9, Zenon
      <4> QED
        BY <3>1, <4>1, Zenon
    <3>b. Len(b) = Len(tag) + Len(length) + Len(value)
      <4>1. Len(tag \o length \o value) = Len(tag) + Len(length) + Len(value)
        BY <2>7, <2>9, Zenon
      <4> QED
        BY <3>1, <4>1, Zenon
    <3>2. /\ a \in Seq(Byte) /\ Len(a) = Len(tag) + Len(shortest) + Len(value)
          /\ Len(b) = Len(tag) + Len(length) + Len(value)
      BY <3>a, <3>b
    <3>3. Len(a) <= Len(b)
      BY <2>5, <2>7, <2>8, <3>2
    <3> HIDE DEF Short
    <3> QED
      BY <2>4, <2>10, <3>1, <3>2, <3>3
<1> HIDE DEF Short
<1>3. short \in [1..Len(elements) -> Seq(Byte)]
  BY <1>1, <1>2
<1>4. PICK rewritten : rewritten = short
  OBVIOUS
<1>5. rewritten \in Seq(Seq(Byte)) /\ Len(rewritten) = Len(elements)
  BY <1>1, <1>3, <1>4
<1>6. \A i \in 1..Len(rewritten) : Len(rewritten[i]) <= Len(objects[i])
  BY <1>1, <1>2, <1>4, <1>5
<1>7. Len(Joined(rewritten)) <= Len(Joined(objects)) /\ Joined(rewritten) \in Seq(Byte)
  BY <1>1, <1>5, <1>6, JoinedNoLonger, JoinedType
<1>8. Rewritten(elements) = Joined(rewritten)
  BY <1>4 DEF Rewritten, Short
<1> QED
  BY <1>7, <1>8

\* What the end of a string ends with, the string ends with.
LEMMA EndOfEnd ==
    ASSUME NEW bytes \in Seq(Byte), NEW value \in Seq(Byte), Len(value) <= Len(bytes),
           SubSeq(bytes, (Len(bytes) - Len(value)) + 1, Len(bytes)) = value,
           NEW k \in Nat, k <= Len(value)
    PROVE  Ending(bytes, k) = Ending(value, k) /\ Ending(value, k) \in Seq(Byte)
<1>1. PICK m \in Nat, v \in Nat : m = Len(bytes) /\ v = Len(value)
  BY LenProperties
<1>2. \A i \in 1..v : value[i] = bytes[(m - v) + i]
  <2>1. CASE v = 0
    BY <2>1
  <2>2. CASE v # 0
    <3>1. PICK first \in Int : first = (m - v) + 1
      BY <1>1
    <3>2. first \in 1..(m + 1) /\ m \in 1..m /\ (m - first) + 1 = v
      BY <1>1, <2>2, <3>1
    <3>3. value = SubSeq(bytes, first, m)
      BY <1>1, <3>1
    <3>4. \A i \in 1..((m - first) + 1) : value[i] = bytes[(first + i) - 1]
      BY <1>1, <3>2, <3>3, SubSeqProperties
    <3>5. \A i \in 1..v : (first + i) - 1 = (m - v) + i
      BY <1>1, <3>1
    <3> QED
      BY <3>2, <3>4, <3>5
  <2> QED
    BY <2>1, <2>2
<1>3. DOMAIN bytes = 1..m /\ DOMAIN value = 1..v
  BY <1>1, LenProperties
<1>4. /\ Ending(bytes, k) = [i \in 1..k |-> bytes[(m - k) + i]]
      /\ Ending(value, k) = [i \in 1..k |-> value[(v - k) + i]]
  BY <1>1, <1>3 DEF Ending
<1>5. \A i \in 1..k : (v - k) + i \in 1..v /\ (m - v) + ((v - k) + i) = (m - k) + i
  BY <1>1
<1>6. \A i \in 1..k : value[(v - k) + i] = bytes[(m - k) + i] /\ value[(v - k) + i] \in Byte
  BY <1>2, <1>3, <1>5
<1>7. [i \in 1..k |-> value[(v - k) + i]] \in Seq(Byte)
  <2>1. PICK end : end = [i \in 1..k |-> value[(v - k) + i]]
    OBVIOUS
  <2>2. end \in [1..k -> Byte]
    BY <1>6, <2>1
  <2>3. end \in Seq(Byte)
    BY <2>2
  <2> QED
    BY <2>1, <2>3
<1> QED
  BY <1>4, <1>6, <1>7

\* What is taken of a record is the end of what the card signs of it.
LEMMA SignedPart ==
    ASSUME NEW r, NEW sfi, RecordIsAsDescribed(r, sfi), r.seventy
    PROVE  LET end == IF sfi <= 10 THEN Ending(r.value, Len(Rewritten(r.elements))) ELSE r.value
           IN  /\ oda_input_bytes([raw |-> r.bytes, tlv |-> Constructed(<<\h70>>, NodesOf(r.elements))], sfi)
                    = end
               /\ end \in Seq(Byte)
<1>1. PICK node : node = Constructed(<<\h70>>, NodesOf(r.elements))
  OBVIOUS
<1>2. oda_input_bytes([raw |-> r.bytes, tlv |-> node], sfi)
        = IF sfi <= 10 THEN Ending(r.bytes, Len(node.content)) ELSE r.bytes
  BY DEF oda_input_bytes, encoded_len
<1>3. r.value = IF sfi <= 10 THEN Joined(r.objects) ELSE r.bytes
  BY DEF RecordIsAsDescribed
<1>4. r.bytes \in Seq(Byte)
  BY DEF RecordIsAsDescribed
<1>5. ASSUME sfi <= 10
      PROVE  /\ Ending(r.bytes, Len(node.content)) = Ending(r.value, Len(Rewritten(r.elements)))
             /\ Ending(r.value, Len(Rewritten(r.elements))) \in Seq(Byte)
  <2>1. IsTemplate(r.bytes, <<\h70>>, r.objects, r.elements)
    BY DEF RecordIsAsDescribed
  <2>2. Described(r.objects, r.elements) /\ Holds(r.bytes, <<\h70>>, Joined(r.objects))
    BY <2>1 DEF IsTemplate, Described
  <2>3. node.content = Rewritten(r.elements)
    BY <1>1, TemplateContent
  <2>4. PICK value, bytes, short : value = Joined(r.objects) /\ bytes = r.bytes /\ short = Rewritten(r.elements)
    OBVIOUS
  <2>5. short \in Seq(Byte) /\ Len(short) <= Len(value) /\ Len(short) \in Nat
    BY <2>2, <2>4, RewrittenNoLonger, LenProperties
  <2>6. SubSeq(bytes, (Len(bytes) - Len(value)) + 1, Len(bytes)) = value
    BY <2>2, <2>4, HeldHeader
  <2>7. value \in Seq(Byte) /\ bytes \in Seq(Byte) /\ Len(bytes) > Len(value)
    BY <2>2, <2>4, HoldsType
  <2>8. Len(value) <= Len(bytes)
    BY <2>7, LenProperties
  <2>9. Ending(bytes, Len(short)) = Ending(value, Len(short)) /\ Ending(value, Len(short)) \in Seq(Byte)
    BY <2>5, <2>6, <2>7, <2>8, EndOfEnd
  <2>10. r.value = value
    BY <1>3, <1>5, <2>4
  <2> QED
    BY <2>3, <2>4, <2>9, <2>10
<1> QED
  BY <1>1, <1>2, <1>3, <1>4, <1>5

-----------------------------------------------------------------------------
(* Locators. *)

Four == {s \in Seq(Byte) : Len(s) = 4}

\* Strings of four bytes side by side can be told apart.
LEMMA FoursApart ==
    \A strings \in Seq(Four) :
      /\ Joined(strings) \in Seq(Byte) /\ Len(Joined(strings)) = 4 * Len(strings)
      /\ \A i \in 1..Len(strings) : SubSeq(Joined(strings), (4 * i) - 3, 4 * i) = strings[i]
<1> DEFINE T == {strings \in Seq(Four) :
                   /\ Joined(strings) \in Seq(Byte) /\ Len(Joined(strings)) = 4 * Len(strings)
                   /\ \A i \in 1..Len(strings) : SubSeq(Joined(strings), (4 * i) - 3, 4 * i) = strings[i]}
<1>0. Seq(Four) \subseteq Seq(Seq(Byte))
  BY SeqMonotonic DEF Four
<1>1. <<>> \in T
  <2>1. <<>> \in Seq(Four) /\ <<>> \in Seq(Byte) /\ Len(<<>>) = 0
    BY EmptySeq
  <2>2. 4 * 0 = 0 /\ \A i \in 1..0 : FALSE
    OBVIOUS
  <2> QED
    BY <2>1, <2>2, JoinedNone
<1>2. ASSUME NEW s \in Seq(Four), NEW e \in Four, s \in T PROVE Append(s, e) \in T
  <2>1. PICK n \in Nat : n = Len(s)
    BY LenProperties
  <2>2. PICK u, j, w : u = Append(s, e) /\ j = Joined(s) /\ w = Joined(u)
    OBVIOUS
  <2>3. /\ u \in Seq(Four) /\ Len(u) = n + 1 /\ u[n + 1] = e
        /\ \A i \in 1..n : u[i] = s[i]
    BY <2>1, <2>2, AppendProperties
  <2>4. e \in Seq(Byte) /\ Len(e) = 4
    BY DEF Four
  <2>5. w = j \o e
    BY <1>0, <2>2, <2>4, JoinedAppend
  <2>6. j \in Seq(Byte) /\ Len(j) = 4 * n /\ \A i \in 1..n : SubSeq(j, (4 * i) - 3, 4 * i) = s[i]
    BY <1>2, <2>1, <2>2
  <2>7. w \in Seq(Byte) /\ Len(w) = (4 * n) + 4
    <3>1. e \in Seq(Byte) /\ j \in Seq(Byte)
      BY <2>4, <2>6
    <3>2. j \o e \in Seq(Byte) /\ Len(j \o e) = Len(j) + Len(e)
      BY <3>1, ConcatProperties
    <3> QED
      BY <2>4, <2>5, <2>6, <3>2
  <2>8. ASSUME NEW i \in 1..(n + 1) PROVE SubSeq(w, (4 * i) - 3, 4 * i) = u[i]
    <3>1. CASE i = n + 1
      <4>1. SubSeq(j \o e, Len(j) + 1, Len(j \o e)) = e
        BY <2>4, <2>6, FrontAndRest
      <4>2. (4 * i) - 3 = Len(j) + 1 /\ 4 * i = Len(w)
        BY <2>6, <2>7, <3>1
      <4> QED
        BY <2>3, <2>5, <3>1, <4>1, <4>2
    <3>2. CASE i # n + 1
      <4>1. i \in 1..n
        BY <3>2
      <4>2. (4 * i) - 3 \in 1..Len(j) /\ 4 * i \in 1..Len(j)
        BY <2>6, <4>1
      <4>3. PICK a, b : a = (4 * i) - 3 /\ b = 4 * i
        OBVIOUS
      <4>4. SubSeq(j \o e, a, b) = SubSeq(j, a, b)
        BY <2>4, <2>6, <4>2, <4>3, SubSeqOfConcat1
      <4> QED
        BY <2>3, <2>5, <2>6, <4>1, <4>3, <4>4
    <3> QED
      BY <3>1, <3>2
  <2>9. Len(w) = 4 * Len(u)
    BY <2>3, <2>7
  <2> QED
    BY <2>2, <2>3, <2>7, <2>8, <2>9
<1>3. Seq(Four) \subseteq T
  <2> HIDE DEF T
  <2> QED
    BY <1>1, <1>2, EverySequence
<1> QED
  BY <1>3

Entry4 == Byte \X Byte \X Byte \X Byte
EntryBytes(locator) ==
  [i \in DOMAIN locator |-> <<8 * locator[i][1], locator[i][2], locator[i][3], locator[i][4]>>]
EntriesOf(locator) ==
  [i \in DOMAIN locator |-> [sfi |-> locator[i][1], first_record |-> locator[i][2],
                             last_record |-> locator[i][3], oda_record_count |-> locator[i][4]]]

\* Four bytes of a locator are the entry they were made of...
LEMMA EntryIsRead ==
    ASSUME NEW a \in 1..30, NEW b \in 1..254, NEW c \in b..254, NEW d \in 0..((c - b) + 1)
    PROVE  /\ <<8 * a, b, c, d>> \in Four
           /\ ParseLocatorEntry(<<8 * a, b, c, d>>)
                = Some([sfi |-> a, first_record |-> b, last_record |-> c, oda_record_count |-> d])
<1>1. PICK x \in Byte : x = 8 * a /\ x \div 8 = a /\ x % 8 = 0
  <2>1. 8 * a \in Byte
    BY DEF Byte
  <2>2. (8 * a) \div 8 = a /\ (8 * a) % 8 = 0
    OBVIOUS
  <2> QED
    BY <2>1, <2>2
<1>2. b \in Byte /\ c \in Byte /\ d \in Byte
  BY DEF Byte
<1>3. PICK e : e = <<x, b, c, d>>
  OBVIOUS
<1>4. e \in Seq(Byte) /\ Len(e) = 4 /\ e[1] = x /\ e[2] = b /\ e[3] = c /\ e[4] = d
  BY <1>2, <1>3
<1>5. b # 0 /\ b <= c /\ d <= (c - b) + 1
  OBVIOUS
<1>6. ParseLocatorEntry(e) = Some([sfi |-> a, first_record |-> b, last_record |-> c, oda_record_count |-> d])
  BY <1>1, <1>4, <1>5 DEF ParseLocatorEntry, Check
<1> QED
  BY <1>1, <1>3, <1>4, <1>6 DEF Four

\* ... and all the bytes of a locator are its entries.
LEMMA LocatorIsRead ==
    ASSUME NEW locator \in Seq(Entry4), locator # <<>>, \A i \in DOMAIN locator : IsLocator(locator[i])
    PROVE  /\ LocatorBytes(locator) \in Seq(Byte)
           /\ ParseLocator(LocatorBytes(locator)) = Some(EntriesOf(locator))
<1>1. PICK n \in Nat : n = Len(locator)
  BY LenProperties
<1>2. DOMAIN locator = 1..n /\ n > 0
  BY <1>1, LenProperties, EmptySeq
<1>3. PICK strings : strings = EntryBytes(locator)
  OBVIOUS
<1>4. ASSUME NEW i \in 1..n
      PROVE  /\ strings[i] \in Four
             /\ ParseLocatorEntry(strings[i]) = Some(EntriesOf(locator)[i])
  <2>1. PICK a, b, c, d : a = locator[i][1] /\ b = locator[i][2] /\ c = locator[i][3] /\ d = locator[i][4]
    OBVIOUS
  <2>2. a \in 1..30 /\ b \in 1..254 /\ c \in b..254 /\ d \in 0..((c - b) + 1)
    <3>1. IsLocator(locator[i])
      BY <1>2
    <3>2. a \in 1..30 /\ b \in 1..254
      BY <2>1, <3>1 DEF IsLocator
    <3>3. c \in b..254
      BY <2>1, <3>1 DEF IsLocator
    <3>4. d \in 0..((c - b) + 1)
      BY <2>1, <3>1 DEF IsLocator
    <3> QED
      BY <3>2, <3>3, <3>4
  <2>3. strings[i] = <<8 * a, b, c, d>>
    BY <1>2, <1>3, <2>1 DEF EntryBytes
  <2>4. EntriesOf(locator)[i]
          = [sfi |-> a, first_record |-> b, last_record |-> c, oda_record_count |-> d]
    BY <1>2, <2>1 DEF EntriesOf
  <2> QED
    BY <2>2, <2>3, <2>4, EntryIsRead
<1>5. strings \in [1..n -> Four]
  <2>1. strings = [i \in 1..n |-> strings[i]]
    BY <1>2, <1>3 DEF EntryBytes
  <2> QED
    BY <1>4, <2>1
<1>6. strings \in Seq(Four) /\ Len(strings) = n
  BY <1>5
<1>7. PICK data : data = Joined(strings)
  OBVIOUS
<1>8. /\ data \in Seq(Byte) /\ Len(data) = 4 * n
      /\ \A i \in 1..n : SubSeq(data, (4 * i) - 3, 4 * i) = strings[i]
  BY <1>6, <1>7, FoursApart
<1>9. Len(data) \div 4 = n /\ Len(data) % 4 = 0 /\ data # <<>>
  <2>1. (4 * n) \div 4 = n /\ (4 * n) % 4 = 0 /\ 4 * n # 0
    BY <1>2
  <2> QED
    BY <1>8, <2>1, EmptySeq
<1>10. PICK entries : entries = [i \in 1..n |-> ParseLocatorEntry(SubSeq(data, (4 * i) - 3, 4 * i))]
  OBVIOUS
<1>11. \A i \in 1..n : entries[i] = Some(EntriesOf(locator)[i])
  BY <1>4, <1>8, <1>10
<1>12. DOMAIN entries = 1..n
  BY <1>10
<1>13. \A i \in 1..n : entries[i] # None /\ Unwrap(entries[i]) = EntriesOf(locator)[i]
  BY <1>11, OfSome
<1>14. ParseLocator(data) = Some([i \in DOMAIN entries |-> Unwrap(entries[i])])
  BY <1>9, <1>10, <1>12, <1>13 DEF ParseLocator, Check
<1>15. [i \in DOMAIN entries |-> Unwrap(entries[i])] = EntriesOf(locator)
  BY <1>2, <1>12, <1>13 DEF EntriesOf
<1>16. LocatorBytes(locator) = data
  BY <1>3, <1>7 DEF LocatorBytes, EntryBytes
<1> QED
  BY <1>8, <1>14, <1>15, <1>16
-----------------------------------------------------------------------------
(* Strings alike but for what each of their elements becomes. *)

Mapped(s, M) == [i \in DOMAIN s |-> M[s[i]]]

\* What becomes of elements becomes of them in joined strings.
LEMMA JoinedMapped ==
    ASSUME NEW S, NEW U, NEW M \in [S -> U]
    PROVE  \A strings \in Seq(Seq(S)) :
             /\ Mapped(Joined(strings), M) \in Seq(U)
             /\ Joined([i \in DOMAIN strings |-> Mapped(strings[i], M)]) = Mapped(Joined(strings), M)
<1> DEFINE Each(strings) == [i \in DOMAIN strings |-> Mapped(strings[i], M)]
           T == {strings \in Seq(Seq(S)) : Joined(Each(strings)) = Mapped(Joined(strings), M)}
<1>0. ASSUME NEW s \in Seq(S)
      PROVE  /\ Mapped(s, M) \in Seq(U) /\ Len(Mapped(s, M)) = Len(s)
             /\ \A i \in 1..Len(s) : Mapped(s, M)[i] = M[s[i]]
  <2>1. PICK n \in Nat : n = Len(s)
    BY LenProperties
  <2>2. DOMAIN s = 1..n /\ \A i \in 1..n : s[i] \in S
    BY <2>1, LenProperties, ElementOfSeq
  <2>3. \A i \in 1..n : M[s[i]] \in U
    BY <2>2
  <2>4. Mapped(s, M) \in [1..n -> U] /\ \A i \in 1..n : Mapped(s, M)[i] = M[s[i]]
    BY <2>2, <2>3 DEF Mapped
  <2>5. PICK m : m = Mapped(s, M)
    OBVIOUS
  <2>6. m \in Seq(U) /\ Len(m) = n
    BY <2>4, <2>5
  <2> QED
    BY <2>1, <2>4, <2>5, <2>6
<1>1. <<>> \in T
  <2>1. Each(<<>>) = <<>>
    OBVIOUS
  <2>2. Mapped(<<>>, M) = <<>>
    BY DEF Mapped
  <2> QED
    BY <2>1, <2>2, JoinedNone, EmptySeq
<1>2. ASSUME NEW s \in Seq(Seq(S)), NEW e \in Seq(S), s \in T PROVE Append(s, e) \in T
  <2>1. PICK n \in Nat : n = Len(s)
    BY LenProperties
  <2>2. PICK u : u = Append(s, e)
    OBVIOUS
  <2>3. /\ u \in Seq(Seq(S)) /\ Len(u) = n + 1 /\ u[n + 1] = e
        /\ \A i \in 1..n : u[i] = s[i]
    BY <2>1, <2>2, AppendProperties
  <2>4. DOMAIN s = 1..n /\ DOMAIN u = 1..(n + 1)
    BY <2>1, <2>3, LenProperties
  <2>5. /\ \A i \in 1..n : s[i] \in Seq(S)
        /\ \A i \in 1..(n + 1) : u[i] \in Seq(S)
    BY <2>1, <2>3, ElementOfSeq
  <2>6. /\ \A i \in 1..n : Mapped(s[i], M) \in Seq(U)
        /\ \A i \in 1..(n + 1) : Mapped(u[i], M) \in Seq(U)
        /\ Mapped(e, M) \in Seq(U)
    BY <1>0, <2>5
  <2>6a. Each(s) \in [1..n -> Seq(U)] /\ Each(u) \in [1..(n + 1) -> Seq(U)]
    BY <2>4, <2>6
  <2>6b. /\ \A i \in 1..n : Each(s)[i] = Mapped(s[i], M)
         /\ \A i \in 1..(n + 1) : Each(u)[i] = Mapped(u[i], M)
    BY <2>4
  <2> HIDE DEF Each
  <2>7. /\ Each(s) \in Seq(Seq(U)) /\ Len(Each(s)) = n
        /\ Each(u) \in Seq(Seq(U)) /\ Len(Each(u)) = n + 1
    BY <2>6a
  <2>8. Each(u) = Append(Each(s), Mapped(e, M))
    <3>1. PICK v : v = Append(Each(s), Mapped(e, M))
      OBVIOUS
    <3>2. /\ v \in Seq(Seq(U)) /\ Len(v) = n + 1 /\ v[n + 1] = Mapped(e, M)
          /\ \A i \in 1..n : v[i] = Each(s)[i]
      BY <2>6, <2>7, <3>1, AppendProperties
    <3>3. ASSUME NEW i \in 1..(n + 1) PROVE Each(u)[i] = v[i]
      <4>1. CASE i = n + 1
        BY <2>3, <2>6b, <3>2, <4>1
      <4>2. CASE i # n + 1
        <5>1. i \in 1..n
          BY <4>2
        <5> QED
          BY <2>3, <2>6b, <3>2, <5>1
      <4> QED
        BY <4>1, <4>2
    <3>4. Each(u) = v
      BY <2>7, <3>2, <3>3, SeqEqual
    <3> QED
      BY <3>1, <3>4
  <2>9. PICK j : j = Joined(s)
    OBVIOUS
  <2>10. j \in Seq(S)
    BY <2>9, JoinedType
  <2>11. Joined(Each(u)) = Mapped(j, M) \o Mapped(e, M)
    <3>1. Joined(Each(s)) = Mapped(j, M)
      BY <1>2, <2>9
    <3> QED
      BY <2>6, <2>7, <2>8, <3>1, JoinedAppend
  <2>12. Joined(u) = j \o e
    BY <2>2, <2>9, JoinedAppend
  <2>13. Mapped(j, M) \o Mapped(e, M) = Mapped(j \o e, M)
    <3>1. PICK k, m \in Nat : k = Len(j) /\ m = Len(e)
      BY <2>10, LenProperties
    <3>2. PICK a, b, c, d : a = Mapped(j, M) /\ b = Mapped(e, M) /\ c = j \o e /\ d = Mapped(c, M)
      OBVIOUS
    <3>3. /\ a \in Seq(U) /\ Len(a) = k /\ \A i \in 1..k : a[i] = M[j[i]]
          /\ b \in Seq(U) /\ Len(b) = m /\ \A i \in 1..m : b[i] = M[e[i]]
      BY <1>0, <2>10, <3>1, <3>2
    <3>4. /\ c \in Seq(S) /\ Len(c) = k + m
          /\ \A i \in 1..(k + m) : c[i] = IF i <= k THEN j[i] ELSE e[i - k]
      BY <2>10, <3>1, <3>2, ConcatProperties
    <3>5. d \in Seq(U) /\ Len(d) = k + m /\ \A i \in 1..(k + m) : d[i] = M[c[i]]
      BY <1>0, <3>2, <3>4
    <3>6. /\ a \o b \in Seq(U) /\ Len(a \o b) = k + m
          /\ \A i \in 1..(k + m) : (a \o b)[i] = IF i <= k THEN a[i] ELSE b[i - k]
      <4>1. a \in Seq(U) /\ b \in Seq(U) /\ Len(a) = k /\ Len(b) = m
        BY <3>3
      <4>2. /\ a \o b \in Seq(U) /\ Len(a \o b) = Len(a) + Len(b)
            /\ \A i \in 1..(Len(a) + Len(b)) : (a \o b)[i] = IF i <= Len(a) THEN a[i] ELSE b[i - Len(a)]
        BY <4>1, ConcatProperties
      <4> QED
        BY <4>1, <4>2
    <3>7. ASSUME NEW i \in 1..(k + m) PROVE (a \o b)[i] = d[i]
      <4>1. CASE i <= k
        <5>1. i \in 1..k
          BY <4>1
        <5>2. (a \o b)[i] = a[i] /\ c[i] = j[i]
          BY <3>4, <3>6, <4>1
        <5> QED
          BY <3>3, <3>5, <5>1, <5>2
      <4>2. CASE ~(i <= k)
        <5>1. i - k \in 1..m
          BY <4>2
        <5>2. (a \o b)[i] = b[i - k] /\ c[i] = e[i - k]
          BY <3>4, <3>6, <4>2
        <5> QED
          BY <3>3, <3>5, <5>1, <5>2
      <4> QED
        BY <4>1, <4>2
    <3>8. PICK ab : ab = a \o b
      OBVIOUS
    <3>9. ab = d
      <4>1. ab \in Seq(U) /\ Len(ab) = Len(d) /\ Len(d) = k + m
        BY <3>5, <3>6, <3>8
      <4>2. \A i \in 1..Len(ab) : ab[i] = d[i]
        BY <3>7, <3>8, <4>1
      <4> QED
        BY <3>5, <4>1, <4>2, SeqEqual
    <3> QED
      BY <3>2, <3>8, <3>9
  <2>14. Joined(Each(u)) = Mapped(Joined(u), M)
    BY <2>11, <2>12, <2>13
  <2> QED
    BY <2>2, <2>3, <2>14
<1>3. Seq(Seq(S)) \subseteq T
  <2> HIDE DEF T
  <2> QED
    BY <1>1, <1>2, EverySequence
<1> SUFFICES ASSUME NEW strings \in Seq(Seq(S))
             PROVE  /\ Mapped(Joined(strings), M) \in Seq(U)
                    /\ Joined(Each(strings)) = Mapped(Joined(strings), M)
  OBVIOUS
<1>4. Joined(strings) \in Seq(S)
  BY JoinedType
<1> QED
  BY <1>0, <1>3, <1>4

-----------------------------------------------------------------------------
(* What the locator lists, and the walk along it. *)

Read == [sfi : 1..30, record_number : 1..254, in_oda : BOOLEAN]
Step == [record : (1..30) \X (1..254), signed : BOOLEAN]
AsStep == [r \in Read |-> [record |-> <<r.sfi, r.record_number>>, signed |-> r.in_oda]]

\* A record to be read is a step of the locator.
LEMMA AsStepType ==
    /\ AsStep \in [Read -> Step]
    /\ \A r \in Read : AsStep[r] = [record |-> <<r.sfi, r.record_number>>, signed |-> r.in_oda]
<1>1. \A r \in Read : AsStep[r] = [record |-> <<r.sfi, r.record_number>>, signed |-> r.in_oda]
  BY DEF AsStep
<1>2. ASSUME NEW r \in Read PROVE [record |-> <<r.sfi, r.record_number>>, signed |-> r.in_oda] \in Step
  <2>1. r.sfi \in 1..30 /\ r.record_number \in 1..254 /\ r.in_oda \in BOOLEAN
    BY DEF Read
  <2>2. <<r.sfi, r.record_number>> \in (1..30) \X (1..254)
    BY <2>1
  <2> QED
    BY <2>1, <2>2 DEF Step
<1>3. AsStep = [r \in Read |-> AsStep[r]]
  BY DEF AsStep
<1>4. \A r \in Read : AsStep[r] \in Step
  BY <1>1, <1>2
<1> QED
  BY <1>1, <1>3, <1>4

\* The records to be read are those the locator lists, in its order.
LEMMA WalkIsListed ==
    ASSUME NEW locator \in Seq(Entry4), \A i \in DOMAIN locator : IsLocator(locator[i])
    PROVE  /\ iter_reads(EntriesOf(locator)) \in Seq(Read)
           /\ Listed(locator) = Mapped(iter_reads(EntriesOf(locator)), AsStep)
<1>1. PICK n \in Nat : n = Len(locator)
  BY LenProperties
<1>2. DOMAIN locator = 1..n
  BY <1>1, LenProperties
<1>3. PICK afl : afl = EntriesOf(locator)
  OBVIOUS
<1>4. DOMAIN afl = 1..n
  BY <1>2, <1>3 DEF EntriesOf
<1> DEFINE End(entry) == IF entry.first_record + entry.oda_record_count > 255 THEN 255
                         ELSE entry.first_record + entry.oda_record_count
           Run(i) == [k \in 1..((afl[i].last_record - afl[i].first_record) + 1) |->
                        [sfi |-> afl[i].sfi, record_number |-> (afl[i].first_record + k) - 1,
                         in_oda |-> (afl[i].first_record + k) - 1 < End(afl[i])]]
           List(i) == [k \in 1..((locator[i][3] - locator[i][2]) + 1) |->
               [record |-> <<locator[i][1], (locator[i][2] + k) - 1>>, signed |-> k <= locator[i][4]]]
           runs == [i \in 1..n |-> Run(i)]
           lists == [i \in 1..n |-> List(i)]
<1>5. iter_reads(afl) = Joined(runs)
  BY <1>4 DEF iter_reads
<1>6. Listed(locator) = Joined(lists)
  BY <1>2 DEF Listed
<1>7. ASSUME NEW i \in 1..n PROVE Run(i) \in Seq(Read) /\ List(i) = Mapped(Run(i), AsStep)
  <2>1. PICK a, b, c, d : a = locator[i][1] /\ b = locator[i][2] /\ c = locator[i][3] /\ d = locator[i][4]
    OBVIOUS
  <2>2. a \in 1..30 /\ b \in 1..254 /\ c \in b..254 /\ d \in 0..((c - b) + 1)
    <3>1. IsLocator(locator[i])
      BY <1>2
    <3>2. a \in 1..30 /\ b \in 1..254
      BY <2>1, <3>1 DEF IsLocator
    <3>3. c \in b..254
      BY <2>1, <3>1 DEF IsLocator
    <3>4. d \in 0..((c - b) + 1)
      BY <2>1, <3>1 DEF IsLocator
    <3> QED
      BY <3>2, <3>3, <3>4
  <2>3. PICK m \in Nat : m = (c - b) + 1
    BY <2>2
  <2>4. /\ afl[i].sfi = a /\ afl[i].first_record = b
        /\ afl[i].last_record = c /\ afl[i].oda_record_count = d
    <3>1. PICK e : e = [sfi |-> a, first_record |-> b, last_record |-> c, oda_record_count |-> d]
      OBVIOUS
    <3>2. afl[i] = e
      BY <1>2, <1>3, <2>1, <3>1 DEF EntriesOf
    <3> QED
      BY <3>1, <3>2
  <2>5. End(afl[i]) = b + d
    <3>1. ~(b + d > 255)
      BY <2>2
    <3> QED
      BY <2>4, <3>1
  <2>6. Run(i) = [k \in 1..m |-> [sfi |-> a, record_number |-> (b + k) - 1, in_oda |-> (b + k) - 1 < b + d]]
    BY <2>3, <2>4, <2>5
  <2>7. List(i) = [k \in 1..m |-> [record |-> <<a, (b + k) - 1>>, signed |-> k <= d]]
    BY <2>1, <2>3
  <2> HIDE DEF Run, List, End
  <2>8. ASSUME NEW k \in 1..m
        PROVE  /\ Run(i)[k] \in Read
               /\ AsStep[Run(i)[k]] = List(i)[k]
    <3>1. PICK p : p = (b + k) - 1
      OBVIOUS
    <3>2. p \in 1..254 /\ (p < b + d <=> k <= d)
      BY <2>2, <2>3, <3>1
    <3>3. PICK r : r = [sfi |-> a, record_number |-> p, in_oda |-> p < b + d]
      OBVIOUS
    <3>4. Run(i)[k] = r
      BY <2>6, <3>1, <3>3
    <3>5. r \in Read /\ r.sfi = a /\ r.record_number = p /\ r.in_oda = (p < b + d)
      BY <2>2, <3>2, <3>3 DEF Read
    <3>6. List(i)[k] = [record |-> <<a, p>>, signed |-> k <= d]
      BY <2>7, <3>1
    <3>7. AsStep[r] = [record |-> <<a, p>>, signed |-> (p < b + d)]
      BY <3>5, AsStepType
    <3>8. (p < b + d) = (k <= d)
      BY <3>2
    <3> QED
      BY <3>4, <3>5, <3>6, <3>7, <3>8
  <2>9. Run(i) \in [1..m -> Read]
    <3>1. Run(i) = [k \in 1..m |-> Run(i)[k]]
      BY <2>6
    <3> QED
      BY <2>8, <3>1
  <2>10. Run(i) \in Seq(Read)
    BY <2>9
  <2>11. Mapped(Run(i), AsStep) = [k \in 1..m |-> AsStep[Run(i)[k]]]
    BY <2>9 DEF Mapped
  <2>12. List(i) = [k \in 1..m |-> List(i)[k]]
    BY <2>7
  <2> QED
    BY <2>8, <2>10, <2>11, <2>12
<1> HIDE DEF Run, List, End
<1>8. runs \in Seq(Seq(Read))
  BY <1>7
<1>9. lists = [i \in DOMAIN runs |-> Mapped(runs[i], AsStep)]
  BY <1>7
<1> HIDE DEF runs, lists
<1>10. Joined(lists) = Mapped(Joined(runs), AsStep)
  BY <1>8, <1>9, AsStepType, JoinedMapped
<1>11. Joined(runs) \in Seq(Read)
  BY <1>8, JoinedType
<1> QED
  BY <1>3, <1>5, <1>6, <1>10, <1>11
-----------------------------------------------------------------------------
(* The answer to GET PROCESSING OPTIONS. *)

\* The last node of a tag is a node of that tag...
LEMMA LastOfIsOne ==
    ASSUME NEW nodes \in Seq(Nodes), NEW tag, LastOf(nodes, tag) # None
    PROVE  \E i \in DOMAIN nodes : nodes[i].tag = tag /\ LastOf(nodes, tag) = Some(nodes[i])
<1>1. PICK n \in Nat : n = Len(nodes)
  BY LenProperties
<1>2. DOMAIN nodes = 1..n
  BY <1>1, LenProperties
<1>3. PICK back : back = Reverse(nodes)
  OBVIOUS
<1>4. DOMAIN back = 1..n /\ \A i \in 1..n : back[i] = nodes[(n - i) + 1]
  BY <1>1, <1>3 DEF Reverse
<1>5. PICK at : at = {i \in DOMAIN back : back[i].tag = tag}
  OBVIOUS
<1>6. LastOf(nodes, tag) = Check(at # {}, Some(back[CHOOSE i \in at : \A j \in at : i <= j]))
  BY <1>3, <1>5 DEF LastOf, find_tag
<1>7. at # {} /\ at \subseteq Nat
  <2>1. at \subseteq Nat
    BY <1>4, <1>5
  <2>2. CASE at = {}
    BY <1>6, <2>2 DEF Check
  <2> QED
    BY <2>1, <2>2
<1>8. \E i \in at : \A j \in at : i <= j
  BY <1>7, LeastOf
<1>9. PICK i \in at : LastOf(nodes, tag) = Some(back[i])
  <2>1. PICK i : i = CHOOSE k \in at : \A j \in at : k <= j
    OBVIOUS
  <2>2. i \in at
    BY <1>8, <2>1
  <2> QED
    BY <1>6, <1>7, <2>1, <2>2 DEF Check
<1>10. i \in 1..n /\ back[i].tag = tag
  BY <1>4, <1>5
<1>11. (n - i) + 1 \in 1..n
  BY <1>10
<1> QED
  BY <1>2, <1>4, <1>9, <1>10, <1>11

\* ... and there is one if the tag is there...
LEMMA LastOfIsThere ==
    ASSUME NEW nodes \in Seq(Nodes), NEW i \in DOMAIN nodes
    PROVE  LastOf(nodes, nodes[i].tag) # None
<1>1. PICK n \in Nat : n = Len(nodes)
  BY LenProperties
<1>2. DOMAIN nodes = 1..n
  BY <1>1, LenProperties
<1>3. PICK back, tag : back = Reverse(nodes) /\ tag = nodes[i].tag
  OBVIOUS
<1>4. DOMAIN back = 1..n /\ \A k \in 1..n : back[k] = nodes[(n - k) + 1]
  BY <1>1, <1>3 DEF Reverse
<1>5. PICK at : at = {k \in DOMAIN back : back[k].tag = tag}
  OBVIOUS
<1>6. LastOf(nodes, tag) = Check(at # {}, Some(back[CHOOSE k \in at : \A j \in at : k <= j]))
  BY <1>3, <1>5 DEF LastOf, find_tag
<1>7. (n - i) + 1 \in 1..n /\ (n - ((n - i) + 1)) + 1 = i
  BY <1>2
<1>8. back[(n - i) + 1] = nodes[i]
  BY <1>4, <1>7
<1>9. at # {}
  BY <1>3, <1>4, <1>5, <1>7, <1>8
<1> QED
  BY <1>3, <1>6, <1>9, OfSome DEF Check

\* ... so where all that have the tag are alike it is as they are.
LEMMA LastOfTag ==
    \A nodes \in Seq(Nodes) : \A tag : (\E i \in DOMAIN nodes : nodes[i].tag = tag) =>
      \E k \in DOMAIN nodes : nodes[k].tag = tag /\ LastOf(nodes, tag) = Some(nodes[k])
<1> TAKE nodes \in Seq(Nodes)
<1> TAKE tag
<1> SUFFICES ASSUME NEW i \in DOMAIN nodes, nodes[i].tag = tag
             PROVE  \E k \in DOMAIN nodes : nodes[k].tag = tag /\ LastOf(nodes, tag) = Some(nodes[k])
  OBVIOUS
<1> QED
  BY LastOfIsThere, LastOfIsOne

\* The nodes of elements are primitive nodes.
LEMMA NodesOfType ==
    ASSUME NEW elements \in Seq(Seq(Byte) \X Seq(Byte))
    PROVE  /\ NodesOf(elements) \in Seq(Nodes) /\ DOMAIN NodesOf(elements) = DOMAIN elements
           /\ \A i \in DOMAIN elements : NodesOf(elements)[i] = Primitive(elements[i][1], elements[i][2])
<1>1. PICK n \in Nat : n = Len(elements)
  BY LenProperties
<1>2. DOMAIN elements = 1..n
  BY <1>1, LenProperties
<1>3. \A i \in 1..n : elements[i][1] \in Seq(Byte) /\ elements[i][2] \in Seq(Byte)
  <2>1. PICK P : P = Seq(Byte) \X Seq(Byte)
    OBVIOUS
  <2>2. elements \in Seq(P)
    BY <2>1
  <2>3. \A i \in 1..n : elements[i] \in P
    BY <1>1, <2>2, ElementOfSeq
  <2> QED
    BY <2>1, <2>3
<1>4. \A i \in 1..n : Primitive(elements[i][1], elements[i][2]) \in Nodes
  BY <1>3, PrimitiveIsNode
<1>5. NodesOf(elements) \in [1..n -> Nodes]
  BY <1>2, <1>4 DEF NodesOf
<1>6. PICK nodes : nodes = NodesOf(elements)
  OBVIOUS
<1>7. nodes \in Seq(Nodes) /\ DOMAIN nodes = 1..n
  BY <1>5, <1>6
<1>8. \A i \in DOMAIN elements : NodesOf(elements)[i] = Primitive(elements[i][1], elements[i][2])
  BY DEF NodesOf
<1> QED
  BY <1>2, <1>6, <1>7, <1>8

\* An interchange profile of two bytes is read.
LEMMA ProfileIsRead ==
    ASSUME NEW profile \in Byte \X Byte
    PROVE  /\ profile \in Seq(Byte) /\ Len(profile) = 2
           /\ \E aip : ParseAip(profile) = Some(aip)
<1>1. PICK a \in Byte, b \in Byte : profile = <<a, b>>
  OBVIOUS
<1>2. profile \in Seq(Byte) /\ Len(profile) = 2
  BY <1>1
<1>3. Len(AipLayout) = 2
  BY DEF AipLayout
<1>4. ParseAip(profile) # None
  BY <1>2, <1>3, OfSome DEF ParseAip, ParseRegister, Check
<1>5. \E aip : ParseAip(profile) = Some(aip)
  BY <1>2, <1>3 DEF ParseAip, ParseRegister, Check
<1> QED
  BY <1>2, <1>5

\* The answer to GET PROCESSING OPTIONS in format 1...
LEMMA OptionsInFormat1 ==
    ASSUME NEW profile \in Byte \X Byte, NEW locator \in Seq(Entry4), locator # <<>>,
           \A i \in DOMAIN locator : IsLocator(locator[i])
    PROVE  \E o : /\ OptionsFormat1(profile \o LocatorBytes(locator)) = Some(o)
                  /\ o.afl = Some(EntriesOf(locator))
<1>1. PICK aip : ParseAip(profile) = Some(aip)
  BY ProfileIsRead
<1>2. PICK data : data = LocatorBytes(locator)
  OBVIOUS
<1>3. data \in Seq(Byte) /\ ParseLocator(data) = Some(EntriesOf(locator))
  BY <1>2, LocatorIsRead
<1>4. PICK all : all = profile \o data
  OBVIOUS
<1>5. profile \in Seq(Byte) /\ Len(profile) = 2
  BY ProfileIsRead
<1>6. First(all, 2) = profile /\ From(all, 3) = data
  <2>1. SubSeq(profile \o data, 1, Len(profile)) = profile
    BY <1>3, <1>5, FrontAndRest
  <2>2. SubSeq(profile \o data, Len(profile) + 1, Len(profile \o data)) = data
    BY <1>3, <1>5, FrontAndRest
  <2>3. Len(profile) + 1 = 3
    BY <1>5
  <2> QED
    BY <1>4, <1>5, <2>1, <2>2, <2>3 DEF First, From
<1>7. Len(all) >= 2
  <2>1. Len(all) = Len(profile) + Len(data)
    BY <1>3, <1>4, <1>5, ConcatProperties
  <2>2. Len(data) \in Nat
    BY <1>3, LenProperties
  <2> QED
    BY <1>5, <2>1, <2>2
<1>8. PICK o : o = Options(aip, Some(EntriesOf(locator)), <<>>, 1)
  OBVIOUS
<1>9. ParseAip(First(all, 2)) # None /\ Unwrap(ParseAip(First(all, 2))) = aip
  BY <1>1, <1>6, OfSome
<1>10. ParseLocator(From(all, 3)) # None /\ Unwrap(ParseLocator(From(all, 3))) = EntriesOf(locator)
  BY <1>3, <1>6, OfSome
<1>11. OptionsFormat1(all) = Some(o)
  BY <1>7, <1>8, <1>9, <1>10 DEF OptionsFormat1, Check, Then
<1>12. o.afl = Some(EntriesOf(locator))
  BY <1>8 DEF Options
<1> QED
  BY <1>2, <1>4, <1>11, <1>12

\* The value of a primitive node.
LEMMA ReadsPrimitive ==
    ASSUME NEW tag, NEW value, ~IsConstructed(tag)
    PROVE  /\ Primitive(tag, value).tag = tag
           /\ AsPrimitive(Primitive(tag, value)) = Some(value)
<1>1. PICK node : node = Primitive(tag, value)
  OBVIOUS
<1>2. node.tag = tag /\ node.value = value
  BY <1>1 DEF Primitive
<1> QED
  BY <1>1, <1>2 DEF AsPrimitive, Check

SayOptions(elements, profile, locations) ==
  /\ <<\h82>> \in {elements[i][1] : i \in DOMAIN elements}
  /\ <<\h94>> \in {elements[i][1] : i \in DOMAIN elements}
  /\ \A i \in DOMAIN elements :
       /\ ~IsConstructed(elements[i][1])
       /\ elements[i][1] = <<\h82>> => elements[i][2] = profile
       /\ elements[i][1] = <<\h94>> => elements[i][2] = locations

\* ... and in format 2, is the profile and the locator.
LEMMA OptionsInFormat2 ==
    ASSUME NEW elements \in Seq(Seq(Byte) \X Seq(Byte)),
           NEW profile \in Byte \X Byte, NEW locator \in Seq(Entry4), locator # <<>>,
           \A i \in DOMAIN locator : IsLocator(locator[i]),
           SayOptions(elements, profile, LocatorBytes(locator))
    PROVE  \E o : /\ OptionsFormat2(NodesOf(elements)) = Some(o)
                  /\ o.afl = Some(EntriesOf(locator))
<1>1. PICK nodes \in Seq(Nodes) :
        /\ nodes = NodesOf(elements) /\ DOMAIN nodes = DOMAIN elements
        /\ \A i \in DOMAIN elements : nodes[i] = Primitive(elements[i][1], elements[i][2])
  BY NodesOfType
<1>2. ASSUME NEW i \in DOMAIN elements
      PROVE  nodes[i].tag = elements[i][1] /\ AsPrimitive(nodes[i]) = Some(elements[i][2])
  <2>1. ~IsConstructed(elements[i][1])
    BY DEF SayOptions
  <2> QED
    BY <1>1, <2>1, ReadsPrimitive
<1>3. PICK profiles, locators : profiles = <<\h82>> /\ locators = <<\h94>>
  OBVIOUS
<1>4. PICK aip : ParseAip(profile) = Some(aip)
  BY ProfileIsRead
<1>5. PICK data : data = LocatorBytes(locator)
  OBVIOUS
<1>6. data \in Seq(Byte) /\ ParseLocator(data) = Some(EntriesOf(locator))
  BY <1>5, LocatorIsRead
<1>7. \A i \in DOMAIN elements : /\ nodes[i].tag = profiles => AsPrimitive(nodes[i]) = Some(profile)
                                 /\ nodes[i].tag = locators => AsPrimitive(nodes[i]) = Some(data)
  <2> SUFFICES ASSUME NEW i \in DOMAIN elements
               PROVE  /\ nodes[i].tag = profiles => AsPrimitive(nodes[i]) = Some(profile)
                      /\ nodes[i].tag = locators => AsPrimitive(nodes[i]) = Some(data)
    OBVIOUS
  <2>1. elements[i][1] = profiles => elements[i][2] = profile
    BY <1>3 DEF SayOptions
  <2>2. elements[i][1] = locators => elements[i][2] = data
    BY <1>3, <1>5 DEF SayOptions
  <2> QED
    BY <1>2, <2>1, <2>2
<1>8. EachReads(nodes, profiles, ParseAip)
  <2> SUFFICES ASSUME NEW i \in DOMAIN nodes, nodes[i].tag = profiles
               PROVE  MandatoryField(Some(nodes[i]), ParseAip) # None
    BY DEF EachReads
  <2>1. AsPrimitive(nodes[i]) # None /\ Unwrap(AsPrimitive(nodes[i])) = profile
    BY <1>1, <1>7, OfSome
  <2>2. MandatoryField(Some(nodes[i]), ParseAip) = ParseAip(profile)
    BY <2>1, OfSome DEF MandatoryField, Then
  <2> QED
    BY <1>4, <2>2, OfSome
<1>9. EachReads(nodes, locators, ParseLocator)
  <2> SUFFICES ASSUME NEW i \in DOMAIN nodes, nodes[i].tag = locators
               PROVE  MandatoryField(Some(nodes[i]), ParseLocator) # None
    BY DEF EachReads
  <2>1. AsPrimitive(nodes[i]) # None /\ Unwrap(AsPrimitive(nodes[i])) = data
    BY <1>1, <1>7, OfSome
  <2>2. MandatoryField(Some(nodes[i]), ParseLocator) = ParseLocator(data)
    BY <2>1, OfSome DEF MandatoryField, Then
  <2> QED
    BY <1>6, <2>2, OfSome
<1>10. PICK i \in DOMAIN elements : elements[i][1] = profiles
  BY <1>3 DEF SayOptions
<1>11. i \in DOMAIN nodes /\ nodes[i].tag = profiles
  BY <1>1, <1>2, <1>10
<1>12. PICK k \in DOMAIN nodes : nodes[k].tag = profiles /\ LastOf(nodes, profiles) = Some(nodes[k])
  <2>1. nodes \in Seq(Nodes)
    OBVIOUS
  <2>2. \E at \in DOMAIN nodes : nodes[at].tag = profiles
    BY <1>11
  <2>3. \A name : (\E at \in DOMAIN nodes : nodes[at].tag = name) =>
          \E at \in DOMAIN nodes : nodes[at].tag = name /\ LastOf(nodes, name) = Some(nodes[at])
    BY <2>1, LastOfTag
  <2> QED
    BY <2>2, <2>3
<1>12a. AsPrimitive(nodes[k]) = Some(profile)
  BY <1>1, <1>7, <1>12
<1>13. MandatoryField(LastOf(nodes, profiles), ParseAip) = Some(aip)
  <2>1. AsPrimitive(nodes[k]) # None /\ Unwrap(AsPrimitive(nodes[k])) = profile
    BY <1>12a, OfSome
  <2>2. LastOf(nodes, profiles) # None /\ Unwrap(LastOf(nodes, profiles)) = nodes[k]
    BY <1>12, OfSome
  <2>3. MandatoryField(LastOf(nodes, profiles), ParseAip) = ParseAip(profile)
    BY <2>1, <2>2 DEF MandatoryField, Then
  <2> QED
    BY <1>4, <2>3
<1>14. PICK j \in DOMAIN elements : elements[j][1] = locators
  BY <1>3 DEF SayOptions
<1>15. j \in DOMAIN nodes /\ nodes[j].tag = locators
  BY <1>1, <1>2, <1>14
<1>16. PICK m \in DOMAIN nodes : nodes[m].tag = locators /\ LastOf(nodes, locators) = Some(nodes[m])
  <2>1. nodes \in Seq(Nodes)
    OBVIOUS
  <2>2. \E at \in DOMAIN nodes : nodes[at].tag = locators
    BY <1>15
  <2>3. \A name : (\E at \in DOMAIN nodes : nodes[at].tag = name) =>
          \E at \in DOMAIN nodes : nodes[at].tag = name /\ LastOf(nodes, name) = Some(nodes[at])
    BY <2>1, LastOfTag
  <2> QED
    BY <2>2, <2>3
<1>16a. AsPrimitive(nodes[m]) = Some(data)
  BY <1>1, <1>7, <1>16
<1>17. OptionalField(LastOf(nodes, locators), ParseLocator) = Some(Some(EntriesOf(locator)))
  <2>1. AsPrimitive(nodes[m]) # None /\ Unwrap(AsPrimitive(nodes[m])) = data
    BY <1>16a, OfSome
  <2>2. LastOf(nodes, locators) # None /\ Unwrap(LastOf(nodes, locators)) = nodes[m]
    BY <1>16, OfSome
  <2>3. ParseLocator(data) # None /\ Unwrap(ParseLocator(data)) = EntriesOf(locator)
    BY <1>6, OfSome
  <2> QED
    BY <2>1, <2>2, <2>3 DEF OptionalField, Then
<1>18. PICK others : others = SelectSeq(nodes, LAMBDA c : c.tag \notin {<<\h82>>, <<\h94>>})
  OBVIOUS
<1>19. PICK o : o = Options(aip, Some(EntriesOf(locator)), others, 2)
  OBVIOUS
<1>20. MandatoryField(LastOf(nodes, <<\h82>>), ParseAip) # None
       /\ Unwrap(MandatoryField(LastOf(nodes, <<\h82>>), ParseAip)) = aip
  BY <1>3, <1>13, OfSome
<1>21. Unwrap(OptionalField(LastOf(nodes, <<\h94>>), ParseLocator)) = Some(EntriesOf(locator))
  BY <1>3, <1>17, OfSome
<1>22. EachReads(nodes, <<\h82>>, ParseAip) /\ EachReads(nodes, <<\h94>>, ParseLocator)
  BY <1>3, <1>8, <1>9
<1>23. OptionsFormat2(nodes) = Some(o)
  BY <1>18, <1>19, <1>20, <1>21, <1>22 DEF OptionsFormat2, Check, Then
<1>24. o.afl = Some(EntriesOf(locator))
  BY <1>19 DEF Options
<1> QED
  BY <1>1, <1>23, <1>24

\* In either format, the locator that is described is the one that is read.
LEMMA OptionsAreRead ==
    ASSUME NEW c, OptionsAreAsDescribed(c)
    PROVE  /\ c.options \in Seq(Byte)
           /\ c.locator \in Seq(Entry4) /\ c.locator # <<>>
           /\ \A i \in DOMAIN c.locator : IsLocator(c.locator[i])
           /\ \E o : /\ ProcessingOptionsResponse(c.options) = Some(o)
                     /\ o.afl = Some(EntriesOf(c.locator))
<1>1. c.locator \in Seq(Entry4) /\ c.locator # <<>> /\ c.profile \in Byte \X Byte
  BY DEF OptionsAreAsDescribed, Entry4
<1>2. \A i \in DOMAIN c.locator : IsLocator(c.locator[i])
  BY DEF OptionsAreAsDescribed
<1>3. PICK answer, profile, locator, all :
        answer = c.options /\ profile = c.profile /\ locator = c.locator
        /\ all = profile \o LocatorBytes(locator)
  OBVIOUS
<1>4. CASE Holds(answer, <<\h80>>, all)
  <2>1. answer \in Seq(Byte)
    BY <1>4, HoldsType
  <2>2. PICK node : node = Primitive(<<\h80>>, all)
    OBVIOUS
  <2>3. from_bytes(answer) = Some(node)
    BY <1>4, <2>2, HeldIsRead, TemplateTags
  <2>4. node.tag = <<\h80>> /\ node.value = all
    BY <2>2 DEF Primitive
  <2>5. PICK o : OptionsFormat1(all) = Some(o) /\ o.afl = Some(EntriesOf(locator))
    BY <1>1, <1>2, <1>3, OptionsInFormat1
  <2>6. from_bytes(answer) # None /\ Unwrap(from_bytes(answer)) = node
    BY <2>3, OfSome
  <2>7. ProcessingOptionsResponse(answer) = OptionsFormat1(node.value)
    BY <2>4, <2>6, TemplateTags DEF ProcessingOptionsResponse, Then
  <2> QED
    BY <1>1, <1>2, <1>3, <2>1, <2>4, <2>5, <2>7
<1>5. CASE /\ IsTemplate(answer, <<\h77>>, c.option_objects, c.option_elements)
           /\ SayOptions(c.option_elements, profile, LocatorBytes(locator))
  <2>1. PICK objects, elements : objects = c.option_objects /\ elements = c.option_elements
    OBVIOUS
  <2>2. IsTemplate(answer, <<\h77>>, objects, elements)
    BY <1>5, <2>1
  <2>3. answer \in Seq(Byte)
    BY <2>2, HoldsType DEF IsTemplate
  <2>4. elements \in Seq(Seq(Byte) \X Seq(Byte))
    BY <2>2 DEF IsTemplate
  <2>5. PICK nodes, node : nodes = NodesOf(elements) /\ node = Constructed(<<\h77>>, nodes)
    OBVIOUS
  <2>6. from_bytes(answer) = Some(node)
    BY <2>2, <2>5, TemplateIsRead, TemplateTags
  <2>7. node.tag = <<\h77>> /\ node.children = nodes
    BY <2>5 DEF Constructed
  <2>8. PICK o : OptionsFormat2(nodes) = Some(o) /\ o.afl = Some(EntriesOf(locator))
    <3>1. SayOptions(elements, profile, LocatorBytes(locator))
      BY <1>5, <2>1
    <3>2. profile \in Byte \X Byte /\ locator \in Seq(Entry4) /\ locator # <<>>
          /\ \A i \in DOMAIN locator : IsLocator(locator[i])
      BY <1>1, <1>2, <1>3
    <3>3. \E o : OptionsFormat2(NodesOf(elements)) = Some(o) /\ o.afl = Some(EntriesOf(locator))
      BY <2>4, <3>1, <3>2, OptionsInFormat2
    <3> QED
      BY <2>5, <3>3
  <2>9. from_bytes(answer) # None /\ Unwrap(from_bytes(answer)) = node
    BY <2>6, OfSome
  <2>10. ProcessingOptionsResponse(answer) = OptionsFormat2(node.children)
    BY <2>7, <2>9, TemplateTags DEF ProcessingOptionsResponse, Then
  <2> QED
    BY <1>1, <1>2, <1>3, <2>3, <2>7, <2>8, <2>10
<1>6. ASSUME IsTemplate(answer, <<\h77>>, c.option_objects, c.option_elements)
      PROVE  \A i \in DOMAIN c.option_elements : ~IsConstructed(c.option_elements[i][1])
  BY <1>6 DEF IsTemplate
<1> QED
  BY <1>3, <1>4, <1>5, <1>6 DEF OptionsAreAsDescribed, SayOptions
-----------------------------------------------------------------------------
(* Data object lists, and what a list is answered with.                     *)

DolBody(data, f) ==
  IF data = <<>> THEN Some(<<>>)
  ELSE Then(ParseTag(data), LAMBDA tag :
         Check(Len(tag) <= 2 /\ Len(data) > Len(tag),
           Then(f[From(data, Len(tag) + 2)], LAMBDA rest :
             Some(<<[tag |-> tag, length |-> data[Len(tag) + 1]]>> \o rest))))

\* What follows an entry of a list is shorter than the list.
LEMMA EntryIsShorter ==
    ASSUME NEW data \in Seq(Byte), NEW tag, ParseTag(data) = Some(tag), Len(tag) <= 2, Len(data) > Len(tag)
    PROVE  /\ tag \in Seq(Byte) /\ data[Len(tag) + 1] \in Byte
           /\ From(data, Len(tag) + 2) \in Shorter(Len(data))
<1>1. ParseTag(data) # None /\ Unwrap(ParseTag(data)) = tag
  BY OfSome
<1>2. PICK k \in 1..4 : k <= Len(data) /\ ParseTag(data) = Some(First(data, k))
  BY <1>1, TagIsRead
<1>3. tag = SubSeq(data, 1, k)
  BY <1>1, <1>2, OfSome DEF First
<1>4. PICK n \in Nat : n = Len(data)
  BY LenProperties
<1>5. tag \in Seq(Byte) /\ Len(tag) = k
  <2>1. Len(SubSeq(data, 1, k)) = IF 1 <= k THEN (k - 1) + 1 ELSE 0
    BY <1>2, <1>4, PartIsBytes
  <2>2. SubSeq(data, 1, k) \in Seq(Byte)
    BY <1>2, <1>4, PartIsBytes
  <2> QED
    BY <1>3, <2>1, <2>2
<1>6. k + 1 \in 1..n
  BY <1>4, <1>5
<1>7. data[k + 1] \in Byte
  BY <1>4, <1>6, ElementOfSeq
<1>8. From(data, k + 2) \in Shorter(n)
  <2>1. SubSeq(data, k + 2, n) \in Seq(Byte)
    BY <1>4, <1>6, PartIsBytes
  <2>2. Len(SubSeq(data, k + 2, n)) = IF k + 2 <= n THEN (n - (k + 2)) + 1 ELSE 0
    BY <1>4, <1>6, PartIsBytes
  <2>3. Len(SubSeq(data, k + 2, n)) < n
    BY <1>6, <2>2
  <2> QED
    BY <1>4, <2>1, <2>3 DEF From, Shorter
<1> QED
  BY <1>4, <1>5, <1>7, <1>8

\* An entry needs the list that follows it only.
LEMMA DolBodyAlike ==
    ASSUME NEW data \in Seq(Byte), NEW f, NEW g, Alike(f, g, Len(data))
    PROVE  DolBody(data, f) = DolBody(data, g)
<1>1. CASE data = <<>>
  BY <1>1 DEF DolBody
<1>2. CASE data # <<>> /\ ParseTag(data) = None
  BY <1>2 DEF DolBody, Then
<1>3. CASE data # <<>> /\ ParseTag(data) # None
  <2>1. PICK tag : tag = Unwrap(ParseTag(data))
    OBVIOUS
  <2>2. ParseTag(data) = Some(tag)
    <3>1. PICK k \in 1..4 : ParseTag(data) = Some(First(data, k))
      BY <1>3, TagIsRead
    <3> QED
      BY <2>1, <3>1, OfSome
  <2> DEFINE Rest(f1) == Check(Len(tag) <= 2 /\ Len(data) > Len(tag),
                  Then(f1[From(data, Len(tag) + 2)], LAMBDA rest :
                    Some(<<[tag |-> tag, length |-> data[Len(tag) + 1]]>> \o rest)))
  <2>3. DolBody(data, f) = Rest(f) /\ DolBody(data, g) = Rest(g)
    BY <1>3, <2>1 DEF DolBody, Then
  <2>4. CASE ~(Len(tag) <= 2 /\ Len(data) > Len(tag))
    BY <2>3, <2>4 DEF Check
  <2>5. CASE Len(tag) <= 2 /\ Len(data) > Len(tag)
    <3>1. PICK rest : rest = From(data, Len(tag) + 2)
      OBVIOUS
    <3>2. f[rest] = g[rest]
      BY <2>2, <2>5, <3>1, EntryIsShorter DEF Alike
    <3>3. Rest(f) = Rest(g)
      BY <2>5, <3>1, <3>2 DEF Check, Then
    <3> QED
      BY <2>3, <3>3
  <2> QED
    BY <2>4, <2>5
<1> QED
  BY <1>1, <1>2, <1>3

\* A function lists the strings shorter than n.
Lists(f, n) == \A s \in Shorter(n) : f[s] = DolBody(s, f)

\* Two functions that list the shorter strings list them alike.
LEMMA ListsAlike ==
    ASSUME NEW f, NEW g, NEW n \in Nat, NEW m \in Nat, Lists(f, n), Lists(g, m), n <= m
    PROVE  Alike(f, g, n)
<1> DEFINE S == {k \in Nat : \A s \in Shorter(n) : Len(s) = k => f[s] = g[s]}
<1>1. ASSUME NEW k \in Nat, \A j \in Nat : j < k => j \in S PROVE k \in S
  <2> SUFFICES ASSUME NEW s \in Shorter(n), Len(s) = k PROVE f[s] = g[s]
    OBVIOUS
  <2>1. s \in Seq(Byte) /\ Len(s) < n
    BY DEF Shorter
  <2>2. s \in Shorter(m)
    <3>1. k < n /\ k < m
      BY <2>1
    <3> QED
      BY <2>1, <3>1 DEF Shorter
  <2>3. Alike(f, g, Len(s))
    <3> SUFFICES ASSUME NEW r \in Shorter(Len(s)) PROVE f[r] = g[r]
      BY DEF Alike
    <3>1. r \in Seq(Byte) /\ Len(r) < k
      BY DEF Shorter
    <3>2. PICK j \in Nat : j = Len(r)
      BY <3>1, LenProperties
    <3>3. j < n /\ j < k
      <4>1. k < n
        BY <2>1
      <4> QED
        BY <3>1, <3>2, <4>1
    <3>4. r \in Shorter(n)
      BY <3>1, <3>2, <3>3 DEF Shorter
    <3>5. j \in S
      BY <1>1, <3>3
    <3> QED
      BY <3>2, <3>4, <3>5
  <2>4. DolBody(s, f) = DolBody(s, g)
    BY <2>1, <2>3, DolBodyAlike
  <2>5. f[s] = DolBody(s, f) /\ g[s] = DolBody(s, g)
    BY <2>2 DEF Lists
  <2> QED
    BY <2>4, <2>5
<1>2. Nat \subseteq S
  <2> HIDE DEF S
  <2> QED
    BY <1>1, EveryNumberFromBelow
<1> SUFFICES ASSUME NEW s \in Shorter(n) PROVE f[s] = g[s]
  BY DEF Alike
<1>3. Len(s) \in Nat
  BY LenProperties DEF Shorter
<1> QED
  BY <1>2, <1>3

\* For every length there is a function that lists the strings below it.
LEMMA ListerExists ==
    ASSUME NEW n \in Nat
    PROVE  \E f : Lists(f, n)
<1> DEFINE S == {k \in Nat : \E f : Lists(f, k)}
<1>1. 0 \in S
  <2>1. \A s \in Seq(Byte) : ~(Len(s) < 0)
    BY LenProperties
  <2>2. \A s \in Shorter(0) : FALSE
    BY <2>1 DEF Shorter
  <2> QED
    BY <2>2 DEF Lists
<1>2. ASSUME NEW k \in Nat, k \in S PROVE k + 1 \in S
  <2>1. PICK f : Lists(f, k)
    BY <1>2
  <2> DEFINE g == [s \in Shorter(k + 1) |-> DolBody(s, f)]
  <2>2. \A s \in Shorter(k + 1) : g[s] = DolBody(s, f)
    OBVIOUS
  <2>3. \A s \in Shorter(k) : s \in Shorter(k + 1)
    <3> SUFFICES ASSUME NEW s \in Shorter(k) PROVE s \in Shorter(k + 1)
      OBVIOUS
    <3>1. s \in Seq(Byte) /\ Len(s) < k
      BY DEF Shorter
    <3>2. PICK j \in Nat : j = Len(s)
      BY <3>1, LenProperties
    <3>3. j < k + 1
      BY <3>1, <3>2
    <3> QED
      BY <3>1, <3>2, <3>3 DEF Shorter
  <2> HIDE DEF g
  <2>4. \A s \in Shorter(k) : f[s] = g[s]
    BY <2>1, <2>2, <2>3 DEF Lists
  <2>5. ASSUME NEW s \in Shorter(k + 1) PROVE g[s] = DolBody(s, g)
    <3>1. s \in Seq(Byte) /\ Len(s) < k + 1
      BY DEF Shorter
    <3>2. PICK j \in Nat : j = Len(s)
      BY <3>1, LenProperties
    <3>3. Alike(f, g, Len(s))
      <4> SUFFICES ASSUME NEW r \in Shorter(Len(s)) PROVE f[r] = g[r]
        BY DEF Alike
      <4>1. r \in Seq(Byte) /\ Len(r) < j
        BY <3>2 DEF Shorter
      <4>2. PICK i \in Nat : i = Len(r)
        BY <4>1, LenProperties
      <4>2a. j < k + 1
        BY <3>1, <3>2
      <4>3. i < k
        BY <4>1, <4>2, <4>2a
      <4>4. r \in Shorter(k)
        BY <4>1, <4>2, <4>3 DEF Shorter
      <4> QED
        BY <2>4, <4>4
    <3>4. DolBody(s, f) = DolBody(s, g)
      BY <3>1, <3>3, DolBodyAlike
    <3> QED
      BY <2>2, <3>4
  <2>6. Lists(g, k + 1)
    BY <2>5 DEF Lists
  <2> QED
    BY <2>6
<1>3. Nat \subseteq S
  <2> HIDE DEF S
  <2> QED
    BY <1>1, <1>2, EveryNumber
<1> QED
  BY <1>3

\* The recursion of ParsedDol is well founded: its definition holds.
LEMMA ParsedDolUnfolds ==
    \A data \in Seq(Byte) : ParsedDol[data] = DolBody(data, ParsedDol)
<1> DEFINE P(n) == CHOOSE f : Lists(f, n)
           F == [data \in Seq(Byte) |-> P(Len(data) + 1)[data]]
<1>1. \A n \in Nat : Lists(P(n), n)
  BY ListerExists
<1> HIDE DEF P
<1>2. \A data \in Seq(Byte) : F[data] = P(Len(data) + 1)[data]
  OBVIOUS
<1> HIDE DEF F
<1>3. ASSUME NEW data \in Seq(Byte) PROVE F[data] = DolBody(data, F)
  <2>1. PICK n \in Nat : n = Len(data)
    BY LenProperties
  <2>2. n < n + 1 /\ n + 1 \in Nat
    OBVIOUS
  <2>3. data \in Shorter(n + 1)
    BY <2>1, <2>2 DEF Shorter
  <2>4. PICK f : f = P(n + 1)
    OBVIOUS
  <2>5. Lists(f, n + 1)
    BY <1>1, <2>2, <2>4
  <2>6. F[data] = DolBody(data, f)
    BY <1>2, <2>1, <2>3, <2>4, <2>5 DEF Lists
  <2>7. Alike(f, F, Len(data))
    <3> SUFFICES ASSUME NEW r \in Shorter(Len(data)) PROVE f[r] = F[r]
      BY DEF Alike
    <3>1. r \in Seq(Byte) /\ Len(r) < n
      BY <2>1 DEF Shorter
    <3>2. PICK j \in Nat : j = Len(r)
      BY <3>1, LenProperties
    <3>3. j + 1 \in Nat /\ j + 1 <= n + 1 /\ j < j + 1
      BY <3>1, <3>2
    <3>4. PICK g : g = P(j + 1)
      OBVIOUS
    <3>5. Lists(g, j + 1)
      BY <1>1, <3>3, <3>4
    <3>6. Alike(g, f, j + 1)
      BY <2>2, <2>5, <3>3, <3>5, ListsAlike
    <3>7. r \in Shorter(j + 1)
      BY <3>1, <3>2, <3>3 DEF Shorter
    <3>8. g[r] = f[r]
      BY <3>6, <3>7 DEF Alike
    <3>9. F[r] = g[r]
      BY <1>2, <3>1, <3>2, <3>4
    <3> QED
      BY <3>8, <3>9
  <2>8. DolBody(data, f) = DolBody(data, F)
    BY <2>7, DolBodyAlike
  <2> QED
    BY <2>6, <2>8
<1>4. F = [data \in Seq(Byte) |-> DolBody(data, F)]
  <2>1. F = [data \in Seq(Byte) |-> F[data]]
    BY DEF F
  <2> QED
    BY <1>3, <2>1
<1>5. ParsedDol = CHOOSE f : f = [data \in Seq(Byte) |-> DolBody(data, f)]
  BY DEF ParsedDol, DolBody
<1>6. ParsedDol = [data \in Seq(Byte) |-> DolBody(data, ParsedDol)]
  BY <1>4, <1>5
<1> QED
  BY <1>6

Field == [tag : Seq(Byte), length : Byte]

\* A list that is read is fields of a tag and a length.
LEMMA ParseDolGivesFields ==
    \A data \in Seq(Byte) : ParseDol(data) = None \/ \E fields \in Seq(Field) : ParseDol(data) = Some(fields)
<1> DEFINE Good(data) == ParsedDol[data] = None \/ \E fields \in Seq(Field) : ParsedDol[data] = Some(fields)
           S == {n \in Nat : \A data \in Seq(Byte) : Len(data) = n => Good(data)}
<1>1. ASSUME NEW n \in Nat, \A m \in Nat : m < n => m \in S PROVE n \in S
  <2> SUFFICES ASSUME NEW data \in Seq(Byte), Len(data) = n PROVE Good(data)
    OBVIOUS
  <2>1. ASSUME NEW s \in Shorter(n) PROVE Good(s)
    <3>1. s \in Seq(Byte) /\ Len(s) < n
      BY DEF Shorter
    <3>2. PICK m \in Nat : m = Len(s)
      BY <3>1, LenProperties
    <3>3. m \in S
      BY <1>1, <3>1, <3>2
    <3> QED
      BY <3>1, <3>2, <3>3
  <2> HIDE DEF S
  <2>2. ParsedDol[data] = DolBody(data, ParsedDol)
    BY ParsedDolUnfolds
  <2>3. CASE data = <<>>
    <3>1. ParsedDol[data] = Some(<<>>) /\ <<>> \in Seq(Field)
      BY <2>2, <2>3, EmptySeq DEF DolBody
    <3> QED
      BY <3>1
  <2>4. CASE data # <<>> /\ ParseTag(data) = None
    BY <2>2, <2>4 DEF DolBody, Then
  <2>5. CASE data # <<>> /\ ParseTag(data) # None
    <3>1. PICK k \in 1..4 : ParseTag(data) = Some(First(data, k))
      BY <2>5, TagIsRead
    <3>2. PICK tag : tag = First(data, k)
      OBVIOUS
    <3>3. ParseTag(data) = Some(tag) /\ Unwrap(ParseTag(data)) = tag
      BY <3>1, <3>2, OfSome
    <3>4. ParsedDol[data] = Check(Len(tag) <= 2 /\ Len(data) > Len(tag),
                  Then(ParsedDol[From(data, Len(tag) + 2)], LAMBDA rest :
                    Some(<<[tag |-> tag, length |-> data[Len(tag) + 1]]>> \o rest)))
      BY <2>2, <2>5, <3>3 DEF DolBody, Then
    <3>5. CASE ~(Len(tag) <= 2 /\ Len(data) > Len(tag))
      BY <3>4, <3>5 DEF Check
    <3>6. CASE Len(tag) <= 2 /\ Len(data) > Len(tag)
      <4>1. PICK rest : rest = From(data, Len(tag) + 2)
        OBVIOUS
      <4>2. PICK b \in Byte : b = data[Len(tag) + 1]
        BY <3>3, <3>6, EntryIsShorter
      <4>3. Good(rest) /\ tag \in Seq(Byte)
        BY <2>1, <3>3, <3>6, <4>1, EntryIsShorter
      <4>4. PICK field : field = [tag |-> tag, length |-> b]
        OBVIOUS
      <4>5. field \in Field
        BY <4>2, <4>3, <4>4 DEF Field
      <4>6. ParsedDol[data] = Then(ParsedDol[rest], LAMBDA more : Some(<<field>> \o more))
        BY <3>4, <3>6, <4>1, <4>2, <4>4 DEF Check
      <4>7. CASE ParsedDol[rest] = None
        BY <4>6, <4>7 DEF Then
      <4>8. CASE ParsedDol[rest] # None
        <5>1. PICK fields \in Seq(Field) : ParsedDol[rest] = Some(fields)
          BY <4>3, <4>8
        <5>2. ParsedDol[data] = Some(<<field>> \o fields)
          BY <4>6, <4>8, <5>1, OfSome DEF Then
        <5>3. <<field>> \in Seq(Field)
          BY <4>5
        <5>4. <<field>> \o fields \in Seq(Field)
          BY <5>3, ConcatProperties
        <5> QED
          BY <5>2, <5>4
      <4> QED
        BY <4>7, <4>8
    <3> QED
      BY <3>5, <3>6
  <2> QED
    BY <2>3, <2>4, <2>5
<1>2. Nat \subseteq S
  <2> HIDE DEF S
  <2> QED
    BY <1>1, EveryNumberFromBelow
<1>3. \A data \in Seq(Byte) : Len(data) \in S
  BY <1>2, LenProperties
<1> QED
  BY <1>3 DEF ParseDol

\* A sequence, of whatever it holds.
IsString(s) == s \in Seq(Range(s))

\* A function over the first numbers is a sequence of what it takes...
LEMMA OfItsRange ==
    ASSUME NEW n \in Nat, NEW f, f = [i \in 1..n |-> f[i]]
    PROVE  IsString(f) /\ Len(f) = n
<1>1. PICK R : R = Range(f)
  OBVIOUS
<1>2. \A i \in 1..n : f[i] \in R
  BY <1>1 DEF Range
<1>3. f \in [1..n -> R]
  BY <1>2
<1>4. f \in Seq(R) /\ Len(f) = n
  BY <1>3, LenProperties
<1> QED
  BY <1>1, <1>4 DEF IsString

\* ... as is every sequence.
LEMMA IsStringAnyhow ==
    ASSUME NEW S, NEW s \in Seq(S)
    PROVE  IsString(s)
<1>1. PICK n \in Nat : n = Len(s)
  BY LenProperties
<1>2. s \in [1..n -> S]
  BY <1>1, LenProperties
<1> QED
  BY <1>2, OfItsRange

\* What answers a list is a sequence, whatever the values are.
LEMMA AnswerIsString ==
    ASSUME NEW fields \in Seq(Field), NEW ctx
    PROVE  IsString(Resolve(fields, ctx))
<1>1. PICK values : values = [tag \in {fields[i].tag : i \in DOMAIN fields} |-> terminal_value_for(tag, ctx)]
  OBVIOUS
<1> DEFINE One(entry) == IF IsConstructed(entry.tag) \/ values[entry.tag] = None
                         THEN Repeat(0, entry.length)
                         ELSE Fit(Unwrap(values[entry.tag]), entry.length)
           strings == [i \in DOMAIN fields |-> One(fields[i])]
           S == UNION {Range(strings[i]) : i \in DOMAIN fields}
<1>2. Resolve(fields, ctx) = Joined(strings)
  BY <1>1 DEF Resolve, BuildDol
<1>3. PICK m \in Nat : m = Len(fields) /\ DOMAIN fields = 1..m
  BY LenProperties
<1>4. ASSUME NEW i \in 1..m PROVE strings[i] \in Seq(S)
  <2>1. fields[i] \in Field
    BY <1>3, ElementOfSeq
  <2>2. PICK entry : entry = fields[i]
    OBVIOUS
  <2>3. PICK n \in Nat : n = entry.length
    BY <2>1, <2>2, ByteIsNat DEF Field
  <2>4. One(entry) = [j \in 1..n |-> One(entry)[j]]
    <3>1. CASE IsConstructed(entry.tag) \/ values[entry.tag] = None
      <4>1. One(entry) = [j \in 1..n |-> 0]
        BY <2>3, <3>1 DEF Repeat
      <4> HIDE DEF One
      <4> QED
        BY <4>1
    <3>2. CASE ~(IsConstructed(entry.tag) \/ values[entry.tag] = None)
      <4>1. PICK v : v = Unwrap(values[entry.tag])
        OBVIOUS
      <4>2. One(entry) = Fit(v, n)
        BY <2>3, <3>2, <4>1
      <4>3. Fit(v, n) = [j \in 1..n |-> Fit(v, n)[j]]
        BY DEF Fit
      <4> HIDE DEF One
      <4> QED
        BY <4>2, <4>3
    <3> QED
      BY <3>1, <3>2
  <2> HIDE DEF One
  <2>5. PICK f : f = strings[i]
    OBVIOUS
  <2>6. f = One(entry)
    BY <1>3, <2>2, <2>5
  <2>7. f = [j \in 1..n |-> f[j]]
    BY <2>4, <2>6
  <2>8. IsString(f)
    BY <2>7, OfItsRange
  <2>9. Range(f) \subseteq S
    BY <1>3, <2>5
  <2> QED
    <3>1. PICK R, U : R = Range(f) /\ U = S
      OBVIOUS
    <3>2. f \in Seq(R) /\ R \subseteq U
      BY <2>8, <2>9, <3>1 DEF IsString
    <3> HIDE DEF S
    <3>3. f \in Seq(U)
      BY <3>2, SeqMonotonic
    <3> QED
      BY <2>5, <3>1, <3>3
<1> HIDE DEF S, One
<1>5. strings \in [1..m -> Seq(S)]
  BY <1>3, <1>4
<1>6. PICK all : all = strings
  OBVIOUS
<1>7. all \in Seq(Seq(S))
  BY <1>5, <1>6
<1>8. Joined(all) \in Seq(S)
  BY <1>7, JoinedType
<1> QED
  BY <1>2, <1>6, <1>8, IsStringAnyhow
-----------------------------------------------------------------------------
(* Commands and their answers, over the bytes between terminal and card.    *)

\* Two sequences side by side, place by place.
LEMMA SideBySide ==
    ASSUME NEW S, NEW s \in Seq(S), NEW t \in Seq(S)
    PROVE  /\ s \o t \in Seq(S)
           /\ Len(s \o t) = Len(s) + Len(t)
           /\ \A i \in 1..Len(s) : (s \o t)[i] = s[i]
           /\ \A i \in 1..Len(t) : (s \o t)[Len(s) + i] = t[i]
<1>1. PICK u : u = s \o t
  OBVIOUS
<1>2. PICK m, n \in Nat : m = Len(s) /\ n = Len(t)
  BY LenProperties
<1>3. u \in Seq(S) /\ Len(u) = m + n /\ \A i \in 1..(m + n) : u[i] = IF i <= m THEN s[i] ELSE t[i - m]
  BY <1>1, <1>2, ConcatProperties
<1>4. \A i \in 1..m : u[i] = s[i]
  BY <1>2, <1>3
<1>5. \A i \in 1..n : u[m + i] = t[i]
  BY <1>2, <1>3
<1> QED
  BY <1>1, <1>2, <1>3, <1>4, <1>5

\* A command that could not be built is not sent.
LEMMA NoCommand == ReadBack(None) = None
BY DEF ReadBack, Then

\* What reaches the card has the header that was sent.
LEMMA HeaderReaches ==
    ASSUME NEW cla, NEW ins, NEW p1, NEW p2, NEW data, IsString(data), NEW le,
           ReadBack(Some(Command(cla, ins, p1, p2, data, le))) # None
    PROVE  \E r : /\ ReadBack(Some(Command(cla, ins, p1, p2, data, le))) = Some(r)
                  /\ r.ins = ins /\ r.p1 = p1 /\ r.p2 = p2
<1>1. PICK c : c = Command(cla, ins, p1, p2, data, le)
  OBVIOUS
<1>2. c.cla = cla /\ c.ins = ins /\ c.p1 = p1 /\ c.p2 = p2 /\ c.data = data /\ c.le = le
  BY <1>1 DEF Command
<1>3. Some(c) # None /\ Unwrap(Some(c)) = c
  BY OfSome
<1>4. ReadBack(Some(c)) = Then(to_bytes(c), command_from_bytes)
  BY <1>3 DEF ReadBack, Then
<1>5. PICK head, body, end, bytes :
        /\ head = <<cla, ins, p1, p2>>
        /\ body = (IF data = <<>> THEN <<>> ELSE <<Len(data)>> \o data)
        /\ end = (IF le = None THEN <<>> ELSE <<Unwrap(le)>>)
        /\ bytes = head \o body \o end
  OBVIOUS
<1>6. to_bytes(c) = Check(cla # 255 /\ Len(data) <= 255, Some(bytes))
  BY <1>2, <1>5 DEF to_bytes
<1>7. to_bytes(c) # None
  BY <1>1, <1>4 DEF Then
<1>8. to_bytes(c) = Some(bytes)
  BY <1>6, <1>7 DEF Check
<1>9. Unwrap(to_bytes(c)) = bytes
  BY <1>8, OfSome
<1>10. ReadBack(Some(c)) = command_from_bytes(bytes)
  BY <1>4, <1>7, <1>9 DEF Then
<1>11. PICK T : T = Range(data) \cup {cla, ins, p1, p2, Len(data), Unwrap(le)}
  OBVIOUS
<1>12. head \in Seq(T) /\ Len(head) = 4 /\ head[2] = ins /\ head[3] = p1 /\ head[4] = p2
  BY <1>5, <1>11
<1>13. body \in Seq(T) /\ end \in Seq(T)
  <2>1. PICK R : R = Range(data)
    OBVIOUS
  <2>2. data \in Seq(R) /\ R \subseteq T
    BY <1>11, <2>1 DEF IsString
  <2>3. data \in Seq(T)
    BY <2>2, SeqMonotonic
  <2>4. <<Len(data)>> \in Seq(T) /\ <<Unwrap(le)>> \in Seq(T) /\ <<>> \in Seq(T)
    BY <1>11
  <2>5. <<Len(data)>> \o data \in Seq(T)
    BY <2>3, <2>4, ConcatProperties
  <2> QED
    BY <1>5, <2>4, <2>5
<1>13a. Len(end) \in {0, 1} /\ (data # <<>> => body[1] = Len(data) /\ Len(body) > 0 /\ Len(data) \in Nat)
  <2>1. Len(end) \in {0, 1}
    BY <1>5
  <2>2. ASSUME data # <<>> PROVE body[1] = Len(data) /\ Len(body) > 0 /\ Len(data) \in Nat
    <3>1. PICK R : R = Range(data)
      OBVIOUS
    <3>2. data \in Seq(R) /\ R \subseteq T
      BY <1>11, <3>1 DEF IsString
    <3>3. data \in Seq(T)
      BY <3>2, SeqMonotonic
    <3>4. PICK first : first = <<Len(data)>>
      OBVIOUS
    <3>5. first \in Seq(T) /\ Len(first) = 1 /\ first[1] = Len(data)
      BY <1>11, <3>4
    <3>6. body = first \o data
      BY <1>5, <2>2, <3>4
    <3>7. Len(body) = Len(first) + Len(data) /\ \A i \in 1..Len(first) : body[i] = first[i]
      BY <3>3, <3>5, <3>6, SideBySide
    <3>8. Len(data) \in Nat
      BY <3>3, LenProperties
    <3> QED
      BY <3>5, <3>7, <3>8
  <2> QED
    BY <2>1, <2>2
<1>14. PICK tail \in Seq(T) : bytes = head \o tail /\ tail = body \o end
  <2>0. bytes = head \o body \o end
    BY <1>5
  <2>1. bytes = head \o (body \o end)
    BY <2>0, <1>12, <1>13, ConcatAssociative
  <2>2. body \o end \in Seq(T)
    BY <1>13, ConcatProperties
  <2> QED
    BY <2>1, <2>2
<1>15. bytes[2] = ins /\ bytes[3] = p1 /\ bytes[4] = p2
  <2>1. \A i \in 1..Len(head) : bytes[i] = head[i]
    <3>1. head \in Seq(T) /\ tail \in Seq(T)
      BY <1>12
    <3>2. \A i \in 1..Len(head) : (head \o tail)[i] = head[i]
      BY <3>1, SideBySide
    <3> QED
      BY <1>14, <3>2
  <2>2. {2, 3, 4} \subseteq 1..4
    OBVIOUS
  <2> QED
    BY <1>12, <2>1, <2>2
<1>15a. Len(bytes) >= 6 => bytes[5] \in Nat
  <2>1. Len(tail) = Len(body) + Len(end) /\ (\A i \in 1..Len(body) : tail[i] = body[i])
    BY <1>13, <1>14, SideBySide
  <2>2. Len(bytes) = 4 + Len(tail) /\ (\A i \in 1..Len(tail) : bytes[4 + i] = tail[i])
    <3>1. head \in Seq(T) /\ tail \in Seq(T)
      BY <1>12
    <3>2. Len(head \o tail) = Len(head) + Len(tail)
          /\ \A i \in 1..Len(tail) : (head \o tail)[Len(head) + i] = tail[i]
      BY <3>1, SideBySide
    <3> QED
      BY <1>12, <1>14, <3>2
  <2>3. Len(body) \in Nat
    BY <1>13, LenProperties
  <2>4. CASE data = <<>>
    <3>1. Len(body) = 0
      BY <1>5, <2>4
    <3> QED
      BY <1>13a, <2>1, <2>2, <3>1
  <2>5. CASE data # <<>>
    <3>1. 1 \in 1..Len(body) /\ 1 \in 1..Len(tail)
      BY <1>13a, <2>1, <2>3, <2>5
    <3>2. bytes[4 + 1] = tail[1] /\ tail[1] = body[1]
      BY <2>1, <2>2, <3>1
    <3>3. 4 + 1 = 5
      OBVIOUS
    <3> QED
      BY <1>13a, <2>5, <3>2, <3>3
  <2> QED
    BY <2>4, <2>5
<1>16. command_from_bytes(bytes) # None
  BY <1>1, <1>10
<1>17. \E a, d, l : command_from_bytes(bytes) = Some(Command(a, bytes[2], bytes[3], bytes[4], d, l))
  <2>1. PICK n : n = Len(bytes)
    OBVIOUS
  <2> DEFINE Is(d, l) == command_from_bytes(bytes)
                           = Some(Command(bytes[1], bytes[2], bytes[3], bytes[4], d, l))
  <2>2. ~(n < 4 \/ bytes[1] = 255)
    BY <1>16, <2>1 DEF command_from_bytes
  <2>3. CASE n = 4
    <3>1. Is(<<>>, None)
      BY <2>1, <2>2, <2>3 DEF command_from_bytes
    <3> QED
      BY <3>1
  <2>4. CASE n = 5
    <3>1. Is(<<>>, Some(bytes[5]))
      BY <2>1, <2>2, <2>4 DEF command_from_bytes
    <3> QED
      BY <3>1
  <2>5. CASE n \notin {4, 5} /\ n >= 6 /\ n = 5 + bytes[5]
    <3>1. Is(SubSeq(bytes, 6, 5 + bytes[5]), None)
      <4>1. n # 4 /\ n # 5 /\ ~(n = 6 + bytes[5])
        BY <1>15a, <2>1, <2>5
      <4> QED
        BY <2>1, <2>2, <2>5, <4>1 DEF command_from_bytes
    <3> QED
      BY <3>1
  <2>6. CASE n \notin {4, 5} /\ n >= 6 /\ ~(n = 5 + bytes[5]) /\ n = 6 + bytes[5]
    <3>1. Is(SubSeq(bytes, 6, 5 + bytes[5]), Some(bytes[n]))
      BY <2>1, <2>2, <2>6 DEF command_from_bytes
    <3> QED
      BY <3>1
  <2>7. CASE n \notin {4, 5} /\ ~(n >= 6 /\ n = 5 + bytes[5]) /\ ~(n >= 6 /\ n = 6 + bytes[5])
    <3>1. command_from_bytes(bytes) = None
      BY <2>1, <2>2, <2>7 DEF command_from_bytes
    <3> QED
      BY <1>16, <3>1
  <2> QED
    BY <2>3, <2>4, <2>5, <2>6, <2>7
<1>18. PICK a, d, l : command_from_bytes(bytes) = Some(Command(a, ins, p1, p2, d, l))
  BY <1>15, <1>17
<1>19. PICK r : r = Command(a, ins, p1, p2, d, l)
  OBVIOUS
<1>20. r.ins = ins /\ r.p1 = p1 /\ r.p2 = p2
  BY <1>19 DEF Command
<1> QED
  BY <1>1, <1>10, <1>18, <1>19, <1>20

\* Data before a status word 9000 are received as they are...
LEMMA OkReplies ==
    ASSUME NEW bytes \in Seq(Byte)
    PROVE  Reply(bytes \o Ok) = [sw |-> \h9000, data |-> bytes]
<1>1. PICK end \in Seq(Byte) : end = Ok /\ Len(end) = 2 /\ end[1] = 144 /\ end[2] = 0
  <2>1. PICK end : end = Ok
    OBVIOUS
  <2>2. end = <<144, 0>>
    BY <2>1 DEF Ok
  <2>3. 144 \in Byte /\ 0 \in Byte
    BY DEF Byte
  <2>4. end \in Seq(Byte) /\ Len(end) = 2 /\ end[1] = 144 /\ end[2] = 0
    BY <2>2, <2>3
  <2> QED
    BY <2>1, <2>4
<1>2. PICK all, n : all = bytes \o end /\ n = Len(bytes)
  OBVIOUS
<1>3. n \in Nat
  BY <1>2, LenProperties
<1>4. Len(all) = n + 2
  <2>1. Len(bytes \o end) = Len(bytes) + Len(end)
    BY SideBySide
  <2> QED
    BY <1>1, <1>2, <2>1
<1>5. all[n + 1] = 144 /\ all[n + 2] = 0
  <2>1. \A i \in 1..Len(end) : (bytes \o end)[Len(bytes) + i] = end[i]
    BY SideBySide
  <2>2. 1 \in 1..2 /\ 2 \in 1..2
    OBVIOUS
  <2> QED
    BY <1>1, <1>2, <2>1, <2>2
<1>6. First(all, n) = bytes
  BY <1>2, FrontAndRest DEF First
<1>7. ~(Len(all) < 2) /\ Len(all) - 1 = n + 1 /\ Len(all) - 2 = n
  BY <1>3, <1>4
<1>8. PICK r : r = [data |-> bytes, sw1 |-> 144, sw2 |-> 0]
  OBVIOUS
<1>9. r.data = bytes /\ r.sw1 = 144 /\ r.sw2 = 0
  BY <1>8
<1>10. all[Len(all) - 1] = 144 /\ all[Len(all)] = 0 /\ First(all, Len(all) - 2) = bytes
  BY <1>4, <1>5, <1>6, <1>7
<1>11. response_parse(all) = Some(r)
  BY <1>7, <1>8, <1>10 DEF response_parse, Check
<1>12. response_parse(all) # None /\ Unwrap(response_parse(all)) = r
  BY <1>11, OfSome
<1>13. status_word(r) = \h9000
  BY <1>9 DEF status_word
<1> QED
  BY <1>1, <1>2, <1>9, <1>12, <1>13 DEF Reply

Trailers == {<<\h69, \h85>>, <<\h6A, \h82>>, <<\h6A, \h83>>, <<\h6A, \h88>>}

\* ... an error status is received as an error...
LEMMA ErrorReplies ==
    ASSUME NEW bytes \in Trailers
    PROVE  Reply(bytes).sw # \h9000 /\ Reply(bytes).data = <<>>
<1>1. PICK a \in {105, 106}, b \in {130, 131, 133, 136} : bytes = <<a, b>>
  BY DEF Trailers
<1>2. bytes \in Seq(Byte) /\ Len(bytes) = 2 /\ bytes[1] = a /\ bytes[2] = b
  BY <1>1 DEF Byte
<1>3. PICK r : r = [data |-> First(bytes, 0), sw1 |-> a, sw2 |-> b]
  OBVIOUS
<1>4. r.data = <<>> /\ r.sw1 = a /\ r.sw2 = b
  <2>1. SubSeq(bytes, 1, 0) = <<>>
    BY <1>2
  <2> QED
    BY <1>3, <2>1 DEF First
<1>5. response_parse(bytes) = Some(r)
  <2>1. ~(Len(bytes) < 2) /\ Len(bytes) - 1 = 1 /\ Len(bytes) - 2 = 0 /\ Len(bytes) = 2
    BY <1>2
  <2>2. bytes[Len(bytes) - 1] = a /\ bytes[Len(bytes)] = b /\ First(bytes, Len(bytes) - 2) = First(bytes, 0)
    BY <1>2, <2>1
  <2>3. a \in (97..111) \cup (144..159)
    OBVIOUS
  <2> QED
    BY <1>3, <2>1, <2>2, <2>3 DEF response_parse, Check
<1>6. response_parse(bytes) # None /\ Unwrap(response_parse(bytes)) = r
  BY <1>5, OfSome
<1>7. status_word(r) = (256 * a) + b
  BY <1>4 DEF status_word
<1>8. PICK sw : sw = (256 * a) + b /\ sw # \h9000
  OBVIOUS
<1>9. Reply(bytes) = [sw |-> sw, data |-> <<>>]
  BY <1>4, <1>6, <1>7, <1>8 DEF Reply
<1> QED
  BY <1>8, <1>9

\* ... and all data that are received are bytes.
LEMMA RepliesInBytes ==
    ASSUME NEW bytes \in Seq(Byte)
    PROVE  Reply(bytes).data \in Seq(Byte)
<1>1. PICK n \in Nat : n = Len(bytes)
  BY LenProperties
<1>2. CASE response_parse(bytes) = None
  BY <1>2, EmptySeq DEF Reply, Lost
<1>3. CASE response_parse(bytes) # None
  <2>1. ~(n < 2)
    BY <1>1, <1>3 DEF response_parse
  <2>2. PICK r : r = [data |-> First(bytes, n - 2), sw1 |-> bytes[n - 1], sw2 |-> bytes[n]]
    OBVIOUS
  <2>3. response_parse(bytes) = Some(r)
    BY <1>1, <1>3, <2>2 DEF response_parse, Check
  <2>4. r.data = SubSeq(bytes, 1, n - 2)
    BY <2>2 DEF First
  <2>5. n - 2 \in Nat /\ n - 2 <= n
    BY <2>1
  <2>6. SubSeq(bytes, 1, n - 2) \in Seq(Byte)
    BY <1>1, <2>5, PartIsBytes
  <2>7. Unwrap(response_parse(bytes)) = r
    BY <2>3, OfSome
  <2>8. Reply(bytes) = [sw |-> status_word(r), data |-> r.data]
    BY <1>3, <2>7 DEF Reply
  <2> QED
    BY <2>4, <2>6, <2>8
<1> QED
  BY <1>2, <1>3
-----------------------------------------------------------------------------
(* What SELECT and the directory answer.                                    *)

\* What is found by its tag is one of the nodes, with that tag.
LEMMA FoundIsOne ==
    ASSUME NEW nodes \in Seq(Nodes), NEW tag, find_tag(nodes, tag) # None
    PROVE  \E i \in DOMAIN nodes : nodes[i].tag = tag /\ find_tag(nodes, tag) = Some(nodes[i])
<1>1. PICK n \in Nat : n = Len(nodes) /\ DOMAIN nodes = 1..n
  BY LenProperties
<1>2. PICK at : at = {i \in DOMAIN nodes : nodes[i].tag = tag}
  OBVIOUS
<1>3. find_tag(nodes, tag) = Check(at # {}, Some(nodes[CHOOSE i \in at : \A j \in at : i <= j]))
  BY <1>2 DEF find_tag
<1>4. at # {}
  BY <1>3 DEF Check
<1>5. at \subseteq Nat
  BY <1>1, <1>2
<1>6. \E i \in at : \A j \in at : i <= j
  BY <1>4, <1>5, LeastOf
<1>7. PICK i : i = CHOOSE k \in at : \A j \in at : k <= j
  OBVIOUS
<1>8. i \in at
  BY <1>6, <1>7
<1>9. find_tag(nodes, tag) = Some(nodes[i])
  <2>1. find_tag(nodes, tag) = Some(nodes[CHOOSE k \in at : \A j \in at : k <= j])
    BY <1>3, <1>4 DEF Check
  <2> QED
    BY <1>7, <2>1
<1>10. i \in DOMAIN nodes /\ nodes[i].tag = tag
  BY <1>2, <1>8
<1> QED
  BY <1>9, <1>10

\* The value of a primitive node is bytes.
LEMMA FieldIsBytes ==
    ASSUME NEW node \in Nodes
    PROVE  AsPrimitive(node) = None \/ \E bytes \in Seq(Byte) : AsPrimitive(node) = Some(bytes)
BY NodeType DEF AsPrimitive, Check

\* A DF name that is found is bytes.
LEMMA NameIsBytes ==
    ASSUME NEW outer \in Seq(Nodes), df_name(outer) # None
    PROVE  \E name \in Seq(Byte) : df_name(outer) = Some(name)
<1>1. PICK node : node = find_tag(outer, <<\h84>>)
  OBVIOUS
<1>2. df_name(outer) = Then(node, LAMBDA tlv : Then(AsPrimitive(tlv), AnyBytes))
  BY <1>1 DEF df_name, MandatoryField
<1>3. node # None
  BY <1>2 DEF Then
<1>4. PICK i \in DOMAIN outer : node = Some(outer[i])
  BY <1>1, <1>3, FoundIsOne
<1>5. PICK n \in Nat : n = Len(outer) /\ DOMAIN outer = 1..n
  BY LenProperties
<1>6. PICK one \in Nodes : one = outer[i]
  BY <1>4, <1>5, ElementOfSeq
<1>7. df_name(outer) = Then(AsPrimitive(one), AnyBytes)
  BY <1>2, <1>3, <1>4, <1>6, OfSome DEF Then
<1>8. AsPrimitive(one) # None
  BY <1>7 DEF Then
<1>9. PICK bytes \in Seq(Byte) : AsPrimitive(one) = Some(bytes)
  BY <1>8, FieldIsBytes
<1>10. df_name(outer) = Some(bytes)
  BY <1>7, <1>8, <1>9, OfSome DEF Then, AnyBytes
<1> QED
  BY <1>10

\* The two templates of the file control information are nodes.
LEMMA TemplateParts ==
    ASSUME NEW data \in Seq(Byte), parse_outer_template(data) # None
    PROVE  \E outer, inner \in Seq(Nodes) :
             parse_outer_template(data) = Some([outer |-> outer, inner |-> inner])
<1>1. Parse(data) # None
  BY DEF parse_outer_template, Then
<1>2. PICK node \in Nodes, last \in Nat : Parse(data) = Some([tlv |-> node, size |-> last])
  BY <1>1, ParseGivesNode
<1>3. PICK one : one = [tlv |-> node, size |-> last]
  OBVIOUS
<1>4. one.tlv = node /\ Unwrap(Parse(data)) = one
  BY <1>2, <1>3, OfSome
<1>5. PICK outer \in Seq(Nodes) : outer = node.children
  BY NodeType
<1>6. parse_outer_template(data)
        = Check(node.tag = <<\h6F>>,
            Then(find_tag(outer, <<\hA5>>), LAMBDA proprietary :
              Some([outer |-> outer, inner |-> proprietary.children])))
  BY <1>1, <1>4, <1>5 DEF parse_outer_template, Then
<1>7. PICK found : found = find_tag(outer, <<\hA5>>)
  OBVIOUS
<1>8. node.tag = <<\h6F>> /\ found # None
  BY <1>6, <1>7 DEF Check, Then
<1>9. PICK i \in DOMAIN outer : found = Some(outer[i])
  BY <1>7, <1>8, FoundIsOne
<1>10. PICK n \in Nat : n = Len(outer) /\ DOMAIN outer = 1..n
  BY LenProperties
<1>11. PICK proprietary \in Nodes : proprietary = outer[i]
  BY <1>9, <1>10, ElementOfSeq
<1>12. PICK inner \in Seq(Nodes) : inner = proprietary.children
  BY NodeType
<1>13. Unwrap(found) = proprietary
  BY <1>9, <1>11, OfSome
<1>14. parse_outer_template(data) = Some([outer |-> outer, inner |-> inner])
  BY <1>6, <1>7, <1>8, <1>12, <1>13 DEF Check, Then
<1> QED
  BY <1>14

\* A PDOL that is read is fields.
LEMMA ListIsRead ==
    ASSUME NEW inner \in Seq(Nodes), NEW tag, NEW pdol, pdol = OptionalField(find_tag(inner, tag), ParseDol),
           pdol # None
    PROVE  pdol = Some(None) \/ \E fields \in Seq(Field) : pdol = Some(Some(fields))
<1>1. PICK node : node = find_tag(inner, tag)
  OBVIOUS
<1>2. CASE node = None
  BY <1>1, <1>2 DEF OptionalField
<1>3. CASE node # None
  <2>1. PICK i \in DOMAIN inner : node = Some(inner[i])
    BY <1>1, <1>3, FoundIsOne
  <2>2. PICK n \in Nat : n = Len(inner) /\ DOMAIN inner = 1..n
    BY LenProperties
  <2>3. PICK one \in Nodes : one = inner[i]
    BY <2>1, <2>2, ElementOfSeq
  <2>4. Unwrap(node) = one
    BY <2>1, <2>3, OfSome
  <2>5. pdol = Then(AsPrimitive(one),
                    LAMBDA bytes : Then(ParseDol(bytes), LAMBDA value : Some(Some(value))))
    BY <1>1, <1>3, <2>4 DEF OptionalField
  <2>6. AsPrimitive(one) # None
    BY <2>5 DEF Then
  <2>7. PICK bytes \in Seq(Byte) : AsPrimitive(one) = Some(bytes)
    BY <2>6, FieldIsBytes
  <2>8. pdol = Then(ParseDol(bytes), LAMBDA value : Some(Some(value)))
    BY <2>5, <2>6, <2>7, OfSome DEF Then
  <2>9. ParseDol(bytes) # None
    BY <2>8 DEF Then
  <2>10. PICK fields \in Seq(Field) : ParseDol(bytes) = Some(fields)
    BY <2>9, ParseDolGivesFields
  <2>11. pdol = Some(Some(fields))
    BY <2>8, <2>9, <2>10, OfSome DEF Then
  <2> QED
    BY <2>11
<1> QED
  BY <1>2, <1>3

\* File control information that is read has a name and may have a PDOL.
LEMMA AdfFciIsRead ==
    ASSUME NEW data \in Seq(Byte), AdfFci(data) # None
    PROVE  \E f : /\ AdfFci(data) = Some(f) /\ f.df_name \in Seq(Byte)
                  /\ f.pdol = None \/ \E fields \in Seq(Field) : f.pdol = Some(fields)
<1>1. parse_outer_template(data) # None
  BY DEF AdfFci, Then
<1>2. PICK outer, inner \in Seq(Nodes) :
        parse_outer_template(data) = Some([outer |-> outer, inner |-> inner])
  BY <1>1, TemplateParts
<1>3. PICK t : t = [outer |-> outer, inner |-> inner]
  OBVIOUS
<1>4. t.outer = outer /\ t.inner = inner /\ Unwrap(parse_outer_template(data)) = t
  BY <1>2, <1>3, OfSome
<1>5. PICK name, label, priority, pdol, language, table, preferred, discretionary :
        /\ name = df_name(outer)
        /\ label = take_optional_primitive(inner, <<\h50>>)
        /\ priority = OptionalField(find_tag(inner, <<\h87>>),
                                  LAMBDA b : ParseRegister(PriorityIndicatorLayout, b))
        /\ pdol = OptionalField(find_tag(inner, <<\h9F, \h38>>), ParseDol)
        /\ language = take_optional_primitive(inner, <<\h5F, \h2D>>)
        /\ table = issuer_code_table_index(inner)
        /\ preferred = take_optional_primitive(inner, <<\h9F, \h12>>)
        /\ discretionary = fci_issuer_discretionary_data(inner)
  OBVIOUS
<1>6. PICK f : f = [df_name |-> Unwrap(name), application_label |-> Unwrap(label),
                    application_priority_indicator |-> Unwrap(priority), pdol |-> Unwrap(pdol),
                    language_preference |-> Unwrap(language),
                    issuer_code_table_index |-> Unwrap(table),
                    application_preferred_name |-> Unwrap(preferred),
                    fci_issuer_discretionary_data |-> Unwrap(discretionary)]
  OBVIOUS
<1>7. AdfFci(data) = Check(None \notin {name, label, priority, pdol, language, table, preferred, discretionary},
                           Some(f))
  BY <1>1, <1>4, <1>5, <1>6 DEF AdfFci, Then
<1>8. AdfFci(data) = Some(f) /\ name # None /\ pdol # None
  BY <1>7 DEF Check
<1>9. f.df_name = Unwrap(name) /\ f.pdol = Unwrap(pdol)
  BY <1>6
<1>10. f.df_name \in Seq(Byte)
  <2>1. PICK bytes \in Seq(Byte) : name = Some(bytes)
    BY <1>5, <1>8, NameIsBytes
  <2> QED
    BY <1>9, <2>1, OfSome
<1>11. f.pdol = None \/ \E fields \in Seq(Field) : f.pdol = Some(fields)
  <2>1. pdol = Some(None) \/ \E fields \in Seq(Field) : pdol = Some(Some(fields))
    BY <1>5, <1>8, ListIsRead
  <2>2. CASE pdol = Some(None)
    BY <1>9, <2>2, OfSome
  <2>3. ASSUME NEW fields \in Seq(Field), pdol = Some(Some(fields)) PROVE f.pdol = Some(fields)
    BY <1>9, <2>3, OfSome
  <2> QED
    BY <2>1, <2>2, <2>3
<1> QED
  BY <1>8, <1>10, <1>11

\* The entries of a directory record have names of bytes...
LEMMA EntryNames ==
    ASSUME NEW children \in Seq(Nodes)
    PROVE  \/ parse_application_template(children) \in {None, Some(None)}
           \/ \E e : parse_application_template(children) = Some(Some(e)) /\ e.adf_name \in Seq(Byte)
<1>1. PICK name : name = LastOf(children, <<\h4F>>)
  OBVIOUS
<1> DEFINE ReadName(bytes) == Check(Len(bytes) \in 5..16, Some(bytes))
           Field1(tag) == OptionalField(LastOf(children, tag), AnyBytes)
           Entry(adf_name) == [adf_name |-> adf_name,
                          application_label |-> Unwrap(Field1(<<\h50>>)),
                          application_preferred_name |-> Unwrap(Field1(<<\h9F, \h12>>)),
                          application_priority_indicator |-> Unwrap(Field1(<<\h87>>)),
                          directory_discretionary_template |->
                            Then(LastOf(children, <<\h73>>), AsConstructed)]
<1>2. \/ parse_application_template(children) = None
      \/ parse_application_template(children)
           = IF name = None THEN Some(None)
             ELSE Then(MandatoryField(name, ReadName), LAMBDA adf_name : Some(Some(Entry(adf_name))))
  BY <1>1 DEF parse_application_template, Check
<1>3. ASSUME name # None, MandatoryField(name, ReadName) # None
      PROVE  \E bytes \in Seq(Byte) : MandatoryField(name, ReadName) = Some(bytes)
  <2>1. PICK i \in DOMAIN children : name = Some(children[i])
    BY <1>1, <1>3, LastOfIsOne
  <2>2. PICK n \in Nat : n = Len(children) /\ DOMAIN children = 1..n
    BY LenProperties
  <2>3. PICK one \in Nodes : one = children[i]
    BY <2>1, <2>2, ElementOfSeq
  <2>4. MandatoryField(name, ReadName) = Then(AsPrimitive(one), ReadName)
    BY <1>3, <2>1, <2>3, OfSome DEF MandatoryField, Then
  <2>5. AsPrimitive(one) # None
    BY <1>3, <2>4 DEF Then
  <2>6. PICK bytes \in Seq(Byte) : AsPrimitive(one) = Some(bytes)
    BY <2>5, FieldIsBytes
  <2>7. MandatoryField(name, ReadName) = ReadName(bytes)
    BY <2>4, <2>5, <2>6, OfSome DEF Then
  <2>8. ReadName(bytes) = Some(bytes)
    BY <1>3, <2>7 DEF Check
  <2> HIDE DEF ReadName
  <2> QED
    BY <2>7, <2>8
<1>4. CASE parse_application_template(children) = None
  BY <1>4
<1>5. CASE parse_application_template(children) # None
  <2>1. CASE name = None
    BY <1>2, <1>5, <2>1
  <2>2. CASE name # None
    <3>1. parse_application_template(children)
            = Then(MandatoryField(name, ReadName), LAMBDA adf_name : Some(Some(Entry(adf_name))))
      BY <1>2, <1>5, <2>2
    <3>2. MandatoryField(name, ReadName) # None
      BY <1>5, <3>1 DEF Then
    <3>3. PICK bytes \in Seq(Byte) : MandatoryField(name, ReadName) = Some(bytes)
      BY <1>3, <2>2, <3>2
    <3>4. PICK e : e = Entry(bytes)
      OBVIOUS
    <3>5. e.adf_name = bytes
      BY <3>4
    <3> HIDE DEF ReadName, Entry
    <3>6. parse_application_template(children) = Some(Some(e))
      BY <3>1, <3>2, <3>3, <3>4, OfSome DEF Then
    <3> QED
      BY <3>5, <3>6
  <2> QED
    BY <2>1, <2>2
<1> QED
  BY <1>4, <1>5

HasName(e) == e.adf_name \in Seq(Byte)

\* ... in every directory record that is read.
LEMMA DirectoryIsRead ==
    ASSUME NEW data \in Seq(Byte), PaymentSystemDirectoryRecord(data) # None
    PROVE  \E n \in Nat : \E list : /\ PaymentSystemDirectoryRecord(data) = Some(list)
                                  /\ DOMAIN list = 1..n
                                  /\ \A i \in 1..n : HasName(list[i])
<1>1. from_bytes(data) # None
  BY DEF PaymentSystemDirectoryRecord, Then
<1>2. PICK node \in Nodes : from_bytes(data) = Some(node)
  BY <1>1, FromBytesGivesNode
<1>3. PICK children \in Seq(Nodes) : children = node.children
  BY NodeType
<1> DEFINE entries == [i \in DOMAIN children |->
                      IF children[i].tag = <<\h61>>
                      THEN parse_application_template(children[i].children) ELSE Some(None)]
           strings == [i \in DOMAIN entries |->
                             LET entry == Unwrap(entries[i])
                             IN  IF entry = None THEN <<>> ELSE <<Unwrap(entry)>>]
<1>4. PaymentSystemDirectoryRecord(data)
        = Check(node.tag = <<\h70>> /\ \A i \in DOMAIN entries : entries[i] # None,
                Some(Joined(strings)))
  <2>1. Unwrap(from_bytes(data)) = node
    BY <1>2, OfSome
  <2> QED
    BY <1>1, <1>3, <2>1, Zenon DEF PaymentSystemDirectoryRecord, Then
<1>5. PaymentSystemDirectoryRecord(data) = Some(Joined(strings))
      /\ \A i \in DOMAIN entries : entries[i] # None
  BY <1>4 DEF Check
<1>6. PICK m \in Nat : m = Len(children) /\ DOMAIN children = 1..m
  BY LenProperties
<1>7. ASSUME NEW i \in 1..m
      PROVE  entries[i] = Some(None) \/ \E e : entries[i] = Some(Some(e)) /\ HasName(e)
  <2>1. entries[i] # None
    BY <1>5, <1>6
  <2>2. CASE children[i].tag = <<\h61>>
    <3>1. PICK kids \in Seq(Nodes) : kids = children[i].children
      BY <1>6, ElementOfSeq, NodeType
    <3>2. entries[i] = parse_application_template(kids)
      BY <1>6, <2>2, <3>1
    <3> HIDE DEF entries
    <3> QED
      BY <2>1, <3>2, EntryNames DEF HasName
  <2>3. CASE children[i].tag # <<\h61>>
    BY <1>6, <2>3
  <2> QED
    BY <2>2, <2>3
<1>8. DOMAIN entries = 1..m
  BY <1>6
<1>9. PICK all : all = strings
  OBVIOUS
<1>10. PICK E : E = {e \in UNION {Range(all[i]) : i \in 1..m} : HasName(e)}
  OBVIOUS
<1>11. ASSUME NEW i \in 1..m PROVE all[i] \in Seq(E)
  <2>1. CASE entries[i] = Some(None)
    <3>1. all[i] = <<>>
      BY <1>8, <1>9, <2>1, OfSome
    <3> QED
      BY <3>1, EmptySeq
  <2>2. ASSUME NEW e, entries[i] = Some(Some(e)), HasName(e) PROVE all[i] \in Seq(E)
    <3>1. Unwrap(entries[i]) = Some(e) /\ Some(e) # None /\ Unwrap(Some(e)) = e
      BY <2>2, OfSome
    <3>2. all[i] = <<e>>
      BY <1>8, <1>9, <3>1
    <3>3. e \in Range(all[i])
      BY <3>2 DEF Range
    <3>4. e \in E
      BY <1>10, <2>2, <3>3
    <3> QED
      BY <3>2, <3>4
  <2> QED
    BY <1>7, <2>1, <2>2
<1>12. all \in Seq(Seq(E))
  <2>1. all = [i \in 1..m |-> all[i]]
    BY <1>8, <1>9
  <2>2. all \in [1..m -> Seq(E)]
    BY <1>11, <2>1
  <2> QED
    BY <2>2
<1>13. PICK list : list = Joined(all)
  OBVIOUS
<1>14. list \in Seq(E)
  BY <1>12, <1>13, JoinedType
<1>15. PICK n \in Nat : n = Len(list) /\ DOMAIN list = 1..n
  BY <1>14, LenProperties
<1>16. \A i \in 1..n : list[i] \in E
  BY <1>14, <1>15, ElementOfSeq
<1>17. \A i \in 1..n : HasName(list[i])
  BY <1>10, <1>16
<1>18. PaymentSystemDirectoryRecord(data) = Some(list)
  BY <1>5, <1>9, <1>13
<1> QED
  BY <1>15, <1>17, <1>18
-----------------------------------------------------------------------------
(* The tag store.                                                           *)

IsStore(s) == s = [tag \in DOMAIN s |-> s[tag]]
\* What a store holds from the card's records.
Kept(s) == {<<tag, s[tag].value>> : tag \in {t \in DOMAIN s : s[t].source = "Record"}}

With(into, tag, value, source) ==
  [t \in DOMAIN into \cup {tag} |->
     IF t = tag THEN [value |-> value, source |-> source] ELSE into[t]]

AddsTo(s, into, tag, value, source) ==
  /\ IsStore(s) /\ DOMAIN s = {tag} \cup DOMAIN into
  /\ s[tag] = [value |-> value, source |-> source]
  /\ \A t \in DOMAIN into : s[t] = into[t]
  /\ Kept(s) = Kept(into) \cup (IF source = "Record" THEN {<<tag, value>>} ELSE {})

\* What one more element adds to a store.
LEMMA Added ==
    ASSUME NEW into, NEW tag, tag \notin DOMAIN into, NEW value, NEW source, NEW s,
           s = With(into, tag, value, source)
    PROVE  AddsTo(s, into, tag, value, source)
<1> SUFFICES
           /\ IsStore(s) /\ DOMAIN s = {tag} \cup DOMAIN into
           /\ s[tag] = [value |-> value, source |-> source]
           /\ \A t \in DOMAIN into : s[t] = into[t]
           /\ Kept(s) = Kept(into) \cup (IF source = "Record" THEN {<<tag, value>>} ELSE {})
  BY DEF AddsTo
<1>1. PICK one : one = [value |-> value, source |-> source]
  OBVIOUS
<1>2. one.value = value /\ one.source = source
  BY <1>1
<1>3. s = [t \in DOMAIN into \cup {tag} |-> IF t = tag THEN one ELSE into[t]]
  BY <1>1 DEF With
<1>4. IsStore(s) /\ DOMAIN s = {tag} \cup DOMAIN into
  BY <1>3 DEF IsStore
<1>5. s[tag] = one /\ \A t \in DOMAIN into : s[t] = into[t]
  BY <1>3
<1>6. \A t \in DOMAIN into : t # tag
  OBVIOUS
<1>7. s[tag].source = source /\ s[tag].value = value
  BY <1>2, <1>5
<1>8. CASE source = "Record"
  <2>1. ASSUME NEW t \in DOMAIN s, s[t].source = "Record"
        PROVE  <<t, s[t].value>> \in Kept(into) \cup {<<tag, value>>}
    <3>1. CASE t = tag
      BY <1>7, <3>1
    <3>2. CASE t # tag
      <4>1. t \in DOMAIN into /\ s[t] = into[t]
        BY <1>4, <1>5, <3>2
      <4> QED
        BY <2>1, <4>1 DEF Kept
    <3> QED
      BY <3>1, <3>2
  <2>2. ASSUME NEW t \in DOMAIN into, into[t].source = "Record"
        PROVE  <<t, into[t].value>> \in Kept(s)
    BY <1>4, <1>5, <2>2 DEF Kept
  <2>3. <<tag, value>> \in Kept(s)
    BY <1>4, <1>7, <1>8 DEF Kept
  <2>4. Kept(s) \subseteq Kept(into) \cup {<<tag, value>>}
    BY <2>1 DEF Kept
  <2>5. Kept(into) \subseteq Kept(s)
    BY <2>2 DEF Kept
  <2> QED
    BY <1>1, <1>4, <1>5, <1>8, <2>3, <2>4, <2>5
<1>9. CASE source # "Record"
  <2>1. ASSUME NEW t \in DOMAIN s, s[t].source = "Record"
        PROVE  <<t, s[t].value>> \in Kept(into)
    <3>1. t # tag
      BY <1>7, <1>9, <2>1
    <3>2. t \in DOMAIN into /\ s[t] = into[t]
      BY <1>4, <1>5, <3>1
    <3> QED
      BY <2>1, <3>2 DEF Kept
  <2>2. ASSUME NEW t \in DOMAIN into, into[t].source = "Record"
        PROVE  <<t, into[t].value>> \in Kept(s)
    BY <1>4, <1>5, <2>2 DEF Kept
  <2>3. Kept(s) \subseteq Kept(into)
    BY <2>1 DEF Kept
  <2>4. Kept(into) \subseteq Kept(s)
    BY <2>2 DEF Kept
  <2> QED
    BY <1>1, <1>4, <1>5, <1>9, <2>3, <2>4
<1> QED
  BY <1>8, <1>9

\* insert_primitive leaves the store as it is or adds the element.
LEMMA InsertOne ==
    ASSUME NEW into, IsStore(into), NEW tag, NEW value, NEW source,
           InsertPrimitive(into, tag, value, source) # None
    PROVE  \E s : /\ InsertPrimitive(into, tag, value, source) = Some(s) /\ IsStore(s)
                  /\ \/ value = <<>> /\ s = into
                     \/ /\ value # <<>> /\ tag \notin DOMAIN into
                        /\ s = With(into, tag, value, source)
                  /\ Kept(s) = Kept(into) \cup
                               (IF source = "Record" /\ value # <<>> THEN {<<tag, value>>} ELSE {})
<1>1. CASE IsConstructed(tag)
  BY <1>1 DEF InsertPrimitive
<1>2. CASE ~IsConstructed(tag) /\ value = <<>>
  <2>1. InsertPrimitive(into, tag, value, source) = Some(into)
    BY <1>2 DEF InsertPrimitive
  <2>2. Kept(into) = Kept(into) \cup (IF source = "Record" /\ value # <<>> THEN {<<tag, value>>} ELSE {})
    BY <1>2
  <2> QED
    BY <1>2, <2>1, <2>2
<1>3. CASE ~IsConstructed(tag) /\ value # <<>>
  <2>1. PICK s : s = With(into, tag, value, source)
    OBVIOUS
  <2>2. InsertPrimitive(into, tag, value, source) = Check(tag \notin DOMAIN into, Some(s))
    BY <1>3, <2>1 DEF InsertPrimitive, With
  <2>3. tag \notin DOMAIN into /\ InsertPrimitive(into, tag, value, source) = Some(s)
    BY <2>2 DEF Check
  <2>4. IsStore(s) /\ Kept(s) = Kept(into) \cup (IF source = "Record" THEN {<<tag, value>>} ELSE {})
    <3>1. AddsTo(s, into, tag, value, source)
      BY <2>1, <2>3, Added
    <3> QED
      BY <3>1 DEF AddsTo
  <2> QED
    BY <1>3, <2>1, <2>3, <2>4
<1> QED
  BY <1>1, <1>2, <1>3

InsertLeaf(held, leaf) == Then(held, LAMBDA s : InsertPrimitive(s, leaf.tag, leaf.value, "Record"))

\* What the leaves up to the n-th hold.
HeldBy(leaves, n) == {<<leaves[i].tag, leaves[i].value>> : i \in {j \in 1..n : leaves[j].value # <<>>}}

\* Elements are inserted one after the other, each into the store so far.
LEMMA LeavesRow ==
    ASSUME NEW into, IsStore(into), NEW leaves \in Seq(Leaf)
    PROVE  \E row : /\ row[0] = Some(into)
                    /\ \A n \in 1..Len(leaves) : row[n] = InsertLeaf(row[n - 1], leaves[n])
                    /\ InsertAll(into, leaves, "Record") = row[Len(leaves)]
<1> DEFINE last == Len(leaves)
           T == DOMAIN into \cup {leaves[i].tag : i \in 1..last}
           R == Range(into) \cup {[value |-> leaves[i].value, source |-> "Record"] : i \in 1..last}
           Stores == UNION {[D -> R] : D \in SUBSET T}
           V == {None} \cup {Some(s) : s \in Stores}
           G == [p \in (1..last) \X V |-> InsertLeaf(p[2], leaves[p[1]])]
           row == CHOOSE f : f = [n \in 0..last |->
                    IF n = 0 THEN Some(into) ELSE InsertLeaf(f[n - 1], leaves[n])]
<1>1. last \in Nat
  BY LenProperties
<1>2. into \in Stores
  <2>1. \A t \in DOMAIN into : into[t] \in R
    BY DEF Range
  <2>2. DOMAIN into \in SUBSET T
    OBVIOUS
  <2> HIDE DEF R, T
  <2>3. into \in [DOMAIN into -> R]
    BY <2>1 DEF IsStore
  <2> QED
    BY <2>2, <2>3
<1>3. ASSUME NEW n \in 1..last, NEW held \in V PROVE InsertLeaf(held, leaves[n]) \in V
  <2>1. CASE InsertLeaf(held, leaves[n]) = None
    BY <2>1
  <2>2. CASE InsertLeaf(held, leaves[n]) # None
    <3>1. held # None
      BY <2>2 DEF InsertLeaf, Then
    <3>2. PICK s \in Stores : held = Some(s)
      BY <3>1
    <3>3. PICK tag, value : tag = leaves[n].tag /\ value = leaves[n].value
      OBVIOUS
    <3>4. InsertLeaf(held, leaves[n]) = InsertPrimitive(s, tag, value, "Record")
      BY <3>1, <3>2, <3>3, OfSome DEF InsertLeaf, Then
    <3>5. PICK D \in SUBSET T : s \in [D -> R]
      BY <3>2
    <3>6. IsStore(s) /\ DOMAIN s = D
      BY <3>5 DEF IsStore
    <3>7. PICK after : /\ InsertPrimitive(s, tag, value, "Record") = Some(after) /\ IsStore(after)
                       /\ \/ value = <<>> /\ after = s
                          \/ /\ tag \notin DOMAIN s
                             /\ after = With(s, tag, value, "Record")
      BY <2>2, <3>4, <3>6, InsertOne
    <3>8. after \in Stores
      <4>1. CASE after = s
        BY <3>2, <4>1
      <4>2. CASE tag \notin DOMAIN s /\ after = With(s, tag, value, "Record")
        <5>1. PICK one : one = [value |-> value, source |-> "Record"]
          OBVIOUS
        <5>2. one \in R /\ tag \in T
          BY <3>3, <5>1
        <5>3. DOMAIN after = {tag} \cup D /\ after[tag] = one /\ \A t \in D : after[t] = s[t]
          <6>1. AddsTo(after, s, tag, value, "Record")
            BY <4>2, Added
          <6> QED
            BY <3>6, <5>1, <6>1 DEF AddsTo
        <5> HIDE DEF R, T
        <5>4. \A t \in {tag} \cup D : after[t] \in R
          BY <3>5, <5>2, <5>3
        <5>5. after \in [{tag} \cup D -> R]
          BY <3>7, <5>3, <5>4 DEF IsStore
        <5>6. {tag} \cup D \in SUBSET T
          BY <3>5, <5>2
        <5> QED
          BY <5>5, <5>6
      <4> QED
        BY <3>7, <4>1, <4>2
    <3> HIDE DEF Stores
    <3> QED
      BY <3>4, <3>7, <3>8
  <2> QED
    BY <2>1, <2>2
<1>4. Some(into) \in V
  <2> HIDE DEF Stores
  <2> QED
    BY <1>2
<1> HIDE DEF V
<1>5. G \in [(1..last) \X V -> V]
  <2>1. \A p \in (1..last) \X V : InsertLeaf(p[2], leaves[p[1]]) \in V
    BY <1>3
  <2> QED
    BY <2>1
<1>6. \A n \in 1..last : \A held \in V : G[<<n, held>>] = InsertLeaf(held, leaves[n])
  OBVIOUS
<1> HIDE DEF G
<1>7. PICK f \in [0..last -> V] : Goes(f, Some(into), last, G)
  <2>1. PICK base : base = Some(into)
    OBVIOUS
  <2> HIDE DEF last
  <2>2. \E f \in [0..last -> V] : Goes(f, base, last, G)
    BY <1>1, <1>4, <1>5, <2>1, RecursionUpTo
  <2> QED
    BY <2>1, <2>2
<1>8. \A n \in 1..last : n - 1 \in 0..last
  BY <1>1
<1>9. \A n \in 1..last : f[n] = InsertLeaf(f[n - 1], leaves[n])
  BY <1>6, <1>7, <1>8 DEF Goes
<1>10. \A n \in 0..last : f[n] = (IF n = 0 THEN Some(into) ELSE InsertLeaf(f[n - 1], leaves[n]))
  <2>1. \A n \in 0..last : n = 0 \/ n \in 1..last
    BY <1>1
  <2> QED
    BY <1>7, <1>9, <2>1 DEF Goes
<1>11. f = [n \in 0..last |-> IF n = 0 THEN Some(into) ELSE InsertLeaf(f[n - 1], leaves[n])]
  BY <1>10
<1>12. row = [n \in 0..last |-> IF n = 0 THEN Some(into) ELSE InsertLeaf(row[n - 1], leaves[n])]
  BY <1>11
<1>13. InsertAll(into, leaves, "Record") = row[last]
  BY DEF InsertAll, InsertLeaf
<1> HIDE DEF row
<1>14. row[0] = Some(into)
  <2>1. 0 \in 0..last
    BY <1>1
  <2> QED
    BY <1>12, <2>1
<1>15. \A n \in 1..last : row[n] = InsertLeaf(row[n - 1], leaves[n])
  <2>1. \A n \in 1..last : n \in 0..last /\ n # 0
    BY <1>1
  <2> QED
    BY <1>12, <2>1
<1> QED
  BY <1>13, <1>14, <1>15

\* Inserting elements adds those that are not empty, and loses nothing.
LEMMA InsertsLeaves ==
    ASSUME NEW into, IsStore(into), NEW leaves \in Seq(Leaf), InsertAll(into, leaves, "Record") # None
    PROVE  \E s : /\ InsertAll(into, leaves, "Record") = Some(s) /\ IsStore(s)
                  /\ Kept(s) = Kept(into) \cup HeldBy(leaves, Len(leaves))
<1>1. PICK last \in Nat : last = Len(leaves)
  BY LenProperties
<1>2. PICK row : /\ row[0] = Some(into)
                 /\ \A n \in 1..last : row[n] = InsertLeaf(row[n - 1], leaves[n])
                 /\ InsertAll(into, leaves, "Record") = row[last]
  BY <1>1, LeavesRow
<1> DEFINE Good(n) == row[n] = None \/ \E s : /\ row[n] = Some(s) /\ IsStore(s)
                                              /\ Kept(s) = Kept(into) \cup HeldBy(leaves, n)
           S == {n \in Nat : n <= last => Good(n)}
<1>3. 0 \in S
  <2>1. HeldBy(leaves, 0) = {}
    BY DEF HeldBy
  <2>2. Kept(into) = Kept(into) \cup HeldBy(leaves, 0)
    BY <2>1
  <2> QED
    BY <1>2, <2>2
<1>4. ASSUME NEW n \in Nat, n \in S PROVE n + 1 \in S
  <2> SUFFICES ASSUME n + 1 <= last PROVE Good(n + 1)
    OBVIOUS
  <2>1. n <= last /\ n + 1 \in 1..last /\ (n + 1) - 1 = n
    BY <1>1
  <2>2. Good(n)
    BY <1>4, <2>1
  <2>3. row[n + 1] = InsertLeaf(row[n], leaves[n + 1])
    BY <1>2, <2>1
  <2>4. CASE row[n + 1] = None
    BY <2>4
  <2>5. CASE row[n + 1] # None
    <3>1. row[n] # None
      BY <2>3, <2>5 DEF InsertLeaf, Then
    <3>2. PICK s : row[n] = Some(s) /\ IsStore(s) /\ Kept(s) = Kept(into) \cup HeldBy(leaves, n)
      BY <2>2, <3>1
    <3>3. PICK tag, value : tag = leaves[n + 1].tag /\ value = leaves[n + 1].value
      OBVIOUS
    <3>4. row[n + 1] = InsertPrimitive(s, tag, value, "Record")
      BY <2>3, <3>1, <3>2, <3>3, OfSome DEF InsertLeaf, Then
    <3>5. PICK after : /\ row[n + 1] = Some(after) /\ IsStore(after)
                       /\ Kept(after) = Kept(s) \cup
                               (IF "Record" = "Record" /\ value # <<>> THEN {<<tag, value>>} ELSE {})
      BY <2>5, <3>2, <3>4, InsertOne
    <3>6. HeldBy(leaves, n + 1) = HeldBy(leaves, n) \cup (IF value # <<>> THEN {<<tag, value>>} ELSE {})
      <4>1. 1..(n + 1) = (1..n) \cup {n + 1}
        OBVIOUS
      <4> QED
        BY <3>3, <4>1, Zenon DEF HeldBy
    <3>7. Kept(after) = Kept(into) \cup HeldBy(leaves, n + 1)
      BY <3>2, <3>5, <3>6
    <3> QED
      BY <3>5, <3>7
  <2> QED
    BY <2>4, <2>5
<1>5. Nat \subseteq S
  <2> HIDE DEF S
  <2> QED
    BY <1>3, <1>4, EveryNumber
<1>6. Good(last)
  BY <1>5
<1> QED
  BY <1>1, <1>2, <1>6
-----------------------------------------------------------------------------
(* The inductive invariant, and the commands it speaks of.                  *)

\* Where the application's records were asked for, in the commands s.
AskedIn(s) ==
    Joined([i \in DOMAIN s |->
              IF s[i].ins = \hB2 /\ \E k \in 1..i : s[k].ins = \hA8
              THEN <<RecordOf(s[i])>> ELSE <<>>])
OptionsAsked(s) == \E k \in DOMAIN s : s[k].ins = \hA8

\* What the first n records of the card c's locator hold, what of them is
\* signed, and whether one of those could not be used.
Sent(c, n) == {e \in UNION {Elements(c, c.afl[i].record) : i \in 1..n} : e[2] # <<>>}
Part(c, step) == Contribution(c, step, RecordEnd(c, step.record))
Parts(c, n) == Joined([i \in 1..n |-> Part(c, c.afl[i])])
OddOne(c, n) == \E i \in 1..n : c.afl[i].signed /\ ~c.records[c.afl[i].record].seventy

Early == stage \in {"Pse", "Directory", "Aids", "Select", "Options"}
Ended == stage \in {"Failed", "Eliminated"}

GivenOk == card \in Cards /\ terminal \in Terminals /\ inputs \in Inputs
ShapesOk ==
    /\ Early \/ Ended \/ Walked \/ stage = "Read"
    /\ candidates \in Seq(Seq(Byte)) /\ (stage = "Select" => candidates # <<>>)
    /\ IsString(pdol_data) /\ IsString(seen) /\ IsStore(store)
InOrder ==
    /\ Len(RecordsAsked) <= Len(card.afl)
    /\ \A i \in 1..Len(RecordsAsked) : RecordsAsked[i] = card.afl[i].record
    /\ Early => /\ ~OptionsAsked(seen) /\ RecordsAsked = <<>>
                /\ oda_input = <<>> /\ not_seventy = FALSE
    /\ ~Early /\ ~Ended => OptionsAsked(seen)
    /\ Walked => Len(RecordsAsked) = Len(card.afl)
WalkOk ==
    stage = "Read" =>
      /\ walk \in Seq(Read) /\ Len(walk) = Len(card.afl) - Len(RecordsAsked)
      /\ \A i \in 1..Len(walk) :
           card.afl[Len(RecordsAsked) + i]
             = [record |-> <<walk[i].sfi, walk[i].record_number>>, signed |-> walk[i].in_oda]
StoreOk == stage # "Failed" => Kept(store) = Sent(card, Len(RecordsAsked))
SignedOk ==
    stage = "Read" \/ Walked =>
      oda_input = Parts(card, Len(RecordsAsked)) /\ not_seventy = OddOne(card, Len(RecordsAsked))
IInv == GivenOk /\ ShapesOk /\ InOrder /\ WalkOk /\ StoreOk /\ SignedOk

\* The place the i-th command asks for, if it is one for a record.
AskedStep(s, i) ==
    IF s[i].ins = \hB2 /\ \E k \in 1..i : s[k].ins = \hA8
    THEN <<RecordOf(s[i])>> ELSE <<>>

\* The places that were asked for are a sequence.
LEMMA AskedType ==
    ASSUME NEW s, IsString(s)
    PROVE  \E W : /\ [i \in DOMAIN s |-> AskedStep(s, i)] \in Seq(Seq(W))
                  /\ AskedIn(s) = Joined([i \in DOMAIN s |-> AskedStep(s, i)])
                  /\ AskedIn(s) \in Seq(W)
<1>1. PICK n \in Nat : n = Len(s) /\ DOMAIN s = 1..n
  BY LenProperties DEF IsString
<1>2. PICK W : W = {RecordOf(s[i]) : i \in 1..n}
  OBVIOUS
<1>3. \A i \in 1..n : AskedStep(s, i) \in Seq(W)
  <2> SUFFICES ASSUME NEW i \in 1..n PROVE AskedStep(s, i) \in Seq(W)
    OBVIOUS
  <2>1. PICK at : at = RecordOf(s[i])
    OBVIOUS
  <2>2. at \in W
    BY <1>2, <2>1
  <2>3. <<at>> \in Seq(W) /\ <<>> \in Seq(W)
    BY <2>2
  <2> QED
    BY <2>1, <2>3 DEF AskedStep
<1>4. PICK strings : strings = [i \in DOMAIN s |-> AskedStep(s, i)]
  OBVIOUS
<1>5. strings \in [1..n -> Seq(W)]
  BY <1>1, <1>3, <1>4
<1>6. strings \in Seq(Seq(W))
  BY <1>5
<1>7. AskedIn(s) = Joined(strings)
  BY <1>4 DEF AskedIn, AskedStep
<1>8. Joined(strings) \in Seq(W)
  BY <1>6, JoinedType
<1> QED
  BY <1>4, <1>6, <1>7, <1>8

\* What one more command adds to the places that were asked for.
LEMMA AskedAppend ==
    ASSUME NEW s, IsString(s), NEW r
    PROVE  /\ IsString(Append(s, r))
           /\ OptionsAsked(Append(s, r)) = (OptionsAsked(s) \/ r.ins = \hA8)
           /\ ~(OptionsAsked(s) /\ r.ins = \hB2) => AskedIn(Append(s, r)) = AskedIn(s)
           /\ (OptionsAsked(s) /\ r.ins = \hB2) =>
                AskedIn(Append(s, r)) = Append(AskedIn(s), RecordOf(r))
<1>1. PICK S, all : S = Range(s) \cup {r} /\ all = Append(s, r)
  OBVIOUS
<1>2. s \in Seq(S) /\ r \in S
  <2>1. PICK R : R = Range(s)
    OBVIOUS
  <2>2. s \in Seq(R) /\ R \subseteq S /\ r \in S
    BY <1>1, <2>1 DEF IsString
  <2> QED
    BY <2>2, SeqMonotonic
<1>3. PICK n \in Nat : n = Len(s) /\ DOMAIN s = 1..n
  BY <1>2, LenProperties
<1>4. /\ all \in Seq(S) /\ DOMAIN all = 1..(n + 1)
      /\ (\A i \in 1..n : all[i] = s[i]) /\ all[n + 1] = r
  BY <1>1, <1>2, <1>3, AppendProperties
<1>5. IsString(all)
  BY <1>4, IsStringAnyhow
<1>6. \A i \in 1..(n + 1) : i \in 1..n \/ i = n + 1
  OBVIOUS
<1>7. OptionsAsked(all) = (OptionsAsked(s) \/ r.ins = \hA8)
  <2>1. OptionsAsked(s) => OptionsAsked(all)
    BY <1>3, <1>4 DEF OptionsAsked
  <2>2. r.ins = \hA8 => OptionsAsked(all)
    BY <1>4 DEF OptionsAsked
  <2>3. OptionsAsked(all) => OptionsAsked(s) \/ r.ins = \hA8
    BY <1>3, <1>4, <1>6 DEF OptionsAsked
  <2>4. OptionsAsked(all) \in BOOLEAN /\ OptionsAsked(s) \in BOOLEAN /\ (r.ins = \hA8) \in BOOLEAN
    BY DEF OptionsAsked
  <2> QED
    BY <2>1, <2>2, <2>3, <2>4
<1>8. PICK W : /\ [i \in DOMAIN all |-> AskedStep(all, i)] \in Seq(Seq(W))
               /\ AskedIn(all) = Joined([i \in DOMAIN all |-> AskedStep(all, i)])
  BY <1>5, AskedType
<1>9. PICK whole \in Seq(Seq(W)) : whole = [i \in DOMAIN all |-> AskedStep(all, i)]
  BY <1>8
<1>10. PICK part : part = [i \in DOMAIN s |-> AskedStep(s, i)]
  OBVIOUS
<1>11. \A i \in 1..n : AskedStep(all, i) = AskedStep(s, i)
  <2> SUFFICES ASSUME NEW i \in 1..n PROVE AskedStep(all, i) = AskedStep(s, i)
    OBVIOUS
  <2>1. \A k \in 1..i : all[k] = s[k]
    BY <1>4
  <2>2. all[i] = s[i]
    BY <1>4
  <2>3. (\E k \in 1..i : all[k].ins = \hA8) <=> (\E k \in 1..i : s[k].ins = \hA8)
    BY <2>1
  <2>4. CASE \E k \in 1..i : s[k].ins = \hA8
    <3>1. \E k \in 1..i : all[k].ins = \hA8
      BY <2>3, <2>4
    <3> QED
      BY <2>2, <2>4, <3>1 DEF AskedStep
  <2>5. CASE ~\E k \in 1..i : s[k].ins = \hA8
    <3>1. ~\E k \in 1..i : all[k].ins = \hA8
      BY <2>3, <2>5
    <3> QED
      BY <2>2, <2>5, <3>1 DEF AskedStep
  <2> QED
    BY <2>4, <2>5
<1>12. PICK last : last = AskedStep(all, n + 1)
  OBVIOUS
<1>13. whole[n + 1] = last /\ (\A i \in 1..n : whole[i] = AskedStep(s, i)) /\ DOMAIN whole = 1..(n + 1)
  BY <1>4, <1>9, <1>11, <1>12
<1>13a. Len(whole) = n + 1
  BY <1>13, LenProperties
<1>14. last \in Seq(W) /\ \A i \in 1..n : AskedStep(s, i) \in Seq(W)
  <2>1. \A i \in 1..(n + 1) : whole[i] \in Seq(W)
    BY <1>13a, ElementOfSeq
  <2> QED
    BY <1>13, <2>1
<1>15. part \in Seq(Seq(W)) /\ Len(part) = n
  <2>1. part \in [1..n -> Seq(W)]
    BY <1>3, <1>10, <1>14
  <2> QED
    BY <2>1
<1>16. whole = Append(part, last)
  <2>1. PICK V : V = Seq(W)
    OBVIOUS
  <2>2. part \in Seq(V) /\ last \in V /\ whole \in Seq(V)
    BY <1>14, <1>15, <2>1
  <2>3. PICK other : other = Append(part, last)
    OBVIOUS
  <2>4. other \in Seq(V) /\ Len(other) = n + 1 /\ other[n + 1] = last /\ \A i \in 1..n : other[i] = part[i]
    BY <1>15, <2>2, <2>3, AppendProperties
  <2>5. \A i \in 1..(n + 1) : other[i] = whole[i]
    BY <1>3, <1>6, <1>10, <1>13, <2>4
  <2>6. other = whole
    BY <1>13a, <2>2, <2>4, <2>5, SeqEqual
  <2> QED
    BY <2>3, <2>6
<1>17. AskedIn(all) = Joined(part) \o last
  BY <1>8, <1>9, <1>14, <1>15, <1>16, JoinedAppend
<1>18. Joined(part) = AskedIn(s) /\ Joined(part) \in Seq(W)
  BY <1>10, <1>15, JoinedType DEF AskedIn, AskedStep
<1>19. CASE OptionsAsked(s) /\ r.ins = \hB2
  <2>1. \E k \in 1..(n + 1) : all[k].ins = \hA8
    BY <1>3, <1>4, <1>19 DEF OptionsAsked
  <2>2. last = <<RecordOf(r)>>
    BY <1>4, <1>12, <1>19, <2>1 DEF AskedStep
  <2>3. PICK one : one = RecordOf(r)
    OBVIOUS
  <2>4. last = <<one>>
    BY <2>2, <2>3
  <2>5. one \in W
    BY <1>14, <2>4
  <2>6. Joined(part) \o <<one>> = Append(Joined(part), one)
    BY <1>18, <2>5, AppendIsConcat
  <2> QED
    BY <1>1, <1>5, <1>7, <1>17, <1>18, <1>19, <2>3, <2>4, <2>6
<1>20. CASE ~(OptionsAsked(s) /\ r.ins = \hB2)
  <2>1. last = <<>>
    <3>1. CASE r.ins = \hB2
      <4>1. \A k \in 1..(n + 1) : all[k].ins # \hA8
        BY <1>3, <1>4, <1>6, <1>20, <3>1 DEF OptionsAsked
      <4> QED
        BY <1>12, <4>1 DEF AskedStep
    <3>2. CASE r.ins # \hB2
      BY <1>4, <1>12, <3>2 DEF AskedStep
    <3> QED
      BY <3>1, <3>2
  <2>2. Joined(part) \o <<>> = Joined(part)
    BY <1>18, ConcatEmptySeq
  <2> QED
    BY <1>1, <1>5, <1>7, <1>17, <1>18, <1>20, <2>1, <2>2
<1> QED
  BY <1>19, <1>20
-----------------------------------------------------------------------------
(* What the description of a card says of its records and its locator.      *)

StepFor(read) == [record |-> <<read.sfi, read.record_number>>, signed |-> read.in_oda]

\* A card's answer to GET PROCESSING OPTIONS lists what its description does.
LEMMA OptionsOfCard ==
    ASSUME NEW c \in Cards
    PROVE  \E reads \in Seq(Read) : \E o :
             /\ c.options \in Seq(Byte) /\ c.afl \in Seq(Step)
             /\ ProcessingOptionsResponse(c.options) = Some(o) /\ o.afl # None
             /\ iter_reads(Unwrap(o.afl)) = reads
             /\ Len(reads) = Len(c.afl)
             /\ \A i \in 1..Len(reads) : c.afl[i] = StepFor(reads[i])
<1>1. OptionsAreAsDescribed(c)
  BY CardsAssumption
<1>2. c.afl = Listed(c.locator)
  BY <1>1 DEF OptionsAreAsDescribed
<1>3. PICK locator, entries, o :
        /\ locator = c.locator /\ entries = EntriesOf(locator)
        /\ locator \in Seq(Entry4) /\ \A i \in DOMAIN locator : IsLocator(locator[i])
        /\ c.options \in Seq(Byte)
        /\ ProcessingOptionsResponse(c.options) = Some(o) /\ o.afl = Some(entries)
  BY <1>1, OptionsAreRead
<1>4. PICK reads \in Seq(Read) : reads = iter_reads(entries) /\ Listed(locator) = Mapped(reads, AsStep)
  BY <1>3, WalkIsListed
<1>5. PICK n \in Nat : n = Len(reads) /\ DOMAIN reads = 1..n
  BY LenProperties
<1>6. \A i \in 1..n : reads[i] \in Read
  BY <1>5, ElementOfSeq
<1>7. PICK afl : afl = c.afl
  OBVIOUS
<1>8. afl = [i \in 1..n |-> AsStep[reads[i]]]
  BY <1>2, <1>3, <1>4, <1>5, <1>7 DEF Mapped
<1>9. \A i \in 1..n : afl[i] = StepFor(reads[i]) /\ afl[i] \in Step
  <2> SUFFICES ASSUME NEW i \in 1..n PROVE afl[i] = StepFor(reads[i]) /\ afl[i] \in Step
    OBVIOUS
  <2>1. afl[i] = AsStep[reads[i]] /\ reads[i] \in Read
    BY <1>6, <1>8
  <2>2. AsStep[reads[i]] \in Step /\ AsStep[reads[i]] = StepFor(reads[i])
    BY <2>1, AsStepType DEF StepFor
  <2> QED
    BY <2>1, <2>2
<1>10. afl \in Seq(Step) /\ Len(afl) = n
  <2>1. afl \in [1..n -> Step]
    BY <1>8, <1>9
  <2> QED
    BY <2>1
<1>11. o.afl # None /\ Unwrap(o.afl) = entries
  BY <1>3, OfSome
<1> QED
  BY <1>3, <1>4, <1>5, <1>7, <1>9, <1>10, <1>11

\* The record of every step of the locator is described.
LEMMA RecordOfCard ==
    ASSUME NEW c \in Cards, NEW i \in 1..Len(c.afl)
    PROVE  \E r : /\ c.afl[i] \in Step /\ c.afl[i].record \in DOMAIN c.records
                  /\ r = c.records[c.afl[i].record]
                  /\ RecordIsAsDescribed(r, c.afl[i].record[1])
                  /\ r.bytes \in Seq(Byte) /\ r.seventy \in BOOLEAN
                  /\ r.seventy => /\ r.elements \in Seq(Seq(Byte) \X Seq(Byte))
                                  /\ r.value \in Seq(Byte)
<1>1. PICK afl : afl = c.afl
  OBVIOUS
<1>2. afl \in Seq(Step)
  BY <1>1, OptionsOfCard
<1>3. afl[i] \in Step /\ i \in DOMAIN afl
  BY <1>1, <1>2, ElementOfSeq, LenProperties
<1>4. PICK at : at = afl[i].record
  OBVIOUS
<1>5. at \in DOMAIN c.records
  BY <1>1, <1>3, <1>4, CardsAssumption
<1>6. PICK r : r = c.records[at]
  OBVIOUS
<1>7. RecordIsAsDescribed(r, at[1])
  BY <1>5, <1>6, CardsAssumption
<1>8. r.bytes \in Seq(Byte) /\ r.seventy \in BOOLEAN
  BY <1>7 DEF RecordIsAsDescribed
<1>9. ASSUME r.seventy
      PROVE  r.elements \in Seq(Seq(Byte) \X Seq(Byte)) /\ r.value \in Seq(Byte)
  <2>1. PICK objects, elements, value : objects = r.objects /\ elements = r.elements /\ value = r.value
    OBVIOUS
  <2>2. IsTemplate(r.bytes, <<\h70>>, objects, elements)
    BY <1>7, <1>9, <2>1 DEF RecordIsAsDescribed
  <2>3. objects \in Seq(Seq(Byte)) /\ elements \in Seq(Seq(Byte) \X Seq(Byte))
    BY <2>2 DEF IsTemplate
  <2>4. Joined(objects) \in Seq(Byte)
    BY <2>3, JoinedType
  <2>5. value = Joined(objects) \/ value = r.bytes
    BY <1>7, <1>9, <2>1 DEF RecordIsAsDescribed
  <2> QED
    BY <1>8, <2>1, <2>3, <2>4, <2>5
<1> QED
  BY <1>1, <1>3, <1>4, <1>5, <1>6, <1>7, <1>8, <1>9

\* What is signed of a step is bytes.
LEMMA PartType ==
    ASSUME NEW c \in Cards, NEW i \in 1..Len(c.afl)
    PROVE  Part(c, c.afl[i]) \in Seq(Byte)
<1>1. PICK r, at : /\ at = c.afl[i].record /\ r = c.records[at] /\ RecordIsAsDescribed(r, at[1])
  BY RecordOfCard
<1>2. ASSUME r.seventy PROVE RecordEnd(c, at) \in Seq(Byte)
  <2>1. PICK sfi : sfi = at[1]
    OBVIOUS
  <2>2. (IF sfi <= 10 THEN Ending(r.value, Len(Rewritten(r.elements))) ELSE r.value) \in Seq(Byte)
    BY <1>1, <1>2, <2>1, SignedPart
  <2> QED
    BY <1>1, <2>1, <2>2 DEF RecordEnd
<1> QED
  BY <1>1, <1>2, EmptySeq DEF Part, Contribution

\* Of no record, nothing.
LEMMA NoParts ==
    ASSUME NEW c
    PROVE  Parts(c, 0) = <<>> /\ Sent(c, 0) = {} /\ OddOne(c, 0) = FALSE
<1>1. [i \in 1..0 |-> Part(c, c.afl[i])] = <<>>
  OBVIOUS
<1> QED
  BY <1>1, JoinedNone DEF Parts, Sent, OddOne

\* What one more record adds to what was sent and what was signed.
LEMMA OneMorePart ==
    ASSUME NEW c \in Cards, NEW n \in Nat, n + 1 \in 1..Len(c.afl)
    PROVE  /\ Parts(c, n) \in Seq(Byte)
           /\ Parts(c, n + 1) = Parts(c, n) \o Part(c, c.afl[n + 1])
           /\ Sent(c, n + 1) = Sent(c, n) \cup
                {e \in Elements(c, c.afl[n + 1].record) : e[2] # <<>>}
           /\ OddOne(c, n + 1) = (OddOne(c, n) \/ (/\ c.afl[n + 1].signed
                                                   /\ ~c.records[c.afl[n + 1].record].seventy))
<1>1. PICK m \in Nat : m = Len(c.afl)
  <2>1. c.afl \in Seq(Step)
    BY OptionsOfCard
  <2> QED
    BY <2>1, LenProperties
<1>2. n + 1 <= m /\ \A i \in 1..(n + 1) : i \in 1..Len(c.afl)
  BY <1>1
<1>3. 1..(n + 1) = (1..n) \cup {n + 1}
  OBVIOUS
<1> DEFINE before == [i \in 1..n |-> Part(c, c.afl[i])]
           after == [i \in 1..(n + 1) |-> Part(c, c.afl[i])]
<1>4. \A i \in 1..(n + 1) : Part(c, c.afl[i]) \in Seq(Byte)
  BY <1>2, PartType
<1>5. before \in [1..n -> Seq(Byte)]
  BY <1>4
<1>6. after \in [1..(n + 1) -> Seq(Byte)]
  BY <1>4
<1>7. PICK front, whole, last : front = before /\ whole = after /\ last = Part(c, c.afl[n + 1])
  OBVIOUS
<1>8. front \in Seq(Seq(Byte)) /\ Len(front) = n /\ whole \in Seq(Seq(Byte)) /\ Len(whole) = n + 1
  <2>1. PICK V : V = Seq(Byte)
    OBVIOUS
  <2>2. front \in [1..n -> V]
    BY <1>5, <1>7, <2>1, Zenon
  <2>3. whole \in [1..(n + 1) -> V]
    BY <1>6, <1>7, <2>1, Zenon
  <2>4. front \in Seq(V) /\ Len(front) = n
    BY <2>2
  <2>5. n + 1 \in Nat
    OBVIOUS
  <2>6. whole \in Seq(V) /\ Len(whole) = n + 1
    BY <2>3, <2>5
  <2> QED
    BY <2>1, <2>4, <2>6, Zenon
<1>9. last \in Seq(Byte)
  BY <1>4, <1>7
<1>10. whole[n + 1] = last /\ \A i \in 1..n : whole[i] = front[i]
  BY <1>7
<1>11. whole = Append(front, last)
  <2>1. PICK V : V = Seq(Byte)
    OBVIOUS
  <2>2. front \in Seq(V) /\ last \in V /\ whole \in Seq(V)
    BY <1>8, <1>9, <2>1
  <2>3. PICK other : other = Append(front, last)
    OBVIOUS
  <2>4. other \in Seq(V) /\ Len(other) = n + 1 /\ other[n + 1] = last /\ \A i \in 1..n : other[i] = front[i]
    BY <1>8, <2>2, <2>3, AppendProperties
  <2>5. \A i \in 1..(n + 1) : other[i] = whole[i]
    BY <1>3, <1>10, <2>4
  <2>6. other = whole
    BY <1>8, <2>2, <2>4, <2>5, SeqEqual
  <2> QED
    BY <2>3, <2>6
<1>12. Joined(whole) = Joined(front) \o last /\ Joined(front) \in Seq(Byte)
  BY <1>8, <1>9, <1>11, JoinedAppend, JoinedType
<1>13. Parts(c, n) = Joined(front) /\ Parts(c, n + 1) = Joined(whole)
  BY <1>7 DEF Parts
<1>14. Sent(c, n + 1) = Sent(c, n) \cup {e \in Elements(c, c.afl[n + 1].record) : e[2] # <<>>}
  BY <1>3, Zenon DEF Sent
<1>15. OddOne(c, n + 1) <=> (OddOne(c, n) \/ (/\ c.afl[n + 1].signed
                                              /\ ~c.records[c.afl[n + 1].record].seventy))
  BY <1>3 DEF OddOne
<1>16. OddOne(c, n + 1) \in BOOLEAN /\ OddOne(c, n) \in BOOLEAN
  BY DEF OddOne
<1>17. c.afl[n + 1].signed \in BOOLEAN
  BY RecordOfCard DEF Step
<1> QED
  BY <1>7, <1>12, <1>13, <1>14, <1>15, <1>16, <1>17
-----------------------------------------------------------------------------
(* Steps that ask for no record of the application.                         *)

\* A command that was not understood on its way, or one with this header.
Asks(ins, p1, p2, response) ==
    \/ seen' = seen /\ response = Lost
    \/ \E r : /\ r.ins = ins /\ r.p1 = p1 /\ r.p2 = p2
              /\ seen' = Append(seen, r)
              /\ \E bytes \in {Answer(r)} \cup Refusals : response = Reply(bytes)

\* A command either does not reach the card or is read with its header.
LEMMA CommandSent ==
    ASSUME NEW cla, NEW ins, NEW p1, NEW p2, NEW data, IsString(data), NEW le,
           NEW command, command \in {None, Some(Command(cla, ins, p1, p2, data, le))},
           Send(command), NEW response \in Responses(command)
    PROVE  Asks(ins, p1, p2, response)
<1>1. CASE ReadBack(command) = None
  <2>1. response = Lost /\ seen' = seen
    BY <1>1 DEF Responses, Send
  <2> QED
    BY <2>1 DEF Asks
<1>2. CASE ReadBack(command) # None
  <2>1. command = Some(Command(cla, ins, p1, p2, data, le))
    BY <1>2, NoCommand
  <2>2. PICK r : ReadBack(command) = Some(r) /\ r.ins = ins /\ r.p1 = p1 /\ r.p2 = p2
    BY <1>2, <2>1, HeaderReaches
  <2>3. Unwrap(ReadBack(command)) = r
    BY <2>2, OfSome
  <2>4. seen' = Append(seen, r)
    BY <1>2, <2>3 DEF Send
  <2>5. response \in {Reply(bytes) : bytes \in {Answer(r)} \cup Refusals}
    BY <1>2, <2>3 DEF Responses
  <2> QED
    BY <2>2, <2>4, <2>5 DEF Asks
<1> QED
  BY <1>1, <1>2

\* What a command other than the application's READ RECORDs leaves alone.
Quiet == /\ IsString(seen') /\ AskedIn(seen') = AskedIn(seen)
         /\ OptionsAsked(seen') = OptionsAsked(seen)

\* A command that is no READ RECORD of the application asks for no record...
LEMMA QuietCommand ==
    ASSUME IsString(seen), NEW ins, NEW p1, NEW p2, NEW response, Asks(ins, p1, p2, response),
           ins # \hA8, ins # \hB2 \/ ~OptionsAsked(seen)
    PROVE  Quiet
<1>1. CASE seen' = seen
  BY <1>1 DEF Quiet
<1>2. CASE seen' # seen
  <2>1. PICK r : r.ins = ins /\ seen' = Append(seen, r)
    BY <1>2 DEF Asks
  <2>2. OptionsAsked(seen) \in BOOLEAN
    BY DEF OptionsAsked
  <2>3. IsString(Append(seen, r))
    BY AskedAppend
  <2>4. AskedIn(Append(seen, r)) = AskedIn(seen)
    BY <2>1, AskedAppend
  <2>5. OptionsAsked(Append(seen, r)) = OptionsAsked(seen)
    BY <2>1, <2>2, AskedAppend
  <2> QED
    BY <2>1, <2>3, <2>4, <2>5 DEF Quiet
<1> QED
  BY <1>1, <1>2

\* ... and neither does none.
LEMMA NothingIsQuiet ==
    ASSUME IsString(seen), UNCHANGED seen
    PROVE  Quiet
BY DEF Quiet

\* The properties of the stages before the options are known...
LEMMA EarlyStep ==
    ASSUME IInv, Early, Quiet,
           UNCHANGED <<card, terminal, inputs, oda_input, not_seventy, store>>,
           Early' \/ Ended', candidates' \in Seq(Seq(Byte)), stage' = "Select" => candidates' # <<>>,
           IsString(pdol_data')
    PROVE  IInv'
<1> USE DEF IInv
<1>1. GivenOk'
  BY DEF GivenOk
<1>2. IsString(seen') /\ IsStore(store')
  BY DEF Quiet, ShapesOk
<1>3. ShapesOk'
  BY <1>2 DEF ShapesOk
<1>4. AskedIn(seen') = AskedIn(seen) /\ OptionsAsked(seen') = OptionsAsked(seen)
  BY DEF Quiet
<1>5. RecordsAsked = AskedIn(seen) /\ RecordsAsked' = AskedIn(seen')
  BY DEF RecordsAsked, AskedIn
<1>6. ~OptionsAsked(seen) /\ RecordsAsked = <<>> /\ oda_input = <<>> /\ not_seventy = FALSE
  BY DEF InOrder
<1>7. ~Walked' /\ stage' # "Read"
  BY DEF Early, Ended, Walked
<1>8. InOrder'
  <2>1. Len(RecordsAsked') <= Len(card'.afl)
        /\ \A i \in 1..Len(RecordsAsked') : RecordsAsked'[i] = card'.afl[i].record
    BY <1>4, <1>5 DEF InOrder
  <2>2. ~OptionsAsked(seen') /\ RecordsAsked' = <<>>
    BY <1>4, <1>5, <1>6
  <2> QED
    BY <1>6, <1>7, <2>1, <2>2 DEF InOrder
<1>9. WalkOk' /\ SignedOk'
  BY <1>7 DEF WalkOk, SignedOk
<1>10. StoreOk'
  <2>1. stage # "Failed"
    BY DEF Early
  <2>2. Kept(store) = Sent(card, Len(RecordsAsked))
    BY <2>1 DEF StoreOk
  <2>3. Kept(store') = Sent(card', Len(RecordsAsked'))
    BY <1>4, <1>5, <2>2
  <2> QED
    BY <2>3 DEF StoreOk
<1> QED
  BY <1>1, <1>3, <1>8, <1>9, <1>10

\* ... and of those after the last record.
LEMMA LateStep ==
    ASSUME IInv, Walked \/ (stage = "Read" /\ walk = <<>>), Quiet,
           UNCHANGED <<card, terminal, inputs, oda_input, not_seventy, candidates, pdol_data>>,
           Walked' \/ stage' = "Failed", IsStore(store'),
           stage' # "Failed" => Kept(store') = Kept(store)
    PROVE  IInv'
<1> USE DEF IInv
<1>1. GivenOk'
  BY DEF GivenOk
<1>2. IsString(seen')
  BY DEF Quiet
<1>3. stage' # "Read" /\ stage' # "Select" /\ ~Early'
  BY DEF Early, Walked
<1>3a. ShapesOk'
  <2>1. Early' \/ Ended' \/ Walked' \/ stage' = "Read"
    BY DEF Ended
  <2>2. candidates' \in Seq(Seq(Byte)) /\ IsString(pdol_data')
    BY DEF ShapesOk
  <2> QED
    BY <1>2, <1>3, <2>1, <2>2 DEF ShapesOk
<1>4. AskedIn(seen') = AskedIn(seen) /\ OptionsAsked(seen') = OptionsAsked(seen)
  BY DEF Quiet
<1>5. RecordsAsked = AskedIn(seen) /\ RecordsAsked' = AskedIn(seen')
  BY DEF RecordsAsked, AskedIn
<1>6. stage # "Failed" /\ ~Early /\ ~Ended
  BY DEF Early, Ended, Walked
<1>7. Len(RecordsAsked) = Len(card.afl)
  <2>1. CASE Walked
    BY <2>1 DEF InOrder
  <2>2. CASE stage = "Read" /\ walk = <<>>
    <3>1. Len(walk) = Len(card.afl) - Len(RecordsAsked) /\ Len(walk) = 0
      BY <2>2 DEF WalkOk
    <3>2. PICK n \in Nat : n = Len(card.afl)
      <4>1. card.afl \in Seq(Step)
        BY OptionsOfCard DEF GivenOk
      <4> QED
        BY <4>1, LenProperties
    <3>3. PICK m \in Nat : m = Len(RecordsAsked)
      <4>1. PICK W : AskedIn(seen) \in Seq(W)
        BY AskedType DEF ShapesOk
      <4> QED
        BY <1>5, <4>1, LenProperties
    <3> QED
      BY <3>1, <3>2, <3>3
  <2> QED
    BY <2>1, <2>2
<1>8. InOrder'
  <2>1. Len(RecordsAsked') <= Len(card'.afl)
        /\ \A i \in 1..Len(RecordsAsked') : RecordsAsked'[i] = card'.afl[i].record
    BY <1>4, <1>5 DEF InOrder
  <2>2. OptionsAsked(seen')
    BY <1>4, <1>6 DEF InOrder
  <2>3. Len(RecordsAsked') = Len(card'.afl)
    BY <1>4, <1>5, <1>7
  <2> QED
    BY <1>3, <2>1, <2>2, <2>3 DEF InOrder
<1>9. WalkOk'
  BY <1>3 DEF WalkOk
<1>10. SignedOk'
  <2>1. oda_input = Parts(card, Len(RecordsAsked)) /\ not_seventy = OddOne(card, Len(RecordsAsked))
    BY DEF SignedOk
  <2> QED
    BY <1>4, <1>5, <2>1 DEF SignedOk
<1>11. StoreOk'
  <2> SUFFICES ASSUME stage' # "Failed" PROVE Kept(store') = Sent(card', Len(RecordsAsked'))
    BY DEF StoreOk
  <2>1. Kept(store) = Sent(card, Len(RecordsAsked))
    BY <1>6 DEF StoreOk
  <2> QED
    BY <1>4, <1>5, <2>1
<1> QED
  BY <1>1, <1>3a, <1>8, <1>9, <1>10, <1>11
-----------------------------------------------------------------------------
(* Selection.                                                               *)

\* The fixed strings of the protocol are bytes.
LEMMA ShortStrings ==
    /\ Ok \in Seq(Byte) /\ NotFound \in Trailers /\ Refusals \subseteq Trailers
    /\ Trailers \subseteq Seq(Byte) /\ IsString(PSE_NAME) /\ IsString(<<>>)
<1>1. Ok \in Seq(Byte)
  <2>1. \h90 \in Byte /\ 0 \in Byte
    BY DEF Byte
  <2> QED
    BY <2>1 DEF Ok
<1>2. NotFound \in Trailers /\ Refusals \subseteq Trailers
  BY DEF NotFound, Trailers, Refusals
<1>3. Trailers \subseteq Seq(Byte)
  <2> SUFFICES ASSUME NEW bytes \in Trailers PROVE bytes \in Seq(Byte)
    OBVIOUS
  <2>1. PICK a \in {105, 106}, b \in {130, 131, 133, 136} : bytes = <<a, b>>
    BY DEF Trailers
  <2> QED
    BY <2>1 DEF Byte
<1>4. IsString(PSE_NAME)
  <2>1. PSE_NAME \in Seq(Nat)
    BY DEF PSE_NAME
  <2> QED
    BY <2>1, IsStringAnyhow
<1>5. IsString(<<>>)
  <2>1. <<>> \in Seq(Nat)
    OBVIOUS
  <2> QED
    BY <2>1, IsStringAnyhow
<1> QED
  BY <1>1, <1>2, <1>3, <1>4, <1>5

\* Bytes with their status word are bytes.
LEMMA Concluded == ASSUME NEW bytes \in Seq(Byte) PROVE bytes \o Ok \in Seq(Byte)
BY ShortStrings, SideBySide

\* The card answers SELECT with bytes...
LEMMA SelectAnswer ==
    ASSUME GivenOk, NEW r, r.ins = \hA4
    PROVE  Answer(r) \in Seq(Byte)
<1>1. card.pse.fci \in Seq(Byte) /\ card.fci \in Seq(Byte)
  BY CardsAssumption DEF GivenOk
<1>2. card.pse.fci \o Ok \in Seq(Byte) /\ card.fci \o Ok \in Seq(Byte)
  BY <1>1, Concluded
<1>3. <<\h6A, \h88>> \in Seq(Byte)
  BY ShortStrings DEF Trailers
<1>4. Answer(r) \in {card.pse.fci \o Ok, card.fci \o Ok, <<\h6A, \h88>>}
  BY DEF Answer
<1> QED
  BY <1>2, <1>3, <1>4

\* ... and the directory as well.
LEMMA DirectoryAnswer ==
    ASSUME GivenOk, stage = "Directory", NEW r, r.ins = \hB2
    PROVE  Answer(r) \in Seq(Byte)
<1>1. Answer(r) = IF r.p1 \in DOMAIN card.pse.records THEN card.pse.records[r.p1] \o Ok ELSE NotFound
  BY DEF Answer
<1>2. ASSUME r.p1 \in DOMAIN card.pse.records PROVE card.pse.records[r.p1] \o Ok \in Seq(Byte)
  <2>1. card.pse.records[r.p1] \in Seq(Byte)
    BY <1>2, CardsAssumption DEF GivenOk
  <2> QED
    BY <2>1, Concluded
<1> QED
  BY <1>1, <1>2, ShortStrings

\* What SELECT sends, and hears.
LEMMA SelectSends ==
    ASSUME GivenOk, IsString(seen), ~OptionsAsked(seen), NEW name, IsString(name),
           Send(select_by_name(name, FirstOrOnly)),
           NEW response \in Responses(select_by_name(name, FirstOrOnly))
    PROVE  Quiet /\ response.data \in Seq(Byte)
<1>1. PICK command : command = select_by_name(name, FirstOrOnly)
  OBVIOUS
<1>2. command \in {None, Some(Command(0, \hA4, 4, FirstOrOnly, name, Le0))}
  BY <1>1 DEF select_by_name, Check
<1>3. Asks(\hA4, 4, FirstOrOnly, response)
  BY <1>1, <1>2, CommandSent
<1>4. Quiet
  BY <1>3, QuietCommand
<1>5. CASE response = Lost
  BY <1>4, <1>5, EmptySeq DEF Lost
<1>6. CASE response # Lost
  <2>1. PICK r, bytes : r.ins = \hA4 /\ bytes \in {Answer(r)} \cup Refusals /\ response = Reply(bytes)
    BY <1>3, <1>6 DEF Asks
  <2>2. bytes \in Seq(Byte)
    BY <2>1, SelectAnswer, ShortStrings
  <2> QED
    BY <1>4, <2>1, <2>2, RepliesInBytes
<1> QED
  BY <1>5, <1>6

\* What READ RECORD in the directory sends, and hears.
LEMMA DirectorySends ==
    ASSUME GivenOk, stage = "Directory", IsString(seen), ~OptionsAsked(seen), NEW sfi, NEW number,
           Send(read_record(sfi, number)), NEW response \in Responses(read_record(sfi, number))
    PROVE  Quiet /\ response.data \in Seq(Byte)
<1>1. PICK command : command = read_record(sfi, number)
  OBVIOUS
<1>2. command \in {None, Some(Command(0, \hB2, number, (8 * sfi) + 4, <<>>, Le0))}
  BY <1>1 DEF read_record, Check
<1>3. Asks(\hB2, number, (8 * sfi) + 4, response)
  BY <1>1, <1>2, CommandSent, ShortStrings
<1>4. Quiet
  BY <1>3, QuietCommand
<1>5. CASE response = Lost
  BY <1>4, <1>5, EmptySeq DEF Lost
<1>6. CASE response # Lost
  <2>1. PICK r, bytes : r.ins = \hB2 /\ bytes \in {Answer(r)} \cup Refusals /\ response = Reply(bytes)
    BY <1>3, <1>6 DEF Asks
  <2>2. bytes \in Seq(Byte)
    BY <2>1, DirectoryAnswer, ShortStrings
  <2> QED
    BY <1>4, <2>1, <2>2, RepliesInBytes
<1> QED
  BY <1>5, <1>6

\* What the invariant says of a stage before the options are known.
LEMMA EarlyFacts ==
    ASSUME IInv, Early
    PROVE  /\ GivenOk /\ IsString(seen) /\ ~OptionsAsked(seen)
           /\ candidates \in Seq(Seq(Byte)) /\ IsString(pdol_data)
BY DEF IInv, ShapesOk, InOrder

\* Selecting the directory keeps the invariant...
LEMMA SelectPseStep == ASSUME IInv, SelectPse PROVE IInv'
<1>1. Early
  BY DEF SelectPse, Early
<1>2. GivenOk /\ IsString(seen) /\ ~OptionsAsked(seen) /\ candidates \in Seq(Seq(Byte)) /\ IsString(pdol_data)
  BY <1>1, EarlyFacts
<1>3. PICK response \in Responses(select_by_name(PSE_NAME, FirstOrOnly)) : stage' \in {"Aids", "Directory"}
  BY DEF SelectPse
<1>4. Quiet
  BY <1>2, ShortStrings, SelectSends DEF SelectPse
<1>5. UNCHANGED <<card, terminal, inputs, oda_input, not_seventy, store, candidates, pdol_data>>
  BY DEF SelectPse, Discovering, given, reading
<1>6. Early' /\ stage' # "Select"
  BY <1>3 DEF Early
<1> QED
  BY <1>1, <1>2, <1>4, <1>5, <1>6, EarlyStep

\* The names found in a directory record are bytes.
LEMMA NamesOfList ==
    ASSUME NEW n \in Nat, NEW list, DOMAIN list = 1..n, \A i \in 1..n : HasName(list[i])
    PROVE  Found(list) \in Seq(Seq(Byte))
<1> DEFINE names == [i \in DOMAIN list |-> list[i].adf_name]
<1>1. DOMAIN names = 1..n /\ \A i \in 1..n : names[i] \in Seq(Byte)
  BY DEF HasName
<1>2. PICK N : N = Seq(Byte)
  OBVIOUS
<1>3. PICK strings : strings = [i \in DOMAIN names |-> IF Supported(names[i]) THEN <<names[i]>> ELSE <<>>]
  OBVIOUS
<1>4. \A i \in 1..n : strings[i] \in Seq(N)
  <2> SUFFICES ASSUME NEW i \in 1..n PROVE strings[i] \in Seq(N)
    OBVIOUS
  <2>1. PICK name : name = names[i] /\ name \in N
    BY <1>1, <1>2
  <2>2. <<name>> \in Seq(N) /\ <<>> \in Seq(N)
    BY <2>1
  <2>3. strings[i] = IF Supported(name) THEN <<name>> ELSE <<>>
    BY <1>1, <1>3, <2>1
  <2> QED
    BY <2>2, <2>3
<1>5. strings \in [1..n -> Seq(N)]
  BY <1>1, <1>3, <1>4
<1>6. strings \in Seq(Seq(N))
  BY <1>5
<1>7. Found(list) = Joined(strings)
  BY <1>3 DEF Found
<1> QED
  BY <1>2, <1>6, <1>7, JoinedType

\* ... reading it does...
LEMMA ReadDirectoryStep == ASSUME IInv, ReadDirectory PROVE IInv'
<1>1. Early /\ stage = "Directory"
  BY DEF ReadDirectory, Early
<1>2. GivenOk /\ IsString(seen) /\ ~OptionsAsked(seen) /\ candidates \in Seq(Seq(Byte)) /\ IsString(pdol_data)
  BY <1>1, EarlyFacts
<1>3. UNCHANGED <<card, terminal, inputs, oda_input, not_seventy, store, pdol_data>>
  BY DEF ReadDirectory, Discovering, given, reading
<1>4. PICK command : command = read_record(Unwrap(file).sfi, Unwrap(file).next)
  OBVIOUS
<1>5. PICK response \in Responses(command) :
         \/ /\ stage' = IF candidates = <<>> THEN "Aids" ELSE "Select"
            /\ UNCHANGED discovery
         \/ /\ Listing(response) # None
            /\ candidates' = candidates \o Found(Unwrap(Listing(response)))
            /\ UNCHANGED stage
         \/ stage' = "Aids" /\ candidates' = <<>>
  BY <1>4 DEF ReadDirectory
<1>6. Quiet /\ response.data \in Seq(Byte)
  BY <1>1, <1>2, <1>4, DirectorySends DEF ReadDirectory
<1>7. CASE /\ stage' = IF candidates = <<>> THEN "Aids" ELSE "Select"
           /\ UNCHANGED discovery
  <2>1. Early' /\ candidates' \in Seq(Seq(Byte)) /\ (stage' = "Select" => candidates' # <<>>)
    BY <1>2, <1>7 DEF Early, discovery
  <2> QED
    BY <1>1, <1>2, <1>3, <1>6, <2>1, EarlyStep
<1>8. CASE /\ Listing(response) # None
           /\ candidates' = candidates \o Found(Unwrap(Listing(response)))
           /\ UNCHANGED stage
  <2>1. PaymentSystemDirectoryRecord(response.data) # None
        /\ Listing(response) = PaymentSystemDirectoryRecord(response.data)
    BY <1>8 DEF Check, Listing
  <2>2. PICK n \in Nat : \E list : /\ PaymentSystemDirectoryRecord(response.data) = Some(list)
                                   /\ DOMAIN list = 1..n /\ \A i \in 1..n : HasName(list[i])
    BY <1>6, <2>1, DirectoryIsRead
  <2>3. PICK list : /\ PaymentSystemDirectoryRecord(response.data) = Some(list)
                    /\ DOMAIN list = 1..n /\ \A i \in 1..n : HasName(list[i])
    BY <2>2
  <2>4. Unwrap(Listing(response)) = list
    BY <2>1, <2>3, OfSome
  <2>5. Found(list) \in Seq(Seq(Byte))
    BY <2>3, NamesOfList
  <2>6. PICK N, s, t : N = Seq(Byte) /\ s = candidates /\ t = Found(list) /\ s \in Seq(N) /\ t \in Seq(N)
    BY <1>2, <2>5
  <2>7. s \o t \in Seq(N)
    BY <2>6, SideBySide
  <2>8. candidates' = s \o t
    BY <1>8, <2>4, <2>6
  <2>9. Early' /\ stage' # "Select" /\ candidates' \in Seq(Seq(Byte))
    BY <1>1, <1>8, <2>6, <2>7, <2>8 DEF Early
  <2> QED
    BY <1>1, <1>2, <1>3, <1>6, <2>9, EarlyStep
<1>9. CASE stage' = "Aids" /\ candidates' = <<>>
  <2>1. Early' /\ candidates' \in Seq(Seq(Byte)) /\ stage' # "Select"
    BY <1>9 DEF Early
  <2> QED
    BY <1>1, <1>2, <1>3, <1>6, <2>1, EarlyStep
<1> QED
  BY <1>5, <1>7, <1>8, <1>9

\* What a SELECT that succeeds has read.
LEMMA SelectedFci ==
    ASSUME NEW response, response.data \in Seq(Byte), Selected(response) # None
    PROVE  \E f : /\ Fci(response) = Some(f) /\ f.df_name \in Seq(Byte)
                  /\ f.pdol = None \/ \E fields \in Seq(Field) : f.pdol = Some(fields)
<1>1. Fci(response) # None
  BY DEF Selected, Then
<1>2. Fci(response) = AdfFci(response.data) /\ AdfFci(response.data) # None
  BY <1>1 DEF Fci, Check
<1> QED
  BY <1>2, AdfFciIsRead

\* The terminal's application identifier is bytes.
LEMMA AidIsString == ASSUME GivenOk PROVE IsString(terminal.app.aid)
<1>1. terminal.app.aid \in Seq(Byte)
  BY TerminalsAssumption DEF GivenOk
<1> QED
  BY <1>1, IsStringAnyhow

\* ... and selecting the application by its identifier...
LEMMA SelectAidStep == ASSUME IInv, SelectAid PROVE IInv'
<1>1. Early
  BY DEF SelectAid, Early
<1>2. GivenOk /\ IsString(seen) /\ ~OptionsAsked(seen) /\ candidates \in Seq(Seq(Byte)) /\ IsString(pdol_data)
  BY <1>1, EarlyFacts
<1>3. PICK aid : aid = terminal.app.aid /\ IsString(aid)
  BY <1>2, AidIsString
<1>4. UNCHANGED <<card, terminal, inputs, oda_input, not_seventy, store, pdol_data>>
  BY DEF SelectAid, Discovering, given, reading
<1>5. PICK response \in Responses(select_by_name(aid, FirstOrOnly)) :
         \/ /\ Selected(response) # None
            /\ stage' = "Select" /\ candidates' = <<Unwrap(Fci(response)).df_name>>
         \/ stage' = "Eliminated" /\ UNCHANGED candidates
  BY <1>3 DEF SelectAid
<1>6. Quiet /\ response.data \in Seq(Byte)
  BY <1>2, <1>3, SelectSends DEF SelectAid
<1>7. CASE stage' = "Eliminated" /\ UNCHANGED candidates
  <2>1. Ended' /\ stage' # "Select"
    BY <1>7 DEF Ended
  <2> QED
    BY <1>1, <1>2, <1>4, <1>6, <1>7, <2>1, EarlyStep
<1>8. CASE /\ Selected(response) # None
           /\ stage' = "Select" /\ candidates' = <<Unwrap(Fci(response)).df_name>>
  <2>1. PICK f : Fci(response) = Some(f) /\ f.df_name \in Seq(Byte)
    BY <1>6, <1>8, SelectedFci
  <2>2. candidates' = <<f.df_name>>
    BY <1>8, <2>1, OfSome
  <2>3. PICK N, name : N = Seq(Byte) /\ name = f.df_name /\ name \in N
    BY <2>1
  <2>4. <<name>> \in Seq(N) /\ <<name>> # <<>>
    BY <2>3
  <2>5. candidates' \in Seq(Seq(Byte)) /\ candidates' # <<>>
    BY <2>2, <2>3, <2>4
  <2>6. Early'
    BY <1>8 DEF Early
  <2> QED
    BY <1>1, <1>2, <1>4, <1>6, <2>5, <2>6, EarlyStep
<1> QED
  BY <1>5, <1>7, <1>8

\* ... and selecting a candidate.
LEMMA SelectStep == ASSUME IInv, Select PROVE IInv'
<1>1. Early /\ stage = "Select"
  BY DEF Select, Early
<1>2. GivenOk /\ IsString(seen) /\ ~OptionsAsked(seen) /\ candidates \in Seq(Seq(Byte)) /\ IsString(pdol_data)
  BY <1>1, EarlyFacts
<1>3. PICK name : name = Head(candidates) /\ IsString(name)
  <2>1. PICK N, all : N = Seq(Byte) /\ all = candidates /\ all \in Seq(N)
    BY <1>2
  <2>2. all # <<>>
    BY <1>1, <2>1 DEF IInv, ShapesOk
  <2>3. Head(all) \in N
    BY <2>1, <2>2, HeadTailProperties
  <2> QED
    BY <2>1, <2>3, IsStringAnyhow
<1>4. UNCHANGED <<card, terminal, inputs, oda_input, not_seventy, store, candidates>>
  BY DEF Select, given, reading, discovery
<1> DEFINE Filling(response) == [Ctx EXCEPT !.app = Selected(response)]
<1>5. PICK response \in Responses(select_by_name(name, FirstOrOnly)) :
         \/ /\ Selected(response) # None /\ stage' = "Options"
            /\ LET pdol == Unwrap(Fci(response)).pdol
               IN  pdol_data' = IF pdol = None THEN <<>> ELSE Resolve(Unwrap(pdol), Filling(response))
         \/ stage' = "Eliminated" /\ UNCHANGED <<app, pdol_data>>
  BY <1>3 DEF Select
<1>6. Quiet /\ response.data \in Seq(Byte)
  BY <1>2, <1>3, SelectSends DEF Select
<1>7. CASE stage' = "Eliminated" /\ UNCHANGED <<app, pdol_data>>
  <2>1. Ended' /\ stage' # "Select"
    BY <1>7 DEF Ended
  <2> QED
    BY <1>1, <1>2, <1>4, <1>6, <1>7, <2>1, EarlyStep
<1> HIDE DEF Filling
<1>8. CASE /\ Selected(response) # None /\ stage' = "Options"
           /\ LET pdol == Unwrap(Fci(response)).pdol
              IN  pdol_data' = IF pdol = None THEN <<>> ELSE Resolve(Unwrap(pdol), Filling(response))
  <2>1. PICK f : /\ Fci(response) = Some(f)
                 /\ f.pdol = None \/ \E fields \in Seq(Field) : f.pdol = Some(fields)
    BY <1>6, <1>8, SelectedFci
  <2>2. pdol_data' = IF f.pdol = None THEN <<>> ELSE Resolve(Unwrap(f.pdol), Filling(response))
    BY <1>8, <2>1, OfSome
  <2>3. IsString(pdol_data')
    <3>1. CASE f.pdol = None
      BY <2>2, <3>1, ShortStrings
    <3>2. CASE f.pdol # None
      <4>1. PICK fields \in Seq(Field) : f.pdol = Some(fields)
        BY <2>1, <3>2
      <4>2. Unwrap(f.pdol) = fields
        BY <4>1, OfSome
      <4>3. pdol_data' = Resolve(fields, Filling(response))
        BY <2>2, <3>2, <4>2
      <4> QED
        BY <4>3, AnswerIsString
    <3> QED
      BY <3>1, <3>2
  <2>4. Early' /\ stage' # "Select"
    BY <1>8 DEF Early
  <2> QED
    BY <1>1, <1>2, <1>4, <1>6, <2>3, <2>4, EarlyStep
<1> QED
  BY <1>5, <1>7, <1>8
-----------------------------------------------------------------------------
(* GET PROCESSING OPTIONS.                                                  *)

\* Sequences side by side are a sequence...
LEMMA JoinStrings ==
    ASSUME NEW s, NEW t, IsString(s), IsString(t)
    PROVE  IsString(s \o t)
<1>1. PICK S, T : S = Range(s) /\ T = Range(t) /\ s \in Seq(S) /\ t \in Seq(T)
  BY DEF IsString
<1>2. PICK U : U = S \cup T
  OBVIOUS
<1>3. s \in Seq(U) /\ t \in Seq(U)
  BY <1>1, <1>2, SeqMonotonic
<1>4. s \o t \in Seq(U)
  BY <1>3, SideBySide
<1> QED
  BY <1>4, IsStringAnyhow

\* ... one value is one...
LEMMA OneIsString == ASSUME NEW x PROVE IsString(<<x>>)
<1>1. <<x>> \in Seq({x})
  OBVIOUS
<1> QED
  BY <1>1, IsStringAnyhow

\* ... the bytes of a number are one...
LEMMA NumberIsString == ASSUME NEW n, NEW k \in Nat PROVE IsString(be_bytes(n, k))
<1>1. PICK f : f = be_bytes(n, k)
  OBVIOUS
<1>2. f = [i \in 1..k |-> f[i]]
  BY <1>1 DEF be_bytes
<1> QED
  BY <1>1, <1>2, OfItsRange

\* ... and those of a length.
LEMMA LengthIsString == ASSUME NEW n \in Nat PROVE IsString(encode_length(n))
<1> DEFINE Long(a, k) == <<a>> \o be_bytes(n, k)
<1>1. PICK short, one, two, three, four :
        short = <<n>> /\ one = <<129, n>> /\ two = Long(130, 2) /\ three = Long(131, 3) /\ four = Long(132, 4)
  OBVIOUS
<1>2. IsString(short)
  BY <1>1, OneIsString
<1>3. IsString(one)
  <2>1. <<129, n>> \in Seq(Nat)
    OBVIOUS
  <2> QED
    BY <1>1, <2>1, IsStringAnyhow
<1>4. IsString(two) /\ IsString(three) /\ IsString(four)
  <2>1. \A a : \A k \in Nat : IsString(Long(a, k))
    BY OneIsString, NumberIsString, JoinStrings
  <2>2. IsString(Long(130, 2)) /\ IsString(Long(131, 3)) /\ IsString(Long(132, 4))
    BY <2>1
  <2> QED
    BY <1>1, <2>2
<1>5. encode_length(n) = CASE n <= 127 -> short
                           [] 127 < n /\ n <= 255 -> one
                           [] 255 < n /\ n <= 65535 -> two
                           [] 65535 < n /\ n <= 16777215 -> three
                           [] OTHER -> four
  BY <1>1, SMT DEF encode_length
<1> HIDE DEF Long
<1>6. encode_length(n) \in {short, one, two, three, four}
  BY <1>5
<1> QED
  BY <1>2, <1>3, <1>4, <1>6

\* What GET PROCESSING OPTIONS sends.
LEMMA OptionsSends ==
    ASSUME NEW data, IsString(data),
           Send(processing_options(data)), NEW response \in Responses(processing_options(data))
    PROVE  Asks(\hA8, 0, 0, response)
<1>1. PICK body : body = <<\h83>> \o encode_length(Len(data)) \o data
  OBVIOUS
<1>2. IsString(body)
  <2>1. PICK n \in Nat : n = Len(data)
    BY LenProperties DEF IsString
  <2>2. PICK head, mid : head = <<\h83>> /\ mid = encode_length(n)
    OBVIOUS
  <2>3. IsString(head) /\ IsString(mid)
    BY <2>2, OneIsString, LengthIsString
  <2>4. IsString(head \o mid)
    BY <2>3, JoinStrings
  <2>5. IsString((head \o mid) \o data)
    BY <2>4, JoinStrings
  <2> QED
    BY <1>1, <2>1, <2>2, <2>5
<1>3. PICK command : command = processing_options(data)
  OBVIOUS
<1>4. command \in {None, Some(Command(\h80, \hA8, 0, 0, body, Le0))}
  BY <1>1, <1>3 DEF processing_options, Check
<1> QED
  BY <1>2, <1>3, <1>4, CommandSent

\* The options: from here the walk is what the locator lists.
LEMMA GetProcessingOptionsStep == ASSUME IInv, GetProcessingOptions PROVE IInv'
<1>1. Early /\ ~Walked /\ stage = "Options"
  BY DEF GetProcessingOptions, Early, Walked
<1>2. GivenOk /\ IsString(seen) /\ ~OptionsAsked(seen) /\ candidates \in Seq(Seq(Byte)) /\ IsString(pdol_data)
  BY <1>1, EarlyFacts
<1>3. UNCHANGED <<card, terminal, inputs, candidates, pdol_data, oda_input, not_seventy, store>>
  BY DEF GetProcessingOptions, given, discovery
<1>4. PICK response \in Responses(processing_options(pdol_data)) :
         \/ /\ Locator(response) # None
            /\ stage' = "Read" /\ walk' = iter_reads(Unwrap(Locator(response)))
         \/ /\ Locator(response) = None
            /\ stage' = IF response.sw = \h6985 THEN "Eliminated" ELSE "Failed"
  BY DEF GetProcessingOptions
<1>5. Asks(\hA8, 0, 0, response)
  BY <1>2, <1>4, OptionsSends DEF GetProcessingOptions
<1>6. RecordsAsked = AskedIn(seen) /\ RecordsAsked' = AskedIn(seen')
  BY DEF RecordsAsked, AskedIn
<1>7. RecordsAsked = <<>> /\ oda_input = <<>> /\ not_seventy = FALSE
  BY <1>1 DEF IInv, InOrder
<1>8. IsString(seen') /\ AskedIn(seen') = AskedIn(seen)
  <2>1. CASE seen' = seen
    BY <1>2, <2>1
  <2>2. CASE seen' # seen
    <3>1. PICK r : r.ins = \hA8 /\ seen' = Append(seen, r)
      BY <1>5, <2>2 DEF Asks
    <3>2. IsString(Append(seen, r))
      BY <1>2, AskedAppend
    <3>3. AskedIn(Append(seen, r)) = AskedIn(seen)
      BY <1>2, <3>1, AskedAppend
    <3> QED
      BY <3>1, <3>2, <3>3
  <2> QED
    BY <2>1, <2>2
<1>9. RecordsAsked' = <<>> /\ Len(<<>>) = 0
  BY <1>6, <1>7, <1>8
<1>10. Kept(store') = Sent(card', 0) /\ Kept(store) = Sent(card, 0) /\ IsStore(store')
  <2>1. stage # "Failed"
    BY <1>1
  <2>2. Kept(store) = Sent(card, 0)
    BY <1>7, <1>9, <2>1 DEF IInv, StoreOk
  <2> QED
    BY <1>3, <2>2 DEF IInv, ShapesOk
<1>11. PICK n \in Nat : n = Len(card.afl)
  <2>1. card.afl \in Seq(Step)
    BY <1>2, OptionsOfCard DEF GivenOk
  <2> QED
    BY <2>1, LenProperties
<1>12. GivenOk' /\ StoreOk'
  BY <1>2, <1>3, <1>9, <1>10 DEF GivenOk, StoreOk
<1>13. CASE Locator(response) = None
  <2>1. Ended' /\ ~Early' /\ ~Walked' /\ stage' # "Read" /\ stage' # "Select"
    BY <1>4, <1>13 DEF Ended, Early, Walked
  <2>2. ShapesOk'
    BY <1>2, <1>3, <1>8, <1>10, <2>1 DEF ShapesOk
  <2>3. InOrder'
    BY <1>3, <1>9, <1>11, <2>1 DEF InOrder
  <2>4. WalkOk' /\ SignedOk'
    BY <2>1 DEF WalkOk, SignedOk
  <2> QED
    BY <1>12, <2>2, <2>3, <2>4 DEF IInv
<1>14. CASE Locator(response) # None
  <2>1. stage' = "Read" /\ walk' = iter_reads(Unwrap(Locator(response)))
    BY <1>4, <1>14
  <2>2. Initiated(response) # None
    BY <1>14 DEF Locator, Then
  <2>3. response.sw = \h9000 /\ Initiated(response) = ProcessingOptionsResponse(response.data)
    BY <2>2 DEF Initiated, Check
  <2>4. response # Lost
    <3>1. Lost.sw = 0
      BY DEF Lost
    <3> QED
      BY <2>3, <3>1
  <2>5. PICK r, bytes : /\ r.ins = \hA8 /\ seen' = Append(seen, r)
                        /\ bytes \in {Answer(r)} \cup Refusals /\ response = Reply(bytes)
    BY <1>5, <2>4 DEF Asks
  <2>6. bytes = Answer(r)
    <3>1. bytes \notin Trailers
      BY <2>3, <2>5, ErrorReplies
    <3> QED
      BY <2>5, <3>1, ShortStrings
  <2>7. Answer(r) = card.options \o Ok
    BY <2>5 DEF Answer
  <2>8. PICK reads \in Seq(Read) : \E o :
             /\ card.options \in Seq(Byte)
             /\ ProcessingOptionsResponse(card.options) = Some(o) /\ o.afl # None
             /\ iter_reads(Unwrap(o.afl)) = reads
             /\ Len(reads) = Len(card.afl)
             /\ \A i \in 1..Len(reads) : card.afl[i] = StepFor(reads[i])
    BY <1>2, OptionsOfCard DEF GivenOk
  <2>9. PICK o : /\ card.options \in Seq(Byte)
                 /\ ProcessingOptionsResponse(card.options) = Some(o)
                 /\ iter_reads(Unwrap(o.afl)) = reads
    BY <2>8
  <2>10. PICK d : d = card.options /\ d \in Seq(Byte) /\ bytes = d \o Ok
    BY <2>6, <2>7, <2>9
  <2>11. response.data = d
    <3>1. response = [sw |-> \h9000, data |-> d]
      BY <2>5, <2>10, OkReplies
    <3> QED
      BY <3>1
  <2>12. Initiated(response) = Some(o)
    BY <2>3, <2>9, <2>10, <2>11
  <2>13. Locator(response) = o.afl
    BY <2>12, OfSome DEF Locator, Then
  <2>14. walk' = reads /\ Len(reads) = n
    BY <1>11, <2>1, <2>8, <2>9, <2>13
  <2>15. ~Early' /\ ~Walked' /\ ~Ended'
    BY <2>1 DEF Ended, Early, Walked
  <2>16. ShapesOk'
    BY <1>2, <1>3, <1>8, <1>10, <2>1 DEF ShapesOk
  <2>17. OptionsAsked(seen')
    <3>1. OptionsAsked(Append(seen, r)) = (OptionsAsked(seen) \/ r.ins = \hA8)
      BY <1>2, AskedAppend
    <3> QED
      BY <2>5, <3>1
  <2>18. InOrder'
    BY <1>3, <1>9, <1>11, <2>15, <2>17 DEF InOrder
  <2>19. WalkOk'
    <3>1. Len(walk') = Len(card'.afl) - Len(RecordsAsked')
      BY <1>3, <1>9, <1>11, <2>14
    <3>2. ASSUME NEW i \in 1..Len(walk')
          PROVE  card'.afl[Len(RecordsAsked') + i]
                   = [record |-> <<walk'[i].sfi, walk'[i].record_number>>, signed |-> walk'[i].in_oda]
      <4>1. i \in 1..n /\ 0 + i = i
        BY <2>14, <3>2
      <4>2. card.afl[i] = StepFor(reads[i])
        BY <2>8, <2>14, <4>1
      <4>3. Len(RecordsAsked') + i = i
        BY <1>9, <4>1
      <4> QED
        BY <1>3, <2>14, <4>2, <4>3 DEF StepFor
    <3> QED
      BY <2>14, <3>1, <3>2 DEF WalkOk
  <2>20. SignedOk'
    BY <1>3, <1>7, <1>9, <2>1, NoParts DEF SignedOk
  <2> QED
    BY <1>12, <2>16, <2>18, <2>19, <2>20 DEF IInv
<1> QED
  BY <1>13, <1>14
-----------------------------------------------------------------------------
(* READ RECORD.                                                             *)

\* No more records were asked for than the locator lists.
LEMMA AskedLength ==
    ASSUME IInv
    PROVE  \E n, m \in Nat : /\ n = Len(RecordsAsked) /\ m = Len(card.afl) /\ n <= m
<1>1. PICK m \in Nat : m = Len(card.afl)
  <2>1. card.afl \in Seq(Step)
    BY OptionsOfCard DEF IInv, GivenOk
  <2> QED
    BY <2>1, LenProperties
<1>2. PICK n \in Nat : n = Len(RecordsAsked)
  <2>1. PICK W : AskedIn(seen) \in Seq(W)
    BY AskedType DEF IInv, ShapesOk
  <2>2. RecordsAsked = AskedIn(seen)
    BY DEF RecordsAsked, AskedIn
  <2> QED
    BY <2>1, <2>2, LenProperties
<1> QED
  BY <1>1, <1>2 DEF IInv, InOrder

\* One more READ RECORD asks for one more place.
LEMMA AskedRecord ==
    ASSUME NEW s, IsString(s), OptionsAsked(s), NEW r, r.ins = \hB2
    PROVE  AskedIn(Append(s, r)) = Append(AskedIn(s), RecordOf(r))
<1>1. (OptionsAsked(s) /\ r.ins = \hB2) => AskedIn(Append(s, r)) = Append(AskedIn(s), RecordOf(r))
  BY AskedAppend
<1> QED
  BY <1>1

\* The next record of the walk is the next that is listed.
LEMMA OneMoreAsked ==
    ASSUME IInv, stage = "Read", NEW n \in Nat, n = Len(RecordsAsked), n + 1 <= Len(card.afl), card' = card,
           NEW r, seen' = Append(seen, r), r.ins = \hB2,
           RecordOf(r) = card.afl[n + 1].record
    PROVE  /\ IsString(seen') /\ OptionsAsked(seen') /\ Len(RecordsAsked') = n + 1
           /\ \A i \in 1..(n + 1) : RecordsAsked'[i] = card'.afl[i].record
<1>1. IsString(seen) /\ OptionsAsked(seen) /\ \A i \in 1..n : RecordsAsked[i] = card.afl[i].record
  BY DEF IInv, ShapesOk, InOrder, Early, Ended
<1>2. RecordsAsked = AskedIn(seen) /\ RecordsAsked' = AskedIn(seen')
  BY DEF RecordsAsked, AskedIn
<1>3. IsString(seen')
  BY <1>1, AskedAppend
<1>4. OptionsAsked(seen')
  <2>1. OptionsAsked(Append(seen, r)) = (OptionsAsked(seen) \/ r.ins = \hA8)
    BY <1>1, AskedAppend
  <2> QED
    BY <1>1, <2>1
<1>5. PICK at : at = RecordOf(r)
  OBVIOUS
<1>6. AskedIn(Append(seen, r)) = Append(AskedIn(seen), at)
  <2>1. IsString(seen) /\ OptionsAsked(seen)
    BY <1>1
  <2>2. AskedIn(Append(seen, r)) = Append(AskedIn(seen), RecordOf(r))
    BY <2>1, AskedRecord
  <2> QED
    BY <1>5, <2>2
<1>7. PICK W, asked_ : asked_ = AskedIn(seen) /\ asked_ \in Seq(W)
  BY <1>1, AskedType
<1>8. PICK V : V = W \cup {at}
  OBVIOUS
<1>9. asked_ \in Seq(V) /\ at \in V
  BY <1>7, <1>8, SeqMonotonic
<1>10. PICK all : all = Append(asked_, at)
  OBVIOUS
<1>11. Len(all) = n + 1 /\ all[n + 1] = at /\ \A i \in 1..n : all[i] = asked_[i]
  BY <1>2, <1>7, <1>9, <1>10, AppendProperties
<1>12. RecordsAsked' = all
  BY <1>2, <1>6, <1>7, <1>10
<1>13. \A i \in 1..(n + 1) : i \in 1..n \/ i = n + 1
  OBVIOUS
<1>14. \A i \in 1..(n + 1) : all[i] = card.afl[i].record
  <2>1. \A i \in 1..n : asked_[i] = card.afl[i].record
    BY <1>1, <1>2, <1>7
  <2>2. at = card.afl[n + 1].record
    BY <1>5
  <2> QED
    BY <1>11, <1>13, <2>1, <2>2
<1> QED
  BY <1>3, <1>4, <1>11, <1>12, <1>14

\* What a record's elements hold, as the store keeps it.
LEMMA HeldByElements ==
    ASSUME NEW elements \in Seq(Seq(Byte) \X Seq(Byte))
    PROVE  /\ LeavesOf(elements) \in Seq(Leaf)
           /\ HeldBy(LeavesOf(elements), Len(LeavesOf(elements))) = {e \in Range(elements) : e[2] # <<>>}
<1>1. PICK n \in Nat : n = Len(elements) /\ DOMAIN elements = 1..n
  BY LenProperties
<1>2. PICK leaves : leaves = LeavesOf(elements)
  OBVIOUS
<1>3. leaves \in Seq(Leaf) /\ Len(leaves) = n
  BY <1>1, <1>2, LeavesOfType
<1>4. \A i \in 1..n : leaves[i].tag = elements[i][1] /\ leaves[i].value = elements[i][2]
  BY <1>1, <1>2, LeavesOfType
<1>5. \A i \in 1..n : elements[i] = <<elements[i][1], elements[i][2]>>
  <2>1. \A i \in 1..n : elements[i] \in Seq(Byte) \X Seq(Byte)
    BY <1>1, ElementOfSeq
  <2> QED
    BY <2>1
<1>6. \A i \in 1..n : <<leaves[i].tag, leaves[i].value>> = elements[i]
  BY <1>4, <1>5
<1>7. Range(elements) = {elements[i] : i \in 1..n}
  BY <1>1 DEF Range
<1>8. HeldBy(leaves, n) = {elements[i] : i \in {j \in 1..n : elements[j][2] # <<>>}}
  <2>1. PICK J : J = {j \in 1..n : elements[j][2] # <<>>}
    OBVIOUS
  <2>2. J = {j \in 1..n : leaves[j].value # <<>>} /\ J \subseteq 1..n
    BY <1>4, <2>1
  <2>3. HeldBy(leaves, n) = {<<leaves[i].tag, leaves[i].value>> : i \in J}
    BY <2>2 DEF HeldBy
  <2>4. {<<leaves[i].tag, leaves[i].value>> : i \in J} = {elements[i] : i \in J}
    BY <1>6, <2>2
  <2> QED
    BY <2>1, <2>3, <2>4
<1> QED
  BY <1>2, <1>3, <1>7, <1>8

\* What READ RECORD sends.
LEMMA RecordSends ==
    ASSUME NEW sfi, NEW number, Send(read_record(sfi, number)),
           NEW response \in Responses(read_record(sfi, number))
    PROVE  Asks(\hB2, number, (8 * sfi) + 4, response)
<1>1. PICK command : command = read_record(sfi, number)
  OBVIOUS
<1>2. command \in {None, Some(Command(0, \hB2, number, (8 * sfi) + 4, <<>>, Le0))}
  BY <1>1 DEF read_record, Check
<1> QED
  BY <1>1, <1>2, CommandSent, ShortStrings

\* Where the walk stands.
Ahead(n, step, rest) ==
    /\ n \in Nat /\ n = Len(RecordsAsked) /\ n + 1 <= Len(card.afl) /\ n + 1 \in 1..Len(card.afl)
    /\ step \in Read /\ card.afl[n + 1] = StepFor(step)
    /\ rest \in Seq(Read) /\ Len(rest) = Len(card.afl) - (n + 1)
    /\ \A i \in 1..Len(rest) : card.afl[(n + 1) + i] = StepFor(rest[i])

\* The head of the walk is the next step of the locator.
LEMMA NextStep ==
    ASSUME IInv, stage = "Read", walk # <<>>
    PROVE  \E n, step, rest : step = Head(walk) /\ rest = Tail(walk) /\ Ahead(n, step, rest)
<1>1. PICK n, m \in Nat : n = Len(RecordsAsked) /\ m = Len(card.afl) /\ n <= m
  BY AskedLength
<1>2. walk \in Seq(Read) /\ Len(walk) = m - n
  BY <1>1 DEF IInv, WalkOk
<1>3. \A i \in 1..Len(walk) : card.afl[n + i] = StepFor(walk[i])
  BY <1>1 DEF IInv, WalkOk, StepFor
<1>4. PICK all : all = walk /\ all \in Seq(Read) /\ all # <<>>
  BY <1>2
<1>5. PICK k \in Nat : k = Len(all) /\ k = m - n
  BY <1>2, <1>4, LenProperties
<1>6. PICK step, rest : step = Head(all) /\ rest = Tail(all)
  OBVIOUS
<1>7. step \in Read /\ rest \in Seq(Read) /\ Len(rest) = k - 1 /\ \A i \in 1..(k - 1) : rest[i] = all[i + 1]
  BY <1>4, <1>5, <1>6, HeadTailProperties
<1>8. k >= 1 /\ step = all[1]
  <2>1. k # 0
    BY <1>4, <1>5, EmptySeq
  <2> QED
    BY <1>4, <1>5, <1>6, <2>1
<1>9. card.afl[n + 1] = StepFor(step)
  <2>1. 1 \in 1..Len(walk)
    BY <1>4, <1>5, <1>8
  <2> QED
    BY <1>3, <1>4, <1>8, <2>1
<1>10. \A i \in 1..Len(rest) : card.afl[(n + 1) + i] = StepFor(rest[i])
  <2> SUFFICES ASSUME NEW i \in 1..(k - 1) PROVE card.afl[(n + 1) + i] = StepFor(rest[i])
    BY <1>7
  <2>1. PICK j \in 1..k : j = i + 1
    BY <1>8
  <2>2. rest[i] = all[j]
    BY <1>7, <2>1
  <2>3. card.afl[n + j] = StepFor(all[j])
    BY <1>3, <1>4, <1>5, <2>1
  <2>4. n + j = (n + 1) + i
    BY <2>1
  <2> QED
    BY <2>2, <2>3, <2>4
<1>11. n + 1 <= m /\ n + 1 \in 1..m /\ Len(rest) = m - (n + 1)
  BY <1>5, <1>7, <1>8
<1>12. Ahead(n, step, rest)
  BY <1>1, <1>7, <1>9, <1>10, <1>11 DEF Ahead
<1>13. step = Head(walk) /\ rest = Tail(walk)
  BY <1>4, <1>6
<1> QED
  BY <1>12, <1>13

RecordHeard(r, record, at, sfi, response) ==
    /\ seen' = Append(seen, r) /\ r.ins = \hB2 /\ RecordOf(r) = at
    /\ record = card.records[at] /\ RecordIsAsDescribed(record, sfi) /\ record.bytes \in Seq(Byte)
    /\ response.sw = \h9000 => response.data = record.bytes

\* The answer to a record that was asked for where the locator says.
LEMMA RecordAnswer ==
    ASSUME IInv, stage = "Read", NEW n \in Nat, n + 1 \in 1..Len(card.afl), NEW step \in Read,
           card.afl[n + 1] = StepFor(step), NEW response,
           Asks(\hB2, step.record_number, (8 * step.sfi) + 4, response)
    PROVE  \/ response = Lost /\ seen' = seen
           \/ \E r, record : RecordHeard(r, record, card.afl[n + 1].record, step.sfi, response)
<1>1. CASE response = Lost /\ seen' = seen
  BY <1>1
<1>2. CASE ~(response = Lost /\ seen' = seen)
  <2>1. PICK r, bytes : /\ r.ins = \hB2 /\ r.p1 = step.record_number /\ r.p2 = (8 * step.sfi) + 4
                        /\ seen' = Append(seen, r)
                        /\ bytes \in {Answer(r)} \cup Refusals /\ response = Reply(bytes)
    BY <1>2 DEF Asks
  <2>2. PICK sfi \in 1..30, number \in 1..254 : sfi = step.sfi /\ number = step.record_number
    BY DEF Read
  <2>3. ((8 * sfi) + 4) \div 8 = sfi
    OBVIOUS
  <2>4. PICK at : at = <<sfi, number>>
    OBVIOUS
  <2>5. RecordOf(r) = at
    BY <2>1, <2>2, <2>3, <2>4 DEF RecordOf
  <2>6. card.afl[n + 1].record = at /\ at[1] = sfi
    BY <2>2, <2>4 DEF StepFor
  <2>7. card \in Cards
    BY DEF IInv, GivenOk
  <2>8. PICK record : /\ at \in DOMAIN card.records /\ record = card.records[at]
                      /\ RecordIsAsDescribed(record, at[1]) /\ record.bytes \in Seq(Byte)
    BY <2>6, <2>7, RecordOfCard
  <2>9. Answer(r) = record.bytes \o Ok
    <3>1. RecordOf(r) \in DOMAIN card.records
      BY <2>5, <2>8
    <3>2. Answer(r) = card.records[RecordOf(r)].bytes \o Ok
      BY <2>1, <3>1 DEF Answer
    <3> QED
      BY <2>5, <2>8, <3>2
  <2>10. ASSUME response.sw = \h9000 PROVE response.data = record.bytes
    <3>1. bytes \notin Trailers
      BY <2>1, <2>10, ErrorReplies
    <3>2. bytes = Answer(r)
      BY <2>1, <3>1, ShortStrings
    <3>3. PICK d : d = record.bytes /\ d \in Seq(Byte) /\ bytes = d \o Ok
      BY <2>8, <2>9, <3>2
    <3>4. response = [sw |-> \h9000, data |-> d]
      BY <2>1, <3>3, OkReplies
    <3> QED
      BY <3>3, <3>4
  <2>11. RecordHeard(r, record, at, sfi, response)
    BY <2>1, <2>5, <2>6, <2>8, <2>10 DEF RecordHeard
  <2> QED
    BY <2>2, <2>6, <2>11
<1> QED
  BY <1>1, <1>2

\* What is the same in all three ends of a READ RECORD.
SignedAs(input, odd, c, n) == input = Parts(c, n) /\ odd = OddOne(c, n)

\* A record that was read, and the walk goes on.
LEMMA ReadOn ==
    ASSUME IInv, stage = "Read", UNCHANGED <<card, terminal, inputs, candidates, pdol_data>>,
           NEW n, NEW step, NEW rest, Ahead(n, step, rest),
           NEW r, seen' = Append(seen, r), r.ins = \hB2, RecordOf(r) = card.afl[n + 1].record,
           stage' = "Read", walk' = rest, IsStore(store'),
           Kept(store') = Sent(card, n + 1), SignedAs(oda_input', not_seventy', card, n + 1)
    PROVE  IInv'
<1>1. /\ n \in Nat /\ n = Len(RecordsAsked) /\ n + 1 <= Len(card.afl)
      /\ rest \in Seq(Read) /\ Len(rest) = Len(card.afl) - (n + 1)
      /\ \A i \in 1..Len(rest) : card.afl[(n + 1) + i] = StepFor(rest[i])
  BY DEF Ahead
<1>2. /\ IsString(seen') /\ OptionsAsked(seen') /\ Len(RecordsAsked') = n + 1
      /\ \A i \in 1..(n + 1) : RecordsAsked'[i] = card'.afl[i].record
  BY <1>1, OneMoreAsked
<1>3. ~Early' /\ ~Walked' /\ stage' # "Select"
  BY DEF Early, Walked
<1>4. GivenOk'
  BY DEF IInv, GivenOk
<1>5. ShapesOk'
  BY <1>2, <1>3 DEF IInv, ShapesOk
<1>6. InOrder'
  BY <1>1, <1>2, <1>3 DEF InOrder
<1>7. WalkOk'
  BY <1>1, <1>2 DEF WalkOk, StepFor
<1>8. StoreOk'
  BY <1>2 DEF StoreOk
<1>9. SignedOk'
  BY <1>2 DEF SignedOk, SignedAs
<1> QED
  BY <1>4, <1>5, <1>6, <1>7, <1>8, <1>9 DEF IInv

\* What the terminal puts into the store itself; the rest is from records.
OwnTags == {<<\h9F, \h37>>, <<\h9F, \h34>>, <<\h9F, \h36>>, <<\h9F, \h13>>, <<\h8A>>}
Sourced(s) == \A t \in DOMAIN s : s[t].source = "Record" \/ t \in OwnTags

\* One element inserted is from a record or is one of the terminal's own...
LEMMA InsertKeepsSources ==
    ASSUME NEW into, IsStore(into), Sourced(into), NEW tag, NEW value, NEW source,
           source = "Record" \/ tag \in OwnTags,
           NEW s, InsertPrimitive(into, tag, value, source) = Some(s)
    PROVE  IsStore(s) /\ Sourced(s) /\ (source # "Record" => Kept(s) = Kept(into))
<1>1. InsertPrimitive(into, tag, value, source) # None
  BY OfSome
<1>2. PICK after : /\ InsertPrimitive(into, tag, value, source) = Some(after) /\ IsStore(after)
                   /\ \/ after = into
                      \/ tag \notin DOMAIN into /\ after = With(into, tag, value, source)
                   /\ Kept(after) = Kept(into) \cup
                        (IF source = "Record" /\ value # <<>> THEN {<<tag, value>>} ELSE {})
  BY <1>1, InsertOne
<1>3. after = s
  <2>1. Unwrap(InsertPrimitive(into, tag, value, source)) = after
    BY <1>2, OfSome
  <2>2. Unwrap(InsertPrimitive(into, tag, value, source)) = s
    BY OfSome
  <2> QED
    BY <2>1, <2>2
<1>4. Sourced(after)
  <2>1. CASE after = into
    BY <2>1
  <2>2. CASE tag \notin DOMAIN into /\ after = With(into, tag, value, source)
    <3>1. AddsTo(after, into, tag, value, source)
      BY <2>2, Added
    <3>2. DOMAIN after = {tag} \cup DOMAIN into
      BY <3>1 DEF AddsTo
    <3>3. after[tag].source = source
      BY <3>1 DEF AddsTo
    <3>4. \A t \in DOMAIN into : after[t] = into[t]
      BY <3>1 DEF AddsTo
    <3> SUFFICES ASSUME NEW t \in DOMAIN after PROVE after[t].source = "Record" \/ t \in OwnTags
      BY DEF Sourced
    <3>5. CASE t = tag
      BY <3>3, <3>5
    <3>6. CASE t # tag
      <4>1. t \in DOMAIN into
        BY <3>2, <3>6
      <4> QED
        BY <3>4, <4>1 DEF Sourced
    <3> QED
      BY <3>5, <3>6
  <2> QED
    BY <1>2, <2>1, <2>2
<1>5. source # "Record" => Kept(after) = Kept(into)
  BY <1>2
<1> QED
  BY <1>2, <1>3, <1>4, <1>5

\* ... and so are all elements of a record.
LEMMA LeavesKeepSources ==
    ASSUME NEW into, IsStore(into), Sourced(into), NEW leaves \in Seq(Leaf),
           InsertAll(into, leaves, "Record") # None
    PROVE  Sourced(Unwrap(InsertAll(into, leaves, "Record")))
<1>1. PICK last \in Nat : last = Len(leaves)
  BY LenProperties
<1>2. PICK row : /\ row[0] = Some(into)
                 /\ \A n \in 1..last : row[n] = InsertLeaf(row[n - 1], leaves[n])
                 /\ InsertAll(into, leaves, "Record") = row[last]
  BY <1>1, LeavesRow
<1> DEFINE Good(n) == row[n] = None \/ \E s : row[n] = Some(s) /\ IsStore(s) /\ Sourced(s)
           S == {n \in Nat : n <= last => Good(n)}
<1>3. 0 \in S
  BY <1>2
<1>4. ASSUME NEW n \in Nat, n \in S PROVE n + 1 \in S
  <2> SUFFICES ASSUME n + 1 <= last PROVE Good(n + 1)
    OBVIOUS
  <2>1. n <= last /\ n + 1 \in 1..last /\ (n + 1) - 1 = n
    BY <1>1
  <2>2. Good(n)
    BY <1>4, <2>1
  <2>3. row[n + 1] = InsertLeaf(row[n], leaves[n + 1])
    BY <1>2, <2>1
  <2>4. CASE row[n + 1] = None
    BY <2>4
  <2>5. CASE row[n + 1] # None
    <3>1. row[n] # None
      BY <2>3, <2>5 DEF InsertLeaf, Then
    <3>2. PICK s : row[n] = Some(s) /\ IsStore(s) /\ Sourced(s)
      BY <2>2, <3>1
    <3>3. PICK tag, value : tag = leaves[n + 1].tag /\ value = leaves[n + 1].value
      OBVIOUS
    <3>4. row[n + 1] = InsertPrimitive(s, tag, value, "Record")
      BY <2>3, <3>1, <3>2, <3>3, OfSome DEF InsertLeaf, Then
    <3>5. PICK after : row[n + 1] = Some(after)
      BY <2>5, <3>2, <3>4, InsertOne
    <3>6. IsStore(after) /\ Sourced(after)
      BY <3>2, <3>4, <3>5, InsertKeepsSources
    <3> QED
      BY <3>5, <3>6
  <2> QED
    BY <2>4, <2>5
<1>5. Nat \subseteq S
  <2> HIDE DEF S
  <2> QED
    BY <1>3, <1>4, EveryNumber
<1>6. Good(last)
  BY <1>5
<1>7. PICK s : row[last] = Some(s) /\ Sourced(s)
  BY <1>2, <1>6
<1>8. Unwrap(InsertAll(into, leaves, "Record")) = s
  BY <1>2, <1>7, OfSome
<1> QED
  BY <1>7, <1>8

\* What is not the terminal's own is bytes from a record.
LEMMA SentInBytes ==
    ASSUME NEW c \in Cards, NEW n \in Nat, n <= Len(c.afl), NEW e \in Sent(c, n)
    PROVE  e[1] \in Seq(Byte) /\ e[2] \in Seq(Byte) /\ e[2] # <<>>
<1>1. PICK m \in Nat : m = Len(c.afl)
  <2>1. c.afl \in Seq(Step)
    BY OptionsOfCard
  <2> QED
    BY <2>1, LenProperties
<1>2. PICK i \in 1..n : e \in Elements(c, c.afl[i].record) /\ e[2] # <<>>
  BY DEF Sent
<1>3. i \in 1..Len(c.afl)
  BY <1>1, <1>2
<1>4. PICK r : /\ r = c.records[c.afl[i].record]
               /\ (r.seventy => r.elements \in Seq(Seq(Byte) \X Seq(Byte)))
  BY <1>3, RecordOfCard
<1>5. r.seventy /\ e \in Range(r.elements)
  <2>1. PICK record : record = c.afl[i].record
    OBVIOUS
  <2>2. e \in (IF c.records[record].seventy THEN Range(c.records[record].elements) ELSE {})
    BY <1>2, <2>1 DEF Elements
  <2> QED
    BY <1>4, <2>1, <2>2
<1>6. PICK elements : elements = r.elements /\ elements \in Seq(Seq(Byte) \X Seq(Byte))
  BY <1>4, <1>5
<1>7. PICK k \in DOMAIN elements : e = elements[k]
  BY <1>5, <1>6 DEF Range
<1>8. e \in Seq(Byte) \X Seq(Byte)
  <2>1. DOMAIN elements = 1..Len(elements)
    BY <1>6, LenProperties
  <2> QED
    BY <1>6, <1>7, <2>1, ElementOfSeq
<1> QED
  BY <1>2, <1>8

\* Of such a tag the store holds bytes, or nothing.
LEMMA HeldInBytes ==
    ASSUME IInv, Sourced(store), stage # "Failed", NEW tag, tag \notin OwnTags
    PROVE  Value(tag) = None \/ \E bytes \in Seq(Byte) : Value(tag) = Some(bytes)
<1>1. CASE tag \notin DOMAIN store
  BY <1>1 DEF Value
<1>2. CASE tag \in DOMAIN store
  <2>1. Value(tag) = Some(store[tag].value)
    BY <1>2 DEF Value
  <2>2. store[tag].source = "Record"
    BY <1>2 DEF Sourced
  <2>3. <<tag, store[tag].value>> \in Kept(store)
    BY <1>2, <2>2 DEF Kept
  <2>4. PICK n, m \in Nat : n = Len(RecordsAsked) /\ m = Len(card.afl) /\ n <= m
    BY AskedLength
  <2>5. <<tag, store[tag].value>> \in Sent(card, n)
    BY <2>3, <2>4 DEF IInv, StoreOk
  <2>6. card \in Cards
    BY DEF IInv, GivenOk
  <2>7. PICK e : e = <<tag, store[tag].value>>
    OBVIOUS
  <2>8. e[2] \in Seq(Byte)
    BY <2>4, <2>5, <2>6, <2>7, SentInBytes
  <2>9. store[tag].value \in Seq(Byte)
    BY <2>7, <2>8
  <2> QED
    BY <2>1, <2>9
<1> QED
  BY <1>1, <1>2

\* What is next, after a record that is a '70' template.
LEMMA RecordFills ==
    ASSUME NEW record, NEW sfi, RecordIsAsDescribed(record, sfi), record.seventy,
           IsStore(store), Sourced(store), NEW parsed,
           ReadRecordResponse(record.bytes) = Some(parsed), Filled(parsed) # None
    PROVE  /\ IsStore(Unwrap(Filled(parsed))) /\ Sourced(Unwrap(Filled(parsed)))
           /\ Kept(Unwrap(Filled(parsed))) = Kept(store) \cup {e \in Range(record.elements) : e[2] # <<>>}
<1>1. PICK elements : elements = record.elements /\ elements \in Seq(Seq(Byte) \X Seq(Byte))
  <2>1. IsTemplate(record.bytes, <<\h70>>, record.objects, record.elements)
    BY DEF RecordIsAsDescribed
  <2> QED
    BY <2>1 DEF IsTemplate
<1>2. PICK node : node = Constructed(<<\h70>>, NodesOf(elements))
  OBVIOUS
<1>3. PICK whole : whole = [raw |-> record.bytes, tlv |-> node]
  OBVIOUS
<1>4. ReadRecordResponse(record.bytes) = Some(whole)
  BY <1>1, <1>2, <1>3, RecordIsRead
<1>5. parsed = whole
  <2>1. Unwrap(ReadRecordResponse(record.bytes)) = whole
    BY <1>4, OfSome
  <2>2. Unwrap(ReadRecordResponse(record.bytes)) = parsed
    BY OfSome
  <2> QED
    BY <2>1, <2>2
<1>6. parsed.tlv = node
  BY <1>3, <1>5
<1>7. PICK leaves : leaves = LeavesOf(elements)
  OBVIOUS
<1>8. Leaves(node) = leaves
  BY <1>1, <1>2, <1>7, TemplateLeaves
<1>9. leaves \in Seq(Leaf) /\ HeldBy(leaves, Len(leaves)) = {e \in Range(elements) : e[2] # <<>>}
  BY <1>1, <1>7, HeldByElements
<1>10. Filled(parsed) = InsertAll(store, leaves, "Record")
  BY <1>6, <1>8 DEF Filled
<1>11. PICK s : /\ InsertAll(store, leaves, "Record") = Some(s) /\ IsStore(s)
                /\ Kept(s) = Kept(store) \cup HeldBy(leaves, Len(leaves))
  BY <1>9, <1>10, InsertsLeaves
<1>12. Unwrap(Filled(parsed)) = s
  BY <1>10, <1>11, OfSome
<1>13. Sourced(Unwrap(Filled(parsed)))
  BY <1>9, <1>10, LeavesKeepSources
<1> QED
  BY <1>1, <1>9, <1>11, <1>12, <1>13

\* What the terminal takes as signed is the end of what the card signed.
LEMMA RecordSigns ==
    ASSUME NEW c \in Cards, NEW at \in DOMAIN c.records,
           RecordIsAsDescribed(c.records[at], at[1]), c.records[at].seventy,
           NEW parsed, ReadRecordResponse(c.records[at].bytes) = Some(parsed)
    PROVE  oda_input_bytes(parsed, at[1]) = RecordEnd(c, at)
<1>1. PICK record : record = c.records[at]
  OBVIOUS
<1>2. PICK whole : whole = [raw |-> record.bytes, tlv |-> Constructed(<<\h70>>, NodesOf(record.elements))]
  OBVIOUS
<1>3. ReadRecordResponse(record.bytes) = Some(whole)
  BY <1>1, <1>2, RecordIsRead
<1>4. parsed = whole
  <2>1. Unwrap(ReadRecordResponse(record.bytes)) = whole
    BY <1>3, OfSome
  <2>2. Unwrap(ReadRecordResponse(record.bytes)) = parsed
    BY <1>1, OfSome
  <2> QED
    BY <2>1, <2>2
<1>6. PICK sfi : sfi = at[1]
  OBVIOUS
<1>7. oda_input_bytes(whole, sfi)
        = IF sfi <= 10 THEN Ending(record.value, Len(Rewritten(record.elements))) ELSE record.value
  BY <1>1, <1>2, <1>6, SignedPart
<1> QED
  BY <1>1, <1>4, <1>6, <1>7 DEF RecordEnd

\* Reading a record keeps the invariant, however it ends.
LEMMA ReadRecordStep ==
    ASSUME IInv, Sourced(store), ReadRecord
    PROVE  IInv' /\ Sourced(store')
<1>1. stage = "Read" /\ walk # <<>>
  BY DEF ReadRecord
<1>2. UNCHANGED <<card, terminal, inputs, candidates, pdol_data>>
  BY DEF ReadRecord, given, selection, discovery
<1>3a. PICK n, step, rest : step = Head(walk) /\ rest = Tail(walk) /\ Ahead(n, step, rest)
  BY <1>1, NextStep
<1>3. /\ n \in Nat /\ step \in Read /\ rest \in Seq(Read)
      /\ n = Len(RecordsAsked) /\ n + 1 <= Len(card.afl) /\ n + 1 \in 1..Len(card.afl)
      /\ step = Head(walk) /\ rest = Tail(walk)
      /\ card.afl[n + 1] = StepFor(step)
  BY <1>3a DEF Ahead
<1> DEFINE Lasts(response) ==
             \/ response.sw # \h9000
             \/ /\ ReadRecordResponse(response.data) # None
                /\ Filled(Unwrap(ReadRecordResponse(response.data))) = None
           Skips(response) ==
             /\ response.sw = \h9000 /\ ReadRecordResponse(response.data) = None
             /\ not_seventy' = (not_seventy \/ step.in_oda)
             /\ UNCHANGED <<store, oda_input>>
           Fills(response) ==
             LET parsed == Unwrap(ReadRecordResponse(response.data))
             IN  /\ response.sw = \h9000 /\ ReadRecordResponse(response.data) # None
                 /\ Filled(parsed) # None
                 /\ store' = Unwrap(Filled(parsed))
                 /\ oda_input' = IF step.in_oda THEN oda_input \o oda_input_bytes(parsed, step.sfi)
                                 ELSE oda_input
                 /\ UNCHANGED not_seventy
<1>4. PICK response \in Responses(read_record(step.sfi, step.record_number)) :
         \/ Lasts(response) /\ stage' = "Failed" /\ UNCHANGED store
         \/ Skips(response) /\ walk' = rest /\ stage' = "Read"
         \/ Fills(response) /\ walk' = rest /\ stage' = "Read"
  BY <1>1, <1>3 DEF ReadRecord, Fail
<1>5. Asks(\hB2, step.record_number, (8 * step.sfi) + 4, response)
  BY <1>3, <1>4, RecordSends DEF ReadRecord
<1>6. \/ response = Lost /\ seen' = seen
      \/ \E r, record : RecordHeard(r, record, card.afl[n + 1].record, step.sfi, response)
  BY <1>1, <1>3, <1>5, RecordAnswer
<1>7. card \in Cards /\ IsStore(store) /\ Kept(store) = Sent(card, n) /\ IsString(seen)
  BY <1>1, <1>3 DEF IInv, GivenOk, ShapesOk, StoreOk
<1>8. CASE Lasts(response) /\ stage' = "Failed" /\ UNCHANGED store
  <2>1. ~Early' /\ ~Walked' /\ Ended' /\ stage' # "Read" /\ stage' # "Select"
    BY <1>8 DEF Early, Walked, Ended
  <2>2. IsString(seen') /\ Len(RecordsAsked') <= Len(card'.afl)
        /\ \A i \in 1..Len(RecordsAsked') : RecordsAsked'[i] = card'.afl[i].record
    <3>1. CASE seen' = seen
      <4>1. RecordsAsked' = RecordsAsked
        BY <3>1 DEF RecordsAsked
      <4> QED
        BY <1>2, <1>7, <3>1, <4>1 DEF IInv, InOrder
    <3>2. CASE seen' # seen
      <4>1. PICK r, record : RecordHeard(r, record, card.afl[n + 1].record, step.sfi, response)
        BY <1>6, <3>2
      <4>2. seen' = Append(seen, r) /\ r.ins = \hB2 /\ RecordOf(r) = card.afl[n + 1].record
        BY <4>1 DEF RecordHeard
      <4>3. /\ IsString(seen') /\ Len(RecordsAsked') = n + 1
            /\ \A i \in 1..(n + 1) : RecordsAsked'[i] = card'.afl[i].record
        BY <1>1, <1>2, <1>3, <4>2, OneMoreAsked
      <4> QED
        BY <1>2, <1>3, <4>3
    <3> QED
      BY <3>1, <3>2
  <2>3. GivenOk' /\ ShapesOk'
    BY <1>2, <1>8, <2>1, <2>2 DEF IInv, GivenOk, ShapesOk
  <2>4. InOrder'
    BY <2>1, <2>2 DEF InOrder
  <2>5. WalkOk' /\ StoreOk' /\ SignedOk'
    BY <1>8, <2>1 DEF WalkOk, StoreOk, SignedOk
  <2>6. Sourced(store')
    BY <1>8
  <2> QED
    BY <2>3, <2>4, <2>5, <2>6 DEF IInv
<1>9. ASSUME Skips(response) \/ Fills(response)
      PROVE  \E r, record : RecordHeard(r, record, card.afl[n + 1].record, step.sfi, response)
  <2>1. Lost.sw = 0
    BY DEF Lost
  <2> QED
    BY <1>6, <1>9, <2>1
<1>10. /\ Sent(card, n + 1) = Sent(card, n) \cup {e \in Elements(card, card.afl[n + 1].record) : e[2] # <<>>}
       /\ Parts(card, n) \in Seq(Byte)
       /\ Parts(card, n + 1) = Parts(card, n) \o Part(card, card.afl[n + 1])
       /\ OddOne(card, n + 1) = (OddOne(card, n) \/ (/\ card.afl[n + 1].signed
                                                     /\ ~card.records[card.afl[n + 1].record].seventy))
  BY <1>3, <1>7, OneMorePart
<1>11. PICK at : /\ at = card.afl[n + 1].record /\ at[1] = step.sfi
                 /\ card.afl[n + 1].signed = step.in_oda
  BY <1>3 DEF StepFor
<1>12. at \in DOMAIN card.records /\ card.records[at].seventy \in BOOLEAN
  BY <1>3, <1>7, <1>11, RecordOfCard
<1>13. step.in_oda \in BOOLEAN
  BY <1>3 DEF Read
<1>14. oda_input = Parts(card, n) /\ not_seventy = OddOne(card, n)
  BY <1>1, <1>3 DEF IInv, SignedOk
<1>15. CASE Skips(response) /\ walk' = rest /\ stage' = "Read"
  <2>1. PICK r, record : RecordHeard(r, record, at, step.sfi, response)
    BY <1>9, <1>11, <1>15
  <2>2. /\ seen' = Append(seen, r) /\ r.ins = \hB2 /\ RecordOf(r) = card.afl[n + 1].record
        /\ record = card.records[at] /\ RecordIsAsDescribed(record, step.sfi)
        /\ response.data = record.bytes
    BY <1>11, <1>15, <2>1 DEF RecordHeard
  <2>3. ~record.seventy
    <3>1. ASSUME record.seventy PROVE FALSE
      <4>1. ReadRecordResponse(record.bytes)
              = Some([raw |-> record.bytes, tlv |-> Constructed(<<\h70>>, NodesOf(record.elements))])
        BY <2>2, <3>1, RecordIsRead
      <4>2. ReadRecordResponse(record.bytes) # None
        BY <4>1, OfSome
      <4> QED
        BY <1>15, <2>2, <4>2
    <3> QED
      BY <3>1
  <2>4. Elements(card, at) = {} /\ Part(card, card.afl[n + 1]) = <<>>
    BY <1>11, <2>2, <2>3 DEF Elements, Part, Contribution
  <2>5. Sent(card, n + 1) = Sent(card, n)
    BY <1>10, <1>11, <2>4
  <2>6. Parts(card, n + 1) = Parts(card, n)
    BY <1>10, <2>4, ConcatEmptySeq
  <2>7. OddOne(card, n + 1) = (OddOne(card, n) \/ step.in_oda)
    BY <1>10, <1>11, <1>12, <1>13, <2>2, <2>3 DEF OddOne
  <2>8. /\ IsStore(store') /\ Kept(store') = Sent(card, n + 1)
        /\ SignedAs(oda_input', not_seventy', card, n + 1)
    BY <1>2, <1>7, <1>14, <1>15, <2>5, <2>6, <2>7 DEF SignedAs
  <2>21. stage' = "Read" /\ walk' = rest
    BY <1>15
  <2>22. seen' = Append(seen, r) /\ r.ins = \hB2 /\ RecordOf(r) = card.afl[n + 1].record
    BY <2>2
  <2>23. IsStore(store') /\ Kept(store') = Sent(card, n + 1) /\ SignedAs(oda_input', not_seventy', card, n + 1)
    BY <2>8
  <2>24. IInv'
    BY <1>1, <1>2, <1>3a, <2>21, <2>22, <2>23, ReadOn
  <2>25. Sourced(store')
    BY <1>15
  <2> QED
    BY <2>24, <2>25
<1>16. CASE Fills(response) /\ walk' = rest /\ stage' = "Read"
  <2>1. PICK r, record : RecordHeard(r, record, at, step.sfi, response)
    BY <1>9, <1>11, <1>16
  <2>2. /\ seen' = Append(seen, r) /\ r.ins = \hB2 /\ RecordOf(r) = card.afl[n + 1].record
        /\ record = card.records[at] /\ RecordIsAsDescribed(record, step.sfi)
        /\ response.data = record.bytes
    BY <1>11, <1>16, <2>1 DEF RecordHeard
  <2>3. record.seventy
    <3>1. ASSUME ~record.seventy PROVE FALSE
      <4>1. ReadRecordResponse(record.bytes) = None
        BY <2>2, <3>1, OtherRecordIsNone
      <4> QED
        BY <1>16, <2>2, <4>1
    <3> QED
      BY <3>1
  <2>4. PICK parsed : ReadRecordResponse(record.bytes) = Some(parsed)
    <3>1. ReadRecordResponse(record.bytes)
            = Some([raw |-> record.bytes, tlv |-> Constructed(<<\h70>>, NodesOf(record.elements))])
      BY <2>2, <2>3, RecordIsRead
    <3> QED
      BY <3>1
  <2>5. Unwrap(ReadRecordResponse(response.data)) = parsed
    BY <2>2, <2>4, OfSome
  <2>6. /\ Filled(parsed) # None /\ store' = Unwrap(Filled(parsed)) /\ not_seventy' = not_seventy
        /\ oda_input' = IF step.in_oda THEN oda_input \o oda_input_bytes(parsed, step.sfi) ELSE oda_input
    BY <1>16, <2>5
  <2>7. /\ IsStore(store') /\ Sourced(store')
        /\ Kept(store') = Kept(store) \cup {e \in Range(record.elements) : e[2] # <<>>}
    BY <1>7, <2>2, <2>3, <2>4, <2>6, RecordFills
  <2>8. Elements(card, at) = Range(record.elements)
    BY <2>2, <2>3 DEF Elements
  <2>9. Kept(store') = Sent(card, n + 1)
    BY <1>7, <1>10, <1>11, <2>7, <2>8
  <2>10. oda_input' = Parts(card, n + 1) /\ not_seventy' = OddOne(card, n + 1)
    <3>1. oda_input_bytes(parsed, step.sfi) = RecordEnd(card, at)
      BY <1>7, <1>11, <1>12, <2>2, <2>3, <2>4, RecordSigns
    <3>2. Part(card, card.afl[n + 1]) = IF step.in_oda THEN RecordEnd(card, at) ELSE <<>>
      BY <1>11, <2>2, <2>3 DEF Part, Contribution
    <3>3. Parts(card, n) \o <<>> = Parts(card, n)
      BY <1>10, ConcatEmptySeq
    <3>4. oda_input' = Parts(card, n + 1)
      <4>1. CASE step.in_oda
        BY <1>10, <1>14, <2>6, <3>1, <3>2, <4>1
      <4>2. CASE ~step.in_oda
        BY <1>10, <1>14, <2>6, <3>2, <3>3, <4>2
      <4> QED
        BY <4>1, <4>2
    <3>5. OddOne(card, n + 1) = OddOne(card, n)
      BY <1>10, <1>11, <2>2, <2>3 DEF OddOne
    <3> QED
      BY <1>14, <2>6, <3>4, <3>5
  <2>11. SignedAs(oda_input', not_seventy', card, n + 1)
    BY <1>2, <2>10 DEF SignedAs
  <2>21. stage' = "Read" /\ walk' = rest
    BY <1>16
  <2>22. seen' = Append(seen, r) /\ r.ins = \hB2 /\ RecordOf(r) = card.afl[n + 1].record
    BY <2>2
  <2>23. IsStore(store') /\ Kept(store') = Sent(card, n + 1) /\ SignedAs(oda_input', not_seventy', card, n + 1)
    BY <2>7, <2>9, <2>11
  <2>24. IInv'
    BY <1>1, <1>2, <1>3a, <2>21, <2>22, <2>23, ReadOn
  <2> QED
    BY <2>7, <2>24
<1> HIDE DEF Lasts, Skips, Fills
<1> QED
  BY <1>4, <1>8, <1>15, <1>16
-----------------------------------------------------------------------------
(* What comes after the last record.                                        *)

\* What a step after the last record leaves alone.
Standing == UNCHANGED <<card, terminal, inputs, oda_input, not_seventy, candidates, pdol_data>>

\* A step after the last record that leaves the store as it is...
LEMMA StoreStays ==
    ASSUME IInv, Sourced(store), Walked \/ (stage = "Read" /\ walk = <<>>), Quiet, Standing,
           Walked' \/ stage' = "Failed", store' = store
    PROVE  IInv' /\ Sourced(store')
<1>1. IsStore(store') /\ Kept(store') = Kept(store)
  BY DEF IInv, ShapesOk
<1>2. UNCHANGED <<card, terminal, inputs, oda_input, not_seventy, candidates, pdol_data>>
  BY DEF Standing
<1>3. IInv'
  BY <1>1, <1>2, LateStep
<1> QED
  BY <1>3

\* ... and one that puts an element of the terminal's own into it.
LEMMA StoreGrows ==
    ASSUME IInv, Sourced(store), Walked, Quiet, Standing, Walked' \/ stage' = "Failed",
           NEW tag \in OwnTags, NEW value, InsertPrimitive(store, tag, value, "Terminal") = Some(store')
    PROVE  IInv' /\ Sourced(store')
<1>1. IsStore(store)
  BY DEF IInv, ShapesOk
<1>2. PICK s : s = store'
  OBVIOUS
<1>3. IsStore(s) /\ Sourced(s) /\ Kept(s) = Kept(store)
  <2>1. InsertPrimitive(store, tag, value, "Terminal") = Some(s)
    BY <1>2
  <2> QED
    BY <1>1, <2>1, InsertKeepsSources
<1>4. UNCHANGED <<card, terminal, inputs, oda_input, not_seventy, candidates, pdol_data>>
  BY DEF Standing
<1>5. IInv'
  BY <1>2, <1>3, <1>4, LateStep
<1> QED
  BY <1>2, <1>3, <1>5

\* Processing restrictions keep the invariant.
LEMMA ProcessRestrictionsStep ==
    ASSUME IInv, Sourced(store), ProcessRestrictions
    PROVE  IInv' /\ Sourced(store')
<1>1. stage = "Read" /\ walk = <<>>
  BY DEF ProcessRestrictions
<1>2. Standing /\ store' = store /\ seen' = seen
  BY DEF ProcessRestrictions, Standing, given, selection, discovery, reading
<1>3. stage' = "Verify" \/ stage' = "Failed"
  BY DEF ProcessRestrictions, Fail
<1>4. Walked' \/ stage' = "Failed"
  BY <1>3 DEF Walked
<1>5. Quiet
  BY <1>2, NothingIsQuiet DEF IInv, ShapesOk
<1> QED
  BY <1>1, <1>2, <1>4, <1>5, StoreStays

\* So does doing nothing.
LEMMA OverStep ==
    ASSUME IInv, Sourced(store), UNCHANGED vars
    PROVE  IInv' /\ Sourced(store')
<1>1. UNCHANGED <<stage, card, terminal, inputs, candidates, pdol_data, walk, store, oda_input,
                  not_seventy, seen>>
  BY DEF vars, given, selection, discovery, reading
<1>2. UNCHANGED <<RecordsAsked, Early, Ended, Walked>>
  BY <1>1 DEF RecordsAsked, Early, Ended, Walked
<1>3. GivenOk' /\ ShapesOk' /\ InOrder'
  BY <1>1, <1>2 DEF IInv, GivenOk, ShapesOk, InOrder
<1>4. WalkOk' /\ StoreOk' /\ SignedOk'
  BY <1>1, <1>2 DEF IInv, WalkOk, StoreOk, SignedOk
<1> QED
  BY <1>1, <1>3, <1>4 DEF IInv

\* What VERIFY sends.
LEMMA PinSends ==
    ASSUME NEW pin, Send(verify_plaintext_pin(pin)), NEW response \in Responses(verify_plaintext_pin(pin))
    PROVE  Asks(\h20, 0, \h80, response)
<1>1. PICK command : command = verify_plaintext_pin(pin)
  OBVIOUS
<1>2. CASE plaintext_pin_block(pin) = None
  <2>1. command = None
    BY <1>1, <1>2 DEF verify_plaintext_pin, Then
  <2>2. command \in {None, Some(Command(0, \h20, 0, \h80, <<>>, None))}
    BY <2>1
  <2> QED
    BY <1>1, <2>2, CommandSent, ShortStrings
<1>3. CASE plaintext_pin_block(pin) # None
  <2>1. PICK block : IsString(block) /\ plaintext_pin_block(pin) = Some(block)
    <3> DEFINE nibble(i) == CASE i = 1 -> 2
                     [] i = 2 -> Len(pin)
                     [] i \in 3..(Len(pin) + 2) -> pin[i - 2]
                     [] OTHER -> 15
    <3>1. PICK block : block = [i \in 1..8 |-> (16 * nibble((2 * i) - 1)) + nibble(2 * i)]
      OBVIOUS
    <3>2. plaintext_pin_block(pin) = Some(block)
      BY <1>3, <3>1 DEF plaintext_pin_block, Check
    <3>3. block = [i \in 1..8 |-> block[i]]
      BY <3>1
    <3> QED
      BY <3>2, <3>3, OfItsRange
  <2>2. command = Some(verify("PlaintextPin", block, FALSE))
    BY <1>1, <1>3, <2>1, OfSome DEF verify_plaintext_pin, Then
  <2>3. command = Some(Command(0, \h20, 0, \h80, block, None))
    BY <2>2 DEF verify, VerifyP2
  <2> QED
    BY <1>1, <2>1, <2>3, CommandSent
<1> QED
  BY <1>2, <1>3

\* Presenting the PIN keeps the invariant.
LEMMA PresentPinStep ==
    ASSUME IInv, Sourced(store), PresentPin
    PROVE  IInv' /\ Sourced(store')
<1>1. stage = "Verify"
  BY DEF PresentPin
<1>2. Standing /\ store' = store
  BY DEF PresentPin, Standing, given, selection, discovery, reading
<1>3. PICK response \in Responses(verify_plaintext_pin(inputs.pin)) :
         stage' = IF response = Lost THEN "Failed" ELSE "Verified"
  BY DEF PresentPin
<1>4. Walked /\ (Walked' \/ stage' = "Failed")
  BY <1>1, <1>3 DEF Walked
<1>5. Asks(\h20, 0, \h80, response)
  BY <1>3, PinSends DEF PresentPin
<1>6. Quiet
  BY <1>5, QuietCommand DEF IInv, ShapesOk
<1> QED
  BY <1>2, <1>4, <1>6, StoreStays
\* The terminal's own elements are primitive: one that is not there is kept.
LEMMA OwnIsKept ==
    ASSUME NEW tag \in {<<\h9F, \h34>>, <<\h8A>>}, Missing(tag), NEW value
    PROVE  InsertPrimitive(store, tag, value, "Terminal")
             = Some(Unwrap(InsertPrimitive(store, tag, value, "Terminal")))
<1>1. ~IsConstructed(tag)
  <2>1. <<\h9F, \h34>>[1] = 159 /\ <<\h8A>>[1] = 138
    OBVIOUS
  <2>2. ~HasBit(159, 6) /\ ~HasBit(138, 6)
    BY DEF HasBit
  <2> QED
    BY <2>1, <2>2 DEF IsConstructed
<1>2. tag \notin DOMAIN store
  BY DEF Missing
<1>3. CASE value = <<>>
  BY <1>1, <1>3, OfSome DEF InsertPrimitive
<1>4. CASE value # <<>>
  <2>1. PICK s : s = With(store, tag, value, "Terminal")
    OBVIOUS
  <2>2. InsertPrimitive(store, tag, value, "Terminal") = Some(s)
    BY <1>1, <1>2, <1>4, <2>1 DEF InsertPrimitive, With, Check
  <2> QED
    BY <2>2, OfSome
<1> QED
  BY <1>3, <1>4

\* Cardholder verification keeps the invariant: its results are the terminal's own.
LEMMA CardholderVerificationStep ==
    ASSUME IInv, Sourced(store), CardholderVerification
    PROVE  IInv' /\ Sourced(store')
<1>1. Walked
  BY DEF CardholderVerification, Walked
<1>2. Standing /\ seen' = seen
  BY DEF CardholderVerification, Standing, given, selection, discovery, reading
<1>3. Quiet
  BY <1>2, NothingIsQuiet DEF IInv, ShapesOk
<1>4. \/ stage' = "Failed" /\ store' = store
      \/ stage' = "Risk" /\ ~Missing(<<\h9F, \h34>>) /\ store' = store
      \/ \E results : /\ stage' = "Risk" /\ Missing(<<\h9F, \h34>>)
                      /\ store' = Unwrap(InsertPrimitive(store, <<\h9F, \h34>>, results, "Terminal"))
  BY DEF CardholderVerification, Fail
<1>5. CASE store' = store
  <2>1. Walked' \/ stage' = "Failed"
    BY <1>4 DEF Walked
  <2> QED
    BY <1>1, <1>2, <1>3, <1>5, <2>1, StoreStays
<1>6. CASE store' # store
  <2>1. PICK results : /\ stage' = "Risk" /\ Missing(<<\h9F, \h34>>)
                       /\ store' = Unwrap(InsertPrimitive(store, <<\h9F, \h34>>, results, "Terminal"))
    BY <1>4, <1>6
  <2>2. InsertPrimitive(store, <<\h9F, \h34>>, results, "Terminal") = Some(store')
    BY <2>1, OwnIsKept
  <2>3. <<\h9F, \h34>> \in OwnTags /\ Walked'
    BY <2>1 DEF OwnTags, Walked
  <2> QED
    BY <1>1, <1>2, <1>3, <2>2, <2>3, StoreGrows
<1> QED
  BY <1>5, <1>6

\* The host keeps the invariant: its response code is the terminal's own.
LEMMA HostStep ==
    ASSUME IInv, Sourced(store), Host
    PROVE  IInv' /\ Sourced(store')
<1>1. Walked /\ Walked'
  BY DEF Host, Walked
<1>2. Standing /\ seen' = seen
  BY DEF Host, Standing, given, selection, discovery, reading
<1>3. Quiet
  BY <1>2, NothingIsQuiet DEF IInv, ShapesOk
<1>4. PICK code : store' = Unwrap(IF Missing(<<\h8A>>) THEN InsertPrimitive(store, <<\h8A>>, code, "Terminal")
                                  ELSE Some(store))
  BY DEF Host
<1>5. CASE Missing(<<\h8A>>)
  <2>1. store' = Unwrap(InsertPrimitive(store, <<\h8A>>, code, "Terminal"))
    BY <1>4, <1>5
  <2>2. InsertPrimitive(store, <<\h8A>>, code, "Terminal") = Some(store')
    BY <1>5, <2>1, OwnIsKept
  <2>3. <<\h8A>> \in OwnTags
    BY DEF OwnTags
  <2> QED
    BY <1>1, <1>2, <1>3, <2>2, <2>3, StoreGrows
<1>6. CASE ~Missing(<<\h8A>>)
  <2>1. store' = store
    BY <1>4, <1>6, OfSome
  <2> QED
    BY <1>1, <1>2, <1>3, <2>1, StoreStays
<1> QED
  BY <1>5, <1>6

\* What GET DATA sends.
LEMMA CounterSends ==
    ASSUME NEW tag, Send(get_data(tag)), NEW response \in Responses(get_data(tag))
    PROVE  \E p1, p2 : Asks(\hCA, p1, p2, response)
<1>1. PICK command, p1, p2 : command = get_data(tag) /\ p1 = tag[1] /\ p2 = tag[2]
  OBVIOUS
<1>2. command \in {None, Some(Command(\h80, \hCA, p1, p2, <<>>, Le0))}
  BY <1>1 DEF get_data, Check
<1>3. Asks(\hCA, p1, p2, response)
  <2>1. Send(command) /\ response \in Responses(command)
    BY <1>1
  <2>2. IsString(<<>>)
    BY ShortStrings
  <2> QED
    BY <1>2, <2>1, <2>2, CommandSent
<1> QED
  BY <1>3

\* GET DATA keeps the invariant: the counters are the terminal's own.
LEMMA CounterStored ==
    ASSUME IInv, Sourced(store), Walked, Standing, Walked' \/ stage' = "Failed",
           NEW tag \in OwnTags, Send(get_data(tag)), NEW response \in Responses(get_data(tag)),
           \/ store' = store
           \/ Stored(tag, response) # None /\ store' = Unwrap(Stored(tag, response))
    PROVE  IInv' /\ Sourced(store')
<1>1. PICK p1, p2 : Asks(\hCA, p1, p2, response)
  BY CounterSends
<1>2. Quiet
  BY <1>1, QuietCommand DEF IInv, ShapesOk
<1>3. CASE store' = store
  BY <1>2, <1>3, StoreStays
<1>4. CASE Stored(tag, response) # None /\ store' = Unwrap(Stored(tag, response))
  <2>3. PICK bytes : Stored(tag, response) = InsertPrimitive(store, tag, bytes, "Terminal")
    BY <1>4 DEF Stored, Then
  <2>4. IsStore(store)
    BY DEF IInv, ShapesOk
  <2>5. PICK s : InsertPrimitive(store, tag, bytes, "Terminal") = Some(s)
    BY <1>4, <2>3, <2>4, InsertOne
  <2>6. InsertPrimitive(store, tag, bytes, "Terminal") = Some(store')
    BY <1>4, <2>3, <2>5, OfSome
  <2> QED
    BY <1>2, <2>6, StoreGrows
<1> QED
  BY <1>3, <1>4

\* The one counter...
LEMMA GetAtcStep ==
    ASSUME IInv, Sourced(store), GetAtc
    PROVE  IInv' /\ Sourced(store')
<1>1. Walked
  BY DEF GetAtc, Walked
<1>2. Standing
  BY DEF GetAtc, Standing, given, selection, discovery, reading
<1>3. PICK tag : tag = <<\h9F, \h36>>
  OBVIOUS
<1>5. /\ Send(get_data(tag))
      /\ \E response \in Responses(get_data(tag)) :
           /\ \/ store' = store
              \/ Stored(tag, response) # None /\ store' = Unwrap(Stored(tag, response))
           /\ stage' = "LastOnline" \/ stage' = "Failed"
  BY <1>3 DEF GetAtc, GetData, Fail
<1>6. tag \in OwnTags /\ (Walked' \/ stage' = "Failed")
  BY <1>3, <1>5 DEF OwnTags, Walked
<1> QED
  BY <1>1, <1>2, <1>5, <1>6, CounterStored

\* ... and the other.
LEMMA GetLastOnlineAtcStep ==
    ASSUME IInv, Sourced(store), GetLastOnlineAtc
    PROVE  IInv' /\ Sourced(store')
<1>1. Walked
  BY DEF GetLastOnlineAtc, Walked
<1>2. Standing
  BY DEF GetLastOnlineAtc, Standing, given, selection, discovery, reading
<1>3. PICK tag : tag = <<\h9F, \h13>>
  OBVIOUS
<1>5. /\ Send(get_data(tag))
      /\ \E response \in Responses(get_data(tag)) :
           /\ \/ store' = store
              \/ Stored(tag, response) # None /\ store' = Unwrap(Stored(tag, response))
           /\ stage' = "FirstAc" \/ stage' = "Failed"
  BY <1>3 DEF GetLastOnlineAtc, GetData, ManageRisk, Fail
<1>6. tag \in OwnTags /\ (Walked' \/ stage' = "Failed")
  BY <1>3, <1>5 DEF OwnTags, Walked
<1> QED
  BY <1>1, <1>2, <1>5, <1>6, CounterStored
-----------------------------------------------------------------------------
(* The GENERATE AC commands, and the invariant.                             *)

\* What GENERATE AC sends.
LEMMA AcSends ==
    ASSUME NEW request, NEW dol, IsString(Resolve(dol, [Ctx EXCEPT !.tvr = WithFlags(TvrLayout, TcHash(dol).tvr),
                                                                    !.tc_hash_value = TcHash(dol).hash])),
           Send(AcCommand(request, dol)), NEW response \in Responses(AcCommand(request, dol))
    PROVE  Asks(\hAE, (64 * CryptogramBits[request]) + (8 * SignatureBits["none"]), 0, response)
<1>1. PICK ctx : ctx = [Ctx EXCEPT !.tvr = WithFlags(TvrLayout, TcHash(dol).tvr),
                                   !.tc_hash_value = TcHash(dol).hash]
  OBVIOUS
<1>2. PICK data : data = Resolve(dol, ctx)
  OBVIOUS
<1>3. IsString(data)
  BY <1>1, <1>2
<1>4. PICK command, p1 : /\ command = AcCommand(request, dol)
                         /\ p1 = (64 * CryptogramBits[request]) + (8 * SignatureBits["none"])
  OBVIOUS
<1>5. command = Some(Command(\h80, \hAE, p1, 0, data, Le0))
  BY <1>1, <1>2, <1>4 DEF AcCommand, generate_ac
<1>6. command \in {None, Some(Command(\h80, \hAE, p1, 0, data, Le0))}
  BY <1>5
<1>7. Send(command) /\ response \in Responses(command)
  BY <1>4
<1>8. Asks(\hAE, p1, 0, response)
  BY <1>3, <1>6, <1>7, CommandSent
<1> QED
  BY <1>4, <1>8

\* GENERATE AC with a list of the card's.
LEMMA GenerateIsQuiet ==
    ASSUME IInv, Sourced(store), stage # "Failed", NEW tag \in {<<\h8C>>, <<\h8D>>}, NEW request,
           \/ seen' = seen
           \/ /\ Cdol(tag) # None
              /\ Send(AcCommand(request, Unwrap(Cdol(tag))))
              /\ \E response \in Responses(AcCommand(request, Unwrap(Cdol(tag)))) : TRUE
    PROVE  Quiet
<1>1. CASE seen' = seen
  BY <1>1, NothingIsQuiet DEF IInv, ShapesOk
<1>2. CASE seen' # seen
  <2>1. Cdol(tag) # None
    BY <1>2
  <2>2. tag \notin OwnTags
    BY DEF OwnTags
  <2>3. Value(tag) # None
    BY <2>1 DEF Cdol, Then
  <2>4. PICK bytes \in Seq(Byte) : Value(tag) = Some(bytes)
    BY <2>2, <2>3, HeldInBytes
  <2>5. Cdol(tag) = ParseDol(bytes)
    BY <2>3, <2>4, OfSome DEF Cdol, Then
  <2>6. PICK fields \in Seq(Field) : Cdol(tag) = Some(fields)
    BY <2>1, <2>5, ParseDolGivesFields
  <2>7. Unwrap(Cdol(tag)) = fields
    BY <2>6, OfSome
  <2>8. PICK ctx : ctx = [Ctx EXCEPT !.tvr = WithFlags(TvrLayout, TcHash(fields).tvr),
                                     !.tc_hash_value = TcHash(fields).hash]
    OBVIOUS
  <2>9. IsString(Resolve(fields, ctx))
    BY AnswerIsString
  <2>10. PICK response \in Responses(AcCommand(request, fields)) : Send(AcCommand(request, fields))
    BY <1>2, <2>7
  <2>11. PICK p1 : Asks(\hAE, p1, 0, response)
    BY <2>8, <2>9, <2>10, AcSends
  <2>12. IsString(seen)
    BY DEF IInv, ShapesOk
  <2>13. PICK ins : ins = \hAE /\ ins # \hA8 /\ ins # \hB2 /\ Asks(ins, p1, 0, response)
    BY <2>11
  <2> QED
    BY <2>12, <2>13, QuietCommand
<1> QED
  BY <1>1, <1>2

\* The first GENERATE AC keeps the invariant...
LEMMA FirstGenerateAcStep ==
    ASSUME IInv, Sourced(store), FirstGenerateAc
    PROVE  IInv' /\ Sourced(store')
<1>1. Walked /\ stage # "Failed"
  BY DEF FirstGenerateAc, Walked
<1>2. Standing /\ store' = store
  BY DEF FirstGenerateAc, Standing, given, selection, discovery, reading
<1>3. PICK tag : tag = <<\h8C>>
  OBVIOUS
<1>4. /\ stage' = "Failed" \/ stage' = "Host" \/ stage' = "Done"
      /\ \/ seen' = seen
         \/ /\ Cdol(tag) # None
            /\ Send(AcCommand(Decision, Unwrap(Cdol(tag))))
            /\ \E response \in Responses(AcCommand(Decision, Unwrap(Cdol(tag)))) : TRUE
  BY <1>3 DEF FirstGenerateAc, Generate, Fail
<1>5. Quiet
  BY <1>1, <1>3, <1>4, GenerateIsQuiet
<1>6. Walked' \/ stage' = "Failed"
  BY <1>4 DEF Walked
<1> QED
  BY <1>1, <1>2, <1>5, <1>6, StoreStays

\* ... and the second...
LEMMA SecondGenerateAcStep ==
    ASSUME IInv, Sourced(store), SecondGenerateAc
    PROVE  IInv' /\ Sourced(store')
<1>1. Walked /\ stage # "Failed"
  BY DEF SecondGenerateAc, Walked
<1>2. Standing /\ store' = store
  BY DEF SecondGenerateAc, Standing, given, selection, discovery, reading
<1>3. PICK tag : tag = <<\h8D>>
  OBVIOUS
<1>4. /\ stage' = "Failed" \/ stage' = "Done"
      /\ \E request :
           \/ seen' = seen
           \/ /\ Cdol(tag) # None
              /\ Send(AcCommand(request, Unwrap(Cdol(tag))))
              /\ \E response \in Responses(AcCommand(request, Unwrap(Cdol(tag)))) : TRUE
  BY <1>3 DEF SecondGenerateAc, Generate, Fail
<1>5. Quiet
  BY <1>1, <1>3, <1>4, GenerateIsQuiet
<1>6. Walked' \/ stage' = "Failed"
  BY <1>4 DEF Walked
<1> QED
  BY <1>1, <1>2, <1>5, <1>6, StoreStays

\* ... and EXTERNAL AUTHENTICATE.
LEMMA OnlineCardAuthenticationStep ==
    ASSUME IInv, Sourced(store), OnlineCardAuthentication
    PROVE  IInv' /\ Sourced(store')
<1>1. Walked
  BY DEF OnlineCardAuthentication, Walked
<1>2. Standing /\ store' = store
  BY DEF OnlineCardAuthentication, Standing, given, selection, discovery, reading
<1>3. PICK data \in Seq(Byte) : data = card.issuer_data
  BY CardsAssumption DEF IInv, GivenOk
<1>4. PICK command : command = external_authenticate(data)
  OBVIOUS
<1>5. Send(command) /\ \E response \in Responses(command) : stage' = "Failed" \/ stage' = "Scripts"
  BY <1>3, <1>4 DEF OnlineCardAuthentication, Fail
<1>6. PICK response \in Responses(command) : TRUE
  BY <1>5
<1>7. command \in {None, Some(Command(0, \h82, 0, 0, data, None))}
  BY <1>4 DEF external_authenticate, Check
<1>8. IsString(data)
  BY <1>3, IsStringAnyhow
<1>9. Asks(\h82, 0, 0, response)
  BY <1>5, <1>6, <1>7, <1>8, CommandSent
<1>10. Quiet
  BY <1>9, QuietCommand DEF IInv, ShapesOk
<1>11. Walked' \/ stage' = "Failed"
  BY <1>5 DEF Walked
<1> QED
  BY <1>1, <1>2, <1>10, <1>11, StoreStays

\* The invariant holds before the first command.
LEMMA InitHolds == ASSUME Init PROVE IInv /\ Sourced(store)
<1>1. seen = <<>> /\ candidates = <<>> /\ pdol_data = <<>> /\ stage = "Pse" /\ oda_input = <<>>
      /\ not_seventy = FALSE
  BY DEF Init
<1>2. store = [tag \in {<<\h9F, \h37>>} |-> [value |-> inputs.unpredictable_number, source |-> "Terminal"]]
  BY DEF Init
<1>3. GivenOk
  BY DEF Init, GivenOk
<1>4. IsString(<<>>) /\ <<>> \in Seq(Seq(Byte))
  BY ShortStrings
<1>5. IsStore(store) /\ Sourced(store) /\ Kept(store) = {}
  <2>1. PICK one : one = [value |-> inputs.unpredictable_number, source |-> "Terminal"]
    OBVIOUS
  <2>2. PICK tag : tag = <<\h9F, \h37>> /\ tag \in OwnTags
    BY DEF OwnTags
  <2>3. store = [t \in {tag} |-> one]
    BY <1>2, <2>1, <2>2
  <2>4. DOMAIN store = {tag} /\ store[tag] = one /\ one.source = "Terminal"
    BY <2>1, <2>3
  <2>5. IsStore(store)
    BY <2>3 DEF IsStore
  <2>6. Sourced(store)
    BY <2>2, <2>4 DEF Sourced
  <2>7. {t \in DOMAIN store : store[t].source = "Record"} = {}
    BY <2>4
  <2>8. Kept(store) = {}
    BY <2>7 DEF Kept
  <2> QED
    BY <2>5, <2>6, <2>8
<1>6. Early /\ ~Walked /\ stage # "Read"
  BY <1>1 DEF Early, Walked
<1>7. ShapesOk
  BY <1>1, <1>4, <1>5, <1>6 DEF ShapesOk
<1>8. ~OptionsAsked(seen)
  BY <1>1 DEF OptionsAsked
<1>9. RecordsAsked = <<>> /\ Len(RecordsAsked) = 0
  <2>1. PICK f : f = [i \in DOMAIN seen |->
              IF seen[i].ins = \hB2 /\ \E k \in 1..i : seen[k].ins = \hA8
              THEN <<RecordOf(seen[i])>> ELSE <<>>]
    OBVIOUS
  <2>2. f = <<>>
    BY <1>1, <2>1
  <2>3. RecordsAsked = <<>>
    BY <2>1, <2>2, JoinedNone DEF RecordsAsked
  <2> QED
    BY <2>3
<1>10. InOrder
  <2>1. PICK m \in Nat : m = Len(card.afl)
    <3>1. card.afl \in Seq(Step)
      BY <1>3, OptionsOfCard DEF GivenOk
    <3> QED
      BY <3>1, LenProperties
  <2> QED
    BY <1>1, <1>6, <1>8, <1>9, <2>1 DEF InOrder
<1>11. WalkOk /\ SignedOk
  BY <1>6 DEF WalkOk, SignedOk
<1>12. StoreOk
  BY <1>5, <1>9, NoParts DEF StoreOk
<1> QED
  BY <1>3, <1>5, <1>7, <1>10, <1>11, <1>12 DEF IInv

\* The inductive invariant.
CardInv == IInv /\ Sourced(store)

\* Nothing is stored before the first record.
LEMMA EarlyStoreStays ==
    ASSUME SelectPse \/ ReadDirectory \/ SelectAid \/ Select \/ GetProcessingOptions
    PROVE  store' = store
<1>1. CASE SelectPse
  BY <1>1 DEF SelectPse, Discovering
<1>2. CASE ReadDirectory
  BY <1>2 DEF ReadDirectory, Discovering
<1>3. CASE SelectAid
  BY <1>3 DEF SelectAid, Discovering
<1>4. CASE Select
  BY <1>4 DEF Select
<1>5. CASE GetProcessingOptions
  BY <1>5 DEF GetProcessingOptions
<1> QED
  BY <1>1, <1>2, <1>3, <1>4, <1>5

\* Every step keeps the invariant.
LEMMA NextKeeps == ASSUME CardInv, [Next]_vars PROVE CardInv'
<1> USE DEF CardInv
<1>1. CASE SelectPse
  BY <1>1, SelectPseStep, EarlyStoreStays
<1>2. CASE ReadDirectory
  BY <1>2, ReadDirectoryStep, EarlyStoreStays
<1>3. CASE SelectAid
  BY <1>3, SelectAidStep, EarlyStoreStays
<1>4. CASE Select
  BY <1>4, SelectStep, EarlyStoreStays
<1>5. CASE GetProcessingOptions
  BY <1>5, GetProcessingOptionsStep, EarlyStoreStays
<1>6. CASE ReadRecord
  BY <1>6, ReadRecordStep
<1>7. CASE ProcessRestrictions
  BY <1>7, ProcessRestrictionsStep
<1>8. CASE PresentPin
  BY <1>8, PresentPinStep
<1>9. CASE CardholderVerification
  BY <1>9, CardholderVerificationStep
<1>10. CASE GetAtc
  BY <1>10, GetAtcStep
<1>11. CASE GetLastOnlineAtc
  BY <1>11, GetLastOnlineAtcStep
<1>12. CASE FirstGenerateAc
  BY <1>12, FirstGenerateAcStep
<1>13. CASE OnlineCardAuthentication
  BY <1>13, OnlineCardAuthenticationStep
<1>14. CASE Host
  BY <1>14, HostStep
<1>15. CASE SecondGenerateAc
  BY <1>15, SecondGenerateAcStep
<1>16. CASE Over \/ UNCHANGED vars
  BY <1>16, OverStep DEF Over
<1> QED
  BY <1>1, <1>2, <1>3, <1>4, <1>5, <1>6, <1>7, <1>8, <1>9, <1>10, <1>11, <1>12, <1>13, <1>14,
     <1>15, <1>16 DEF Next

\* The inductive invariant of one application: the records asked for are the
\* first of those the card's locator lists, what is left of the walk is the rest
\* of them, the store holds what the records so far held (insert_tlv), the input
\* for data authentication is what they had signed (oda_input_bytes), and all
\* that is in the store is from a record or is one of five tags of the
\* terminal's own.
THEOREM CardInvAlways == Spec => []CardInv
<1>1. Init => CardInv
  BY InitHolds DEF CardInv
<1>2. CardInv /\ [Next]_vars => CardInv'
  BY NextKeeps
<1> QED
  BY <1>1, <1>2, PTL DEF Spec
-----------------------------------------------------------------------------
(* What the invariant says.                                                 *)

\* What is asked for is a front of what is listed, and all of it in the end.
LEMMA AskedFollowsTheLocator == ASSUME CardInv PROVE ReadsFollowTheLocator
<1>1. PICK n, m \in Nat : n = Len(RecordsAsked) /\ m = Len(card.afl) /\ n <= m
  BY AskedLength DEF CardInv
<1>2. PICK asks, W : asks = RecordsAsked /\ asks \in Seq(W)
  <2>1. PICK W : AskedIn(seen) \in Seq(W)
    BY AskedType DEF CardInv, IInv, ShapesOk
  <2>2. RecordsAsked = AskedIn(seen)
    BY DEF RecordsAsked, AskedIn
  <2> QED
    BY <2>1, <2>2
<1>3. PICK afl : afl = card.afl /\ afl \in Seq(Step)
  BY OptionsOfCard DEF CardInv, IInv, GivenOk
<1>4. PICK listed : listed = [i \in DOMAIN afl |-> afl[i].record]
  OBVIOUS
<1>5. DOMAIN afl = 1..m /\ Len(asks) = n
  BY <1>1, <1>2, <1>3, LenProperties
<1>6. PICK U : U = W \cup {afl[i].record : i \in 1..m}
  OBVIOUS
<1>7. listed \in Seq(U) /\ Len(listed) = m
  <2>1. \A i \in 1..m : afl[i].record \in U
    BY <1>6
  <2>2. listed \in [1..m -> U]
    BY <1>4, <1>5, <2>1
  <2> QED
    BY <2>2
<1>8. asks \in Seq(U)
  BY <1>2, <1>6, SeqMonotonic
<1>9. \A i \in 1..n : asks[i] = listed[i]
  <2>1. \A i \in 1..n : asks[i] = card.afl[i].record
    BY <1>1, <1>2 DEF CardInv, IInv, InOrder
  <2>2. \A i \in 1..n : i \in 1..m
    BY <1>1
  <2> QED
    BY <1>3, <1>4, <1>5, <2>1, <2>2
<1>10. IsPrefix(asks, listed)
  <2>1. PICK head, front : head = SubSeq(asks, 1, n) /\ front = SubSeq(listed, 1, n)
    OBVIOUS
  <2>2. head \in Seq(U) /\ Len(head) = n /\ \A i \in 1..n : head[i] = asks[i]
    BY <1>5, <1>8, <2>1, SubSeqProperties
  <2>3. front \in Seq(U) /\ Len(front) = n /\ \A i \in 1..n : front[i] = listed[i]
    BY <1>1, <1>7, <2>1, SubSeqProperties
  <2>4. head = front
    BY <1>9, <2>2, <2>3, SeqEqual
  <2> QED
    BY <1>1, <1>5, <1>7, <2>1, <2>4 DEF IsPrefix
<1>11. Walked => asks = listed
  <2> SUFFICES ASSUME Walked PROVE asks = listed
    OBVIOUS
  <2>1. n = m
    BY <1>1 DEF CardInv, IInv, InOrder
  <2> QED
    BY <1>5, <1>7, <1>8, <1>9, <2>1, SeqEqual
<1>12. listed = [i \in DOMAIN card.afl |-> card.afl[i].record]
  BY <1>3, <1>4
<1> QED
  BY <1>2, <1>10, <1>11, <1>12 DEF ReadsFollowTheLocator

\* The store holds what the records held.
LEMMA StoreHoldsWhatWasSent == ASSUME CardInv PROVE StoreIsWhatTheCardSent
<1> SUFFICES ASSUME stage # "Failed"
             PROVE  Kept(store) = {e \in UNION {Elements(card, r) : r \in Range(RecordsAsked)} : e[2] # <<>>}
  BY DEF StoreIsWhatTheCardSent, Kept
<1>1. PICK n, m \in Nat : n = Len(RecordsAsked) /\ m = Len(card.afl) /\ n <= m
  BY AskedLength DEF CardInv
<1>2. PICK asks, W : asks = RecordsAsked /\ asks \in Seq(W)
  <2>1. PICK W : AskedIn(seen) \in Seq(W)
    BY AskedType DEF CardInv, IInv, ShapesOk
  <2>2. RecordsAsked = AskedIn(seen)
    BY DEF RecordsAsked, AskedIn
  <2> QED
    BY <2>1, <2>2
<1>3. DOMAIN asks = 1..n /\ \A i \in 1..n : asks[i] = card.afl[i].record
  <2>1. \A i \in 1..n : asks[i] = card.afl[i].record
    BY <1>1, <1>2 DEF CardInv, IInv, InOrder
  <2>2. DOMAIN asks = 1..n
    BY <1>1, <1>2, LenProperties
  <2> QED
    BY <2>1, <2>2
<1>4. Range(asks) = {card.afl[i].record : i \in 1..n}
  BY <1>3 DEF Range
<1>5. {Elements(card, r) : r \in Range(asks)} = {Elements(card, card.afl[i].record) : i \in 1..n}
  BY <1>4, Zenon
<1>6. Kept(store) = {e \in UNION {Elements(card, r) : r \in Range(asks)} : e[2] # <<>>}
  BY <1>1, <1>5 DEF CardInv, IInv, StoreOk, Sent
<1> QED
  BY <1>2, <1>6

\* The input is what the signed records end with.
LEMMA SignedPartsAreInput ==
    ASSUME CardInv PROVE SignedInputIsRecordEnds
<1>1. CASE ~Walked
  BY <1>1 DEF SignedInputIsRecordEnds
<1>2. CASE Walked
  <2>1. PICK m \in Nat : m = Len(card.afl) /\ DOMAIN card.afl = 1..m
    <3>1. card.afl \in Seq(Step)
      BY OptionsOfCard DEF CardInv, IInv, GivenOk
    <3> QED
      BY <3>1, LenProperties
  <2>2. Len(RecordsAsked) = m
    BY <1>2, <2>1 DEF CardInv, IInv, InOrder
  <2>3. oda_input = Parts(card, m) /\ not_seventy = OddOne(card, m)
    BY <1>2, <2>2 DEF CardInv, IInv, SignedOk
  <2>4. oda_input = Joined([i \in DOMAIN card.afl |-> Part(card, card.afl[i])])
    BY <2>1, <2>3 DEF Parts
  <2>5. not_seventy <=> \E i \in DOMAIN card.afl :
                          card.afl[i].signed /\ ~card.records[card.afl[i].record].seventy
    BY <2>1, <2>3 DEF OddOne
  <2> QED
    BY <1>2, <2>4, <2>5 DEF SignedInputIsRecordEnds, Part
<1> QED
  BY <1>1, <1>2

\* The card is asked for the records its locator lists, in that order and once
\* each, and nothing is decided before the last (read_application_data,
\* iter_reads): for every locator, whatever the records hold, and whichever
\* commands the card refuses.
THEOREM ReadsFollowTheLocatorAlways == Spec => []ReadsFollowTheLocator
<1>1. CardInv => ReadsFollowTheLocator
  BY AskedFollowsTheLocator
<1> QED
  BY <1>1, CardInvAlways, PTL

\* Until the transaction fails, what the store says the card's records held is
\* exactly what the records that were read held (insert_tlv over the parsed
\* '70' templates): for all records of primitive elements, with lengths in any
\* of BER's forms.
THEOREM StoreIsWhatTheCardSentAlways == Spec => []StoreIsWhatTheCardSent
<1>1. CardInv => StoreIsWhatTheCardSent
  BY StoreHoldsWhatWasSent
<1> QED
  BY <1>1, CardInvAlways, PTL

\* Once the records are read the input for offline data authentication is what the
\* signed records end with, in the order of the locator: of a record in files 1 to 10
\* as many bytes as its elements take in shortest lengths, of the others everything;
\* and a signed record that is no template is reported (oda_input_bytes): whatever
\* form the card writes its lengths in.
THEOREM SignedInputIsRecordEndsAlways == Spec => []SignedInputIsRecordEnds
<1>1. CardInv => SignedInputIsRecordEnds
  BY SignedPartsAreInput
<1> QED
  BY <1>1, CardInvAlways, PTL
-----------------------------------------------------------------------------
(* Action codes: bytes in the records, bits in the books, and the decision. *)

\* The TVR bits that have a place in the books here.
BookNames == DOMAIN BookTvr

\* The name of a place in a row of flags.
LEMMA FlagNamed ==
    ASSUME NEW names, DOMAIN names = 1..8, NEW b \in 1..5, TvrLayout[b] = Flags(names), NEW p \in 1..8
    PROVE  FieldAt(TvrLayout, <<b, p>>)[1] = names[9 - p]
<1>1. 9 - p \in 1..8
  OBVIOUS
<1>2. Flags(names)[9 - p] = <<names[9 - p], 1>>
  BY <1>1 DEF Flags, Flag
<1>3. FieldAt(TvrLayout, <<b, p>>) = <<names[9 - p], 1>>
  BY <1>2 DEF FieldAt
<1> QED
  BY <1>3

\* The names in the rows of TvrLayout.
NamesOf == <<
  <<"offline_data_authentication_was_not_performed", "sda_failed",
    "icc_data_missing", "card_appears_on_terminal_exception_file",
    "dda_failed", "cda_failed", "sda_selected", "xda_selected">>,
  <<"icc_and_terminal_have_different_application_versions",
    "expired_application", "application_not_yet_effective",
    "requested_service_not_allowed_for_card_product", "new_card", "RFU",
    "biometric_performed_and_successful",
    "biometric_template_format_not_supported">>,
  <<"cardholder_verification_was_not_successful", "unrecognised_cvm",
    "pin_try_limit_exceeded",
    "pin_entry_required_and_pin_pad_not_present_or_not_working",
    "pin_entry_required_pin_pad_present_but_pin_was_not_entered",
    "online_cvm_captured",
    "biometric_required_but_biometric_capture_device_not_working",
    "biometric_subtype_entry_was_bypassed">>,
  <<"transaction_exceeds_floor_limit",
    "lower_consecutive_offline_limit_exceeded",
    "upper_consecutive_offline_limit_exceeded",
    "transaction_selected_randomly_for_online_processing",
    "merchant_forced_transaction_online", "biometric_try_limit_exceeded",
    "a_selected_biometric_type_not_supported",
    "xda_signature_verification_failed">>,
  <<"default_tdol_used", "issuer_authentication_failed",
    "script_processing_failed_before_final_generate_ac",
    "script_processing_failed_after_final_generate_ac", "RFU",
    "ca_ecc_key_missing", "ecc_key_recovery_failed", "RFU">> >>

\* The layout of the TVR, place by place.
LEMMA LayoutNames ==
    ASSUME NEW b \in 1..5, NEW p \in 1..8
    PROVE  FieldAt(TvrLayout, <<b, p>>)[1] = NamesOf[b][9 - p]
<1>1. DOMAIN NamesOf[b] = 1..8
  BY DEF NamesOf
<1>2. TvrLayout[b] = Flags(NamesOf[b])
  <2>1. CASE b = 1
    BY <2>1 DEF TvrLayout, NamesOf
  <2>2. CASE b = 2
    BY <2>2 DEF TvrLayout, NamesOf, Rfu
  <2>3. CASE b = 3
    BY <2>3 DEF TvrLayout, NamesOf
  <2>4. CASE b = 4
    BY <2>4 DEF TvrLayout, NamesOf
  <2>5. CASE b = 5
    BY <2>5 DEF TvrLayout, NamesOf, Rfu
  <2> QED
    BY <2>1, <2>2, <2>3, <2>4, <2>5
<1> QED
  BY <1>1, <1>2, FlagNamed

BookEntries ==
  /\ BookTvr["icc_and_terminal_have_different_application_versions"] = <<2, 8>>
  /\ BookTvr["expired_application"] = <<2, 7>>
  /\ BookTvr["application_not_yet_effective"] = <<2, 6>>
  /\ BookTvr["requested_service_not_allowed_for_card_product"] = <<2, 5>>
  /\ BookTvr["new_card"] = <<2, 4>>
  /\ BookTvr["cardholder_verification_was_not_successful"] = <<3, 8>>
  /\ BookTvr["transaction_exceeds_floor_limit"] = <<4, 8>>
  /\ BookTvr["lower_consecutive_offline_limit_exceeded"] = <<4, 7>>
  /\ BookTvr["upper_consecutive_offline_limit_exceeded"] = <<4, 6>>
  /\ BookTvr["transaction_selected_randomly_for_online_processing"] = <<4, 5>>
  /\ BookTvr["default_tdol_used"] = <<5, 8>>
  /\ BookTvr["issuer_authentication_failed"] = <<5, 7>>
\* The places the books give the bits, and their names.
LEMMA BookNamesListed == BookEntries /\ BookNames = {
    "icc_and_terminal_have_different_application_versions", 
    "expired_application", 
    "application_not_yet_effective", 
    "requested_service_not_allowed_for_card_product", 
    "new_card", 
    "cardholder_verification_was_not_successful", 
    "transaction_exceeds_floor_limit", 
    "lower_consecutive_offline_limit_exceeded", 
    "upper_consecutive_offline_limit_exceeded", 
    "transaction_selected_randomly_for_online_processing", 
    "default_tdol_used", 
    "issuer_authentication_failed"}
  BY DEF BookNames, BookTvr, BookEntries

\* Each bit has its name at the place of the books and nowhere else.
LEMMA NamedPlace ==
    ASSUME NEW b \in 1..5, NEW p \in 1..8, NEW name \in BookNames
    PROVE  /\ NamesOf[b][9 - p] # "no code"
           /\ NamesOf[b][9 - p] = name <=> BookTvr[name] = <<b, p>>
<1>1. PICK i : i = 9 - p /\ i \in 1..8 /\ p = 9 - i
  OBVIOUS
<1>2. i = 1 \/ i = 2 \/ i = 3 \/ i = 4 \/ i = 5 \/ i = 6 \/ i = 7 \/ i = 8
  BY <1>1
<1>3. CASE b = 1
  <2>1. PICK names : names = NamesOf[1]
    OBVIOUS
  <2>2. /\ names[1] = "offline_data_authentication_was_not_performed"
        /\ names[2] = "sda_failed"
        /\ names[3] = "icc_data_missing"
        /\ names[4] = "card_appears_on_terminal_exception_file"
        /\ names[5] = "dda_failed"
        /\ names[6] = "cda_failed"
        /\ names[7] = "sda_selected"
        /\ names[8] = "xda_selected"
    BY <2>1 DEF NamesOf
  <2>3. names[i] = name <=> BookTvr[name] = <<1, p>>
    BY <1>1, <1>2, <2>2, BookNamesListed DEF BookEntries
  <2>4. names[i] # "no code"
    BY <1>2, <2>2
  <2> QED
    BY <1>1, <1>3, <2>1, <2>3, <2>4
<1>4. CASE b = 2
  <2>1. PICK names : names = NamesOf[2]
    OBVIOUS
  <2>2. /\ names[1] = "icc_and_terminal_have_different_application_versions"
        /\ names[2] = "expired_application"
        /\ names[3] = "application_not_yet_effective"
        /\ names[4] = "requested_service_not_allowed_for_card_product"
        /\ names[5] = "new_card"
        /\ names[6] = "RFU"
        /\ names[7] = "biometric_performed_and_successful"
        /\ names[8] = "biometric_template_format_not_supported"
    BY <2>1 DEF NamesOf
  <2>3. names[i] = name <=> BookTvr[name] = <<2, p>>
    BY <1>1, <1>2, <2>2, BookNamesListed DEF BookEntries
  <2>4. names[i] # "no code"
    BY <1>2, <2>2
  <2> QED
    BY <1>1, <1>4, <2>1, <2>3, <2>4
<1>5. CASE b = 3
  <2>1. PICK names : names = NamesOf[3]
    OBVIOUS
  <2>2. /\ names[1] = "cardholder_verification_was_not_successful"
        /\ names[2] = "unrecognised_cvm"
        /\ names[3] = "pin_try_limit_exceeded"
        /\ names[4] = "pin_entry_required_and_pin_pad_not_present_or_not_working"
        /\ names[5] = "pin_entry_required_pin_pad_present_but_pin_was_not_entered"
        /\ names[6] = "online_cvm_captured"
        /\ names[7] = "biometric_required_but_biometric_capture_device_not_working"
        /\ names[8] = "biometric_subtype_entry_was_bypassed"
    BY <2>1 DEF NamesOf
  <2>3. names[i] = name <=> BookTvr[name] = <<3, p>>
    BY <1>1, <1>2, <2>2, BookNamesListed DEF BookEntries
  <2>4. names[i] # "no code"
    BY <1>2, <2>2
  <2> QED
    BY <1>1, <1>5, <2>1, <2>3, <2>4
<1>6. CASE b = 4
  <2>1. PICK names : names = NamesOf[4]
    OBVIOUS
  <2>2. /\ names[1] = "transaction_exceeds_floor_limit"
        /\ names[2] = "lower_consecutive_offline_limit_exceeded"
        /\ names[3] = "upper_consecutive_offline_limit_exceeded"
        /\ names[4] = "transaction_selected_randomly_for_online_processing"
        /\ names[5] = "merchant_forced_transaction_online"
        /\ names[6] = "biometric_try_limit_exceeded"
        /\ names[7] = "a_selected_biometric_type_not_supported"
        /\ names[8] = "xda_signature_verification_failed"
    BY <2>1 DEF NamesOf
  <2>3. names[i] = name <=> BookTvr[name] = <<4, p>>
    BY <1>1, <1>2, <2>2, BookNamesListed DEF BookEntries
  <2>4. names[i] # "no code"
    BY <1>2, <2>2
  <2> QED
    BY <1>1, <1>6, <2>1, <2>3, <2>4
<1>7. CASE b = 5
  <2>1. PICK names : names = NamesOf[5]
    OBVIOUS
  <2>2. /\ names[1] = "default_tdol_used"
        /\ names[2] = "issuer_authentication_failed"
        /\ names[3] = "script_processing_failed_before_final_generate_ac"
        /\ names[4] = "script_processing_failed_after_final_generate_ac"
        /\ names[5] = "RFU"
        /\ names[6] = "ca_ecc_key_missing"
        /\ names[7] = "ecc_key_recovery_failed"
        /\ names[8] = "RFU"
    BY <2>1 DEF NamesOf
  <2>3. names[i] = name <=> BookTvr[name] = <<5, p>>
    BY <1>1, <1>2, <2>2, BookNamesListed DEF BookEntries
  <2>4. names[i] # "no code"
    BY <1>2, <2>2
  <2> QED
    BY <1>1, <1>7, <2>1, <2>3, <2>4
<1>8. b = 1 \/ b = 2 \/ b = 3 \/ b = 4 \/ b = 5
  OBVIOUS
<1> QED
  BY <1>3, <1>4, <1>5, <1>6, <1>7, <1>8


\* An action code as the model reads it and as the books number its bits.
LEMMA CodeMeans ==
    ASSUME NEW bytes \in Seq(Byte), Len(bytes) = 5
    PROVE  /\ ActionCode(Some(bytes)) # Analysis!NoCode
           /\ \A name \in BookNames : name \in ActionCode(Some(bytes)) <=> BookTvr[name] \in BitsOf(bytes)
<1>1. DOMAIN TvrLayout = 1..5 /\ Len(TvrLayout) = 5
  BY DEF TvrLayout
<1>2. DOMAIN bytes = 1..5
  OBVIOUS
<1>3. PICK bits : bits = {at \in (1..5) \X (1..8) : HasBit(bytes[at[1]], at[2])}
  OBVIOUS
<1>4. ParseRegister(TvrLayout, bytes) = Some(bits) /\ BitsOf(bytes) = bits
  BY <1>1, <1>2, <1>3 DEF ParseRegister, Check, BitsOf
<1>5. ActionCode(Some(bytes)) = On(TvrLayout, bits)
  <2>1. Unwrap(Some(bytes)) = bytes /\ Some(bytes) # None /\ Unwrap(Some(bits)) = bits
    BY OfSome
  <2> QED
    BY <1>4, <2>1 DEF ActionCode
<1>6. ASSUME NEW at \in (1..5) \X (1..8), NEW name \in BookNames
      PROVE  /\ FieldAt(TvrLayout, at)[1] # "no code"
             /\ FieldAt(TvrLayout, at)[1] = name <=> BookTvr[name] = at
  <2>1. PICK b \in 1..5, p \in 1..8 : at = <<b, p>>
    OBVIOUS
  <2>2. FieldAt(TvrLayout, <<b, p>>)[1] = NamesOf[b][9 - p]
    BY LayoutNames
  <2>3. /\ NamesOf[b][9 - p] # "no code"
        /\ NamesOf[b][9 - p] = name <=> BookTvr[name] = <<b, p>>
    BY NamedPlace
  <2> QED
    BY <2>1, <2>2, <2>3
<1>7. "no code" \notin ActionCode(Some(bytes))
  <2>1. "new_card" \in BookNames
    BY BookNamesListed
  <2>2. \A at \in bits : FieldAt(TvrLayout, at)[1] # "no code"
    BY <1>3, <1>6, <2>1
  <2> QED
    BY <1>5, <2>2 DEF On
<1>8. ASSUME NEW name \in BookNames
      PROVE  name \in ActionCode(Some(bytes)) <=> BookTvr[name] \in BitsOf(bytes)
  <2>1. name # Rfu
    BY BookNamesListed DEF Rfu
  <2>2. name \in On(TvrLayout, bits) <=> \E at \in bits : FieldAt(TvrLayout, at)[1] = name
    BY <2>1 DEF On
  <2>3. \A at \in bits : FieldAt(TvrLayout, at)[1] = name <=> BookTvr[name] = at
    BY <1>3, <1>6
  <2> QED
    BY <1>4, <1>5, <2>2, <2>3
<1>9. "no code" \in Analysis!NoCode
  BY DEF Analysis!NoCode
<1> QED
  BY <1>7, <1>8, <1>9

\* Two forms of a code that select the same of the bits the books name here.
CodeAlike(c, d) ==
    /\ c = Analysis!NoCode <=> d = Analysis!NoCode
    /\ c # Analysis!NoCode => \A name \in BookNames : name \in c <=> name \in d
CodeNames == {"iacDenial", "iacOnline", "iacDefault", "tacDenial", "tacOnline", "tacDefault"}

\* The six codes.
LEMMA CodeNamesAre == CodeNames = DOMAIN IacTags \cup TacNames
BY DEF CodeNames, IacTags, TacNames

\* Such codes select the same of the TVR.
LEMMA MaskedAlike ==
    ASSUME NEW bits, bits \subseteq BookNames, NEW absent, NEW c, NEW d, CodeAlike(c, d)
    PROVE  bits \cap Analysis!Effective(c, absent) = bits \cap Analysis!Effective(d, absent)
<1>1. CASE c = Analysis!NoCode
  BY <1>1 DEF CodeAlike, Analysis!Effective
<1>2. CASE c # Analysis!NoCode
  BY <1>2 DEF CodeAlike, Analysis!Effective
<1> QED
  BY <1>1, <1>2

\* Codes that are alike bit by bit lead to the same decision.
LEMMA SameDecision ==
    ASSUME NEW bits, bits \subseteq BookNames, NEW c, NEW d, \A k \in CodeNames : CodeAlike(c[k], d[k]),
           NEW capability
    PROVE  Analysis!first_generate_ac_decision(bits, c, capability)
             = Analysis!first_generate_ac_decision(bits, d, capability)
<1>1. Analysis!Matched(bits, Analysis!DenialMask(c)) = Analysis!Matched(bits, Analysis!DenialMask(d))
  <2>1. CodeAlike(c.iacDenial, d.iacDenial) /\ CodeAlike(c.tacDenial, d.tacDenial)
    BY DEF CodeNames
  <2>2. /\ bits \cap Analysis!Effective(c.iacDenial, {}) = bits \cap Analysis!Effective(d.iacDenial, {})
        /\ bits \cap Analysis!Effective(c.tacDenial, {}) = bits \cap Analysis!Effective(d.tacDenial, {})
    BY <2>1, MaskedAlike
  <2>3. bits \cap Analysis!DenialMask(c) = bits \cap Analysis!DenialMask(d)
    BY <2>2 DEF Analysis!DenialMask
  <2> QED
    BY <2>3 DEF Analysis!Matched
<1>2. Analysis!Matched(bits, Analysis!OnlineMask(c)) = Analysis!Matched(bits, Analysis!OnlineMask(d))
  <2>1. CodeAlike(c.iacOnline, d.iacOnline) /\ CodeAlike(c.tacOnline, d.tacOnline)
    BY DEF CodeNames
  <2>2. PICK all : all = Analysis!TvrBit
    OBVIOUS
  <2>3. /\ bits \cap Analysis!Effective(c.iacOnline, all) = bits \cap Analysis!Effective(d.iacOnline, all)
        /\ bits \cap Analysis!Effective(c.tacOnline, {}) = bits \cap Analysis!Effective(d.tacOnline, {})
    BY <2>1, MaskedAlike
  <2>4. bits \cap Analysis!OnlineMask(c) = bits \cap Analysis!OnlineMask(d)
    BY <2>2, <2>3 DEF Analysis!OnlineMask
  <2> QED
    BY <2>4 DEF Analysis!Matched
<1>3. Analysis!Matched(bits, Analysis!DefaultMask(c)) = Analysis!Matched(bits, Analysis!DefaultMask(d))
  <2>1. CodeAlike(c.iacDefault, d.iacDefault) /\ CodeAlike(c.tacDefault, d.tacDefault)
    BY DEF CodeNames
  <2>2. PICK all : all = Analysis!TvrBit
    OBVIOUS
  <2>3. /\ bits \cap Analysis!Effective(c.iacDefault, all) = bits \cap Analysis!Effective(d.iacDefault, all)
        /\ bits \cap Analysis!Effective(c.tacDefault, {}) = bits \cap Analysis!Effective(d.tacDefault, {})
    BY <2>1, MaskedAlike
  <2>4. bits \cap Analysis!DefaultMask(c) = bits \cap Analysis!DefaultMask(d)
    BY <2>2, <2>3 DEF Analysis!DefaultMask
  <2> QED
    BY <2>4 DEF Analysis!Matched
<1> QED
  BY <1>1, <1>2, <1>3
     DEF Analysis!first_generate_ac_decision, Analysis!denial_decision, Analysis!AsksOnline,
         Analysis!DefaultsToDecline

\* What is decided is a cryptogram.
LEMMA DecisionIsOneOfThree ==
    ASSUME NEW bits, NEW c, NEW capability
    PROVE  Analysis!first_generate_ac_decision(bits, c, capability) \in {"TC", "AAC", "ARQC"}
BY DEF Analysis!first_generate_ac_decision

\* A code of five bytes, and one that is missing, are as described.
LEMMA BytesAndBitsAlike ==
    ASSUME NEW bytes \in Seq(Byte), Len(bytes) = 5, NEW at, at = Some(BitsOf(bytes))
    PROVE  CodeAlike(ActionCode(Some(bytes)),
                 IF at = None THEN Analysis!NoCode
                 ELSE {name \in BookNames : BookTvr[name] \in Unwrap(at)})
<1>1. PICK bits : bits = BitsOf(bytes)
  OBVIOUS
<1>2. at # None /\ Unwrap(at) = bits
  BY <1>1, OfSome
<1>3. PICK meant : meant = {name \in BookNames : BookTvr[name] \in bits}
  OBVIOUS
<1>4. meant # Analysis!NoCode
  <2>1. "no code" \notin BookNames
    BY BookNamesListed
  <2>2. "no code" \in Analysis!NoCode
    BY DEF Analysis!NoCode
  <2> QED
    BY <1>3, <2>1, <2>2
<1>5. ActionCode(Some(bytes)) # Analysis!NoCode
  BY CodeMeans
<1>6. \A name \in BookNames : name \in ActionCode(Some(bytes)) <=> name \in meant
  BY <1>1, <1>3, CodeMeans
<1> QED
  BY <1>2, <1>3, <1>4, <1>5, <1>6 DEF CodeAlike

\* A code that is missing is no code.
LEMMA MissingAlike ==
    CodeAlike(ActionCode(None), Analysis!NoCode)
BY DEF CodeAlike, ActionCode

\* The capability is the one the books give the terminal type.
LEMMA CapabilityOfType ==
    ASSUME NEW t \in Terminals
    PROVE  Capability(t.terminal.terminal_type) = t.capability
<1>1. TerminalIsAsDescribed(t)
  BY TerminalsAssumption
<1>2. PICK type : type = t.terminal.terminal_type
  OBVIOUS
<1>3. CASE t.capability = "OnlineOnly" /\ type \in {\h11, \h14, \h21, \h24, \h34}
  BY <1>2, <1>3 DEF Capability
<1>4. CASE t.capability = "OnlineCapable" /\ type \in {\h12, \h15, \h22, \h25, \h35}
  BY <1>2, <1>4 DEF Capability
<1>5. CASE t.capability = "OfflineOnly" /\ type \in {\h13, \h16, \h23, \h26, \h36}
  BY <1>2, <1>5 DEF Capability
<1> QED
  BY <1>1, <1>2, <1>3, <1>4, <1>5 DEF TerminalIsAsDescribed

\* The code a tag of the store gives is the one the card's records mean.
LEMMA IssuerCodeAgrees ==
    ASSUME CardInv, Walked, NEW k \in DOMAIN IacTags, ~WrongLength(IacTags[k], 5)
    PROVE  CodeAlike(ActionCode(Value(IacTags[k])),
                     IF card.codes[k] = None THEN Analysis!NoCode
                     ELSE {name \in BookNames : BookTvr[name] \in Unwrap(card.codes[k])})
<1>1. PICK tag : tag = IacTags[k]
  OBVIOUS
<1>2. tag \notin OwnTags
  <2>1. IacTags[k] \in {<<\h9F, \h0E>>, <<\h9F, \h0F>>, <<\h9F, \h0D>>}
    BY DEF IacTags
  <2> QED
    BY <1>1, <2>1 DEF OwnTags
<1>3. stage # "Failed"
  BY DEF Walked
<1>4. PICK m \in Nat : m = Len(card.afl) /\ DOMAIN card.afl = 1..m
  <2>1. card.afl \in Seq(Step)
    BY OptionsOfCard DEF CardInv, IInv, GivenOk
  <2> QED
    BY <2>1, LenProperties
<1>5. Kept(store) = Sent(card, m)
  BY <1>3, <1>4 DEF CardInv, IInv, StoreOk, InOrder
<1>6. PICK said : said = {e \in UNION {Elements(card, card.afl[i].record) : i \in 1..m} :
                            e[1] = tag /\ e[2] # <<>>}
  OBVIOUS
<1>7. /\ said = {} => card.codes[k] = None
      /\ \A e \in said : Len(e[2]) = 5 => card.codes[k] = Some(BitsOf(e[2]))
  <2>1. CodesAreAsDescribed(card)
    BY CardsAssumption DEF CardInv, IInv, GivenOk
  <2> QED
    BY <1>1, <1>4, <1>6, <2>1 DEF CodesAreAsDescribed
<1>8. said = {e \in Kept(store) : e[1] = tag}
  BY <1>5, <1>6 DEF Sent
<1>9. CASE tag \notin DOMAIN store
  <2>1. \A e \in Kept(store) : e[1] # tag
    BY <1>9 DEF Kept
  <2>2. card.codes[k] = None
    BY <1>7, <1>8, <2>1
  <2>3. Value(tag) = None
    BY <1>9 DEF Value
  <2> QED
    BY <1>1, <2>2, <2>3, MissingAlike
<1>10. CASE tag \in DOMAIN store
  <2>1. PICK bytes \in Seq(Byte) : Value(tag) = Some(bytes)
    <3>1. Value(tag) = Some(store[tag].value)
      BY <1>10 DEF Value
    <3>2. Value(tag) # None
      BY <3>1, OfSome
    <3> QED
      BY <1>2, <1>3, <3>2, HeldInBytes DEF CardInv
  <2>2. store[tag].value = bytes
    <3>1. Value(tag) = Some(store[tag].value)
      BY <1>10 DEF Value
    <3>2. Unwrap(Some(store[tag].value)) = store[tag].value /\ Unwrap(Some(bytes)) = bytes
      BY OfSome
    <3> QED
      BY <2>1, <3>1, <3>2
  <2>3. Len(bytes) = 5
    BY <1>1, <1>10, <2>2 DEF WrongLength, Missing
  <2>4. <<tag, bytes>> \in Kept(store)
    <3>1. store[tag].source = "Record"
      BY <1>2, <1>10 DEF CardInv, Sourced
    <3> QED
      BY <1>10, <2>2, <3>1 DEF Kept
  <2>5. <<tag, bytes>> \in said
    BY <1>8, <2>4
  <2>6. card.codes[k] = Some(BitsOf(bytes))
    BY <1>7, <2>3, <2>5
  <2>7. PICK at : at = card.codes[k]
    OBVIOUS
  <2>8. CodeAlike(ActionCode(Some(bytes)),
                  IF at = None THEN Analysis!NoCode ELSE {name \in BookNames : BookTvr[name] \in Unwrap(at)})
    BY <2>3, <2>6, <2>7, BytesAndBitsAlike
  <2> QED
    BY <1>1, <2>1, <2>7, <2>8
<1> QED
  BY <1>9, <1>10

\* The terminal's own codes are what they mean.
LEMMA TerminalCodeAgrees ==
    ASSUME NEW t \in Terminals, NEW k \in TacNames
    PROVE  CodeAlike(ActionCode(t.app[k]),
                     IF t.codes[k] = None THEN Analysis!NoCode
                     ELSE {name \in BookNames : BookTvr[name] \in Unwrap(t.codes[k])})
<1>1. \/ t.app[k] = None /\ t.codes[k] = None
      \/ \E v \in t.app[k] : /\ v \in Seq(Byte) /\ Len(v) = 5
                             /\ t.app[k] = Some(v) /\ t.codes[k] = Some(BitsOf(v))
  BY TerminalsAssumption DEF TerminalIsAsDescribed
<1>2. CASE t.app[k] = None /\ t.codes[k] = None
  BY <1>2, MissingAlike
<1>3. CASE \E v \in t.app[k] : /\ v \in Seq(Byte) /\ Len(v) = 5
                               /\ t.app[k] = Some(v) /\ t.codes[k] = Some(BitsOf(v))
  <2>1. PICK v \in Seq(Byte) : Len(v) = 5 /\ t.app[k] = Some(v) /\ t.codes[k] = Some(BitsOf(v))
    BY <1>3
  <2>2. PICK at : at = t.codes[k]
    OBVIOUS
  <2>3. CodeAlike(ActionCode(Some(v)),
                  IF at = None THEN Analysis!NoCode ELSE {name \in BookNames : BookTvr[name] \in Unwrap(at)})
    BY <2>1, <2>2, BytesAndBitsAlike
  <2> QED
    BY <2>1, <2>2, <2>3
<1> QED
  BY <1>1, <1>2, <1>3

\* What is decided on the codes in the store is what the codes meant call for.
LEMMA DecidedAsMeant ==
    ASSUME CardInv, Walked, app = Some(terminal.app), tvr \subseteq BookNames,
           ~\E k \in DOMAIN IacTags : WrongLength(IacTags[k], 5)
    PROVE  Decision = Analysis!first_generate_ac_decision(tvr, CodesMeant, terminal.capability)
<1>1. PICK codes, meant : codes = ActionCodes /\ meant = CodesMeant
  OBVIOUS
<1>2. Unwrap(app) = terminal.app
  BY OfSome
<1>3. ASSUME NEW k \in CodeNames
      PROVE  CodeAlike(codes[k], meant[k])
  <2>1. codes[k] = ActionCode(IF k \in DOMAIN IacTags THEN Value(IacTags[k]) ELSE terminal.app[k])
    BY <1>1, <1>2, CodeNamesAre DEF ActionCodes
  <2>2. PICK at : at = IF k \in DOMAIN IacTags THEN card.codes[k] ELSE terminal.codes[k]
    OBVIOUS
  <2>3. meant[k] = IF at = None THEN Analysis!NoCode ELSE {name \in BookNames : BookTvr[name] \in Unwrap(at)}
    BY <1>1, <2>2, CodeNamesAre DEF CodesMeant, BookNames
  <2>4. CASE k \in DOMAIN IacTags
    <3>1. codes[k] = ActionCode(Value(IacTags[k])) /\ at = card.codes[k]
      BY <2>1, <2>2, <2>4
    <3> QED
      BY <2>3, <2>4, <3>1, IssuerCodeAgrees
  <2>5. CASE k \notin DOMAIN IacTags
    <3>1. k \in TacNames
      BY <2>5, CodeNamesAre
    <3>2. codes[k] = ActionCode(terminal.app[k]) /\ at = terminal.codes[k]
      BY <2>1, <2>2, <2>5
    <3>3. terminal \in Terminals
      BY DEF CardInv, IInv, GivenOk
    <3> QED
      BY <2>3, <3>1, <3>2, <3>3, TerminalCodeAgrees
  <2> QED
    BY <2>4, <2>5
<1>4. PICK capability : capability = terminal.capability
  OBVIOUS
<1>5. Capability(terminal.terminal.terminal_type) = capability
  BY <1>4, CapabilityOfType DEF CardInv, IInv, GivenOk
<1>6. Analysis!first_generate_ac_decision(tvr, codes, capability)
        = Analysis!first_generate_ac_decision(tvr, meant, capability)
  BY <1>3, SameDecision
<1> QED
  BY <1>1, <1>4, <1>5, <1>6 DEF Decision
-----------------------------------------------------------------------------
(* The first GENERATE AC.                                                   *)

\* GENERATE AC among the commands the card has read, and its first one's P1.
NoAc(s) == \A k \in DOMAIN s : s[k].ins # \hAE
FirstAcAsks(s, p) ==
    \A i \in DOMAIN s :
      (s[i].ins = \hAE /\ \A k \in 1..(i - 1) : s[k].ins # \hAE) => s[i].p1 = p
P1Of(request) == [AAC |-> 0, TC |-> \h40, ARQC |-> \h80][request]
Called == P1Of(Analysis!first_generate_ac_decision(decided, CodesMeant, terminal.capability))

\* Before, between and after the GENERATE AC commands.
Chosen == stage \in {"Options", "Read", "Verify", "Verified", "Risk", "LastOnline", "FirstAc"}
BeforeAc == stage \in {"Pse", "Directory", "Aids", "Select"} \/ Chosen
BetweenAcs == stage \in {"Host", "Scripts", "SecondAc"}
Closed == stage \in {"Done", "Failed", "Eliminated"}

\* What ties the first GENERATE AC to the codes: the application is the
\* terminal's, the TVR's bits are ones the books name here, and there is
\* no GENERATE AC before the first and one after it.
AcInv ==
    /\ Chosen => app = Some(terminal.app)
    /\ tvr \subseteq BookNames
    /\ BeforeAc => NoAc(seen)
    /\ BetweenAcs => ~NoAc(seen)
    /\ FirstAcAsks(seen, Called)

\* Without a GENERATE AC there is no first one.
LEMMA NoneIsFirst ==
    ASSUME NEW s, NoAc(s), NEW p
    PROVE  FirstAcAsks(s, p)
BY DEF NoAc, FirstAcAsks

\* A string with one more at its end.
LEMMA Appended ==
    ASSUME NEW s, IsString(s), NEW r
    PROVE  \E n \in Nat : /\ n = Len(s) /\ DOMAIN s = 1..n /\ DOMAIN Append(s, r) = 1..(n + 1)
                          /\ Append(s, r)[n + 1] = r /\ \A i \in 1..n : Append(s, r)[i] = s[i]
<1>1. PICK W : s \in Seq(W)
  BY DEF IsString
<1>2. PICK V : V = W \cup {r}
  OBVIOUS
<1>3. s \in Seq(V) /\ r \in V
  BY <1>1, <1>2, SeqMonotonic
<1>4. PICK n \in Nat : n = Len(s) /\ DOMAIN s = 1..n
  BY <1>1, LenProperties
<1>5. Append(s, r) \in Seq(V) /\ Len(Append(s, r)) = n + 1
  BY <1>3, <1>4, AppendProperties
<1>6. DOMAIN Append(s, r) = 1..(n + 1)
  BY <1>5, LenProperties
<1>7. Append(s, r)[n + 1] = r /\ \A i \in 1..n : Append(s, r)[i] = s[i]
  BY <1>3, <1>4, AppendProperties
<1> QED
  BY <1>4, <1>6, <1>7

\* Another command leaves a card without GENERATE AC so; the first one is
\* the first; and what comes after it is not.
LEMMA NoAcAppend ==
    ASSUME NEW s, IsString(s), NoAc(s), NEW r
    PROVE  /\ r.ins # \hAE => NoAc(Append(s, r))
           /\ r.ins = \hAE => ~NoAc(Append(s, r)) /\ FirstAcAsks(Append(s, r), r.p1)
<1>1. PICK n \in Nat : /\ n = Len(s) /\ DOMAIN s = 1..n /\ DOMAIN Append(s, r) = 1..(n + 1)
                       /\ Append(s, r)[n + 1] = r /\ \A i \in 1..n : Append(s, r)[i] = s[i]
  BY Appended
<1>2. PICK t : t = Append(s, r)
  OBVIOUS
<1>3. \A i \in 1..n : t[i].ins # \hAE
  BY <1>1, <1>2 DEF NoAc
<1>4. \A i \in DOMAIN t : i \in 1..n \/ i = n + 1
  BY <1>1, <1>2
<1>5. t[n + 1] = r /\ n + 1 \in DOMAIN t
  BY <1>1, <1>2
<1>6. r.ins # \hAE => NoAc(t)
  BY <1>3, <1>4, <1>5 DEF NoAc
<1>7. r.ins = \hAE => ~NoAc(t)
  BY <1>5 DEF NoAc
<1>8. FirstAcAsks(t, r.p1)
  BY <1>3, <1>4, <1>5 DEF FirstAcAsks
<1> QED
  BY <1>2, <1>6, <1>7, <1>8

\* After one GENERATE AC no command is the first.
LEMMA LaterAppend ==
    ASSUME NEW s, IsString(s), ~NoAc(s), NEW p, FirstAcAsks(s, p), NEW r
    PROVE  ~NoAc(Append(s, r)) /\ FirstAcAsks(Append(s, r), p)
<1>1. PICK n \in Nat : /\ n = Len(s) /\ DOMAIN s = 1..n /\ DOMAIN Append(s, r) = 1..(n + 1)
                       /\ Append(s, r)[n + 1] = r /\ \A i \in 1..n : Append(s, r)[i] = s[i]
  BY Appended
<1>2. PICK t : t = Append(s, r)
  OBVIOUS
<1>3. PICK k \in 1..n : s[k].ins = \hAE
  BY <1>1 DEF NoAc
<1>4. t[k].ins = \hAE /\ k \in DOMAIN t /\ k \in 1..((n + 1) - 1)
  BY <1>1, <1>2, <1>3
<1>5. \A i \in 1..n : t[i] = s[i]
  BY <1>1, <1>2
<1>6. ASSUME NEW i \in DOMAIN t, t[i].ins = \hAE, \A j \in 1..(i - 1) : t[j].ins # \hAE
      PROVE  t[i].p1 = p
  <2>1. i # n + 1
    BY <1>4, <1>6
  <2>2. i \in 1..n
    BY <1>1, <1>2, <2>1
  <2>3. \A j \in 1..(i - 1) : j \in 1..n
    BY <2>2
  <2>4. s[i].ins = \hAE /\ \A j \in 1..(i - 1) : s[j].ins # \hAE
    BY <1>5, <1>6, <2>2, <2>3
  <2>5. s[i].p1 = p
    BY <1>1, <2>2, <2>4 DEF FirstAcAsks
  <2> QED
    BY <1>5, <2>2, <2>5
<1>7. FirstAcAsks(t, p)
  BY <1>6 DEF FirstAcAsks
<1>8. ~NoAc(t)
  BY <1>4 DEF NoAc
<1> QED
  BY <1>2, <1>7, <1>8

\* A step that sends no GENERATE AC.
Silent == seen' = seen \/ \E r : r.ins # \hAE /\ seen' = Append(seen, r)

\* Any other command is none.
LEMMA OtherIsSilent ==
    ASSUME NEW ins, ins # \hAE, NEW p1, NEW p2, NEW response, Asks(ins, p1, p2, response)
    PROVE  Silent
BY DEF Asks, Silent

\* Steps before the first GENERATE AC...
LEMMA StepBefore ==
    ASSUME IsString(seen), AcInv, BeforeAc, Silent, BeforeAc' \/ Closed', tvr' \subseteq BookNames,
           Chosen' => app' = Some(terminal'.app)
    PROVE  AcInv'
<1>1. NoAc(seen)
  BY DEF AcInv
<1>2. NoAc(seen')
  <2>1. CASE seen' = seen
    BY <1>1, <2>1
  <2>2. CASE seen' # seen
    <3>1. PICK r : r.ins # \hAE /\ seen' = Append(seen, r)
      BY <2>2 DEF Silent
    <3> QED
      BY <1>1, <3>1, NoAcAppend
  <2> QED
    BY <2>1, <2>2
<1>3. ~BetweenAcs'
  BY DEF BetweenAcs, BeforeAc, Chosen, Closed
<1>4. PICK s, p : s = seen' /\ p = Called'
  OBVIOUS
<1>5. FirstAcAsks(s, p)
  BY <1>2, <1>4, NoneIsFirst
<1> QED
  BY <1>2, <1>3, <1>4, <1>5 DEF AcInv

\* ... between the two...
LEMMA StepBetween ==
    ASSUME IsString(seen), AcInv, BetweenAcs, BetweenAcs' \/ Closed', tvr' \subseteq BookNames,
           seen' = seen \/ \E r : seen' = Append(seen, r), UNCHANGED <<card, terminal, decided>>
    PROVE  AcInv'
<1>1. ~NoAc(seen) /\ FirstAcAsks(seen, Called)
  BY DEF AcInv
<1>2. Called' = Called
  BY DEF Called, CodesMeant
<1>3. PICK p : p = Called
  OBVIOUS
<1>4. ~NoAc(seen') /\ FirstAcAsks(seen', p)
  <2>1. CASE seen' = seen
    BY <1>1, <1>3, <2>1
  <2>2. CASE seen' # seen
    <3>1. PICK r : seen' = Append(seen, r)
      BY <2>2
    <3> QED
      BY <1>1, <1>3, <3>1, LaterAppend
  <2> QED
    BY <2>1, <2>2
<1>5. ~BeforeAc' /\ ~Chosen'
  BY DEF BetweenAcs, BeforeAc, Chosen, Closed
<1> QED
  BY <1>2, <1>3, <1>4, <1>5 DEF AcInv

\* ... and doing nothing.
LEMMA StepOver ==
    ASSUME AcInv, UNCHANGED vars
    PROVE  AcInv'
<1>1. UNCHANGED <<stage, card, terminal, app, tvr, decided, seen>>
  BY DEF vars, given, selection, registers, deciding
<1>2. Called' = Called
  BY <1>1 DEF Called, CodesMeant
<1>3. UNCHANGED <<Chosen, BeforeAc, BetweenAcs>>
  BY <1>1 DEF Chosen, BeforeAc, BetweenAcs
<1> QED
  BY <1>1, <1>2, <1>3 DEF AcInv

\* SELECT...
LEMMA SelectIsSilent ==
    ASSUME NEW name, IsString(name), Send(select_by_name(name, FirstOrOnly)),
           NEW response \in Responses(select_by_name(name, FirstOrOnly))
    PROVE  Silent
<1>1. PICK command : command = select_by_name(name, FirstOrOnly)
  OBVIOUS
<1>2. command \in {None, Some(Command(0, \hA4, 4, FirstOrOnly, name, Le0))}
  BY <1>1 DEF select_by_name, Check
<1>3. Asks(\hA4, 4, FirstOrOnly, response)
  BY <1>1, <1>2, CommandSent
<1> QED
  BY <1>3, OtherIsSilent

\* ... READ RECORD...
LEMMA ReadIsSilent ==
    ASSUME NEW sfi, NEW number, Send(read_record(sfi, number)),
           NEW response \in Responses(read_record(sfi, number))
    PROVE  Silent
<1>1. Asks(\hB2, number, (8 * sfi) + 4, response)
  BY RecordSends
<1> QED
  BY <1>1, OtherIsSilent

\* ... and GET DATA are no GENERATE AC.
LEMMA CounterIsSilent ==
    ASSUME NEW tag, Send(get_data(tag)), NEW response \in Responses(get_data(tag))
    PROVE  Silent
<1>1. PICK p1, p2 : Asks(\hCA, p1, p2, response)
  BY CounterSends
<1> QED
  BY <1>1, OtherIsSilent

\* Selecting the payment system environment...
LEMMA SelectPseAc == ASSUME CardInv, AcInv, SelectPse PROVE AcInv'
<1>1. BeforeAc /\ IsString(seen) /\ tvr \subseteq BookNames
  BY DEF SelectPse, BeforeAc, CardInv, IInv, ShapesOk, AcInv
<1>2. Silent
  BY ShortStrings, SelectIsSilent DEF SelectPse
<1>3. stage' \in {"Aids", "Directory"} /\ tvr' = tvr
  BY DEF SelectPse, Discovering, registers
<1>4. BeforeAc' /\ ~Chosen'
  BY <1>3 DEF BeforeAc, Chosen
<1> QED
  BY <1>1, <1>2, <1>3, <1>4, StepBefore

\* ... reading its directory...
LEMMA ReadDirectoryAc == ASSUME CardInv, AcInv, ReadDirectory PROVE AcInv'
<1>1. BeforeAc /\ IsString(seen) /\ tvr \subseteq BookNames
  BY DEF ReadDirectory, BeforeAc, CardInv, IInv, ShapesOk, AcInv
<1>2. Silent
  <2>1. PICK sfi, number : sfi = Unwrap(file).sfi /\ number = Unwrap(file).next
    OBVIOUS
  <2>2. PICK response \in Responses(read_record(sfi, number)) : Send(read_record(sfi, number))
    BY <2>1 DEF ReadDirectory
  <2> QED
    BY <2>2, ReadIsSilent
<1>3. stage' \in {"Aids", "Select", "Directory"} /\ tvr' = tvr
  BY DEF ReadDirectory, Discovering, registers
<1>4. BeforeAc' /\ ~Chosen'
  BY <1>3 DEF BeforeAc, Chosen
<1> QED
  BY <1>1, <1>2, <1>3, <1>4, StepBefore

\* ... selecting by the identifier...
LEMMA SelectAidAc == ASSUME CardInv, AcInv, SelectAid PROVE AcInv'
<1>1. BeforeAc /\ IsString(seen) /\ tvr \subseteq BookNames
  BY DEF SelectAid, BeforeAc, CardInv, IInv, ShapesOk, AcInv
<1>2. Silent
  <2>1. PICK aid : aid = terminal.app.aid /\ IsString(aid)
    BY AidIsString DEF CardInv, IInv
  <2>2. PICK response \in Responses(select_by_name(aid, FirstOrOnly)) : Send(select_by_name(aid, FirstOrOnly))
    BY <2>1 DEF SelectAid
  <2> QED
    BY <2>1, <2>2, SelectIsSilent
<1>3. stage' \in {"Select", "Eliminated"} /\ tvr' = tvr
  BY DEF SelectAid, Discovering, registers
<1>4. (BeforeAc' \/ Closed') /\ ~Chosen'
  BY <1>3 DEF BeforeAc, Chosen, Closed
<1> QED
  BY <1>1, <1>2, <1>3, <1>4, StepBefore

\* ... and selecting the application, which is then the terminal's...
LEMMA SelectAc == ASSUME CardInv, AcInv, Select PROVE AcInv'
<1>1. BeforeAc /\ IsString(seen) /\ tvr \subseteq BookNames
  BY DEF Select, BeforeAc, CardInv, IInv, ShapesOk, AcInv
<1>2. PICK name : name = Head(candidates) /\ IsString(name)
  <2>1. PICK N, all : N = Seq(Byte) /\ all = candidates /\ all \in Seq(N)
    BY DEF CardInv, IInv, ShapesOk
  <2>2. all # <<>>
    BY <2>1 DEF Select, CardInv, IInv, ShapesOk
  <2>3. Head(all) \in N
    BY <2>1, <2>2, HeadTailProperties
  <2> QED
    BY <2>1, <2>3, IsStringAnyhow
<1>3. PICK response \in Responses(select_by_name(name, FirstOrOnly)) :
         /\ Send(select_by_name(name, FirstOrOnly))
         /\ \/ Selected(response) # None /\ stage' = "Options" /\ app' = Selected(response)
            \/ stage' = "Eliminated"
  BY <1>2 DEF Select
<1>4. Silent
  BY <1>2, <1>3, SelectIsSilent
<1>5. tvr' = tvr /\ terminal' = terminal
  BY DEF Select, registers, given
<1>6. CASE stage' = "Eliminated"
  <2>1. Closed' /\ ~Chosen'
    BY <1>6 DEF Chosen, Closed
  <2> QED
    BY <1>1, <1>4, <1>5, <2>1, StepBefore
<1>7. CASE Selected(response) # None /\ stage' = "Options" /\ app' = Selected(response)
  <2>1. PICK f : Selected(response) = find_application(f)
    BY <1>7 DEF Selected, Then
  <2>2. Selected(response) = Some(terminal.app)
    BY <1>7, <2>1 DEF find_application, Check
  <2>3. app' = Some(terminal'.app)
    BY <1>5, <1>7, <2>2
  <2>4. BeforeAc'
    BY <1>7 DEF BeforeAc, Chosen
  <2> QED
    BY <1>1, <1>4, <1>5, <2>3, <2>4, StepBefore
<1> QED
  BY <1>3, <1>6, <1>7

\* ... asking for the options...
LEMMA GetProcessingOptionsAc == ASSUME CardInv, AcInv, GetProcessingOptions PROVE AcInv'
<1>1. BeforeAc /\ IsString(seen) /\ tvr \subseteq BookNames /\ app = Some(terminal.app)
  BY DEF GetProcessingOptions, BeforeAc, Chosen, CardInv, IInv, ShapesOk, AcInv
<1>2. Silent
  <2>1. IsString(pdol_data)
    BY DEF CardInv, IInv, ShapesOk
  <2>2. PICK response \in Responses(processing_options(pdol_data)) : Send(processing_options(pdol_data))
    BY DEF GetProcessingOptions
  <2>3. Asks(\hA8, 0, 0, response)
    BY <2>1, <2>2, OptionsSends
  <2> QED
    BY <2>3, OtherIsSilent
<1>3. stage' \in {"Read", "Eliminated", "Failed"} /\ tvr' = tvr /\ terminal' = terminal /\ app' = app
  BY DEF GetProcessingOptions, registers, given
<1>4. BeforeAc' \/ Closed'
  BY <1>3 DEF BeforeAc, Chosen, Closed
<1> QED
  BY <1>1, <1>2, <1>3, <1>4, StepBefore

\* ... and reading a record keep what ties the first GENERATE AC to the codes.
LEMMA ReadRecordAc == ASSUME CardInv, AcInv, ReadRecord PROVE AcInv'
<1>1. BeforeAc /\ IsString(seen) /\ tvr \subseteq BookNames /\ app = Some(terminal.app)
  BY DEF ReadRecord, BeforeAc, Chosen, CardInv, IInv, ShapesOk, AcInv
<1>2. PICK step : step = Head(walk)
  OBVIOUS
<1>3. Send(read_record(step.sfi, step.record_number)) /\ \E response \in Responses(read_record(step.sfi, step.record_number)) : TRUE
  BY <1>2 DEF ReadRecord
<1>4. Silent
  BY <1>3, ReadIsSilent
<1>5. stage' \in {"Read", "Failed"} /\ tvr' = tvr /\ terminal' = terminal /\ app' = app
  BY DEF ReadRecord, Fail, registers, given, selection
<1>6. BeforeAc' \/ Closed'
  BY <1>5 DEF BeforeAc, Chosen, Closed
<1> QED
  BY <1>1, <1>4, <1>5, <1>6, StepBefore

\* The bits restrictions and risk management set are among those named.
LEMMA RestrictionBits ==
    ASSUME NEW a, NEW t, NEW x
    PROVE  Restriction!Restrictions(a, t, x) \subseteq BookNames
BY BookNamesListed DEF Restriction!Restrictions, Restriction!If

\* Risk management sets bits the books name here.
LEMMA RiskBitsNamed == ASSUME NEW ctx PROVE Risk!RiskBits(ctx) \subseteq BookNames
<1>1. Risk!VelocityBits \subseteq BookNames
  BY BookNamesListed DEF Risk!VelocityBits
<1>2. \A since, lower, upper : Risk!Exceeded(since, lower, upper) \subseteq BookNames
  BY <1>1, BookNamesListed DEF Risk!Exceeded
<1>3. Risk!check_velocity(ctx.lower, ctx.upper, ctx.atc, ctx.last_online) \subseteq BookNames
  BY <1>1, <1>2, BookNamesListed DEF Risk!check_velocity
<1> QED
  BY <1>3, BookNamesListed DEF Risk!RiskBits

\* So does the hash over the TDOL.
LEMMA HashBits == ASSUME NEW dol, tvr \subseteq BookNames PROVE TcHash(dol).tvr \subseteq BookNames
BY BookNamesListed DEF TcHash

\* The steps between the last record and the first GENERATE AC.
LEMMA StepOnTheWay ==
    ASSUME CardInv, AcInv, Chosen, Silent, Chosen' \/ stage' = "Failed", tvr' \subseteq BookNames,
           UNCHANGED <<terminal, app>>
    PROVE  AcInv'
<1>1. BeforeAc /\ IsString(seen)
  BY DEF BeforeAc, CardInv, IInv, ShapesOk
<1>2. BeforeAc' \/ Closed'
  BY DEF BeforeAc, Closed
<1>3. app' = Some(terminal'.app)
  BY DEF AcInv
<1> QED
  BY <1>1, <1>2, <1>3, StepBefore

\* Processing restrictions...
LEMMA ProcessRestrictionsAc == ASSUME CardInv, AcInv, ProcessRestrictions PROVE AcInv'
<1>1. Chosen /\ (Chosen' \/ stage' = "Failed")
  BY DEF ProcessRestrictions, Chosen, Fail
<1>2. UNCHANGED <<terminal, app>> /\ Silent
  BY DEF ProcessRestrictions, given, selection, Silent
<1>3. tvr' = tvr \/ \E a, t, x : tvr' = tvr \cup Restriction!Restrictions(a, t, x)
  BY DEF ProcessRestrictions
<1>4. tvr' \subseteq BookNames
  BY <1>3, RestrictionBits DEF AcInv
<1> QED
  BY <1>1, <1>2, <1>4, StepOnTheWay

\* ... presenting a PIN...
LEMMA PresentPinAc == ASSUME CardInv, AcInv, PresentPin PROVE AcInv'
<1>1. UNCHANGED <<terminal, app>> /\ tvr' \subseteq BookNames
  BY DEF PresentPin, given, selection, registers, AcInv
<1>2. PICK pin : pin = inputs.pin
  OBVIOUS
<1>3. PICK response \in Responses(verify_plaintext_pin(pin)) :
        Send(verify_plaintext_pin(pin)) /\ stage' \in {"Failed", "Verified"}
  BY <1>2 DEF PresentPin
<1>4. Asks(\h20, 0, \h80, response)
  BY <1>3, PinSends
<1>5. Silent
  BY <1>4, OtherIsSilent
<1>6. Chosen /\ (Chosen' \/ stage' = "Failed")
  BY <1>3 DEF PresentPin, Chosen
<1> QED
  BY <1>1, <1>5, <1>6, StepOnTheWay

\* ... cardholder verification...
LEMMA CardholderVerificationAc == ASSUME CardInv, AcInv, CardholderVerification PROVE AcInv'
<1>1. Chosen /\ (Chosen' \/ stage' = "Failed")
  BY DEF CardholderVerification, Chosen, Fail
<1>2. UNCHANGED <<terminal, app>> /\ Silent
  BY DEF CardholderVerification, given, selection, Silent
<1>3. tvr' = tvr \/ tvr' = tvr \cup {"cardholder_verification_was_not_successful"}
  BY DEF CardholderVerification, registers
<1>4. tvr' \subseteq BookNames
  BY <1>3, BookNamesListed DEF AcInv
<1> QED
  BY <1>1, <1>2, <1>4, StepOnTheWay

\* ... the one counter...
LEMMA GetAtcAc == ASSUME CardInv, AcInv, GetAtc PROVE AcInv'
<1>1. UNCHANGED <<terminal, app>> /\ tvr' \subseteq BookNames
  BY DEF GetAtc, given, selection, registers, AcInv
<1>2. PICK tag : tag = <<\h9F, \h36>>
  OBVIOUS
<1>3. PICK response \in Responses(get_data(tag)) :
        Send(get_data(tag)) /\ stage' \in {"LastOnline", "Failed"}
  BY <1>2 DEF GetAtc, GetData, Fail
<1>4. Silent
  BY <1>3, CounterIsSilent
<1>5. Chosen /\ (Chosen' \/ stage' = "Failed")
  BY <1>3 DEF GetAtc, Chosen
<1> QED
  BY <1>1, <1>4, <1>5, StepOnTheWay

\* ... and the other keep it.
LEMMA GetLastOnlineAtcAc == ASSUME CardInv, AcInv, GetLastOnlineAtc PROVE AcInv'
<1>1. UNCHANGED <<terminal, app>>
  BY DEF GetLastOnlineAtc, given, selection
<1>2. PICK tag : tag = <<\h9F, \h13>>
  OBVIOUS
<1>3. PICK response \in Responses(get_data(tag)) :
        /\ Send(get_data(tag)) /\ stage' \in {"FirstAc", "Failed"}
        /\ tvr' = tvr \/ \E ctx : tvr' = tvr \cup Risk!RiskBits(ctx)
  BY <1>2 DEF GetLastOnlineAtc, GetData, ManageRisk, Fail, registers
<1>4. Silent
  BY <1>3, CounterIsSilent
<1>5. Chosen /\ (Chosen' \/ stage' = "Failed")
  BY <1>3 DEF GetLastOnlineAtc, Chosen
<1>6. tvr' \subseteq BookNames
  BY <1>3, RiskBitsNamed DEF AcInv
<1> QED
  BY <1>1, <1>4, <1>5, <1>6, StepOnTheWay

\* EXTERNAL AUTHENTICATE...
LEMMA OnlineCardAuthenticationAc == ASSUME CardInv, AcInv, OnlineCardAuthentication PROVE AcInv'
<1>1. BetweenAcs /\ IsString(seen)
  BY DEF OnlineCardAuthentication, BetweenAcs, CardInv, IInv, ShapesOk
<1>2. UNCHANGED <<card, terminal, decided>>
  BY DEF OnlineCardAuthentication, given, deciding
<1>3. seen' = seen \/ \E r : seen' = Append(seen, r)
  BY DEF OnlineCardAuthentication, Send
<1>4. BetweenAcs' \/ Closed'
  BY DEF OnlineCardAuthentication, Fail, BetweenAcs, Closed
<1>5. tvr' = tvr \/ tvr' = tvr \cup {"issuer_authentication_failed"}
  BY DEF OnlineCardAuthentication, registers
<1>6. tvr' \subseteq BookNames
  BY <1>5, BookNamesListed DEF AcInv
<1> QED
  BY <1>1, <1>2, <1>3, <1>4, <1>6, StepBetween

\* ... the host...
LEMMA HostAc == ASSUME CardInv, AcInv, Host PROVE AcInv'
<1>1. BetweenAcs /\ IsString(seen) /\ tvr \subseteq BookNames
  BY DEF Host, BetweenAcs, CardInv, IInv, ShapesOk, AcInv
<1>2. UNCHANGED <<card, terminal, decided, seen, tvr>> /\ BetweenAcs'
  BY DEF Host, given, deciding, BetweenAcs
<1> QED
  BY <1>1, <1>2, StepBetween

\* ... and the second GENERATE AC come after the first.
LEMMA SecondGenerateAcAc == ASSUME CardInv, AcInv, SecondGenerateAc PROVE AcInv'
<1>1. BetweenAcs /\ IsString(seen) /\ tvr \subseteq BookNames
  BY DEF SecondGenerateAc, BetweenAcs, CardInv, IInv, ShapesOk, AcInv
<1>2. UNCHANGED <<card, terminal, decided>>
  BY DEF SecondGenerateAc, given, deciding
<1>3. PICK tag : tag = <<\h8D>>
  OBVIOUS
<1>4. /\ seen' = seen \/ \E r : seen' = Append(seen, r)
      /\ tvr' = tvr \/ \E dol : tvr' = TcHash(dol).tvr
      /\ stage' \in {"Done", "Failed"}
  BY <1>3 DEF SecondGenerateAc, Generate, Send, Fail, registers
<1>5. tvr' \subseteq BookNames /\ Closed'
  BY <1>1, <1>4, HashBits DEF Closed
<1> QED
  BY <1>1, <1>2, <1>4, <1>5, StepBetween

\* The bits of P1 are those of the cryptogram.
LEMMA CodeOfCryptogram ==
    ASSUME NEW request \in {"TC", "AAC", "ARQC"}
    PROVE  (64 * CryptogramBits[request]) + (8 * SignatureBits["none"]) = P1Of(request)
<1>1. SignatureBits["none"] = 0
  BY DEF SignatureBits
<1>2. CASE request = "TC"
  BY <1>1, <1>2 DEF CryptogramBits, P1Of
<1>3. CASE request = "AAC"
  BY <1>1, <1>3 DEF CryptogramBits, P1Of
<1>4. CASE request = "ARQC"
  BY <1>1, <1>4 DEF CryptogramBits, P1Of
<1> QED
  BY <1>2, <1>3, <1>4

\* The first GENERATE AC asks for what the codes call for, answered or refused,
\* encoded or not.
LEMMA FirstGenerateAcAc == ASSUME CardInv, AcInv, FirstGenerateAc PROVE AcInv'
<1>1. /\ IsString(seen) /\ tvr \subseteq BookNames /\ app = Some(terminal.app) /\ NoAc(seen)
      /\ Walked /\ stage # "Failed"
  BY DEF FirstGenerateAc, BeforeAc, Chosen, Walked, CardInv, IInv, ShapesOk, AcInv
<1>2. UNCHANGED <<card, terminal>>
  BY DEF FirstGenerateAc, given
<1>3. PICK tag, request : tag = <<\h8C>> /\ request = Decision
  OBVIOUS
<1>4. \/ stage' = "Failed" /\ seen' = seen /\ tvr' = tvr
      \/ /\ ~\E k \in DOMAIN IacTags : WrongLength(IacTags[k], 5)
         /\ decided' = tvr
         /\ Cdol(tag) # None /\ tvr' = TcHash(Unwrap(Cdol(tag))).tvr
         /\ Send(AcCommand(request, Unwrap(Cdol(tag))))
         /\ \E response \in Responses(AcCommand(request, Unwrap(Cdol(tag)))) :
              \/ stage' = "Failed"
              \/ AcResponse(response) # None /\ stage' \in {"Host", "Done"}
  BY <1>3 DEF FirstGenerateAc, Generate, Fail, registers
<1>5. CASE stage' = "Failed" /\ seen' = seen /\ tvr' = tvr
  <2>1. ~Chosen' /\ ~BeforeAc' /\ ~BetweenAcs'
    BY <1>5 DEF BeforeAc, Chosen, BetweenAcs
  <2>2. PICK p : p = Called'
    OBVIOUS
  <2>3. FirstAcAsks(seen, p)
    BY <1>1, NoneIsFirst
  <2> QED
    BY <1>1, <1>5, <2>1, <2>2, <2>3 DEF AcInv
<1>6. CASE /\ ~\E k \in DOMAIN IacTags : WrongLength(IacTags[k], 5)
           /\ decided' = tvr
           /\ Cdol(tag) # None /\ tvr' = TcHash(Unwrap(Cdol(tag))).tvr
           /\ Send(AcCommand(request, Unwrap(Cdol(tag))))
           /\ \E response \in Responses(AcCommand(request, Unwrap(Cdol(tag)))) :
                \/ stage' = "Failed"
                \/ AcResponse(response) # None /\ stage' \in {"Host", "Done"}
  <2>1. PICK fields : fields = Unwrap(Cdol(tag)) /\ fields \in Seq(Field)
    <3>1. tag \notin OwnTags
      BY <1>3 DEF OwnTags
    <3>2. Value(tag) # None
      BY <1>6 DEF Cdol, Then
    <3>3. PICK bytes \in Seq(Byte) : Value(tag) = Some(bytes)
      BY <1>1, <3>1, <3>2, HeldInBytes DEF CardInv
    <3>4. Cdol(tag) = ParseDol(bytes)
      BY <3>2, <3>3, OfSome DEF Cdol, Then
    <3>5. PICK list \in Seq(Field) : Cdol(tag) = Some(list)
      BY <1>6, <3>4, ParseDolGivesFields
    <3> QED
      BY <3>5, OfSome
  <2>2. PICK response \in Responses(AcCommand(request, fields)) :
           /\ Send(AcCommand(request, fields))
           /\ stage' = "Failed" \/ (AcResponse(response) # None /\ stage' \in {"Host", "Done"})
    BY <1>6, <2>1
  <2>3. PICK ctx : ctx = [Ctx EXCEPT !.tvr = WithFlags(TvrLayout, TcHash(fields).tvr),
                                     !.tc_hash_value = TcHash(fields).hash]
    OBVIOUS
  <2>4. IsString(Resolve(fields, ctx))
    BY <2>1, AnswerIsString
  <2>5. PICK p1 : p1 = (64 * CryptogramBits[request]) + (8 * SignatureBits["none"])
    OBVIOUS
  <2>6. Asks(\hAE, p1, 0, response)
    BY <2>2, <2>3, <2>4, <2>5, AcSends
  <2>7. p1 = Called'
    <3>1. PICK meant, capability : meant = CodesMeant /\ capability = terminal.capability
      OBVIOUS
    <3>2. request = Analysis!first_generate_ac_decision(tvr, meant, capability)
      BY <1>1, <1>3, <1>6, <3>1, DecidedAsMeant
    <3>3. p1 = P1Of(request)
      BY <2>5, <3>2, DecisionIsOneOfThree, CodeOfCryptogram
    <3>4. CodesMeant' = meant /\ terminal'.capability = capability
      BY <1>2, <3>1 DEF CodesMeant
    <3> QED
      BY <1>6, <3>2, <3>3, <3>4 DEF Called
  <2>8. tvr' \subseteq BookNames
    BY <1>1, <1>6, HashBits
  <2>9. ~Chosen' /\ ~BeforeAc'
    BY <2>2 DEF Chosen, BeforeAc
  <2>10. CASE seen' = seen
    <3>1. FirstAcAsks(seen', p1)
      BY <1>1, <2>10, NoneIsFirst
    <3>2. ~BetweenAcs'
      <4>1. stage' = "Failed" \/ response # Lost
        <5>1. Lost.sw # \h9000
          BY DEF Lost
        <5> QED
          BY <2>2, <5>1 DEF AcResponse, Check
      <4>2. response = Lost
        <5>1. \A r : Append(seen, r) # seen
          <6> SUFFICES ASSUME NEW r, Append(seen, r) = seen PROVE FALSE
            OBVIOUS
          <6>1. PICK n \in Nat : DOMAIN seen = 1..n /\ DOMAIN Append(seen, r) = 1..(n + 1)
            BY <1>1, Appended
          <6>2. n + 1 \in 1..n
            BY <6>1
          <6> QED
            BY <6>2
        <5> QED
          BY <2>6, <2>10, <5>1 DEF Asks
      <4> QED
        BY <4>1, <4>2 DEF BetweenAcs
    <3> QED
      BY <2>7, <2>8, <2>9, <3>1, <3>2 DEF AcInv
  <2>11. CASE seen' # seen
    <3>1. PICK r : r.ins = \hAE /\ r.p1 = p1 /\ seen' = Append(seen, r)
      BY <2>6, <2>11 DEF Asks
    <3>2. ~NoAc(seen') /\ FirstAcAsks(seen', p1)
      BY <1>1, <3>1, NoAcAppend
    <3> QED
      BY <2>7, <2>8, <2>9, <3>2 DEF AcInv
  <2> QED
    BY <2>10, <2>11
<1> QED
  BY <1>4, <1>5, <1>6

\* It holds before the first command...
LEMMA AcInitially == ASSUME Init PROVE AcInv
<1>1. stage = "Pse" /\ seen = <<>> /\ tvr = {}
  BY DEF Init
<1>2. NoAc(seen)
  BY <1>1 DEF NoAc
<1>3. PICK p : p = Called
  OBVIOUS
<1>4. FirstAcAsks(seen, p)
  BY <1>2, NoneIsFirst
<1> QED
  BY <1>1, <1>2, <1>3, <1>4 DEF AcInv, Chosen, BetweenAcs

\* ... and every step keeps it.
LEMMA NextKeepsAc == ASSUME CardInv, AcInv, [Next]_vars PROVE AcInv'
<1>1. CASE SelectPse \/ ReadDirectory \/ SelectAid \/ Select \/ GetProcessingOptions \/ ReadRecord
  BY <1>1, SelectPseAc, ReadDirectoryAc, SelectAidAc, SelectAc, GetProcessingOptionsAc, ReadRecordAc
<1>2. CASE ProcessRestrictions \/ PresentPin \/ CardholderVerification \/ GetAtc \/ GetLastOnlineAtc
  BY <1>2, ProcessRestrictionsAc, PresentPinAc, CardholderVerificationAc, GetAtcAc, GetLastOnlineAtcAc
<1>3. CASE FirstGenerateAc \/ OnlineCardAuthentication \/ Host \/ SecondGenerateAc
  BY <1>3, FirstGenerateAcAc, OnlineCardAuthenticationAc, HostAc, SecondGenerateAcAc
<1>4. CASE Over \/ UNCHANGED vars
  BY <1>4, StepOver DEF Over
<1> QED
  BY <1>1, <1>2, <1>3, <1>4 DEF Next

\* It is what the property says.
LEMMA CalledByTheCodes == ASSUME AcInv PROVE DecisionFollowsTheCodes
<1>1. FirstAcAsks(seen, Called)
  BY DEF AcInv
<1>2. PICK request : request = Analysis!first_generate_ac_decision(decided, CodesMeant, terminal.capability)
  OBVIOUS
<1>3. FirstAcAsks(seen, P1Of(request))
  BY <1>1, <1>2 DEF Called
<1> QED
  BY <1>2, <1>3 DEF DecisionFollowsTheCodes, FirstAcAsks, P1Of

\* The cryptogram the card is first asked for, as it reads it in P1, is the one
\* that its issuer's action codes and the terminal's call for on the verification
\* results at that time (action_codes, first_generate_ac_decision): the codes are
\* those the records that are listed hold, their bits at the places of Book 3
\* Table 46, the capability is that of Book 4 Table 24, and a code that is
\* missing counts as the books have it.
THEOREM DecisionFollowsTheCodesAlways == Spec => []DecisionFollowsTheCodes
<1>1. Init => CardInv /\ AcInv
  BY InitHolds, AcInitially DEF CardInv
<1>2. CardInv /\ AcInv /\ [Next]_vars => CardInv' /\ AcInv'
  BY NextKeeps, NextKeepsAc
<1>3. AcInv => DecisionFollowsTheCodes
  BY CalledByTheCodes
<1> QED
  BY <1>1, <1>2, <1>3, PTL DEF Spec
=============================================================================
