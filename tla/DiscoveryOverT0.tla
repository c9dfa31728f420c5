--------------------------- MODULE DiscoveryOverT0 ---------------------------
(***************************************************************************)
(* The candidate list built over a T=0 reader: each command of             *)
(* build_candidate_list is an exchange of transmit_apdu, in which the card *)
(* may delay, split or break off its answer.  The driver sees the answer   *)
(* only if all of its parts have come together.                            *)
(***************************************************************************)
EXTENDS ApplicationNames, T0Transport, WellFoundedInduction, TLAPS

VARIABLES pc, card, record, index, cands

Discovery == INSTANCE CandidateDiscovery

discoveryVars == <<pc, card, record, index, cands>>
vars == <<discoveryVars, transportVars>>

Init == Discovery!Init /\ TransportInit

\* The driver sends its next command.  What parses has at least a part.
Transmit ==
    /\ Discovery!Sending
    /\ \E n \in 0..MaxParts : (Discovery!CardAnswer.malformed \/ n > 0) /\ Begin(n)
    /\ UNCHANGED discoveryVars

Exchange == TransportStep /\ UNCHANGED discoveryVars

\* An answer that lacks a part does not parse.
Received ==
    IF accumulated = Parts(size)
    THEN Discovery!CardAnswer
    ELSE [Discovery!CardAnswer EXCEPT !.malformed = TRUE]

\* transmit returns to the driver.
Response ==
    /\ Take
    /\ \/ outcome = "Answered" /\ Discovery!Handle(Received)
       \/ outcome = "Lost" /\ Discovery!Lost
    /\ UNCHANGED <<pending, rounds, accumulated, size, sent, executed>>

AidsExhausted == Discovery!AidsExhausted /\ UNCHANGED transportVars

Over == Discovery!Over /\ UNCHANGED vars

Next == Transmit \/ Exchange \/ Response \/ AidsExhausted \/ Over

\* The driver and transmit_apdu are sequential code that goes on as long as
\* the reader returns, which Failure lets it do at any time.
Spec == Init /\ [][Next]_vars /\ WF_vars(Next)
-----------------------------------------------------------------------------
\* The list matches the card however the answers were served.
ListMatchesCard == Discovery!ListMatchesCard

\* Over the T=0 reader the driver does what it does over a reader that gives
\* each answer at once and whole, or fails.
ImplementsDiscovery == Discovery!Spec

\* A card that never stops answering '61xx' or '6Cxx', or whose directory has
\* no end, does not keep build_candidate_list from returning.
DiscoveryReturns == <>(pc \in {"Done", "Err"})
-----------------------------------------------------------------------------
(* Discovery over a T=0 reader implements discovery over a reader that      *)
(* answers at once, for all applications, cards and bounds.                 *)

\* What has arrived is what the card has sent, in its order and once.
Ordered ==
    /\ size \in Nat /\ sent \in Nat /\ sent <= size
    /\ accumulated = Parts(sent)
    /\ outcome # "Answered" \/ sent = size

\* A command that is still to be sent has not been executed.
Unexecuted ==
    /\ executed \in Nat /\ executed <= 1
    /\ pending # "command" \/ executed = 0

TransportInv ==
    /\ pending \in {"nothing", "command", "GET RESPONSE"}
    /\ pending = "nothing" \/ outcome = "None"
    /\ Ordered
    /\ Unexecuted

LEMMA PartsGrow ==
    ASSUME NEW n \in Nat
    PROVE  Append(Parts(n), n + 1) = Parts(n + 1)
<1>1. Parts(n) \in Seq(Nat) /\ Len(Parts(n)) = n
  BY DEF Parts
<1>2. /\ Append(Parts(n), n + 1) \in Seq(Nat) /\ Parts(n + 1) \in Seq(Nat)
      /\ Len(Append(Parts(n), n + 1)) = n + 1 /\ Len(Parts(n + 1)) = n + 1
  BY <1>1 DEF Parts
<1>3. ASSUME NEW i \in 1..(n + 1)
      PROVE  Append(Parts(n), n + 1)[i] = Parts(n + 1)[i]
  BY <1>1, <1>3 DEF Parts
<1> QED
  BY <1>2, <1>3

LEMMA TransportStarts == TransportInit => TransportInv
<1> SUFFICES ASSUME TransportInit PROVE TransportInv
  OBVIOUS
<1>1. Parts(0) = <<>>
  BY DEF Parts
<1> QED
  BY <1>1 DEF TransportInit, TransportInv, Ordered, Unexecuted

\* A new exchange begins with nothing received.
LEMMA BeginKeeps ==
    ASSUME TransportInv, NEW n \in 0..MaxParts, Begin(n)
    PROVE  TransportInv'
<1>1. Parts(0) = <<>>
  BY DEF Parts
<1>2. n \in Nat
  BY TransportAssumption
<1> QED
  BY <1>1, <1>2 DEF Begin, TransportInv, Ordered, Unexecuted

\* Once executed, the command is not sent again.
LEMMA ExecutesOnce ==
    ASSUME Unexecuted, Executes, pending' # "command"
    PROVE  Unexecuted'
<1>1. CASE pending = "command"
  BY <1>1 DEF Unexecuted, Executes
<1>2. CASE pending # "command"
  BY <1>2 DEF Unexecuted, Executes
<1> QED
  BY <1>1, <1>2

\* A round keeps what has arrived in order, and only a first '61xx' or an
\* answer of its own is the execution of the command.
LEMMA StepKeeps ==
    ASSUME TransportInv, TransportStep
    PROVE  TransportInv'
<1>1. CASE BytesAvailable
  <2>1. Ordered'
    BY <1>1 DEF BytesAvailable, TransportInv, Ordered
  <2>2. Unexecuted' /\ pending' = "GET RESPONSE"
    BY <1>1, ExecutesOnce DEF BytesAvailable, TransportInv
  <2>3. outcome' = "None"
    BY <1>1 DEF BytesAvailable, Round, TransportInv
  <2> QED
    BY <2>1, <2>2, <2>3 DEF TransportInv
<1>2. CASE WrongLength
  BY <1>2 DEF WrongLength, Round, TransportInv, Ordered, Unexecuted
<1>3. CASE MoreToCome
  <2>1. sent \in Nat /\ size \in Nat /\ sent + 1 < size /\ accumulated = Parts(sent)
    BY <1>3 DEF MoreToCome, TransportInv, Ordered
  <2>2. accumulated' = Parts(sent')
    BY <1>3, <2>1, PartsGrow DEF MoreToCome
  <2>3. outcome' = "None"
    BY <1>3 DEF MoreToCome, Round, TransportInv
  <2>4. sent' = sent + 1 /\ size' = size
    BY <1>3 DEF MoreToCome
  <2>5. Ordered'
    BY <2>1, <2>2, <2>3, <2>4 DEF Ordered
  <2>6. Unexecuted' /\ pending' = "GET RESPONSE"
    BY <1>3, ExecutesOnce DEF MoreToCome, TransportInv
  <2> QED
    BY <2>3, <2>5, <2>6 DEF TransportInv
<1>4. CASE Final
  <2>1. sent \in Nat /\ size \in Nat /\ sent <= size /\ size <= sent + 1 /\ accumulated = Parts(sent)
    BY <1>4 DEF Final, TransportInv, Ordered
  <2>2. accumulated' = Parts(size)
    <3>1. CASE sent < size
      <4>1. size = sent + 1
        BY <2>1, <3>1
      <4> QED
        BY <1>4, <2>1, <3>1, <4>1, PartsGrow DEF Final
    <3>2. CASE ~(sent < size)
      <4>1. size = sent
        BY <2>1, <3>2
      <4> QED
        BY <1>4, <2>1, <3>2, <4>1 DEF Final
    <3> QED
      BY <3>1, <3>2
  <2>3. Ordered'
    BY <1>4, <2>1, <2>2 DEF Final, Return, Ordered
  <2>4. Unexecuted' /\ pending' = "nothing"
    BY <1>4, ExecutesOnce DEF Final, Return, TransportInv
  <2> QED
    BY <2>3, <2>4 DEF TransportInv
<1>5. CASE Failure
  BY <1>5 DEF Failure, Return, TransportInv, Ordered, Unexecuted
<1> QED
  BY <1>1, <1>2, <1>3, <1>4, <1>5 DEF TransportStep

LEMMA TransportKept == TransportInv /\ [Next]_vars => TransportInv'
<1> SUFFICES ASSUME TransportInv, [Next]_vars PROVE TransportInv'
  OBVIOUS
<1>1. CASE Transmit
  BY <1>1, BeginKeeps DEF Transmit
<1>2. CASE Exchange
  BY <1>2, StepKeeps DEF Exchange
<1>3. CASE Response
  BY <1>3 DEF Response, Take, TransportInv, Ordered, Unexecuted
<1>4. CASE UNCHANGED transportVars
  BY <1>4 DEF transportVars, TransportInv, Ordered, Unexecuted
<1>5. AidsExhausted \/ Over \/ UNCHANGED vars => UNCHANGED transportVars
  BY DEF AidsExhausted, Over, vars
<1> QED
  BY <1>1, <1>2, <1>3, <1>4, <1>5 DEF Next

\* At all times what has arrived is what was sent, and a command that goes
\* out again has not been executed (transmit_apdu).
THEOREM TransportInvariant == Spec => []TransportInv
<1>1. Init => TransportInv
  BY TransportStarts DEF Init
<1> QED
  BY <1>1, TransportKept, PTL DEF Spec

\* However the card serves its answers, it executes each command once.
THEOREM CommandExecutedOnceAlways == Spec => []CommandExecutedOnce
<1>1. TransportInv => CommandExecutedOnce
  BY DEF TransportInv, Unexecuted, CommandExecutedOnce
<1> QED
  BY <1>1, TransportInvariant, PTL

\* An answered exchange hands the driver the card's answer as it is.
LEMMA ReceivedWhole ==
    ASSUME TransportInv, outcome = "Answered"
    PROVE  Received = Discovery!CardAnswer
  BY DEF TransportInv, Ordered, Received

\* Each step is a step of discovery over a reader that answers at once, or
\* leaves its state alone.
LEMMA StepImplements ==
    TransportInv /\ [Next]_vars => [Discovery!Next]_(Discovery!vars)
<1> SUFFICES ASSUME TransportInv, [Next]_vars PROVE [Discovery!Next]_(Discovery!vars)
  OBVIOUS
<1>1. UNCHANGED discoveryVars => UNCHANGED Discovery!vars
  BY DEF discoveryVars, Discovery!vars
<1>2. CASE Transmit \/ Exchange
  BY <1>1, <1>2 DEF Transmit, Exchange
<1>3. CASE Response
  <2>1. CASE outcome = "Answered" /\ Discovery!Handle(Received)
    BY <2>1, ReceivedWhole DEF Discovery!Next, Discovery!Exchange
  <2>2. CASE outcome = "Lost" /\ Discovery!Lost
    BY <2>2 DEF Discovery!Next, Discovery!Exchange
  <2> QED
    BY <1>3, <2>1, <2>2 DEF Response
<1>4. CASE AidsExhausted
  BY <1>4 DEF AidsExhausted, Discovery!Next
<1>5. CASE Over
  BY <1>5 DEF Over, Discovery!Next
<1>6. CASE UNCHANGED vars
  BY <1>1, <1>6 DEF vars
<1> QED
  BY <1>2, <1>3, <1>4, <1>5, <1>6 DEF Next

\* Over the T=0 reader, build_candidate_list does what it does over a reader
\* that gives each answer at once and whole, or fails.
THEOREM DiscoveryImplemented == Spec => ImplementsDiscovery
<1>1. Init => Discovery!Init
  BY DEF Init
<1> QED
  BY <1>1, StepImplements, TransportInvariant, PTL DEF Spec, ImplementsDiscovery, Discovery!Spec
-----------------------------------------------------------------------------
(* What the list comes to. *)

\* A set of numbers that is not empty has a least.
LEMMA LeastOf ==
    ASSUME NEW T, T \subseteq Nat, T # {}
    PROVE  \E x \in T : \A y \in T : x <= y
<1>1. OpToRel(<, Nat) = {ss \in Nat \X Nat : ss[1] < ss[2]}
  BY DEF OpToRel
<1>2. PICK x \in T : \A y \in T : <<y, x>> \notin OpToRel(<, Nat)
  BY NatLessThanWellFounded, WFMin
<1>3. \A y \in T : ~(y < x)
  BY <1>1, <1>2
<1>4. \A y \in T : x <= y
  BY <1>3
<1> QED
  BY <1>4

\* Induction, over a set of numbers.
LEMMA EveryNumber ==
    ASSUME NEW S, 0 \in S, \A n \in Nat : n \in S => n + 1 \in S
    PROVE  Nat \subseteq S
<1> DEFINE T == Nat \ S
<1> SUFFICES ASSUME T # {} PROVE FALSE
  OBVIOUS
<1>1. PICK x \in T : \A y \in T : x <= y
  BY LeastOf
<1>2. x - 1 \in Nat /\ ~(x <= x - 1)
  OBVIOUS
<1> QED
  BY <1>1, <1>2

\* Rows of lists, each the one before with another list behind it: there are
\* such, however many lists there are.
LEMMA JoinedUpTo ==
    ASSUME NEW lists, NEW last \in Nat
    PROVE  \E f : f = [n \in 0..last |-> IF n = 0 THEN <<>> ELSE f[n - 1] \o lists[n]]
<1> DEFINE Row(f, m) == f = [n \in 0..m |-> IF n = 0 THEN <<>> ELSE f[n - 1] \o lists[n]]
           S == {m \in Nat : \E f : Row(f, m)}
<1>1. 0 \in S
  <2> DEFINE f == [n \in 0..0 |-> <<>>]
  <2>1. Row(f, 0)
    OBVIOUS
  <2> QED
    BY <2>1
<1>2. ASSUME NEW m \in Nat, m \in S PROVE m + 1 \in S
  <2>1. PICK f : Row(f, m)
    BY <1>2
  <2> DEFINE g == [n \in 0..(m + 1) |-> IF n <= m THEN f[n] ELSE f[m] \o lists[n]]
  <2>2. \A n \in 0..m : f[n] = (IF n = 0 THEN <<>> ELSE f[n - 1] \o lists[n])
    BY <2>1
  <2>3. (\A n \in 0..m : g[n] = f[n]) /\ g[m + 1] = f[m] \o lists[m + 1]
    <3>1. \A n \in 0..m : n \in 0..(m + 1) /\ n <= m
      OBVIOUS
    <3>2. m + 1 \in 0..(m + 1) /\ ~(m + 1 <= m)
      OBVIOUS
    <3> QED
      BY <3>1, <3>2
  <2>4. ASSUME NEW n \in 0..(m + 1)
        PROVE  g[n] = (IF n = 0 THEN <<>> ELSE g[n - 1] \o lists[n])
    <3>1. CASE n \in 0..m
      <4>1. n = 0 \/ n - 1 \in 0..m
        BY <3>1
      <4> HIDE DEF g
      <4> QED
        BY <2>2, <2>3, <3>1, <4>1
    <3>2. CASE n = m + 1
      <4>1. n # 0 /\ n - 1 = m /\ m \in 0..m
        BY <3>2
      <4> HIDE DEF g
      <4> QED
        BY <2>3, <3>2, <4>1
    <3> QED
      BY <3>1, <3>2
  <2>5. g = [n \in 0..(m + 1) |-> g[n]]
    OBVIOUS
  <2>6. Row(g, m + 1)
    <3> HIDE DEF g
    <3> QED
      BY <2>4, <2>5
  <2>7. m + 1 \in Nat
    OBVIOUS
  <2> HIDE DEF g, Row
  <2> QED
    BY <2>6, <2>7
<1>3. Nat \subseteq S
  <2> HIDE DEF S
  <2> QED
    BY <1>1, <1>2, EveryNumber
<1> QED
  BY <1>3

\* Such a row as a definition by recursion makes it, and what there is in it.
RowOf(lists, last) ==
    CHOOSE f : f = [n \in 0..last |-> IF n = 0 THEN <<>> ELSE f[n - 1] \o lists[n]]

Unfolds(row, lists, last) ==
    row[0] = <<>> /\ \A n \in 1..last : row[n] = row[n - 1] \o lists[n]

LEMMA RowUnfolds ==
    ASSUME NEW lists, NEW last \in Nat
    PROVE  Unfolds(RowOf(lists, last), lists, last)
<1> DEFINE row == RowOf(lists, last)
<1>1. row = [n \in 0..last |-> IF n = 0 THEN <<>> ELSE row[n - 1] \o lists[n]]
  BY JoinedUpTo DEF RowOf
<1> HIDE DEF row
<1>2. \A n \in 0..last : row[n] = (IF n = 0 THEN <<>> ELSE row[n - 1] \o lists[n])
  BY <1>1
<1>3. row[0] = (IF 0 = 0 THEN <<>> ELSE row[0 - 1] \o lists[0])
  <2>1. 0 \in 0..last
    OBVIOUS
  <2> QED
    BY <1>2, <2>1
<1>4. \A n \in 1..last : n \in 0..last /\ n # 0
  OBVIOUS
<1>5. row[0] = <<>>
  BY <1>3
<1>6. \A n \in 1..last : row[n] = row[n - 1] \o lists[n]
  BY <1>2, <1>4
<1> QED
  BY <1>5, <1>6 DEF Unfolds, row

\* The lists of a directory and of the AIDs, record by record and AID by AID.
DirectoryRow ==
    /\ Discovery!DirectoryUpTo[0] = <<>>
    /\ \A n \in 1..MaxRecord :
          Discovery!DirectoryUpTo[n]
            = Discovery!DirectoryUpTo[n - 1] \o Discovery!Supported(card.records[n].content)

AidsRow ==
    /\ Discovery!AidsUpTo[0] = <<>>
    /\ \A n \in DOMAIN Aids :
          Discovery!AidsUpTo[n]
            = Discovery!AidsUpTo[n - 1]
                \o (IF Discovery!Selectable(n) THEN <<card.adf[n].content>> ELSE <<>>)

LEMMA DirectoryUnfolds == DirectoryRow
<1> DEFINE lists == [n \in 1..MaxRecord |-> Discovery!Supported(card.records[n].content)]
<1>1. MaxRecord \in Nat
  BY DiscoveryAssumption
<1>2. \A n \in 1..MaxRecord : lists[n] = Discovery!Supported(card.records[n].content)
  OBVIOUS
<1>3. \A f : [n \in 0..MaxRecord |-> IF n = 0 THEN <<>> ELSE f[n - 1] \o lists[n]]
              = [n \in 0..MaxRecord |->
                   IF n = 0 THEN <<>>
                   ELSE f[n - 1] \o Discovery!Supported(card.records[n].content)]
  <2>1. \A n \in 0..MaxRecord : n = 0 \/ n \in 1..MaxRecord
    BY <1>1
  <2> HIDE DEF lists
  <2> QED
    BY <1>2, <2>1
<1>4. Discovery!DirectoryUpTo = RowOf(lists, MaxRecord)
  <2> HIDE DEF lists
  <2> QED
    BY <1>3 DEF Discovery!DirectoryUpTo, RowOf
<1> HIDE DEF lists
<1>5. PICK row, given : row = Discovery!DirectoryUpTo /\ given = lists
  OBVIOUS
<1>6. row = RowOf(given, MaxRecord)
  BY <1>4, <1>5
<1>7. Unfolds(row, given, MaxRecord)
  BY <1>1, <1>6, RowUnfolds
<1> QED
  BY <1>2, <1>5, <1>7 DEF DirectoryRow, Unfolds

LEMMA AidsUnfold == AidsRow
<1> DEFINE lists == [n \in DOMAIN Aids |->
                       IF Discovery!Selectable(n) THEN <<card.adf[n].content>> ELSE <<>>]
<1>1. Len(Aids) \in Nat /\ DOMAIN Aids = 1..Len(Aids)
  BY DiscoveryAssumption
<1>2. \A n \in DOMAIN Aids :
         lists[n] = (IF Discovery!Selectable(n) THEN <<card.adf[n].content>> ELSE <<>>)
  OBVIOUS
<1>3. \A f : [n \in 0..Len(Aids) |-> IF n = 0 THEN <<>> ELSE f[n - 1] \o lists[n]]
              = [n \in 0..Len(Aids) |->
                   IF n = 0 THEN <<>>
                   ELSE f[n - 1] \o (IF Discovery!Selectable(n) THEN <<card.adf[n].content>>
                                     ELSE <<>>)]
  <2>1. \A n \in 0..Len(Aids) : n = 0 \/ n \in DOMAIN Aids
    BY <1>1
  <2> HIDE DEF lists
  <2> QED
    BY <1>2, <2>1
<1>4. Discovery!AidsUpTo = RowOf(lists, Len(Aids))
  <2> HIDE DEF lists
  <2> QED
    BY <1>3 DEF Discovery!AidsUpTo, RowOf
<1> HIDE DEF lists
<1>5. PICK row, given : row = Discovery!AidsUpTo /\ given = lists
  OBVIOUS
<1>6. row = RowOf(given, Len(Aids))
  BY <1>4, <1>5
<1>7. Unfolds(row, given, Len(Aids))
  BY <1>1, <1>6, RowUnfolds
<1> QED
  BY <1>1, <1>2, <1>5, <1>7 DEF AidsRow, Unfolds

\* In the directory every record so far could be read, and the candidates are
\* those it has named; with the AIDs the directory has come to nothing, none so
\* far has been answered by a blocked card, and the candidates are those that
\* could be selected.
ReadSoFar ==
    /\ card.pse.status = OK /\ ~card.pse.malformed
    /\ record \in 1..MaxRecord /\ index = 0
    /\ \A n \in 1..(record - 1) : card.records[n].status = OK /\ ~card.records[n].malformed
    /\ cands = Discovery!DirectoryUpTo[record - 1]

SelectedSoFar ==
    /\ card.pse.status # Blocked /\ ~Discovery!FromDirectory
    /\ index \in 0..Len(Aids)
    /\ \A i \in 1..index : card.adf[i].status # Blocked
    /\ cands = Discovery!AidsUpTo[index] /\ cands \in Seq(Name)

DiscoveryInv ==
    /\ card \in Cards
    /\ pc \in {"SelectPse", "ReadRecord", "SelectAid", "Done", "Err"}
    /\ pc = "SelectPse" => record = 1 /\ index = 0 /\ cands = <<>>
    /\ pc = "ReadRecord" => ReadSoFar
    /\ pc = "SelectAid" => SelectedSoFar
    /\ pc = "Done" => ~Discovery!CardBlocks
    /\ pc = "Done" => cands = (IF Discovery!FromDirectory THEN Discovery!DirectoryList
                               ELSE Discovery!AidList)

\* Where the records end, if all before record n can be read.
LEMMA EndsHere ==
    ASSUME NEW n \in 1..MaxRecord, card.records[n].status = RecordNotFound,
           \A m \in 1..(n - 1) : card.records[m].status = OK
    PROVE  Discovery!DirectoryEnd = n
<1> USE DEF OK, RecordNotFound, Discovery!OK, Discovery!RecordNotFound
<1> DEFINE ends == {m \in 1..MaxRecord : card.records[m].status = RecordNotFound}
<1>1. n \in ends /\ MaxRecord \in Nat
  BY DiscoveryAssumption
<1>2. \A m \in ends : m \in 1..MaxRecord /\ m \notin 1..(n - 1)
  OBVIOUS
<1>3. \A m \in ends : n <= m
  BY <1>1, <1>2
<1>4. \A m \in ends : (\A k \in ends : m <= k) => m = n
  BY <1>1, <1>2, <1>3
<1> HIDE DEF ends
<1>5. (CHOOSE m \in ends : \A k \in ends : m <= k) = n
  BY <1>1, <1>3, <1>4
<1> QED
  BY <1>1, <1>5 DEF Discovery!DirectoryEnd, ends

\* If they can all be read there is no end but the last.
LEMMA EndsLast ==
    ASSUME \A m \in 1..MaxRecord : card.records[m].status = OK
    PROVE  Discovery!DirectoryEnd = MaxRecord + 1
<1> USE DEF OK, RecordNotFound, Discovery!OK, Discovery!RecordNotFound
<1>1. {m \in 1..MaxRecord : card.records[m].status = RecordNotFound} = {}
  OBVIOUS
<1> QED
  BY <1>1 DEF Discovery!DirectoryEnd

\* A record that is neither read nor the end makes the directory unusable.
LEMMA Breaks ==
    ASSUME NEW n \in 1..MaxRecord, card.records[n].status # RecordNotFound,
           card.records[n].status # OK \/ card.records[n].malformed,
           \A m \in 1..(n - 1) : card.records[m].status = OK
    PROVE  ~Discovery!DirectoryUsable
<1> USE DEF OK, RecordNotFound, Discovery!OK, Discovery!RecordNotFound
<1> DEFINE ends == {m \in 1..MaxRecord : card.records[m].status = RecordNotFound}
<1>1. MaxRecord \in Nat /\ n \in Nat
  BY DiscoveryAssumption
<1>2. \A m \in ends : m \in 1..MaxRecord /\ m # n /\ m \notin 1..(n - 1)
  OBVIOUS
<1>3. \A m \in ends : n < m
  BY <1>1, <1>2
<1> HIDE DEF ends
<1>4. CASE ends = {}
  <2>1. Discovery!DirectoryEnd = MaxRecord + 1
    BY <1>4 DEF Discovery!DirectoryEnd, ends
  <2>2. n \in 1..(Discovery!DirectoryEnd - 1)
    BY <1>1, <2>1
  <2> QED
    BY <2>2 DEF Discovery!DirectoryUsable
<1>5. CASE ends # {}
  <2>1. Discovery!DirectoryEnd \in ends
    <3>1. PICK last \in ends : \A k \in ends : last <= k
      <4>1. ends \subseteq Nat
        BY <1>1 DEF ends
      <4> QED
        BY <1>5, <4>1, LeastOf
    <3>2. Discovery!DirectoryEnd = CHOOSE m \in ends : \A k \in ends : m <= k
      BY <1>5 DEF Discovery!DirectoryEnd, ends
    <3> QED
      BY <3>1, <3>2
  <2>2. PICK last \in ends : last = Discovery!DirectoryEnd
    BY <2>1
  <2>3. last \in Nat
    BY <1>1 DEF ends
  <2>4. n \in 1..(last - 1)
    BY <1>1, <1>3, <2>3
  <2> QED
    BY <2>2, <2>4 DEF Discovery!DirectoryUsable
<1> QED
  BY <1>4, <1>5

\* What discovery should come to depends only on the card.
LEMMA CardSame ==
    ASSUME card' = card
    PROVE  /\ Discovery!DirectoryUpTo' = Discovery!DirectoryUpTo
           /\ Discovery!DirectoryList' = Discovery!DirectoryList
           /\ Discovery!FromDirectory' = Discovery!FromDirectory
           /\ Discovery!AidsUpTo' = Discovery!AidsUpTo
           /\ Discovery!AidList' = Discovery!AidList
           /\ Discovery!CardBlocks' = Discovery!CardBlocks
  BY DEF Discovery!DirectoryUpTo, Discovery!DirectoryEnd, Discovery!DirectoryList,
         Discovery!DirectoryUsable, Discovery!FromDirectory, Discovery!Selectable,
         Discovery!AidsUpTo, Discovery!AidList, Discovery!CardBlocks

LEMMA DiscoveryStarts == Discovery!Init => DiscoveryInv
  BY DEF Discovery!Init, DiscoveryInv

\* The AIDs are tried from the first on, with an empty list.
LEMMA FallsBack ==
    ASSUME card \in Cards, card' = card, card.pse.status # Blocked, ~Discovery!FromDirectory,
           index = 0, index' = 0, cands' = <<>>, pc' = "SelectAid"
    PROVE  DiscoveryInv'
<1>1. Discovery!FromDirectory' = Discovery!FromDirectory
  BY CardSame
<1>2. (Discovery!AidsUpTo[0])' = <<>>
  <2>1. AidsRow'
    BY AidsUnfold, PTL
  <2> QED
    BY <2>1 DEF AidsRow
<1>3. cands' \in Seq(Name) /\ 0 \in 0..Len(Aids)
  BY DiscoveryAssumption
<1> QED
  BY <1>1, <1>2, <1>3 DEF DiscoveryInv, SelectedSoFar

LEMMA SelectPseKeeps ==
    ASSUME DiscoveryInv, card' = card, Discovery!select_pse(card.pse)
    PROVE  DiscoveryInv'
<1> USE DEF OK, Blocked, Discovery!OK, Discovery!Blocked
<1>0. pc = "SelectPse" /\ record = 1 /\ index = 0 /\ cands = <<>> /\ card \in Cards
  BY DEF DiscoveryInv, Discovery!select_pse
<1>1. CASE card.pse.status = Blocked
  BY <1>0, <1>1 DEF DiscoveryInv, Discovery!select_pse, Discovery!Fail
<1>2. CASE card.pse.status = OK /\ ~card.pse.malformed
  <2>1. pc' = "ReadRecord" /\ record' = 1 /\ index' = 0 /\ cands' = <<>>
    BY <1>0, <1>2 DEF Discovery!select_pse
  <2>2. 1 \in 1..MaxRecord /\ 1 - 1 = 0 /\ 1..0 = {}
    BY DiscoveryAssumption
  <2>3. (Discovery!DirectoryUpTo[0])' = <<>>
    <3>1. DirectoryRow'
      BY DirectoryUnfolds, PTL
    <3> QED
      BY <3>1 DEF DirectoryRow
  <2> QED
    BY <1>0, <1>2, <2>1, <2>2, <2>3 DEF DiscoveryInv, ReadSoFar
<1>3. CASE card.pse.status # Blocked /\ ~(card.pse.status = OK /\ ~card.pse.malformed)
  <2>1. ~Discovery!FromDirectory
    BY <1>3 DEF Discovery!FromDirectory, Discovery!DirectoryUsable
  <2>2. index' = 0 /\ cands' = <<>> /\ pc' = "SelectAid"
    BY <1>0, <1>3 DEF Discovery!select_pse, Discovery!FallBack
  <2> QED
    BY <1>0, <1>3, <2>1, <2>2, FallsBack
<1> QED
  BY <1>1, <1>2, <1>3

\* The directory has been read to its end: its list is the whole list or, when
\* it names none of the terminal's applications, the AIDs follow.
LEMMA DirectoryReadKeeps ==
    ASSUME DiscoveryInv, card' = card, NEW n \in 0..MaxRecord, Discovery!DirectoryEnd = n + 1,
           card.pse.status = OK /\ ~card.pse.malformed, index = 0,
           \A m \in 1..n : card.records[m].status = OK /\ ~card.records[m].malformed,
           Discovery!EndOfDirectory(Discovery!DirectoryUpTo[n])
    PROVE  DiscoveryInv'
<1> USE DEF OK, Blocked, Discovery!OK, Discovery!Blocked
<1>1. n \in Nat /\ n + 1 - 1 = n
  BY DiscoveryAssumption
<1>2. Discovery!DirectoryUsable /\ Discovery!DirectoryList = Discovery!DirectoryUpTo[n]
  BY <1>1 DEF Discovery!DirectoryUsable, Discovery!DirectoryList
<1>3. cands' = Discovery!DirectoryList /\ index' = 0
  BY <1>2 DEF Discovery!EndOfDirectory
<1>4. CASE Discovery!DirectoryList = <<>>
  <2>1. ~Discovery!FromDirectory /\ cands' = <<>> /\ pc' = "SelectAid"
    BY <1>2, <1>3, <1>4 DEF Discovery!FromDirectory, Discovery!EndOfDirectory
  <2> QED
    BY <1>3, <2>1, FallsBack DEF DiscoveryInv
<1>5. CASE Discovery!DirectoryList # <<>>
  <2>1. Discovery!FromDirectory /\ ~Discovery!CardBlocks /\ pc' = "Done"
    BY <1>2, <1>3, <1>5 DEF Discovery!FromDirectory, Discovery!EndOfDirectory,
                            Discovery!CardBlocks
  <2>2. /\ Discovery!FromDirectory' = Discovery!FromDirectory
        /\ Discovery!CardBlocks' = Discovery!CardBlocks
        /\ Discovery!DirectoryList' = Discovery!DirectoryList
    BY CardSame
  <2> QED
    BY <1>3, <2>1, <2>2 DEF DiscoveryInv
<1> QED
  BY <1>4, <1>5

LEMMA ReadRecordKeeps ==
    ASSUME DiscoveryInv, card' = card, pc = "ReadRecord",
           Discovery!read_directory_record(card.records[record])
    PROVE  DiscoveryInv'
<1> USE DEF OK, Blocked, RecordNotFound, Discovery!OK, Discovery!Blocked, Discovery!RecordNotFound
<1>0. ReadSoFar /\ card \in Cards /\ MaxRecord \in Nat /\ record \in 1..MaxRecord
  BY DiscoveryAssumption DEF DiscoveryInv, ReadSoFar
<1>1. PICK n \in 1..MaxRecord : n = record
  BY <1>0
<1>2. CASE card.records[n].status = RecordNotFound
  <2>1. Discovery!DirectoryEnd = n
    BY <1>0, <1>1, <1>2, EndsHere DEF ReadSoFar
  <2>2. Discovery!EndOfDirectory(Discovery!DirectoryUpTo[n - 1])
    BY <1>0, <1>1, <1>2 DEF ReadSoFar, Discovery!read_directory_record
  <2>3. n - 1 \in 0..MaxRecord /\ (n - 1) + 1 = n
    BY <1>0
  <2> QED
    BY <1>0, <1>1, <2>1, <2>2, <2>3, DirectoryReadKeeps DEF ReadSoFar
<1>3. CASE card.records[n].status = OK /\ ~card.records[n].malformed
  <2>1. \A m \in 1..n : card.records[m].status = OK /\ ~card.records[m].malformed
    <3>1. \A m \in 1..n : m = n \/ m \in 1..(n - 1)
      BY <1>0
    <3> QED
      BY <1>0, <1>1, <1>3, <3>1 DEF ReadSoFar
  <2>2. cands \o Discovery!Supported(card.records[n].content) = Discovery!DirectoryUpTo[n]
    BY <1>0, <1>1, DirectoryUnfolds DEF ReadSoFar, DirectoryRow
  <2>3. Discovery!NextRecord(Discovery!DirectoryUpTo[n])
    BY <1>1, <1>3, <2>2 DEF Discovery!read_directory_record
  <2>4. CASE n = MaxRecord
    <3>1. Discovery!DirectoryEnd = n + 1
      BY <2>1, <2>4, EndsLast
    <3>2. Discovery!EndOfDirectory(Discovery!DirectoryUpTo[n])
      BY <1>1, <2>3, <2>4 DEF Discovery!NextRecord
    <3>3. n \in 0..MaxRecord
      BY <1>0
    <3> QED
      BY <1>0, <2>1, <3>1, <3>2, <3>3, DirectoryReadKeeps DEF ReadSoFar
  <2>5. CASE n # MaxRecord
    <3>1. record' = n + 1 /\ cands' = Discovery!DirectoryUpTo[n] /\ pc' = "ReadRecord" /\ index' = 0
      BY <1>0, <1>1, <2>3, <2>5 DEF Discovery!NextRecord, ReadSoFar
    <3>2. Discovery!DirectoryUpTo' = Discovery!DirectoryUpTo
      BY CardSame
    <3>3. n + 1 \in 1..MaxRecord /\ (n + 1) - 1 = n
      BY <1>0, <2>5
    <3>4. ReadSoFar'
      BY <1>0, <2>1, <3>1, <3>2, <3>3 DEF ReadSoFar
    <3> QED
      BY <1>0, <3>1, <3>4 DEF DiscoveryInv
  <2> QED
    BY <2>4, <2>5
<1>4. CASE card.records[n].status # RecordNotFound
           /\ ~(card.records[n].status = OK /\ ~card.records[n].malformed)
  <2>1. ~Discovery!FromDirectory
    BY <1>0, <1>1, <1>4, Breaks DEF ReadSoFar, Discovery!FromDirectory
  <2>2. index' = 0 /\ cands' = <<>> /\ pc' = "SelectAid"
    BY <1>0, <1>1, <1>4 DEF ReadSoFar, Discovery!read_directory_record, Discovery!FallBack
  <2> QED
    BY <1>0, <2>1, <2>2, FallsBack DEF ReadSoFar
<1> QED
  BY <1>2, <1>3, <1>4

LEMMA SelectAidKeeps ==
    ASSUME DiscoveryInv, card' = card, pc = "SelectAid", Discovery!select_aid(card.adf[index + 1])
    PROVE  DiscoveryInv'
<1> USE DEF OK, Blocked, Discovery!OK, Discovery!Blocked
<1>0. /\ SelectedSoFar /\ card \in Cards /\ index \in 0..Len(Aids) /\ index < Len(Aids)
      /\ Len(Aids) \in Nat /\ DOMAIN Aids = 1..Len(Aids)
  BY DiscoveryAssumption DEF DiscoveryInv, SelectedSoFar, Discovery!select_aid
<1>1. PICK n \in DOMAIN Aids : n = index + 1
  BY <1>0
<1>2. n - 1 = index /\ n \in 0..Len(Aids) /\ n \in 1..Len(Aids)
  BY <1>0, <1>1
<1>3. CASE card.adf[n].status = Blocked
  BY <1>0, <1>1, <1>3 DEF Discovery!select_aid, Discovery!Fail, DiscoveryInv
<1>4. CASE card.adf[n].status # Blocked
  <2>1. pc' = "SelectAid" /\ index' = n
    BY <1>0, <1>1, <1>4 DEF Discovery!select_aid, Discovery!PassOver
  <2>2. Discovery!AidsUpTo[n]
          = cands \o (IF Discovery!Selectable(n) THEN <<card.adf[n].content>> ELSE <<>>)
    BY <1>0, <1>2, AidsUnfold DEF AidsRow, SelectedSoFar
  <2>3. cands \in Seq(Name)
    BY <1>0 DEF SelectedSoFar
  <2>4. Discovery!Selectable(n) => card.adf[n].content \in Name
    BY <1>0, CardAssumption DEF Discovery!Selectable
  <2>5. cands' = Discovery!AidsUpTo[n] /\ cands' \in Seq(Name)
    <3>1. CASE Discovery!Selectable(n)
      <4>1. cands' = Append(cands, card.adf[n].content)
        BY <1>1, <1>4, <3>1 DEF Discovery!select_aid, Discovery!Selectable
      <4>2. Append(cands, card.adf[n].content) = cands \o <<card.adf[n].content>>
        BY <2>3, <2>4, <3>1
      <4> QED
        BY <2>2, <2>3, <2>4, <3>1, <4>1, <4>2
    <3>2. CASE ~Discovery!Selectable(n)
      <4>1. cands' = cands
        BY <1>1, <1>4, <3>2 DEF Discovery!select_aid, Discovery!Selectable, Discovery!PassOver
      <4>2. cands \o <<>> = cands
        BY <2>3
      <4> QED
        BY <2>2, <2>3, <3>2, <4>1, <4>2
    <3> QED
      BY <3>1, <3>2
  <2>6. \A i \in 1..n : card.adf[i].status # Blocked
    <3>1. \A i \in 1..n : i = n \/ i \in 1..index
      BY <1>0, <1>2
    <3> QED
      BY <1>0, <1>4, <3>1 DEF SelectedSoFar
  <2>7. Discovery!AidsUpTo' = Discovery!AidsUpTo /\ Discovery!FromDirectory' = Discovery!FromDirectory
    BY CardSame
  <2>8. SelectedSoFar'
    BY <1>0, <1>2, <2>1, <2>5, <2>6, <2>7 DEF SelectedSoFar
  <2> QED
    BY <1>0, <2>1, <2>8 DEF DiscoveryInv
<1> QED
  BY <1>3, <1>4

\* All AIDs have been tried: the card is not blocked, and the list is theirs.
LEMMA ExhaustedKeeps ==
    ASSUME DiscoveryInv, Discovery!AidsExhausted
    PROVE  DiscoveryInv'
<1>1. /\ SelectedSoFar /\ index = Len(Aids) /\ pc' = "Done" /\ cands' = cands /\ card' = card
      /\ DOMAIN Aids = 1..Len(Aids)
  BY DiscoveryAssumption DEF DiscoveryInv, Discovery!AidsExhausted
<1>2. ~Discovery!CardBlocks /\ ~Discovery!FromDirectory /\ cands = Discovery!AidList
  BY <1>1 DEF SelectedSoFar, Discovery!CardBlocks, Discovery!AidList, Blocked, Discovery!Blocked
<1>3. /\ Discovery!FromDirectory' = Discovery!FromDirectory
      /\ Discovery!CardBlocks' = Discovery!CardBlocks
      /\ Discovery!AidList' = Discovery!AidList
  BY <1>1, CardSame
<1> QED
  BY <1>1, <1>2, <1>3 DEF DiscoveryInv

LEMMA DiscoveryKept == DiscoveryInv /\ [Discovery!Next]_(Discovery!vars) => DiscoveryInv'
<1> SUFFICES ASSUME DiscoveryInv, [Discovery!Next]_(Discovery!vars) PROVE DiscoveryInv'
  OBVIOUS
<1>1. CASE Discovery!Handle(Discovery!CardAnswer)
  <2>1. CASE Discovery!select_pse(Discovery!CardAnswer)
    BY <1>1, <2>1, SelectPseKeeps DEF Discovery!Handle, Discovery!CardAnswer, Discovery!select_pse
  <2>2. CASE Discovery!read_directory_record(Discovery!CardAnswer)
    <3>1. pc = "ReadRecord"
      BY <2>2 DEF Discovery!read_directory_record
    <3> QED
      BY <1>1, <2>2, <3>1, ReadRecordKeeps DEF Discovery!Handle, Discovery!CardAnswer
  <2>3. CASE Discovery!select_aid(Discovery!CardAnswer)
    <3>1. pc = "SelectAid"
      BY <2>3 DEF Discovery!select_aid
    <3> QED
      BY <1>1, <2>3, <3>1, SelectAidKeeps DEF Discovery!Handle, Discovery!CardAnswer
  <2> QED
    BY <1>1, <2>1, <2>2, <2>3 DEF Discovery!Handle
<1>2. CASE Discovery!Lost
  BY <1>2 DEF Discovery!Lost, Discovery!Fail, DiscoveryInv
<1>3. CASE Discovery!AidsExhausted
  BY <1>3, ExhaustedKeeps
<1>4. CASE UNCHANGED Discovery!vars
  <2>1. UNCHANGED <<pc, card, record, index, cands>>
    BY <1>4 DEF Discovery!vars
  <2>2. ReadSoFar => ReadSoFar'
    BY <2>1, CardSame DEF ReadSoFar
  <2>3. SelectedSoFar => SelectedSoFar'
    BY <2>1, CardSame DEF SelectedSoFar
  <2> QED
    BY <2>1, <2>2, <2>3, CardSame DEF DiscoveryInv
<1> QED
  BY <1>1, <1>2, <1>3, <1>4 DEF Discovery!Next, Discovery!Exchange, Discovery!Over

\* The candidates are those of a directory that could be read to its end and
\* names an application of the terminal, or else those of the AIDs, for every
\* card and terminal, any number of records, and however the answers are served
\* (build_candidate_list over transmit_apdu).
THEOREM ListMatchesCardAlways == Spec => []ListMatchesCard
<1>1. DiscoveryInv => ListMatchesCard
  BY DEF DiscoveryInv, ListMatchesCard, Discovery!ListMatchesCard
<1> QED
  BY <1>1, DiscoveryStarts, DiscoveryKept, DiscoveryImplemented, PTL
  DEF ImplementsDiscovery, Discovery!Spec
=============================================================================
