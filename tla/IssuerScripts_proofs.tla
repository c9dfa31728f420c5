------------------------ MODULE IssuerScripts_proofs ------------------------
(***************************************************************************)
(* Proofs about IssuerScripts, for every message the issuer may send: any  *)
(* number of scripts under either template, of any form and length.        *)
(*                                                                         *)
(* The invariant follows the message: CallInv says that the scripts behind *)
(* the one at hand have their outcomes, in their places, and that each     *)
(* tells what the card did; AtHand what the card has taken of the script at*)
(* hand; ContextInv what the calls have left in the context.               *)
(***************************************************************************)
EXTENDS IssuerScripts, FiniteSetTheorems, TLAPS


Outcomes == [result : {"Successful", "Failed", "NotPerformed"}, number : Nat, id : Nat]

\* The types the proofs need.
TypeInv ==
    /\ message \in Seq(IssuerScript) /\ position \in {"71", "72"}
    /\ status \in {"Ready", "Script", "Done", "Err"}
    /\ at \in 1..(Len(message) + 1) /\ next \in Nat \ {0}
    /\ results \in Seq(Outcomes) /\ failed \in BOOLEAN /\ lost \in BOOLEAN
    /\ received \in Seq([script : Nat \ {0}, command : Nat \ {0}, accepted : BOOLEAN])
    /\ context.results \in Seq(Outcomes) /\ context.tvr \subseteq {"71", "72"} /\ context.tsi \in BOOLEAN

\* A script that did not succeed.
AnyFailed(outcomes) == \E n \in DOMAIN outcomes : outcomes[n].result # "Successful"

\* The card has taken the commands of the script at hand before next, each with
\* success, and nothing of the scripts after it.
AtHand ==
    /\ next # 1 => at \in ScriptsFor(position) /\ Current.form = "wellFormed"
    /\ \A m \in DOMAIN received : received[m].script <= at
    /\ \A r \in AnswersTo(at) : r.command < next
    /\ \A c \in 1..(next - 1) : Took(at, c)

\* What a call has done so far.
CallInv ==
    status = "Script" =>
        /\ Len(results) = Place(position, at - 1)
        /\ failed <=> AnyFailed(results)
        /\ ~lost => /\ AtHand
                    /\ \A n \in Upto(position, at - 1) : Tells(results[Place(position, n)], n)

\* What the calls before this one have left in the context.
ContextInv ==
    /\ status \in {"Ready", "Script"} /\ position = "71" => context = Untouched
    /\ status \in {"Ready", "Script"} /\ position = "72" =>
         /\ "71" \in context.tvr <=> AnyFailed(context.results)
         /\ "72" \notin context.tvr
         /\ context.tsi <=> ScriptsFor("71") # {}
         /\ Len(context.results) = Cardinality(ScriptsFor("71"))
    /\ BitsMatchResults

\* The inductive invariant.
ScriptInv == TypeInv /\ CallInv /\ ContextInv

\* A script's place among the results counts the scripts of its call up to it.
LEMMA Places ==
    ASSUME message \in Seq(IssuerScript), NEW template, NEW n \in Nat
    PROVE  /\ IsFiniteSet(Upto(template, n)) /\ Place(template, n) \in Nat
           /\ n = 0 => Place(template, n) = 0
           /\ \A m \in Upto(template, n) : Place(template, m) \in 1..Place(template, n)
           /\ n + 1 \in ScriptsFor(template) => Place(template, n + 1) = Place(template, n) + 1
           /\ n + 1 \notin ScriptsFor(template) => Upto(template, n + 1) = Upto(template, n)
           /\ n >= Len(message) => Upto(template, n) = ScriptsFor(template)
<1>1. \A k \in Nat : IsFiniteSet(Upto(template, k)) /\ Place(template, k) \in Nat
  <2> TAKE k \in Nat
  <2>1. IsFiniteSet(1..k)
    BY FS_Interval
  <2>2. IsFiniteSet(Upto(template, k))
    BY <2>1, FS_Subset DEF Upto
  <2> QED  BY <2>2, FS_CardinalityType DEF Place
<1>2. n = 0 => Place(template, n) = 0
  <2>1. n = 0 => Upto(template, n) = {}
    BY DEF Upto
  <2> QED  BY <2>1, FS_EmptySet DEF Place
<1>3. \A m \in Upto(template, n) : Place(template, m) \in 1..Place(template, n)
  <2> TAKE m \in Upto(template, n)
  <2>1. m \in Nat \ {0} /\ m <= n /\ m \in ScriptsFor(template)
    BY DEF Upto
  <2>2. Upto(template, m) \subseteq Upto(template, n)
    BY <2>1 DEF Upto
  <2>3. Place(template, m) <= Place(template, n)
    BY <1>1, <2>2, FS_Subset DEF Place
  <2>4. m \in Upto(template, m)
    BY <2>1 DEF Upto
  <2>5. Place(template, m) # 0
    BY <1>1, <2>1, <2>4, FS_EmptySet DEF Place
  <2> QED  BY <1>1, <2>1, <2>3, <2>5
<1>4. n + 1 \in ScriptsFor(template) => Place(template, n + 1) = Place(template, n) + 1
  <2> SUFFICES ASSUME n + 1 \in ScriptsFor(template)
               PROVE  Place(template, n + 1) = Place(template, n) + 1
    OBVIOUS
  <2>1. Upto(template, n + 1) = Upto(template, n) \cup {n + 1} /\ n + 1 \notin Upto(template, n)
    BY DEF Upto
  <2> QED  BY <1>1, <2>1, FS_AddElement DEF Place
<1>5. n + 1 \notin ScriptsFor(template) => Upto(template, n + 1) = Upto(template, n)
  BY DEF Upto
<1>6. n >= Len(message) => Upto(template, n) = ScriptsFor(template)
  BY DEF Upto, ScriptsFor
<1> QED  BY <1>1, <1>2, <1>3, <1>4, <1>5, <1>6

\* One more answer of the card is an answer to its own script only.
LEMMA AnswersAdded ==
    ASSUME TypeInv, NEW entry, received' = Append(received, entry), NEW n
    PROVE  AnswersTo(n)' = AnswersTo(n) \cup (IF entry.script = n THEN {entry} ELSE {})
<1> DEFINE Entries == {received[m] : m \in DOMAIN received}
           EntriesAfter == {received'[m] : m \in DOMAIN received'}
<1>1. /\ DOMAIN received = 1..Len(received) /\ Len(received) \in Nat
      /\ DOMAIN received' = 1..(Len(received) + 1)
      /\ received'[Len(received) + 1] = entry
      /\ \A m \in 1..Len(received) : received'[m] = received[m]
  BY DEF TypeInv
<1>2. EntriesAfter = Entries \cup {entry}
  <2>1. \A m \in 1..(Len(received) + 1) : m = Len(received) + 1 \/ m \in 1..Len(received)
    BY <1>1
  <2>2. \A m \in 1..Len(received) : m \in 1..(Len(received) + 1)
    BY <1>1
  <2>3. Len(received) + 1 \in 1..(Len(received) + 1)
    BY <1>1
  <2> QED  BY <1>1, <2>1, <2>2, <2>3
<1>3. AnswersTo(n) = {r \in Entries : r.script = n} /\ AnswersTo(n)' = {r \in EntriesAfter : r.script = n}
  BY DEF AnswersTo
<1> HIDE DEF Entries, EntriesAfter
<1> QED  BY <1>2, <1>3

\* What an outcome tells depends on the card's answers to its script alone.
LEMMA TellsKept ==
    ASSUME NEW outcome, NEW n, AnswersTo(n)' = AnswersTo(n), message' = message
    PROVE  Tells(outcome, n)' <=> Tells(outcome, n)
BY DEF Tells, Stopped, Took


CardsAnswers == Seq([script : Nat \ {0}, command : Nat \ {0}, accepted : BOOLEAN])

\* The fields of an answer of the card.
LEMMA AnswerFields ==
    ASSUME NEW s \in CardsAnswers
    PROVE  \A m \in DOMAIN s :
             s[m].script \in Nat \ {0} /\ s[m].command \in Nat \ {0} /\ s[m].accepted \in BOOLEAN
<1> DEFINE Answer == [script : Nat \ {0}, command : Nat \ {0}, accepted : BOOLEAN]
<1>1. s \in Seq(Answer)
  BY DEF CardsAnswers
<1> HIDE DEF Answer
<1>2. \A m \in DOMAIN s : s[m] \in Answer
  BY <1>1
<1> QED  BY <1>2 DEF Answer

\* A script that is over: its outcome takes the next place among the results.
LEMMA ScriptEndsKeeps ==
    ASSUME ScriptInv, Processing, NEW outcome \in Outcomes, NEW here, here = at, ScriptEnds(outcome),
           UNCHANGED <<message, position, status, context>>,
           received' \in CardsAnswers, lost' \in BOOLEAN,
           ~lost' => /\ ~lost /\ Tells(outcome, here)'
                     /\ \A n \in 1..(at - 1) : AnswersTo(n)' = AnswersTo(n)
                     /\ \A m \in DOMAIN received' : received'[m].script <= at
    PROVE  ScriptInv'
<1>1. /\ message \in Seq(IssuerScript) /\ Len(message) \in Nat /\ status = "Script"
      /\ DOMAIN message = 1..Len(message)
      /\ at \in ScriptsFor(position) /\ at \in 1..Len(message)
      /\ at' = at + 1 /\ next' = 1 /\ results' = Append(results, outcome)
      /\ results \in Seq(Outcomes) /\ failed' = (failed \/ outcome.result # "Successful")
      /\ failed \in BOOLEAN
  BY DEF ScriptInv, TypeInv, Processing, ScriptEnds, ScriptsFor
<1>2. /\ Len(results) = Place(position, at - 1)
      /\ failed <=> AnyFailed(results)
      /\ ~lost => \A n \in Upto(position, at - 1) : Tells(results[Place(position, n)], n)
  BY <1>1 DEF ScriptInv, CallInv
<1>3. /\ DOMAIN results = 1..Len(results) /\ DOMAIN results' = 1..(Len(results) + 1)
      /\ Len(results) \in Nat /\ Len(results') = Len(results) + 1
      /\ results'[Len(results) + 1] = outcome /\ results' \in Seq(Outcomes)
      /\ \A n \in 1..Len(results) : results'[n] = results[n]
  BY <1>1
<1>4. TypeInv'
  <2>1. next' \in Nat \ {0} /\ at' \in 1..(Len(message) + 1)
    BY <1>1
  <2>2. failed' \in BOOLEAN
    BY <1>1
  <2> QED  BY <1>1, <1>3, <2>1, <2>2 DEF ScriptInv, TypeInv, CardsAnswers
<1>5. /\ Place(position, at) = Len(results) + 1
      /\ \A n \in Upto(position, at - 1) : Place(position, n) \in 1..Len(results)
      /\ \A n \in Upto(position, at) : n = at \/ n \in Upto(position, at - 1)
  <2>1. at - 1 \in Nat /\ (at - 1) + 1 = at
    BY <1>1
  <2>2. Place(position, at) = Len(results) + 1
    BY <1>1, <1>2, <2>1, Places
  <2>3. \A n \in Upto(position, at - 1) : Place(position, n) \in 1..Len(results)
    BY <1>1, <1>2, <2>1, Places
  <2>4. \A n \in Upto(position, at) : n = at \/ n \in Upto(position, at - 1)
    BY <1>1 DEF Upto, ScriptsFor
  <2> QED  BY <2>2, <2>3, <2>4
<1>6. failed' <=> AnyFailed(results')
  <2>1. CASE outcome.result # "Successful"
    <3>1. Len(results) + 1 \in DOMAIN results' /\ results'[Len(results) + 1].result # "Successful"
      BY <1>3, <2>1
    <3> QED  BY <1>1, <2>1, <3>1 DEF AnyFailed
  <2>2. CASE outcome.result = "Successful"
    <3>1. \A n \in 1..(Len(results) + 1) : n \in 1..Len(results) \/ n = Len(results) + 1
      BY <1>3
    <3>2. \A n \in 1..Len(results) : n \in 1..(Len(results) + 1)
      BY <1>3
    <3>3. AnyFailed(results') <=> AnyFailed(results)
      BY <1>3, <2>2, <3>1, <3>2 DEF AnyFailed
    <3> QED  BY <1>1, <1>2, <2>2, <3>3
  <2> QED  BY <2>1, <2>2
<1>7. ScriptsFor(position)' = ScriptsFor(position) /\ \A n : Upto(position, n)' = Upto(position, n)
        /\ Place(position, n)' = Place(position, n)
  BY DEF ScriptsFor, Upto, Place
<1>8. ~lost' => AtHand'
  <2> SUFFICES ASSUME ~lost' PROVE AtHand'
    OBVIOUS
  <2>1. \A m \in DOMAIN received' : received'[m].script <= at /\ at < at'
    BY <1>1
  <2>2. \A m \in DOMAIN received' : received'[m].script \in Nat /\ at \in Nat
    BY <1>1, AnswerFields
  <2>3. AnswersTo(at)' = {}
    BY <2>1, <2>2 DEF AnswersTo
  <2>4. \A m \in DOMAIN received' : received'[m].script <= at'
    BY <1>1, <2>1, <2>2
  <2>5. 1..(next' - 1) = {}
    BY <1>1
  <2> QED  BY <1>1, <2>3, <2>4, <2>5 DEF AtHand, AnswersTo
<1>9. ~lost' => \A n \in Upto(position, at) : Tells(results[Place(position, n)], n)'
  <2> SUFFICES ASSUME ~lost', NEW n \in Upto(position, at)
               PROVE  Tells(results[Place(position, n)], n)'
    OBVIOUS
  <2> DEFINE o == results[Place(position, n)]
  <2>1. CASE n = at
    <3>1. o' = outcome
      BY <1>3, <1>5, <1>7, <2>1
    <3>2. Tells(outcome, here)'
      OBVIOUS
    <3> HIDE DEF o
    <3>3. Tells(o, n)'
      BY <2>1, <3>1, <3>2
    <3> QED  BY <3>3 DEF o
  <2>2. CASE n \in Upto(position, at - 1)
    <3>1. o' = o
      BY <1>3, <1>5, <1>7, <2>2
    <3>2. n \in 1..(at - 1)
      BY <2>2 DEF Upto
    <3>3. Tells(o, n)
      BY <1>2, <2>2
    <3>4. AnswersTo(n)' = AnswersTo(n) /\ message' = message
      BY <3>2
    <3> HIDE DEF o
    <3>5. Tells(o, n)'
      BY <3>1, <3>3, <3>4 DEF Tells, Stopped, Took
    <3> QED  BY <3>5 DEF o
  <2> QED  BY <1>5, <2>1, <2>2
<1>10. at' - 1 = at /\ Place(position, at) = Len(results')
  BY <1>1, <1>3, <1>5
<1>11. CallInv'
  BY <1>6, <1>7, <1>8, <1>9, <1>10 DEF CallInv
<1>12. ContextInv'
  BY <1>1 DEF ScriptInv, ContextInv, BitsMatchResults, ResultsOf, ScriptsFor
<1> QED  BY <1>4, <1>11, <1>12 DEF ScriptInv


\* The invariant holds before the first call.
LEMMA InitScripts == ScriptsInit => ScriptInv
<1> SUFFICES ASSUME ScriptsInit PROVE ScriptInv
  OBVIOUS
<1>1. message \in Seq(IssuerScript) /\ Len(message) \in Nat
  BY MessagesAssumption DEF ScriptsInit
<1>2. /\ position = "71" /\ status = "Ready" /\ at = 1 /\ next = 1 /\ results = <<>>
      /\ failed = FALSE /\ lost = FALSE /\ received = <<>>
      /\ context = Untouched
  BY DEF ScriptsInit
<1>3. TypeInv
  <2>1. at \in 1..(Len(message) + 1) /\ next \in Nat \ {0}
    BY <1>1, <1>2
  <2>2. context.results \in Seq(Outcomes) /\ context.tvr \subseteq {"71", "72"} /\ context.tsi \in BOOLEAN
    BY <1>2 DEF Untouched
  <2>3. results \in Seq(Outcomes)
    BY <1>2
  <2>4. received \in CardsAnswers
    BY <1>2 DEF CardsAnswers
  <2> QED  BY <1>1, <1>2, <2>1, <2>2, <2>3, <2>4 DEF TypeInv, CardsAnswers
<1>4. CallInv /\ ContextInv
  BY <1>2 DEF CallInv, ContextInv, BitsMatchResults
<1> QED  BY <1>3, <1>4 DEF ScriptInv

\* A call starts in the invariant, at the beginning of the message.
LEMMA CallKeeps == ASSUME ScriptInv, process_issuer_scripts PROVE ScriptInv'
<1>1. /\ status = "Ready" /\ status' = "Script" /\ at' = 1 /\ next' = 1 /\ results' = <<>>
      /\ failed' = FALSE /\ lost' = FALSE /\ received' = <<>>
      /\ UNCHANGED <<message, position, context>>
      /\ message \in Seq(IssuerScript) /\ Len(message) \in Nat
  BY DEF process_issuer_scripts, ScriptInv, TypeInv
<1>2. TypeInv'
  <2>1. at' \in 1..(Len(message) + 1) /\ next' \in Nat \ {0}
    BY <1>1
  <2>2. results' \in Seq(Outcomes)
    BY <1>1
  <2>3. received' \in CardsAnswers
    BY <1>1 DEF CardsAnswers
  <2> QED  BY <1>1, <2>1, <2>2, <2>3 DEF ScriptInv, TypeInv, CardsAnswers
<1>3. CallInv'
  <2>1. Upto(position, 0) = {} /\ Place(position, 0) = 0
    <3>1. Upto(position, 0) = {}
      BY DEF Upto
    <3>2. Place(position, 0) = 0
      BY <1>1, Places
    <3> QED  BY <3>1, <3>2
  <2>2. Upto(position, 0)' = Upto(position, 0) /\ Place(position, 0)' = Place(position, 0)
    BY <1>1 DEF Upto, Place, ScriptsFor
  <2>3. AtHand'
    BY <1>1 DEF AtHand, AnswersTo
  <2>4. at' - 1 = 0 /\ Len(results') = 0 /\ ~AnyFailed(results')
    BY <1>1 DEF AnyFailed
  <2> QED  BY <1>1, <2>1, <2>2, <2>3, <2>4 DEF CallInv
<1>4. ContextInv'
  BY <1>1 DEF ScriptInv, ContextInv, BitsMatchResults, ResultsOf, ScriptsFor
<1> QED  BY <1>2, <1>3, <1>4 DEF ScriptInv

\* Passing by a script of the other template keeps it.
LEMMA PassByKeeps == ASSUME ScriptInv, PassBy PROVE ScriptInv'
<1>1. /\ status = "Script" /\ at \in 1..Len(message) /\ at \notin ScriptsFor(position)
      /\ at' = at + 1 /\ Len(message) \in Nat /\ message \in Seq(IssuerScript)
      /\ UNCHANGED <<message, position, status, next, results, failed, lost, context, received>>
  BY DEF PassBy, ScriptInv, TypeInv
<1>2. TypeInv'
  <2>1. at' \in 1..(Len(message) + 1)
    BY <1>1
  <2> QED  BY <1>1, <2>1 DEF ScriptInv, TypeInv
<1>3. CallInv'
  <2>1. Upto(position, at) = Upto(position, at - 1)
    BY <1>1 DEF Upto
  <2>2. /\ \A n : Upto(position, n)' = Upto(position, n)
        /\ \A n : Place(position, n)' = Place(position, n)
        /\ Place(position, at) = Place(position, at - 1)
    BY <1>1, <2>1 DEF Upto, Place, ScriptsFor
  <2>3. \A n, outcome : Tells(outcome, n)' <=> Tells(outcome, n)
    BY <1>1 DEF Tells, Stopped, Took, AnswersTo
  <2>4. at' - 1 = at
    BY <1>1
  <2>5. ~lost => AtHand'
    <3> SUFFICES ASSUME ~lost PROVE AtHand'
      OBVIOUS
    <3>1. AtHand /\ next = 1
      BY <1>1 DEF ScriptInv, CallInv, AtHand
    <3>2. \A m \in DOMAIN received : received[m].script \in Nat
      BY AnswerFields DEF ScriptInv, TypeInv, CardsAnswers
    <3>3. \A m \in DOMAIN received : received[m].script <= at /\ received[m].script # at + 1
      BY <1>1, <3>1, <3>2 DEF AtHand
    <3>4. \A m \in DOMAIN received : received[m].script <= at + 1
      BY <1>1, <3>2, <3>3
    <3> QED  BY <1>1, <3>1, <3>3, <3>4 DEF AtHand, AnswersTo
  <2>6. /\ Len(results) = Place(position, at - 1)
        /\ failed <=> AnyFailed(results)
        /\ ~lost => \A n \in Upto(position, at - 1) : Tells(results[Place(position, n)], n)
    BY <1>1 DEF ScriptInv, CallInv
  <2>7. /\ Len(results)' = Place(position, at - 1)'
        /\ failed' <=> AnyFailed(results)'
    BY <1>1, <2>2, <2>4, <2>6 DEF AnyFailed
  <2>8. ~lost => \A n \in Upto(position, at) : Tells(results[Place(position, n)], n)'
    <3> SUFFICES ASSUME ~lost, NEW n \in Upto(position, at)
                 PROVE  Tells(results[Place(position, n)], n)'
      OBVIOUS
    <3>1. Tells(results[Place(position, n)], n)
      BY <2>1, <2>6
    <3> DEFINE o == results[Place(position, n)]
    <3>2. o' = o
      BY <1>1, <2>2
    <3> HIDE DEF o
    <3>3. Tells(o, n)'
      BY <3>1, <3>2, <2>3 DEF o
    <3> QED  BY <3>3 DEF o
  <2> QED  BY <1>1, <2>2, <2>4, <2>5, <2>7, <2>8 DEF CallInv
<1>4. ContextInv'
  BY <1>1 DEF ScriptInv, ContextInv, BitsMatchResults, ResultsOf, ScriptsFor
<1> QED  BY <1>2, <1>3, <1>4 DEF ScriptInv


\* What is known of the script at hand.
LEMMA Here ==
    ASSUME ScriptInv, Processing
    PROVE  /\ status = "Script" /\ at \in 1..Len(message) /\ at \in Nat /\ at \in ScriptsFor(position)
           /\ message[at] \in IssuerScript /\ Len(message[at].commands) \in Nat
           /\ DOMAIN message[at].commands = 1..Len(message[at].commands)
           /\ next \in Nat \ {0} /\ received \in CardsAnswers /\ lost \in BOOLEAN
           /\ ~lost => AtHand
           /\ \A r \in AnswersTo(at) : r.command \in Nat \ {0}
<1>1. /\ status = "Script" /\ at \in 1..Len(message) /\ at \in Nat /\ at \in ScriptsFor(position)
      /\ message \in Seq(IssuerScript) /\ next \in Nat \ {0} /\ lost \in BOOLEAN
  BY DEF ScriptInv, TypeInv, Processing, ScriptsFor
<1>2. received \in CardsAnswers
  BY DEF ScriptInv, TypeInv, CardsAnswers
<1>3. message[at] \in IssuerScript
  BY <1>1
<1>4. message[at].commands \in Seq({"apdu", "garbage"})
  BY <1>3 DEF IssuerScript
<1>5. ~lost => AtHand
  BY <1>1 DEF ScriptInv, CallInv
<1>6. \A r \in AnswersTo(at) : r.command \in Nat \ {0}
  BY <1>2, AnswerFields DEF AnswersTo
<1> QED  BY <1>1, <1>2, <1>3, <1>4, <1>5, <1>6

\* A script that cannot be taken apart was not performed: none of it was sent.
LEMMA ParseErrorKeeps == ASSUME ScriptInv, parse_error PROVE ScriptInv'
<1>0. PICK o : o = Outcome("NotPerformed", 0, IF Current.form = "badCommand" THEN Current.id ELSE NoId)
  OBVIOUS
<1>1. Processing /\ Current.form # "wellFormed" /\ ScriptEnds(o)
      /\ UNCHANGED <<message, position, status, lost, context, received>>
  BY <1>0 DEF parse_error
<1>2. o \in Outcomes /\ o.result = "NotPerformed"
  BY <1>0, <1>1, Here DEF Outcomes, Outcome, Current, IssuerScript, NoId
<1>3. ~lost => AnswersTo(at) = {} /\ \A m \in DOMAIN received : received[m].script <= at
  <2> SUFFICES ASSUME ~lost
               PROVE  AnswersTo(at) = {} /\ \A m \in DOMAIN received : received[m].script <= at
    OBVIOUS
  <2>1. AtHand /\ next = 1
    BY <1>1, Here DEF AtHand
  <2>2. \A r \in AnswersTo(at) : r.command < 1 /\ r.command \in Nat \ {0}
    BY <1>1, <2>1, Here DEF AtHand
  <2>3. AnswersTo(at) = {}
    BY <2>2
  <2> QED  BY <2>1, <2>3 DEF AtHand
<1>4. PICK n : n = at
  OBVIOUS
<1>5. \A k : AnswersTo(k)' = AnswersTo(k)
  BY <1>1 DEF AnswersTo
<1>6. ~lost => Tells(o, n)'
  BY <1>2, <1>3, <1>4, <1>5 DEF Tells
<1> QED  BY <1>1, <1>2, <1>3, <1>4, <1>5, <1>6, Here, ScriptEndsKeeps

\* A script whose commands are all done was taken in full.
LEMMA DoneKeeps == ASSUME ScriptInv, CommandsDone PROVE ScriptInv'
<1>0. PICK o : o = Outcome("Successful", 0, Current.id)
  OBVIOUS
<1>1. Processing /\ next > Len(Current.commands) /\ ScriptEnds(o)
      /\ UNCHANGED <<message, position, status, lost, context, received>>
  BY <1>0 DEF CommandsDone
<1>2. o \in Outcomes /\ o.result = "Successful"
  BY <1>0, <1>1, Here DEF Outcomes, Outcome, Current, IssuerScript
<1>3. ~lost => Stopped(at) = {} /\ \A m \in DOMAIN received : received[m].script <= at
  <2> SUFFICES ASSUME ~lost
               PROVE  Stopped(at) = {} /\ \A m \in DOMAIN received : received[m].script <= at
    OBVIOUS
  <2>1. AtHand
    BY <1>1, Here
  <2>2. \A c \in 1..Len(message[at].commands) : c \in 1..(next - 1)
    BY <1>1, Here DEF Current
  <2> QED  BY <1>1, <2>1, <2>2, Here DEF AtHand, Stopped
<1>4. PICK n : n = at
  OBVIOUS
<1>5. \A k : AnswersTo(k)' = AnswersTo(k)
  BY <1>1 DEF AnswersTo
<1>6. Stopped(n)' = Stopped(n)
  BY <1>1, <1>5 DEF Stopped, Took
<1>7. ~lost => Tells(o, n)'
  BY <1>2, <1>3, <1>4, <1>6 DEF Tells
<1> QED  BY <1>1, <1>2, <1>3, <1>4, <1>5, <1>7, Here, ScriptEndsKeeps

\* One more of them is one of them.
LEMMA ReceivedType ==
    ASSUME NEW s \in CardsAnswers, NEW n \in Nat \ {0}, NEW c \in Nat \ {0}, NEW accepted \in BOOLEAN
    PROVE  Append(s, [script |-> n, command |-> c, accepted |-> accepted]) \in CardsAnswers
<1> DEFINE Answer == [script : Nat \ {0}, command : Nat \ {0}, accepted : BOOLEAN]
           e == [script |-> n, command |-> c, accepted |-> accepted]
<1>1. s \in Seq(Answer) /\ e \in Answer
  BY DEF CardsAnswers
<1> HIDE DEF Answer, e
<1>2. Append(s, e) \in Seq(Answer)
  BY <1>1
<1> QED  BY <1>2 DEF Answer, e, CardsAnswers

\* A script that stops at the command in hand: every command before it was taken,
\* and nothing after it was sent.
LEMMA StopsHere ==
    ASSUME ScriptInv, Sending, ~lost, Refused, UNCHANGED message, NEW n, n = at,
           NEW o, o = Outcome("Failed", encode_sequence(next), Current.id),
           \/ received' = received
           \/ received' = Received(FALSE)
    PROVE  /\ Tells(o, n)'
           /\ \A k \in 1..(at - 1) : AnswersTo(k)' = AnswersTo(k)
           /\ \A m \in DOMAIN received' : received'[m].script <= at
           /\ received' \in CardsAnswers
<1> DEFINE e == [script |-> at, command |-> next, accepted |-> FALSE]
<1>1. /\ AtHand /\ next \in Nat \ {0} /\ next <= Len(message[at].commands)
      /\ Len(message[at].commands) \in Nat /\ at \in Nat /\ at \in 1..Len(message)
      /\ DOMAIN message[at].commands = 1..Len(message[at].commands)
      /\ received \in CardsAnswers
  BY Here DEF Sending, Current
<1>2. received' = received \/ received' = Append(received, e)
  BY DEF Received
<1>3. received' \in CardsAnswers
  <2>1. at \in Nat \ {0}
    BY <1>1
  <2> QED  BY <1>1, <1>2, <2>1, ReceivedType
<1>4. \A k : AnswersTo(k)' = AnswersTo(k) \/ (k = at /\ AnswersTo(k)' = AnswersTo(k) \cup {e})
  <2>1. CASE received' = received
    BY <2>1 DEF AnswersTo
  <2>2. CASE received' = Append(received, e)
    <3>1. TypeInv /\ e.script = at
      BY DEF ScriptInv
    <3> HIDE DEF e
    <3> QED  BY <2>2, <3>1, AnswersAdded
  <2> QED  BY <1>2, <2>1, <2>2
<1>5. \A k \in 1..(at - 1) : AnswersTo(k)' = AnswersTo(k)
  BY <1>1, <1>4
<1>6. \A m \in DOMAIN received' : received'[m].script <= at
  <2>1. CASE received' = received
    BY <1>1, <2>1 DEF AtHand
  <2>2. CASE received' = Append(received, e)
    BY <1>1, <2>2 DEF AtHand, CardsAnswers
  <2> QED  BY <1>2, <2>1, <2>2
<1>7. Stopped(n)' = next..Len(message[at].commands)
  <2>1. \A c \in 1..(next - 1) : Took(n, c)'
    BY <1>1, <1>4 DEF AtHand, Took
  <2>2. \A c \in next..Len(message[at].commands) : ~Took(n, c)'
    <3>1. \A r \in AnswersTo(n) : r.command < next
      BY <1>1 DEF AtHand
    <3>2. \A r \in AnswersTo(n) : r.command \in Nat
      BY Here DEF Sending
    <3> QED  BY <1>1, <1>4, <3>1, <3>2 DEF Took
  <2>3. Stopped(n)' = {c \in 1..Len(message[at].commands) : ~Took(n, c)'}
    BY <1>1 DEF Stopped
  <2> HIDE DEF Took
  <2> QED  BY <1>1, <2>1, <2>2, <2>3
<1>8. \A r \in AnswersTo(n)' : r.command <= next
  <2>1. \A r \in AnswersTo(n) : r.command < next /\ r.command \in Nat
    BY <1>1, Here DEF AtHand, Sending
  <2> QED  BY <1>1, <1>4, <2>1
<1>9. o.result = "Failed" /\ o.number = IF next < 15 THEN next ELSE 15
  BY <1>1 DEF Outcome, encode_sequence
<1>10. Tells(o, n)'
  <2>1. next \in Stopped(n)' /\ message'[n] = message[at]
    BY <1>1, <1>7
  <2> QED  BY <1>7, <1>8, <1>9, <2>1 DEF Tells
<1> QED  BY <1>3, <1>5, <1>6, <1>10


\* A command that is refused, lost or never sent ends its script.
LEMMA RefusalKeeps ==
    ASSUME ScriptInv, CommandRefused \/ Sentinel \/ CommandLost PROVE ScriptInv'
<1>1. PICK o : o = Outcome("Failed", encode_sequence(next), Current.id)
  OBVIOUS
<1>2. PICK n : n = at
  OBVIOUS
<1>3. Sending /\ Refused /\ UNCHANGED <<message, position, status, context>>
  BY DEF CommandRefused, Sentinel, CommandLost
<1>4. Processing /\ ScriptEnds(o)
  BY <1>1, <1>3 DEF Sending, Refused
<1>5. o \in Outcomes
  <2>1. encode_sequence(next) \in Nat
    BY <1>4, Here DEF encode_sequence
  <2> QED  BY <1>1, <1>4, <2>1, Here DEF Outcomes, Outcome, Current, IssuerScript
<1>6. lost' \in BOOLEAN
  <2>1. lost' = TRUE \/ lost' = lost
    BY DEF CommandRefused, Sentinel, CommandLost
  <2> QED  BY <2>1, <1>4, Here
<1>7. CASE ~lost /\ ~lost'
  <2>1. received' = received \/ received' = Received(FALSE)
    BY <1>7 DEF CommandRefused, Sentinel, CommandLost
  <2>2. /\ Tells(o, n)' /\ received' \in CardsAnswers
        /\ \A k \in 1..(at - 1) : AnswersTo(k)' = AnswersTo(k)
        /\ \A m \in DOMAIN received' : received'[m].script <= at
    BY <1>1, <1>2, <1>3, <1>7, <2>1, StopsHere
  <2> QED  BY <1>2, <1>3, <1>4, <1>5, <1>7, <1>6, <2>2, ScriptEndsKeeps
<1>8. CASE lost'
  <2>1. received' \in CardsAnswers
    <3>1. received' = received \/ received' = Received(FALSE) \/ received' = Received(TRUE)
      BY DEF CommandRefused, Sentinel, CommandLost
    <3>2. at \in Nat \ {0} /\ next \in Nat \ {0} /\ received \in CardsAnswers
      BY <1>4, Here
    <3> QED  BY <3>1, <3>2, ReceivedType DEF Received
  <2> QED  BY <1>2, <1>3, <1>4, <1>5, <1>8, <1>6, <2>1, ScriptEndsKeeps
<1>9. lost => lost'
  BY DEF CommandRefused, Sentinel, CommandLost
<1> QED  BY <1>7, <1>8, <1>9

\* A command the card accepts is one more the card has taken.
LEMMA AcceptedKeeps == ASSUME ScriptInv, CommandAccepted PROVE ScriptInv'
<1> DEFINE e == [script |-> at, command |-> next, accepted |-> TRUE]
<1>1. /\ Sending /\ Processing /\ ~lost /\ next' = next + 1 /\ received' = Append(received, e)
      /\ UNCHANGED <<message, position, status, at, results, failed, lost, context>>
      /\ Current.form = "wellFormed"
  BY DEF CommandAccepted, Received, Sending
<1>2. /\ AtHand /\ next \in Nat \ {0} /\ at \in Nat /\ at \in 1..Len(message)
      /\ at \in ScriptsFor(position) /\ received \in CardsAnswers
  BY <1>1, Here
<1>3. received' \in CardsAnswers
  <2>1. at \in Nat \ {0}
    BY <1>2
  <2> QED  BY <1>1, <1>2, <2>1, ReceivedType
<1>4. TypeInv'
  <2>1. next' \in Nat \ {0}
    BY <1>1, <1>2
  <2> HIDE DEF e
  <2> QED  BY <1>1, <1>3, <2>1 DEF ScriptInv, TypeInv, CardsAnswers
<1>5. \A k : AnswersTo(k)' = AnswersTo(k) \cup (IF at = k THEN {e} ELSE {})
  <2>1. TypeInv /\ e.script = at
    BY DEF ScriptInv
  <2> HIDE DEF e
  <2> QED  BY <1>1, <2>1, AnswersAdded
<1>6. AtHand'
  <2>1. at' \in ScriptsFor(position)' /\ Current'.form = "wellFormed"
    BY <1>1, <1>2 DEF ScriptsFor, Current
  <2>2. \A m \in DOMAIN received' : received'[m].script <= at
    <3>1. \A m \in DOMAIN received : received[m].script <= at
      BY <1>2 DEF AtHand
    <3>2. e.script <= at
      BY <1>2
    <3> HIDE DEF e
    <3> QED  BY <1>1, <1>2, <3>1, <3>2 DEF CardsAnswers
  <2>3. \A r \in AnswersTo(at)' : r.command < next'
    <3>1. \A r \in AnswersTo(at) : r.command < next /\ r.command \in Nat
      BY <1>1, <1>2, Here DEF AtHand
    <3>2. e.command < next'
      BY <1>1, <1>2
    <3>3. AnswersTo(at)' = AnswersTo(at) \cup {e}
      BY <1>1, <1>5
    <3> HIDE DEF e
    <3> QED  BY <1>1, <1>2, <3>1, <3>2, <3>3
  <2>4. \A c \in 1..(next' - 1) : Took(at, c)'
    <3>1. AnswersTo(at)' = AnswersTo(at) \cup {e}
      BY <1>1, <1>5
    <3>2. \A c \in 1..(next' - 1) : c = next \/ c \in 1..(next - 1)
      BY <1>1, <1>2
    <3> QED  BY <1>1, <1>2, <3>1, <3>2 DEF AtHand, Took
  <2> QED  BY <1>1, <2>1, <2>2, <2>3, <2>4 DEF AtHand
<1>7. CallInv'
  <2>1. /\ \A n : Upto(position, n)' = Upto(position, n)
        /\ \A n : Place(position, n)' = Place(position, n)
    BY <1>1 DEF Upto, Place, ScriptsFor
  <2>2. /\ Len(results) = Place(position, at - 1)
        /\ failed <=> AnyFailed(results)
        /\ \A n \in Upto(position, at - 1) : Tells(results[Place(position, n)], n)
    BY <1>1, Here DEF ScriptInv, CallInv
  <2>3. \A n \in Upto(position, at - 1) : Tells(results[Place(position, n)], n)'
    <3> SUFFICES ASSUME NEW n \in Upto(position, at - 1)
                 PROVE  Tells(results[Place(position, n)], n)'
      OBVIOUS
    <3> DEFINE o == results[Place(position, n)]
    <3>1. o' = o /\ Tells(o, n)
      BY <1>1, <2>1, <2>2
    <3>2. n # at
      BY <1>2 DEF Upto
    <3>3. AnswersTo(n)' = AnswersTo(n) /\ message' = message
      BY <1>1, <1>5, <3>2
    <3> HIDE DEF o
    <3>4. Tells(o, n)'
      BY <3>1, <3>3 DEF Tells, Stopped, Took
    <3> QED  BY <3>4 DEF o
  <2>4. (failed <=> AnyFailed(results))'
    BY <1>1, <2>2 DEF AnyFailed
  <2> QED  BY <1>1, <1>6, <2>1, <2>2, <2>3, <2>4 DEF CallInv
<1>8. ContextInv'
  BY <1>1 DEF ScriptInv, ContextInv, BitsMatchResults, ResultsOf, ScriptsFor
<1> QED  BY <1>4, <1>7, <1>8 DEF ScriptInv


\* The results of two calls, one after the other, tell in each part what they told
\* alone.
LEMMA FailedInParts ==
    ASSUME NEW a \in Seq(Outcomes), NEW b \in Seq(Outcomes)
    PROVE  /\ AnyFailed(a) <=> \E n \in 1..Len(a) : (a \o b)[n].result # "Successful"
           /\ AnyFailed(b) <=>
                \E n \in (Len(a) + 1)..(Len(a) + Len(b)) : (a \o b)[n].result # "Successful"
<1> DEFINE ab == a \o b
<1>1. /\ DOMAIN a = 1..Len(a) /\ DOMAIN b = 1..Len(b) /\ Len(a) \in Nat /\ Len(b) \in Nat
      /\ \A n \in 1..(Len(a) + Len(b)) : ab[n] = IF n <= Len(a) THEN a[n] ELSE b[n - Len(a)]
  OBVIOUS
<1> HIDE DEF ab
<1>2. AnyFailed(a) <=> \E n \in 1..Len(a) : ab[n].result # "Successful"
  <2>1. \A n \in 1..Len(a) : ab[n] = a[n]
    BY <1>1
  <2> QED  BY <1>1, <2>1 DEF AnyFailed
<1>3. ASSUME AnyFailed(b)
      PROVE  \E n \in (Len(a) + 1)..(Len(a) + Len(b)) : ab[n].result # "Successful"
  <2>1. PICK n \in 1..Len(b) : b[n].result # "Successful"
    BY <1>1, <1>3 DEF AnyFailed
  <2>2. /\ n + Len(a) \in (Len(a) + 1)..(Len(a) + Len(b)) /\ n + Len(a) \in 1..(Len(a) + Len(b))
        /\ ~(n + Len(a) <= Len(a)) /\ (n + Len(a)) - Len(a) = n
    BY <1>1
  <2>3. ab[n + Len(a)] = b[n]
    BY <1>1, <2>2
  <2> QED  BY <2>1, <2>2, <2>3
<1>4. ASSUME NEW n \in (Len(a) + 1)..(Len(a) + Len(b)), ab[n].result # "Successful"
      PROVE  AnyFailed(b)
  <2>1. n \in 1..(Len(a) + Len(b)) /\ ~(n <= Len(a)) /\ n - Len(a) \in 1..Len(b)
    BY <1>1
  <2>2. b[n - Len(a)].result # "Successful"
    BY <1>1, <1>4, <2>1
  <2> QED  BY <1>1, <2>1, <2>2 DEF AnyFailed
<1> QED  BY <1>2, <1>3, <1>4 DEF ab

\* What the call found when it is over.
LEMMA CallFound ==
    ASSUME ScriptInv, Finished
    PROVE  /\ Upto(position, at - 1) = ScriptsFor(position)
           /\ Len(results) = Cardinality(ScriptsFor(position))
           /\ results # <<>> <=> ScriptsFor(position) # {}
           /\ failed <=> AnyFailed(results)
           /\ ~lost => \A n \in ScriptsFor(position) : Tells(results[Place(position, n)], n)
<1>1. /\ message \in Seq(IssuerScript) /\ Len(message) \in Nat /\ status = "Script"
      /\ at = Len(message) + 1 /\ results \in Seq(Outcomes)
  BY DEF ScriptInv, TypeInv, Finished
<1>2. at - 1 \in Nat /\ at - 1 >= Len(message)
  BY <1>1
<1>3. Upto(position, at - 1) = ScriptsFor(position) /\ IsFiniteSet(Upto(position, at - 1))
  BY <1>1, <1>2, Places
<1>4. /\ Len(results) = Place(position, at - 1)
      /\ failed <=> AnyFailed(results)
      /\ ~lost => \A n \in Upto(position, at - 1) : Tells(results[Place(position, n)], n)
  BY <1>1 DEF ScriptInv, CallInv
<1>5. Len(results) = Cardinality(ScriptsFor(position))
  BY <1>3, <1>4 DEF Place
<1>6. results # <<>> <=> ScriptsFor(position) # {}
  <2>1. Len(results) = 0 <=> ScriptsFor(position) = {}
    BY <1>3, <1>5, FS_EmptySet
  <2> QED  BY <1>1, <2>1
<1> QED  BY <1>3, <1>4, <1>5, <1>6

\* Adding the results to the context keeps the invariant.
LEMMA ReturnKeeps == ASSUME ScriptInv, ReturnResults PROVE ScriptInv'
<1>1. /\ Finished /\ status = "Script" /\ position' = "72"
      /\ UNCHANGED <<message, at, next, results, failed, lost, received>>
      /\ context' = Merged(context) /\ message \in Seq(IssuerScript) /\ position \in {"71", "72"}
      /\ results \in Seq(Outcomes) /\ context.results \in Seq(Outcomes) /\ failed \in BOOLEAN
      /\ context.tvr \subseteq {"71", "72"} /\ context.tsi \in BOOLEAN /\ lost \in BOOLEAN
  BY DEF ReturnResults, Finished, callVars, ScriptInv, TypeInv
<1>2. \/ lost /\ status' = "Err"
      \/ ~lost /\ position = "71" /\ status' = "Ready"
      \/ ~lost /\ position = "72" /\ status' = "Done"
  BY <1>1 DEF ReturnResults
<1>3. CASE lost
  <2>1. context' = context /\ status' = "Err"
    BY <1>1, <1>2, <1>3 DEF Merged
  <2>2. TypeInv'
    BY <1>1, <2>1 DEF ScriptInv, TypeInv
  <2> QED  BY <2>1, <2>2 DEF ScriptInv, CallInv, ContextInv, BitsMatchResults
<1>4. CASE ~lost
  <2>1. /\ context'.results = context.results \o results
        /\ context'.tvr = context.tvr \cup (IF failed THEN {position} ELSE {})
        /\ context'.tsi = (context.tsi \/ results # <<>>)
    BY <1>1, <1>4 DEF Merged, WithResults
  <2>2. context'.results \in Seq(Outcomes) /\ Len(context'.results) = Len(context.results) + Len(results)
    BY <1>1, <2>1
  <2>3. TypeInv'
    <3>1. status' \in {"Ready", "Script", "Done", "Err"}
      BY <1>2
    <3>2. context'.tvr \subseteq {"71", "72"}
      BY <1>1, <2>1
    <3>3. context'.tsi \in BOOLEAN
      BY <1>1, <2>1
    <3> QED  BY <1>1, <2>2, <3>1, <3>2, <3>3 DEF ScriptInv, TypeInv
  <2>4. failed <=> AnyFailed(results)
    BY <1>1, CallFound
  <2>5. \A template \in {"71", "72"} :
           template \in context'.tvr <=> template \in context.tvr \/ (failed /\ position = template)
    BY <1>1, <2>1
  <2>6. CallInv'
    BY <1>2, <1>4 DEF CallInv
  <2>7. ScriptsFor("71")' = ScriptsFor("71") /\ ScriptsFor("72")' = ScriptsFor("72")
    BY <1>1 DEF ScriptsFor
  <2>8. CASE position = "71"
    <3>1. context = Untouched
      BY <1>1, <2>8 DEF ScriptInv, ContextInv
    <3>2. context.results = <<>> /\ context.tvr = {} /\ context.tsi = FALSE
      BY <3>1 DEF Untouched
    <3>3. context'.results = results
      BY <1>1, <2>1, <3>2
    <3>4. Len(context'.results) = Cardinality(ScriptsFor("71"))
      BY <1>1, <2>8, <3>3, CallFound
    <3>5. /\ "71" \in context'.tvr <=> AnyFailed(context'.results)
          /\ "72" \notin context'.tvr
          /\ context'.tsi <=> ScriptsFor("71") # {}
      <4>1. "71" \in context'.tvr <=> AnyFailed(context'.results)
        BY <2>4, <2>5, <2>8, <3>2, <3>3
      <4>2. "72" \notin context'.tvr
        BY <2>5, <2>8, <3>2
      <4>3. context'.tsi <=> ScriptsFor("71") # {}
        BY <1>1, <2>1, <2>8, <3>2, CallFound
      <4> QED  BY <4>1, <4>2, <4>3
    <3>6. ContextInv'
      BY <1>1, <1>2, <1>4, <2>7, <2>8, <3>4, <3>5 DEF ContextInv, BitsMatchResults
    <3> QED  BY <2>3, <2>6, <3>6 DEF ScriptInv
  <2>9. CASE position = "72"
    <3>1. /\ "71" \in context.tvr <=> AnyFailed(context.results)
          /\ "72" \notin context.tvr
          /\ context.tsi <=> ScriptsFor("71") # {}
          /\ Len(context.results) = Cardinality(ScriptsFor("71"))
      BY <1>1, <2>9 DEF ScriptInv, ContextInv
    <3>2. Len(context'.results) = Cardinality(ScriptsFor("71")) + Cardinality(ScriptsFor("72"))
      BY <1>1, <2>2, <2>9, <3>1, CallFound
    <3>3. \A template \in {"71", "72"} :
             template \in context'.tvr <=>
                \E n \in ResultsOf(template)' : context'.results[n].result # "Successful"
      <4>1. /\ ResultsOf("71")' = 1..Len(context.results)
            /\ ResultsOf("72")' = (Len(context.results) + 1)..(Len(context.results) + Len(results))
        BY <2>2, <2>7, <3>1 DEF ResultsOf
      <4>2. /\ AnyFailed(context.results) <=>
                  \E n \in ResultsOf("71")' : context'.results[n].result # "Successful"
            /\ AnyFailed(results) <=>
                  \E n \in ResultsOf("72")' : context'.results[n].result # "Successful"
        <5>1. context'.results = context.results \o results
          BY <2>1
        <5>2. /\ AnyFailed(context.results) <=>
                   \E n \in 1..Len(context.results) :
                      (context.results \o results)[n].result # "Successful"
              /\ AnyFailed(results) <=>
                   \E n \in (Len(context.results) + 1)..(Len(context.results) + Len(results)) :
                      (context.results \o results)[n].result # "Successful"
          BY <1>1, FailedInParts
        <5> QED  BY <4>1, <5>1, <5>2
      <4>3. "71" \in context'.tvr <=> AnyFailed(context.results)
        BY <2>5, <2>9, <3>1
      <4>4. "72" \in context'.tvr <=> AnyFailed(results)
        BY <2>4, <2>5, <2>9, <3>1
      <4> QED  BY <4>2, <4>3, <4>4
    <3>4. context'.tsi <=> ScriptsFor("71") \cup ScriptsFor("72") # {}
      <4>1. context'.tsi <=> ScriptsFor("71") # {} \/ ScriptsFor("72") # {}
        BY <1>1, <2>1, <2>9, <3>1, CallFound
      <4> QED  BY <4>1
    <3>5. BitsMatchResults'
      BY <2>7, <3>2, <3>3, <3>4 DEF BitsMatchResults
    <3>6. ContextInv'
      BY <1>2, <1>4, <2>9, <3>5 DEF ContextInv
    <3> QED  BY <2>3, <2>6, <3>6 DEF ScriptInv
  <2> QED  BY <1>1, <2>8, <2>9
<1> QED  BY <1>3, <1>4

\* Every step keeps the invariant.
LEMMA NextKeeps == ASSUME ScriptInv, [ScriptsNext]_scriptsVars PROVE ScriptInv'
<1>1. CASE ScriptsKernel
  BY <1>1, CallKeeps, PassByKeeps, ParseErrorKeeps, AcceptedKeeps, RefusalKeeps, DoneKeeps,
     ReturnKeeps DEF ScriptsKernel
<1>2. CASE UNCHANGED scriptsVars
  <2>1. UNCHANGED <<message, position, status, at, next, results, failed, lost, context, received>>
    BY <1>2 DEF scriptsVars
  <2>2. TypeInv'
    BY <2>1 DEF ScriptInv, TypeInv
  <2>3. CallInv'
    <3>1. AtHand' <=> AtHand
      BY <2>1 DEF AtHand, Took, AnswersTo, Current, ScriptsFor
    <3>2. (Len(results) = Place(position, at - 1))' <=> Len(results) = Place(position, at - 1)
      BY <2>1 DEF Place, Upto, ScriptsFor
    <3>3. ASSUME \A n \in Upto(position, at - 1) : Tells(results[Place(position, n)], n)
          PROVE  (\A n \in Upto(position, at - 1) : Tells(results[Place(position, n)], n))'
      <4>1. Upto(position, at - 1)' = Upto(position, at - 1)
        BY <2>1 DEF Upto, ScriptsFor
      <4>2. ASSUME NEW n \in Upto(position, at - 1)
            PROVE  Tells(results[Place(position, n)], n)'
        <5> DEFINE o == results[Place(position, n)]
        <5>1. o' = o /\ Tells(o, n)
          BY <2>1, <3>3 DEF Place, Upto, ScriptsFor
        <5>2. AnswersTo(n)' = AnswersTo(n) /\ message' = message
          BY <2>1 DEF AnswersTo
        <5> HIDE DEF o
        <5>3. Tells(o, n)'
          BY <5>1, <5>2 DEF Tells, Stopped, Took
        <5> QED  BY <5>3 DEF o
      <4> QED  BY <4>1, <4>2
    <3>4. (failed <=> AnyFailed(results))' <=> (failed <=> AnyFailed(results))
      BY <2>1 DEF AnyFailed
    <3> QED  BY <2>1, <3>1, <3>2, <3>3, <3>4 DEF ScriptInv, CallInv
  <2>4. ContextInv'
    BY <2>1 DEF ScriptInv, ContextInv, BitsMatchResults, ResultsOf, AnyFailed, ScriptsFor
  <2> QED  BY <2>2, <2>3, <2>4 DEF ScriptInv
<1> QED  BY <1>1, <1>2 DEF ScriptsNext, ScriptsOver

\* The invariant of issuer script processing, for every message.
THEOREM ScriptInvariant == ScriptsSpec => []ScriptInv
BY InitScripts, NextKeeps, PTL DEF ScriptsSpec

\* The Issuer Script Results of a call tell, script by script in the order of the
\* message, what the card took of it (process_scripts), however many scripts and
\* commands there are and wherever the card or the kernel stops.
THEOREM ResultsTellWhatHappenedAlways == ScriptsSpec => []ResultsTellWhatHappened
<1>1. ScriptInv => ResultsTellWhatHappened
  BY CallFound DEF ResultsTellWhatHappened
<1> QED  BY <1>1, ScriptInvariant, PTL

\* After both calls the TVR bit of each position says exactly whether a script of
\* that position failed, the TSI bit whether there was a script, and there is one
\* result for each script of the two templates (process_issuer_scripts).
THEOREM BitsMatchResultsAlways == ScriptsSpec => []BitsMatchResults
<1>1. ScriptInv => BitsMatchResults
  BY DEF ScriptInv, ContextInv
<1> QED  BY <1>1, ScriptInvariant, PTL

\* After a failure of the reader nothing more is sent in the call.
THEOREM SilenceAfterLossAlways == ScriptsSpec => SilenceAfterLoss
<1>1. [ScriptsNext]_scriptsVars => [lost /\ lost' => received' = received]_scriptsVars
  BY DEF ScriptsNext, ScriptsKernel, process_issuer_scripts, PassBy, parse_error, CommandAccepted, CommandRefused,
         CommandLost, Sentinel, CommandsDone, ReturnResults, callVars, ScriptsOver, scriptsVars
<1> QED  BY <1>1, PTL DEF ScriptsSpec, SilenceAfterLoss
=============================================================================
