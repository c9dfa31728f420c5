---------------------------- MODULE IssuerScripts ----------------------------
(***************************************************************************)
(* Issuer-to-card script processing: process_scripts of                    *)
(* contact/issuer_script.rs as process_issuer_scripts of                   *)
(* contact/transaction_driver.rs drives it, once before and once after the *)
(* final GENERATE AC.  TransactionFlow takes a call of it in one step; here*)
(* it goes command by command.                                             *)
(*                                                                         *)
(* A message is the sequence of scripts the issuer sent.  A script is      *)
(* [template, form, id, commands]: form says whether its template can be   *)
(* taken apart; id is its Issuer Script Identifier, NoId without one; a    *)
(* command is "apdu", or "garbage" when Command::from_bytes rejects it.    *)
(***************************************************************************)
EXTENDS Naturals, Sequences, FiniteSets

CONSTANT Messages   \* the messages the issuer may send

Template == {"71", "72", "other"}
Form == {"wellFormed", "notConstructed", "badIdentifier", "badCommand"}
NoId == 0

IssuerScript ==
    [template : Template, form : Form, id : Nat, commands : Seq({"apdu", "garbage"})]

ASSUME MessagesAssumption == \A m \in Messages : m \in Seq(IssuerScript)

VARIABLES
    message,   \* the issuer's scripts
    position,  \* the template the call is for, "71" and then "72"
    status,    \* "Ready", "Script", or what was returned: "Done" or "Err"
    at,        \* the script of the message the call is at
    next,      \* the command of that script to send next
    results,   \* script_results of the call
    failed,    \* tvr_updates of the call: the bit of its position
    lost,      \* transport_err
    context,   \* the transaction context: '9F5B', the two TVR bits, the TSI bit
    received   \* what the card took of each command of the call (for checking
               \* only): [script, command, accepted]

scriptsVars == <<message, position, status, at, next, results, failed, lost, context, received>>
callVars == <<at, next, results, failed, lost, received>>

Untouched == [results |-> <<>>, tvr |-> {}, tsi |-> FALSE]

ScriptsFor(template) == {n \in DOMAIN message : message[n].template = template}

ScriptsInit ==
    /\ message \in Messages /\ position = "71" /\ status = "Ready"
    /\ at = 1 /\ next = 1 /\ results = <<>> /\ failed = FALSE /\ lost = FALSE
    /\ context = Untouched /\ received = <<>>
-----------------------------------------------------------------------------
process_issuer_scripts ==
    /\ status = "Ready"
    /\ at' = 1 /\ next' = 1 /\ results' = <<>> /\ failed' = FALSE /\ lost' = FALSE /\ received' = <<>>
    /\ status' = "Script"
    /\ UNCHANGED <<message, position, context>>

\* Mutant: the sequence number does not stop at 'F'.
encode_sequence_wrapping(n) == n % 16

\* The sequence number nibble: 1 to 14 as they are, 'F' from 15 on.
encode_sequence(n) == IF n >= 15 THEN 15 ELSE n

Outcome(result, number, id) == [result |-> result, number |-> number, id |-> id]

\* The outcome of the script at hand is known; the next one follows.
ScriptEnds(outcome) ==
    /\ results' = Append(results, outcome)
    /\ failed' = (failed \/ outcome.result # "Successful")
    /\ at' = at + 1
    /\ next' = 1

Processing == status = "Script" /\ at \in ScriptsFor(position)
Current == message[at]

\* The filter: a script under another template is not for this call.
PassBy ==
    /\ status = "Script" /\ at \in DOMAIN message \ ScriptsFor(position)
    /\ at' = at + 1
    /\ UNCHANGED <<message, position, status, next, results, failed, lost, context, received>>

\* Annex E scenario 3: nothing of the script is sent.  The identifier is kept
\* only when it was read before the child that is malformed.
parse_error ==
    /\ Processing /\ Current.form # "wellFormed"
    /\ ScriptEnds(Outcome("NotPerformed", 0, IF Current.form = "badCommand" THEN Current.id ELSE NoId))
    /\ UNCHANGED <<message, position, status, lost, context, received>>

\* The next command of the script, or what stands for its status word.
Sending == Processing /\ Current.form = "wellFormed" /\ next <= Len(Current.commands)

Received(accepted) ==
    Append(received, [script |-> at, command |-> next, accepted |-> accepted])

Refused == ScriptEnds(Outcome("Failed", encode_sequence(next), Current.id))

\* SW1 '90', '62' or '63'.
CommandAccepted ==
    /\ Sending /\ ~lost /\ Current.commands[next] = "apdu"
    /\ received' = Received(TRUE)
    /\ next' = next + 1
    /\ UNCHANGED <<message, position, status, at, results, failed, lost, context>>

CommandRefused ==
    /\ Sending /\ ~lost /\ Current.commands[next] = "apdu"
    /\ received' = Received(FALSE)
    /\ Refused
    /\ UNCHANGED <<message, position, status, lost, context>>

\* The reader fails; the card may have executed the command all the same.
CommandLost ==
    /\ Sending /\ ~lost /\ Current.commands[next] = "apdu"
    /\ \E executed \in BOOLEAN : received' = IF executed THEN Received(TRUE) ELSE received
    /\ lost' = TRUE
    /\ Refused
    /\ UNCHANGED <<message, position, status, context>>

\* Mutant: what follows a failure of the reader is still sent.
SentinelForGarbage ==
    /\ Sending
    /\ lost \/ Current.commands[next] = "garbage"
    /\ received' = IF Current.commands[next] = "apdu" THEN Received(FALSE) ELSE received
    /\ Refused
    /\ UNCHANGED <<message, position, status, lost, context>>

\* '6F00' without asking the card: the command is no APDU, or the reader has failed.
Sentinel ==
    /\ Sending
    /\ lost \/ Current.commands[next] = "garbage"
    /\ Refused
    /\ UNCHANGED <<message, position, status, lost, context, received>>

CommandsDone ==
    /\ Processing /\ Current.form = "wellFormed" /\ next > Len(Current.commands)
    /\ ScriptEnds(Outcome("Successful", 0, Current.id))
    /\ UNCHANGED <<message, position, status, lost, context, received>>

\* Mutant: both calls set the bit of the scripts before the final GENERATE AC.
WithOneBit(old) ==
    [results |-> old.results \o results,
     tvr |-> old.tvr \cup (IF failed THEN {"71"} ELSE {}),
     tsi |-> old.tsi \/ results # <<>>]

\* The results of the call and the bits they set, added to the context.
WithResults(old) ==
    [results |-> old.results \o results,
     tvr |-> old.tvr \cup (IF failed THEN {position} ELSE {}),
     tsi |-> old.tsi \/ results # <<>>]

\* The call's results added to the context, unless the reader has failed.
Merged(old) == IF lost THEN old ELSE WithResults(old)

Finished == status = "Script" /\ at > Len(message)

\* The call returns; between the two calls the final GENERATE AC takes place.
ReturnResults ==
    /\ Finished
    /\ context' = Merged(context)
    /\ status' = IF lost THEN "Err" ELSE IF position = "71" THEN "Ready" ELSE "Done"
    /\ position' = "72"
    /\ UNCHANGED <<message, callVars>>

\* The transaction is over.
ScriptsOver == status \in {"Done", "Err"} /\ UNCHANGED scriptsVars

ScriptsKernel ==
    \/ process_issuer_scripts \/ PassBy \/ parse_error \/ CommandAccepted \/ CommandRefused \/ CommandLost
    \/ Sentinel \/ CommandsDone \/ ReturnResults

ScriptsNext == ScriptsKernel \/ ScriptsOver

ScriptsSpec == ScriptsInit /\ [][ScriptsNext]_scriptsVars /\ WF_scriptsVars(ScriptsKernel)
-----------------------------------------------------------------------------
(* Properties *)

\* The scripts the call comes to up to the nth of the message, and so the place
\* of the nth among the results, if it is one of them.
Upto(template, n) == ScriptsFor(template) \cap 1..n
Place(template, n) == Cardinality(Upto(template, n))

AnswersTo(n) == {r \in {received[m] : m \in DOMAIN received} : r.script = n}
Took(n, c) == \E r \in AnswersTo(n) : r.command = c /\ r.accepted
Stopped(n) == {c \in DOMAIN message[n].commands : ~Took(n, c)}

Tells(outcome, n) ==
    CASE outcome.result = "Successful" -> Stopped(n) = {}
      [] outcome.result = "NotPerformed" -> AnswersTo(n) = {}
      [] OTHER ->
           \E c \in Stopped(n) :
              /\ outcome.number = IF c < 15 THEN c ELSE 15
              /\ Stopped(n) = c..Len(message[n].commands)
              /\ \A r \in AnswersTo(n) : r.command <= c

\* The results of a call tell what the card did: there is one for each script
\* under its template, in the order of the message; a successful script had every
\* command accepted; a failed one every command before the one it names (its
\* number stops at 15) and none after it; one not performed had none sent.
ResultsTellWhatHappened ==
    (Finished /\ ~lost) =>
        /\ Len(results) = Cardinality(ScriptsFor(position))
        /\ \A n \in ScriptsFor(position) : Tells(results[Place(position, n)], n)

\* Once the reader has failed the card is left alone for the rest of the call.
SilenceAfterLoss == [][lost /\ lost' => received' = received]_scriptsVars

\* Where the context keeps the results of a template's call.
ResultsOf(template) ==
    LET before == Cardinality(ScriptsFor("71"))
    IN  IF template = "71" THEN 1..before ELSE (before + 1)..Len(context.results)

\* The TVR bit of each position says exactly whether one of that position's
\* scripts failed, whatever the scripts of the other did; the TSI bit says whether
\* there was any script; and '9F5B' has one result for each script of the two.
BitsMatchResults ==
    status = "Done" =>
        /\ \A template \in {"71", "72"} :
              template \in context.tvr <=>
                 \E n \in ResultsOf(template) : context.results[n].result # "Successful"
        /\ context.tsi <=> ScriptsFor("71") \cup ScriptsFor("72") # {}
        /\ Len(context.results) =
              Cardinality(ScriptsFor("71")) + Cardinality(ScriptsFor("72"))
=============================================================================
