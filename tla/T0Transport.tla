----------------------------- MODULE T0Transport -----------------------------
(***************************************************************************)
(* One APDU exchange over T=0 (transmit_apdu in pcsc.rs): '61xx' is        *)
(* followed by GET RESPONSE and '6Cxx' by the same command with another    *)
(* Le until the card answers with a status of its own; the data of all     *)
(* rounds is one answer.  At most MaxRounds rounds are made.               *)
(*                                                                         *)
(* The card sends the data of its answer in parts 1, 2, ..., size, one a   *)
(* round.  The status is no concern of the transport and is left out.      *)
(***************************************************************************)
EXTENDS Naturals, Sequences

CONSTANTS
    MaxRounds, \* 256 in the code
    MaxParts   \* rounds a card needs at most for its data

ASSUME TransportAssumption == MaxRounds \in Nat \ {0} /\ MaxParts \in Nat

Parts(n) == [i \in 1..n |-> i]

VARIABLES
    pending,     \* what the next round sends
    rounds,      \* rounds left
    accumulated, \* data received
    outcome,     \* "None" while idle or running, or how the exchange ended
    size, sent,  \* the card's side: parts of its answer, and those it has sent
    executed     \* how often the card has executed the command

transportVars == <<pending, rounds, accumulated, outcome, size, sent, executed>>

TransportInit ==
    /\ pending = "nothing" /\ rounds = 0 /\ accumulated = <<>> /\ outcome = "None"
    /\ size = 0 /\ sent = 0 /\ executed = 0

\* transmit is called; the card has n parts of data to answer with.
Begin(n) ==
    /\ pending = "nothing" /\ outcome = "None"
    /\ pending' = "command" /\ rounds' = MaxRounds /\ accumulated' = <<>>
    /\ size' = n /\ sent' = 0 /\ executed' = 0
    /\ UNCHANGED outcome

\* The caller takes the outcome.
Take == outcome # "None" /\ outcome' = "None"

Return(how) == outcome' = how /\ pending' = "nothing"

\* A round is made; the card executes a command it does not answer '6Cxx'.
Round == pending # "nothing" /\ rounds > 0 /\ rounds' = rounds - 1
Executes == executed' = IF pending = "command" THEN executed + 1 ELSE executed

\* '61xx' without data: it is waiting.  A card may say so again and again.
BytesAvailable ==
    /\ Round /\ Executes
    /\ pending = "command" => size > 0
    /\ pending' = "GET RESPONSE"
    /\ UNCHANGED <<accumulated, outcome, size, sent>>

\* '6Cxx': the Le is wrong.  A card may say so again and again.
WrongLength ==
    /\ Round
    /\ UNCHANGED <<pending, accumulated, outcome, size, sent, executed>>

\* Mutant: the data of a round replaces that of the rounds before.
MoreToComeAlone ==
    /\ Round /\ Executes
    /\ sent + 1 < size
    /\ pending' = "GET RESPONSE"
    /\ accumulated' = <<sent + 1>> /\ sent' = sent + 1
    /\ UNCHANGED <<outcome, size>>

\* Data and '61xx': there is more.
MoreToCome ==
    /\ Round /\ Executes
    /\ sent + 1 < size
    /\ pending' = "GET RESPONSE"
    /\ accumulated' = Append(accumulated, sent + 1) /\ sent' = sent + 1
    /\ UNCHANGED <<outcome, size>>

\* The card's own status, with the rest of its data.
Final ==
    /\ Round /\ Executes
    /\ size <= sent + 1
    /\ accumulated' = IF sent < size THEN Append(accumulated, size) ELSE accumulated
    /\ sent' = size
    /\ Return("Answered")
    /\ UNCHANGED size

\* No round is left, the reader fails, or what it gives is no response.
Failure ==
    /\ pending # "nothing"
    /\ Return("Lost")
    /\ UNCHANGED <<rounds, accumulated, size, sent, executed>>

TransportStep == BytesAvailable \/ WrongLength \/ MoreToCome \/ Final \/ Failure

\* However the card serves its answer, it executes the command once: data is
\* fetched by GET RESPONSE, and only '6Cxx' makes the command go out again.
CommandExecutedOnce == executed <= 1
=============================================================================
