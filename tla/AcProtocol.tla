------------------------------ MODULE AcProtocol ------------------------------
(***************************************************************************)
(* What a transaction promises about Application Cryptograms, whatever     *)
(* application, data and terminal it is conducted with: one first          *)
(* cryptogram, a second only after an ARQC and asked for as the issuer's   *)
(* word has it, and a verdict that the card's answers justify.  A call may *)
(* fail, and what it learnt is lost to the host; a host that calls again   *)
(* consults the issuer and asks the card anew.                             *)
(*                                                                         *)
(* TransactionFlow implements it (Protocol there); it has no line of code  *)
(* of its own.                                                             *)
(***************************************************************************)
Cryptogram == {"TC", "ARQC", "AAC", "AAC_SERVICE_NOT_ALLOWED", "RFU"}

VARIABLES
    first, second, \* the types the card answered, "None" before
    asked,         \* what the second cryptogram was asked to be
    issuer,        \* "Silent", "Approved", "Declined" or "Unreachable"
    failed,        \* whether a call has failed
    verdict        \* "None", "Approved", "Declined" or "Terminated"

vars == <<first, second, asked, issuer, failed, verdict>>

Init ==
    /\ first = "None" /\ second = "None" /\ asked = "None"
    /\ issuer = "Silent" /\ failed = FALSE /\ verdict = "None"

\* What the card may be asked for once the issuer's word is known.
Requests(word) ==
    CASE word = "Approved" -> {"TC"}
      [] word = "Unreachable" -> {"TC", "AAC"}
      [] OTHER -> {"AAC"}

\* A verdict that a first and a second cryptogram and the issuer's word allow.
\* Nothing but an error ends a transaction early once the card has answered.
Justified(result, ac1, ac2, word) ==
    \/ result = "Approved" /\ ac2 = "None" /\ ac1 = "TC" /\ word \in {"Silent", "Approved"}
    \/ result = "Approved" /\ ac2 = "TC"
    \/ result = "Declined" /\ ac1 # "None"
    \/ /\ result = "Terminated" /\ ac2 = "None" /\ word = "Silent"
       /\ failed \/ ac1 \notin {"TC", "ARQC", "AAC"}

\* A verdict may come with a step, or later, or never.
Judge(ac1, ac2, word) ==
    verdict' = "None" \/ Justified(verdict', ac1, ac2, word)

GenerateFirst ==
    /\ verdict = "None" /\ first = "None"
    /\ first' \in Cryptogram
    /\ Judge(first', second, issuer)
    /\ UNCHANGED <<second, asked, issuer, failed>>

Consult ==
    /\ verdict = "None" /\ issuer = "Silent" /\ second = "None"
    /\ first \in {"TC", "ARQC"}
    /\ issuer' \in {"Approved", "Declined", "Unreachable"}
    /\ Judge(first, second, issuer')
    /\ UNCHANGED <<first, second, asked, failed>>

GenerateSecond ==
    /\ verdict = "None" /\ second = "None"
    /\ first = "ARQC"
    /\ asked' \in Requests(issuer)
    /\ second' \in Cryptogram
    /\ Judge(first, second', issuer)
    /\ UNCHANGED <<first, issuer, failed>>

Conclude ==
    /\ verdict = "None"
    /\ verdict' # "None" /\ Judge(first, second, issuer)
    /\ UNCHANGED <<first, second, asked, issuer, failed>>

\* The call returns an error.
Fail ==
    /\ verdict = "None"
    /\ failed' = TRUE /\ issuer' = "Silent" /\ second' = "None" /\ asked' = "None"
    /\ UNCHANGED <<first, verdict>>

Next == GenerateFirst \/ Consult \/ GenerateSecond \/ Conclude \/ Fail

Spec == Init /\ [][Next]_vars
=============================================================================
