---------------------- MODULE MCVerificationAndScripts ----------------------
(* Instances of CardholderVerification and IssuerScripts for TLC, one after the *)
(* other as in a transaction: the issuer's scripts come once the cardholder was *)
(* verified.                                                                    *)
EXTENDS CardholderVerification, IssuerScripts

(* The CVM lists. *)

Cvr(m, c, n) == [method |-> m, cond |-> c, next |-> n]
ListOf(rules) == [x |-> 2, y |-> 5, rules |-> rules, malformed |-> FALSE]

\* Every list of up to two rules over the methods, with the conditions that
\* tell the paths apart, and some of three rules.
OneRule == {Cvr(m, c, n) : m \in Method, c \in {"Always", "TerminalSupports"}, n \in BOOLEAN}
Conditional ==
    {Cvr("NoCvm", "UnderX", TRUE), Cvr("OnlinePin", "OverX", TRUE),
     Cvr("PlaintextPin", "OverY", FALSE), Cvr("Signature", "UnderY", FALSE),
     Cvr("NoCvm", "Cashback", FALSE), Cvr("PlaintextPin", "ManualCash", TRUE),
     Cvr("NoCvm", "NotCashNorCashback", FALSE), Cvr("OnlinePin", "UnattendedCash", TRUE),
     Cvr("NoCvm", "Rfu", FALSE)}
PinRules ==
    {Cvr(m, "Always", n) : m \in {"PlaintextPin", "EncipheredPin", "OnlinePin"}, n \in BOOLEAN}

SmallLists ==
    {ListOf(<<>>), [ListOf(<<>>) EXCEPT !.malformed = TRUE]}
      \cup {ListOf(<<r>>) : r \in OneRule \cup Conditional}
      \cup {ListOf(<<r, s>>) : r \in Conditional \cup PinRules,
                               s \in Conditional \cup PinRules}
      \cup {ListOf(<<r, s, t>>) : r \in {p \in PinRules : p.next}, s \in {p \in PinRules : p.next},
                t \in {Cvr("NoCvm", "Always", FALSE), Cvr("Signature", "UnderX", FALSE)}}

FullSupport ==
    [support |-> derive_cvm_support(
        {"plaintext_pin_for_icc_verification", "enciphered_pin_for_online_verification",
         "enciphered_pin_for_offline_verification_rsa_ode", "signature", "no_cvm_required"}),
     amount |-> 3, appCurrency |-> TRUE, unattendedCash |-> FALSE, manualCash |-> FALSE, cashback |-> FALSE]
-----------------------------------------------------------------------------
(* The messages of the issuer. *)

Apdus(n) == [k \in 1..n |-> "apdu"]
Script(t, f, id, cmds) == [template |-> t, form |-> f, id |-> id, commands |-> cmds]

\* Scripts of every form, with commands the kernel cannot send, and one long
\* enough for its sequence number to saturate.
Short ==
    {Script(t, "wellFormed", 1, cmds) :
        t \in {"71", "72"}, cmds \in {<<>>, Apdus(2), <<"apdu", "garbage", "apdu">>}}
      \cup {Script("71", f, 2, Apdus(1)) : f \in Form \ {"wellFormed"}}
      \cup {Script("other", "wellFormed", 3, Apdus(1))}
Long == {Script(t, "wellFormed", NoId, Apdus(17)) : t \in {"71", "72"}}

SomeMessages ==
    {<<>>} \cup {<<s>> : s \in Long} \cup {<<s, t>> : s \in Short, t \in Short}
      \cup {<<s, t, Script("71", "wellFormed", 4, Apdus(1))>> : s \in Short, t \in Short}
-----------------------------------------------------------------------------
(* The two share nothing but the transaction, so a message need not be tried *)
(* after every verification: the cards whose issuer sends scripts do not ask *)
(* for one.                                                                  *)

VerificationAndScriptsInit ==
    /\ Init /\ ScriptsInit
    /\ message # <<>> => list.rules = <<>> /\ ~supported

VerificationAndScriptsNext ==
    \/ phase # "Done" /\ Next /\ UNCHANGED scriptsVars
    \/ phase = "Done" /\ ScriptsNext /\ UNCHANGED vars

VerificationAndScriptsSpec ==
    VerificationAndScriptsInit /\ [][VerificationAndScriptsNext]_<<vars, scriptsVars>>
=============================================================================
