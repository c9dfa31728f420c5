--------------------------- MODULE MCTerminalHistory ---------------------------
(* Instances of TerminalHistory. *)
EXTENDS TerminalHistory, TLC

Bytes(n, v) == [length |-> n, value |-> v]
Visa == <<10, 0, 0, 0, 3>>

Risky == RiskBit \cup RestrictionBit

MCDefaults ==
    [field \in Overridable |->
        CASE field = "partial_match_allowed"     -> Some(TRUE)
          [] field = "terminal_floor_limit"      -> Some(4)
          [] field = "default_ddol"              -> Some(Bytes(3, {}))
          [] field = "tac_online"                -> Some(Bytes(5, Risky))
          [] field = "tac_default"               -> Some(Bytes(5, Risky))
          [] field = "rts_target_percentage"     -> Some(5)
          [] field = "rts_max_target_percentage" -> Some(99)
          [] field = "rts_threshold_value"       -> Some(1)
          [] OTHER                               -> None]
    @@ [merchant_identifier |-> Some(15), terminal_identification |-> Some(8),
        merchant_name_and_location |-> None, acquirer_identifier |-> Some(Bytes(6, {}))]

MCEntry ==
    [field \in Overridable |-> None]
    @@ [aid |-> Bytes(5, Visa), application_version_number |-> Bytes(2, "v1")]

MCTerminal(type, cash) ==
    [terminal_type |-> Bytes(1, type), terminal_capabilities |-> Bytes(3, {}),
     additional_terminal_capabilities |-> Bytes(5, cash), ifd_serial_number |-> 8,
     terminal_country_code |-> "us"]

MCFile(type, cash, entries) ==
    [terminal |-> MCTerminal(type, cash), defaults |-> MCDefaults, aids |-> entries,
     keys |-> {[kind |-> "rsa", rid |-> Bytes(5, Visa), index |-> Bytes(1, 0),
                modulus |-> Bytes(128, 0), exponent |-> Bytes(1, 3)]},
     crl |-> {}]

\* A terminal that can go online, one that cannot, an ATM whose row turns the
\* floor limit off without random selection's threshold, a row of the exact
\* name after the partial one, and files with a row that is refused.
MCFiles ==
    {MCFile(<<2, 2>>, FALSE, <<MCEntry>>),
     MCFile(<<2, 3>>, FALSE, <<MCEntry>>),
     MCFile(<<1, 4>>, TRUE, <<[MCEntry EXCEPT !["terminal_floor_limit"] = Some(0)]>>),
     MCFile(<<2, 2>>, FALSE,
            <<MCEntry,
              [MCEntry EXCEPT !["aid"] = Bytes(6, Append(Visa, 1)),
                              !["terminal_floor_limit"] = Some(3),
                              !["tac_online"] = Some(Bytes(5, RiskBit)),
                              !["rts_max_target_percentage"] = Some(5)]>>),
     MCFile(<<2, 2>>, FALSE,
            <<MCEntry, [MCEntry EXCEPT !["tac_denial"] = Some(Bytes(4, {}))]>>)}

MCCard ==
    [df_name |-> Append(Visa, 1), version |-> Some("v1"), usage |-> Some(UsageBit),
     issuer_country |-> Some("us"), effective |-> Some(1), expiration |-> Some(2),
     lower |-> Some(1), upper |-> Some(2),
     iac |-> [denial |-> NoCode, online |-> NoCode, default |-> NoCode, malformed |-> FALSE]]

\* The limits swapped, or missing; services and cashback refused; elements of
\* the wrong length; issuer action codes that deny an expired card and
\* otherwise select nothing.
MCCards ==
    {MCCard,
     [MCCard EXCEPT !.lower = Some(2), !.upper = Some(1)],
     [MCCard EXCEPT !.lower = None, !.version = Some("v2"), !.effective = None,
                    !.iac.denial = {"expired_application"}, !.iac.online = {}, !.iac.default = {}],
     [MCCard EXCEPT !.issuer_country = Some("ca"),
                    !.usage = Some(UsageBit \ {"international_cashback_allowed", "valid_at_atms"})],
     [MCCard EXCEPT !.issuer_country = None, !.expiration = Some(3),
                    !.usage = Some(UsageBit \ {"valid_for_domestic_goods"}),
                    !.iac.malformed = TRUE],
     [MCCard EXCEPT !.effective = Some(Malformed)],
     [MCCard EXCEPT !.expiration = None]}

\* Fresh counters, a card that has been used, and counters that make no sense.
MCCounters == {<<0, 0>>, <<2, 2>>, <<3, 4>>}

MCTransaction ==
    {[amount |-> 3, category |-> "Purchase", cashback |-> FALSE, date |-> 1, consulting |-> FALSE],
     [amount |-> 1, category |-> "Purchase", cashback |-> TRUE, date |-> 2, consulting |-> TRUE],
     [amount |-> 1, category |-> "Cash", cashback |-> FALSE, date |-> 3, consulting |-> FALSE]}

MCRandomNumber == {Some(5), Some(99)}
MCTvp == {<<"TVP">>}
MCRand == {None}
MCIfdsn == <<"IFDSN">>
MCTid == <<"TID">>
MCSeed == <<"SEED">>
=============================================================================
