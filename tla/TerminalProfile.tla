---------------------------- MODULE TerminalProfile ----------------------------
(***************************************************************************)
(* The terminal and its applications, as config.rs reads them from the     *)
(* TOML files and contact/terminal.rs holds them.  A text of a file is     *)
(* NotHex, when decode_hex refuses it, or the number of bytes it decodes   *)
(* to with what they mean: an AID its bytes, an action code its bits, a    *)
(* register its bits.                                                      *)
(***************************************************************************)
EXTENDS TerminalActionAnalysis, Optional, Sequences, Naturals

CONSTANT NotHex

\* decode_hex and decode_fixed
DecodesTo(text, lengths) == text # NotHex /\ text.length \in lengths
OptionDecodesTo(option, lengths) == \A text \in option : DecodesTo(text, lengths)
AnyLength == Nat

\* What [defaults] gives a value that an [[aids]] row may override.
Overridable ==
    {"partial_match_allowed", "terminal_floor_limit", "terminal_risk_management_data",
     "default_ddol", "default_tdol", "tac_denial", "tac_online", "tac_default",
     "rts_target_percentage", "rts_max_target_percentage", "rts_threshold_value"}

Merged(entry, defaults) ==
    [field \in Overridable |-> Or(entry[field], defaults[field])]

\* merge_aid succeeds.  Lengths are checked, values and the ranges they have
\* in the documentation of TerminalApplication are not.
AidAccepted(entry, defaults) ==
    LET own == Merged(entry, defaults)
    IN  /\ DecodesTo(entry.aid, 5..16)
        /\ DecodesTo(entry.application_version_number, {2})
        /\ \A field \in {"terminal_risk_management_data", "default_ddol", "default_tdol"} :
              OptionDecodesTo(own[field], AnyLength)
        /\ \A field \in {"tac_denial", "tac_online", "tac_default"} :
              OptionDecodesTo(own[field], {5})

ActionCodeOf(option) == IF option = None THEN NoCode ELSE Unwrap(option).value

merge_aid(entry, defaults) ==
    LET own == Merged(entry, defaults)
    IN  [aid |-> entry.aid.value,
         application_version_number |-> entry.application_version_number.value,
         partial_match_allowed |-> UnwrapOr(own["partial_match_allowed"], FALSE),
         terminal_floor_limit |-> UnwrapOr(own["terminal_floor_limit"], 0),
         tac_denial |-> ActionCodeOf(own["tac_denial"]),
         tac_online |-> ActionCodeOf(own["tac_online"]),
         tac_default |-> ActionCodeOf(own["tac_default"]),
         rts_target_percentage |-> own["rts_target_percentage"],
         rts_max_target_percentage |-> own["rts_max_target_percentage"],
         rts_threshold_value |-> own["rts_threshold_value"]]

\* TerminalConfig and the terminal-wide part of AidDefaults; the lengths of
\* the texts that are not hexadecimal are their own.
TerminalAccepted(file, defaults) ==
    /\ DecodesTo(file.terminal_type, {1})
    /\ DecodesTo(file.terminal_capabilities, {3})
    /\ DecodesTo(file.additional_terminal_capabilities, {5})
    /\ file.ifd_serial_number <= 8
    /\ UnwrapOr(defaults.merchant_identifier, 0) <= 15
    /\ UnwrapOr(defaults.terminal_identification, 0) <= 8
    /\ UnwrapOr(defaults.merchant_name_and_location, 0) <= 85
    /\ OptionDecodesTo(defaults.acquirer_identifier, {6})

\* assemble_terminal succeeds; one bad row is enough for it to fail.
Accepted(files) ==
    /\ TerminalAccepted(files.terminal, files.defaults)
    /\ \A i \in DOMAIN files.aids : AidAccepted(files.aids[i], files.defaults)

assemble_terminal(files) ==
    [terminal_type |-> files.terminal.terminal_type.value,
     cash |-> files.terminal.additional_terminal_capabilities.value,
     country |-> files.terminal.terminal_country_code,
     applications |-> [i \in DOMAIN files.aids |-> merge_aid(files.aids[i], files.defaults)]]

\* CapkRsaEntry, CapkEccEntry and CrlEntryConfig::into_kernel: the fixed-length
\* fields decode to their length, the others to bytes.
KeysAccepted(files) ==
    /\ \A key \in files.keys :
          /\ DecodesTo(key.rid, {5}) /\ DecodesTo(key.index, {1})
          /\ IF key.kind = "rsa"
             THEN DecodesTo(key.modulus, AnyLength) /\ DecodesTo(key.exponent, AnyLength)
             ELSE DecodesTo(key.algorithm_suite, {1}) /\ DecodesTo(key.x_coord, AnyLength)
    /\ \A entry \in files.crl :
          /\ DecodesTo(entry.rid, {5}) /\ DecodesTo(entry.ca_pk_index, {1})
          /\ DecodesTo(entry.cert_serial, {3})
-----------------------------------------------------------------------------
IsPrefixOf(aid, name) == Len(aid) <= Len(name) /\ SubSeq(name, 1, Len(aid)) = aid

Matches(application, df_name) ==
    /\ IsPrefixOf(application.aid, df_name)
    /\ application.aid = df_name \/ application.partial_match_allowed

\* The longest AID that matches, the first of them in the list.
find_application(applications, df_name) ==
    LET fits    == {i \in DOMAIN applications : Matches(applications[i], df_name)}
        longest == {i \in fits : \A j \in fits :
                       Len(applications[i].aid) >= Len(applications[j].aid)}
    IN  IF fits = {} THEN None
        ELSE Some(applications[CHOOSE i \in longest : \A j \in longest : i <= j])

\* TerminalType: the tens digit is who controls the terminal, the ones digit
\* its environment and whether it goes online.
is_unattended_financial_institution(type) == type \in {<<1, 4>>, <<1, 5>>, <<1, 6>>}

terminal_is_atm(terminal) ==
    is_unattended_financial_institution(terminal.terminal_type) /\ terminal.cash

attendance_capability(type, consulting) ==
    CASE type[2] \in {1, 4} -> "OnlineOnly"
      [] type[2] \in {3, 6} -> IF consulting THEN "OfflineOnlyConsulting" ELSE "OfflineOnly"
      [] OTHER -> "OnlineCapable"

\* §10.6.2 applies when all three parameters are there.
SelectionParameters(application) ==
    IF None \in {application.rts_target_percentage, application.rts_max_target_percentage,
                 application.rts_threshold_value}
    THEN None
    ELSE Some([target |-> Unwrap(application.rts_target_percentage),
               maximum |-> Unwrap(application.rts_max_target_percentage),
               threshold |-> Unwrap(application.rts_threshold_value)])
=============================================================================
