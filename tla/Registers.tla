------------------------------ MODULE Registers ------------------------------
(***************************************************************************)
(* The bit-mapped data elements of de/.  A layout lists, byte by byte and  *)
(* from b8 to b1, the field each bit belongs to; a number of several bits  *)
(* has one entry per bit, named after the bit's weight.  Rfu bits are kept *)
(* as they came (the rfu_byte_N fields); no bit of these elements is       *)
(* dropped.  A parsed register is the set of its 1 bits.                   *)
(***************************************************************************)
EXTENDS Bytes, FiniteSets

Rfu == "RFU"

Flag(name) == <<name, 1>>
Flags(names) == [i \in DOMAIN names |-> Flag(names[i])]
NumberBits(name, n) == [i \in 1..n |-> <<name, 2^(n - i)>>]
RfuBits(n) == [i \in 1..n |-> Flag(Rfu)]

\* parse: the length must be the register's; what is kept is every bit.
ParseRegister(layout, bytes) ==
  Check(Len(bytes) = Len(layout),
        Some({at \in (DOMAIN layout) \X (1..8) : HasBit(bytes[at[1]], at[2])}))
\* to_bytes
RegisterBytes(layout, bits) ==
  [i \in DOMAIN layout |-> ByteOf({b \in 1..8 : <<i, b>> \in bits})]

FieldAt(layout, at) == layout[at[1]][9 - at[2]]
\* The flags that are on, and the value of a number's field.
On(layout, bits) == {FieldAt(layout, at)[1] : at \in bits} \ {Rfu}
FieldValue(layout, bits, name) ==
  LET weights == {FieldAt(layout, at)[2] : at \in {a \in bits : FieldAt(layout, a)[1] = name}}
  IN  FoldSet(+, 0, weights)
\* The bits of a register whose flags, all of one bit, are these.
WithFlags(layout, names) ==
  {at \in (DOMAIN layout) \X (1..8) : FieldAt(layout, at)[1] \in names}

\* '95', Table 46
TvrLayout ==
  << Flags(<<"offline_data_authentication_was_not_performed", "sda_failed",
             "icc_data_missing", "card_appears_on_terminal_exception_file",
             "dda_failed", "cda_failed", "sda_selected", "xda_selected">>),
     Flags(<<"icc_and_terminal_have_different_application_versions",
             "expired_application", "application_not_yet_effective",
             "requested_service_not_allowed_for_card_product", "new_card", Rfu,
             "biometric_performed_and_successful",
             "biometric_template_format_not_supported">>),
     Flags(<<"cardholder_verification_was_not_successful", "unrecognised_cvm",
             "pin_try_limit_exceeded",
             "pin_entry_required_and_pin_pad_not_present_or_not_working",
             "pin_entry_required_pin_pad_present_but_pin_was_not_entered",
             "online_cvm_captured",
             "biometric_required_but_biometric_capture_device_not_working",
             "biometric_subtype_entry_was_bypassed">>),
     Flags(<<"transaction_exceeds_floor_limit",
             "lower_consecutive_offline_limit_exceeded",
             "upper_consecutive_offline_limit_exceeded",
             "transaction_selected_randomly_for_online_processing",
             "merchant_forced_transaction_online", "biometric_try_limit_exceeded",
             "a_selected_biometric_type_not_supported",
             "xda_signature_verification_failed">>),
     Flags(<<"default_tdol_used", "issuer_authentication_failed",
             "script_processing_failed_before_final_generate_ac",
             "script_processing_failed_after_final_generate_ac", Rfu,
             "ca_ecc_key_missing", "ecc_key_recovery_failed", Rfu>>) >>

\* '9B', Table 47
TsiLayout ==
  << Flags(<<"offline_data_authentication_was_performed",
             "cardholder_verification_was_performed",
             "card_risk_management_was_performed",
             "issuer_authentication_was_performed",
             "terminal_risk_management_was_performed",
             "script_processing_was_performed", Rfu, Rfu>>),
     RfuBits(8) >>

\* '82', Table 41
AipLayout ==
  << Flags(<<"xda_supported", "sda_supported", "dda_supported",
             "cardholder_verification_is_supported",
             "terminal_risk_management_is_to_be_performed",
             "issuer_authentication_is_supported", Rfu, "cda_supported">>),
     RfuBits(8) >>

\* '9F07', Table 42
AucLayout ==
  << Flags(<<"valid_for_domestic_cash_transactions",
             "valid_for_international_cash_transactions",
             "valid_for_domestic_goods", "valid_for_international_goods",
             "valid_for_domestic_services", "valid_for_international_services",
             "valid_at_atms", "valid_at_terminals_other_than_atms">>),
     Flags(<<"domestic_cashback_allowed", "international_cashback_allowed">>) \o RfuBits(6) >>

\* '9F33', Book 4 Tables 25 to 27
TerminalCapabilitiesLayout ==
  << Flags(<<"manual_key_entry", "magnetic_stripe", "ic_with_contacts">>) \o RfuBits(5),
     Flags(<<"plaintext_pin_for_icc_verification",
             "enciphered_pin_for_online_verification", "signature",
             "enciphered_pin_for_offline_verification_rsa_ode", "no_cvm_required",
             "online_biometric", "offline_biometric",
             "enciphered_pin_for_offline_verification_ecc_ode">>),
     Flags(<<"sda", "dda", "card_capture", Rfu, "cda", "xda", Rfu, Rfu>>) >>

\* '9F40', Book 4 Tables 28 to 32
AdditionalTerminalCapabilitiesLayout ==
  << Flags(<<"cash", "goods", "services", "cashback", "inquiry", "transfer",
             "payment", "administrative">>),
     Flags(<<"cash_deposit">>) \o RfuBits(7),
     Flags(<<"numeric_keys", "alphabetic_and_special_characters_keys",
             "command_keys", "function_keys">>) \o RfuBits(4),
     Flags(<<"print_attendant", "print_cardholder", "display_attendant",
             "display_cardholder", Rfu, Rfu, "code_table_10", "code_table_9">>),
     Flags(<<"code_table_8", "code_table_7", "code_table_6", "code_table_5",
             "code_table_4", "code_table_3", "code_table_2", "code_table_1">>) >>

\* Card Status Update, Book 3 Table CCD 11
CsuLayout ==
  << Flags(<<"proprietary_authentication_data_included">>) \o RfuBits(3)
       \o NumberBits("pin_try_counter", 4),
     Flags(<<"issuer_approves_online_transaction", "card_block",
             "application_block", "update_pin_try_counter",
             "set_go_online_on_next_transaction",
             "csu_created_by_proxy_for_the_issuer">>) \o NumberBits("update_counters", 2),
     RfuBits(8),
     NumberBits("issuer_discretionary", 8) >>

\* Card Verification Results, Book 3 Table CCD 10
CvrLayout ==
  << NumberBits("second_generate_ac", 2) \o NumberBits("first_generate_ac", 2)
       \o Flags(<<"cda_performed", "offline_dda_performed",
                  "issuer_authentication_not_performed", "issuer_authentication_failed">>),
     NumberBits("pin_try_counter", 4)
       \o Flags(<<"offline_pin_verification_performed",
                  "offline_pin_not_successfully_verified", "pin_try_limit_exceeded",
                  "last_online_transaction_not_completed">>),
     Flags(<<"lower_offline_transaction_count_limit_exceeded",
             "upper_offline_transaction_count_limit_exceeded",
             "lower_cumulative_offline_amount_limit_exceeded",
             "upper_cumulative_offline_amount_limit_exceeded",
             "issuer_discretionary_bit_1", "issuer_discretionary_bit_2",
             "issuer_discretionary_bit_3", "issuer_discretionary_bit_4">>),
     NumberBits("issuer_script_commands", 4)
       \o Flags(<<"issuer_script_processing_failed",
                  "offline_data_authentication_failed_on_previous_transaction",
                  "go_online_on_next_transaction_was_set", "unable_to_go_online">>),
     RfuBits(8) >>

\* '9F27', Table 15: the cryptogram type (0 AAC, 1 TC, 2 ARQC, 3 RFU), the
\* payment system's two bits, and the advice with its reason.
CidLayout ==
  << NumberBits("cryptogram_type", 2) \o NumberBits("payment_system_specific", 2)
       \o Flags(<<"advice_required">>) \o NumberBits("reason_advice_code", 3) >>

\* '87', Table 13
PriorityIndicatorLayout ==
  << Flags(<<"cannot_be_selected_without_confirmation">>) \o RfuBits(3)
       \o NumberBits("priority", 4) >>

\* '9F66', Book A Table 5-4
TerminalTransactionQualifiersLayout ==
  << Flags(<<"mag_stripe_mode_supported", Rfu, "emv_mode_supported",
             "emv_contact_chip_supported", "offline_only_reader", "online_pin_supported",
             "signature_supported",
             "offline_data_authentication_for_online_authorizations_supported">>),
     Flags(<<"online_cryptogram_required", "cvm_required",
             "contact_chip_offline_pin_supported">>) \o RfuBits(5),
     Flags(<<"issuer_update_processing_supported", "consumer_device_cvm_supported">>)
       \o RfuBits(6),
     RfuBits(8) >>

\* '9F30', Book 4 Tables 36 to 38
BiometricTerminalCapabilitiesLayout ==
  << Flags(<<"facial_biometric_for_offline_verification",
             "finger_biometric_for_offline_verification",
             "iris_biometric_for_offline_verification",
             "palm_biometric_for_offline_verification",
             "voice_biometric_for_offline_verification">>) \o RfuBits(3),
     Flags(<<"facial_biometric_for_online_verification",
             "finger_biometric_for_online_verification",
             "iris_biometric_for_online_verification",
             "palm_biometric_for_online_verification",
             "voice_biometric_for_online_verification">>) \o RfuBits(3),
     RfuBits(8) >>

\* '96', Book B Table 3-7: the kernel the terminal takes for a card.
KernelIdentifierTerminalLayout ==
  << NumberBits("kernel_type", 2) \o NumberBits("short_kernel_id", 6),
     NumberBits("extended_kernel_id_1", 8), NumberBits("extended_kernel_id_2", 8),
     Flags(<<"kernel_8_supported_by_reader", "kernel_8_supported_for_transaction">>)
       \o RfuBits(6),
     RfuBits(8), RfuBits(8), RfuBits(8), RfuBits(8) >>

Layouts ==
  {TvrLayout, TsiLayout, AipLayout, AucLayout, TerminalCapabilitiesLayout,
   AdditionalTerminalCapabilitiesLayout, CsuLayout, CvrLayout, CidLayout,
   PriorityIndicatorLayout, TerminalTransactionQualifiersLayout,
   BiometricTerminalCapabilitiesLayout, KernelIdentifierTerminalLayout}

\* The three registers no transaction carries mean what the tests of de/ say.
Named(layout, bytes) == On(layout, Unwrap(ParseRegister(layout, bytes)))
ASSUME NamesAssumption ==
  /\ Named(TerminalTransactionQualifiersLayout, <<36, 0, 0, 0>>)
       = {"emv_mode_supported", "online_pin_supported"}
  /\ Named(BiometricTerminalCapabilitiesLayout, <<160, 72, 0>>)
       = {"facial_biometric_for_offline_verification", "iris_biometric_for_offline_verification",
          "finger_biometric_for_online_verification", "voice_biometric_for_online_verification"}
  /\ LET bits == Unwrap(ParseRegister(KernelIdentifierTerminalLayout,
                                      <<8, 0, 0, 192, 0, 0, 0, 0>>))
     IN  /\ FieldValue(KernelIdentifierTerminalLayout, bits, "short_kernel_id") = 8
         /\ {"kernel_8_supported_by_reader", "kernel_8_supported_for_transaction"}
              \subseteq On(KernelIdentifierTerminalLayout, bits)

\* No register loses a bit between parse and to_bytes, and every other length
\* is refused.
ASSUME RoundTripAssumption ==
  \A layout \in Layouts : \A byte \in 0..255 :
    LET bytes == [i \in DOMAIN layout |-> (byte + (37 * i)) % 256]
    IN  /\ Then(ParseRegister(layout, bytes), LAMBDA bits : RegisterBytes(layout, bits)) = bytes
        /\ ParseRegister(layout, Append(bytes, 0)) = None
        /\ ParseRegister(layout, SubSeq(bytes, 1, Len(bytes) - 1)) = None
=============================================================================
