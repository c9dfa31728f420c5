------------------------- MODULE VerificationResults -------------------------
(***************************************************************************)
(* The two status registers of a transaction, as sets of bits: the         *)
(* Terminal Verification Results ('95') and the Transaction Status         *)
(* Information ('9B').  A register is the set of its bits that are 1; the  *)
(* byte layout is left to de/terminal_verification_results.rs and          *)
(* de/transaction_status_information.rs.                                   *)
(***************************************************************************)

\* TVR bits grouped by the kernel function that may set them.
OdaBit ==
    {"offline_data_authentication_was_not_performed", "sda_failed",
     "icc_data_missing", "dda_failed", "cda_failed", "sda_selected",
     "xda_selected"}

RestrictionBit ==
    {"icc_and_terminal_have_different_application_versions",
     "expired_application", "application_not_yet_effective",
     "requested_service_not_allowed_for_card_product"}

CvmBit ==
    {"cardholder_verification_was_not_successful", "unrecognised_cvm",
     "pin_try_limit_exceeded",
     "pin_entry_required_and_pin_pad_not_present_or_not_working",
     "pin_entry_required_pin_pad_present_but_pin_was_not_entered",
     "online_cvm_captured", "a_selected_biometric_type_not_supported"}

RiskBit ==
    {"transaction_exceeds_floor_limit",
     "transaction_selected_randomly_for_online_processing",
     "lower_consecutive_offline_limit_exceeded",
     "upper_consecutive_offline_limit_exceeded", "new_card"}

\* The three XDA failure kinds (xda_failed in transaction_flow.rs).
XdaFailureBit ==
    {"ca_ecc_key_missing", "ecc_key_recovery_failed",
     "xda_signature_verification_failed"}

CompletionBit ==
    {"default_tdol_used", "issuer_authentication_failed",
     "script_processing_failed_before_final_generate_ac",
     "script_processing_failed_after_final_generate_ac"}

\* Bits of the register that no function of the kernel sets.
UnsetBit ==
    {"card_appears_on_terminal_exception_file",
     "biometric_performed_and_successful",
     "biometric_template_format_not_supported",
     "biometric_required_but_biometric_capture_device_not_working",
     "biometric_subtype_entry_was_bypassed",
     "merchant_forced_transaction_online", "biometric_try_limit_exceeded"}

TvrBit ==
    OdaBit \cup RestrictionBit \cup CvmBit \cup RiskBit
      \cup XdaFailureBit \cup CompletionBit \cup UnsetBit

TsiBit ==
    {"offline_data_authentication_was_performed",
     "cardholder_verification_was_performed",
     "card_risk_management_was_performed",
     "issuer_authentication_was_performed",
     "terminal_risk_management_was_performed",
     "script_processing_was_performed"}

XdaFailed(tvr) == tvr \cap XdaFailureBit # {}
=============================================================================
