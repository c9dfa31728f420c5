------------------------ MODULE ProcessingRestrictions ------------------------
(***************************************************************************)
(* Processing restrictions (contact/processing_restrictions.rs): may this  *)
(* application be used at this terminal, for this service, today?  The     *)
(* Application Usage Control ('9F07') is the set of its bits that are 1,   *)
(* a date a number that grows with time, a version and a country a name.   *)
(***************************************************************************)
EXTENDS VerificationResults, Optional, Naturals

TransactionCategory == {"Cash", "Purchase", "Other"}

UsageBit ==
    {"valid_for_domestic_cash_transactions", "valid_for_international_cash_transactions",
     "valid_for_domestic_goods", "valid_for_international_goods",
     "valid_for_domestic_services", "valid_for_international_services",
     "valid_at_atms", "valid_at_terminals_other_than_atms",
     "domestic_cashback_allowed", "international_cashback_allowed"}

\* A version the card does not have is presumed to be the terminal's.
check_application_version(icc, terminal) == \E version \in icc : version # terminal

PlaceBit(atm) == IF atm THEN "valid_at_atms" ELSE "valid_at_terminals_other_than_atms"

\* What each service needs one bit of; other services need none.
ServiceBits(category, domestic) ==
    CASE category = "Cash" /\ domestic  -> {"valid_for_domestic_cash_transactions"}
      [] category = "Cash" /\ ~domestic -> {"valid_for_international_cash_transactions"}
      [] category = "Purchase" /\ domestic ->
           {"valid_for_domestic_goods", "valid_for_domestic_services"}
      [] category = "Purchase" /\ ~domestic ->
           {"valid_for_international_goods", "valid_for_international_services"}
      [] OTHER -> UsageBit

CashbackBit(domestic) ==
    IF domestic THEN "domestic_cashback_allowed" ELSE "international_cashback_allowed"

\* Mutant: cashback is looked at before the issuer's country is known to be there.
UsageWithoutCashback(auc, atm, issuer, country, category, cashback) ==
    \E bits \in auc :
        \/ PlaceBit(atm) \notin bits
        \/ \E home \in issuer : ServiceBits(category, home = country) \cap bits = {}

\* TRUE is a failure.  Without the issuer's country only the place is checked.
check_application_usage_control(auc, atm, issuer, country, category, cashback) ==
    \E bits \in auc :
        \/ PlaceBit(atm) \notin bits
        \/ \E home \in issuer :
              \/ category # "Other" /\ ServiceBits(category, home = country) \cap bits = {}
              \/ cashback /\ CashbackBit(home = country) \notin bits

not_yet_effective(effective, today) == \E first \in effective : today < first

\* Mutant: the card is refused on its last day but not on the next.
expired_from(expiration, today) == today = expiration

expired(expiration, today) == today > expiration

If(condition, bit) == IF condition THEN {bit} ELSE {}

\* evaluate: the bits that processing restrictions set for this application
\* at this terminal in this transaction.
Restrictions(application, terminal, transaction) ==
    If(check_application_version(application.version, terminal.version),
       "icc_and_terminal_have_different_application_versions")
    \cup If(check_application_usage_control(application.usage, terminal.atm,
              application.issuer_country, terminal.country, transaction.category,
              transaction.cashback),
            "requested_service_not_allowed_for_card_product")
    \cup If(not_yet_effective(application.effective, transaction.date),
            "application_not_yet_effective")
    \cup If(expired(Unwrap(application.expiration), transaction.date), "expired_application")
=============================================================================
