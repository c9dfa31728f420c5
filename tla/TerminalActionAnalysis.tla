------------------------ MODULE TerminalActionAnalysis ------------------------
(***************************************************************************)
(* Terminal Action Analysis (core/terminal_action_analysis.rs): the        *)
(* decision which Application Cryptogram to ask the card for, taken from   *)
(* the TVR, the issuer's and the terminal's action codes, and the          *)
(* terminal's capability.  An action code is the set of TVR bits it        *)
(* selects, or NoCode.                                                     *)
(***************************************************************************)
EXTENDS VerificationResults

\* What a code is when the card or the terminal lacks it; no set of TVR bits.
NoCode == {"no code"}

ActionCode == (SUBSET TvrBit) \cup {NoCode}

Capability == {"OnlineCapable", "OnlineOnly", "OfflineOnlyConsulting", "OfflineOnly"}

\* The three codes of each side, as ActionCodes holds them.
ActionCodes ==
    [iacDenial : ActionCode, iacOnline : ActionCode, iacDefault : ActionCode,
     tacDenial : ActionCode, tacOnline : ActionCode, tacDefault : ActionCode]

Effective(code, absent) == IF code = NoCode THEN absent ELSE code

\* A missing IAC-Denial selects nothing, the other missing IACs everything;
\* a missing TAC selects nothing.
DenialMask(codes)  == Effective(codes.iacDenial, {}) \cup Effective(codes.tacDenial, {})
OnlineMask(codes)  == Effective(codes.iacOnline, TvrBit) \cup Effective(codes.tacOnline, {})
DefaultMask(codes) == Effective(codes.iacDefault, TvrBit) \cup Effective(codes.tacDefault, {})

Matched(tvr, mask) == tvr \cap mask # {}

denial_decision(tvr, codes) == Matched(tvr, DenialMask(codes))

\* OfflineOnlyConsulting is the offline-only terminal of "option 1", which
\* consults the online codes before the default ones.
AsksOnline(tvr, codes, capability) ==
    \/ capability = "OnlineOnly"
    \/ /\ capability \in {"OnlineCapable", "OfflineOnlyConsulting"}
       /\ Matched(tvr, OnlineMask(codes))

DefaultsToDecline(tvr, codes, capability) ==
    /\ capability \in {"OfflineOnly", "OfflineOnlyConsulting"}
    /\ Matched(tvr, DefaultMask(codes))

\* Mutant: the online codes are consulted before the denial codes.
OnlineBeforeDenial(tvr, codes, capability) ==
    IF AsksOnline(tvr, codes, capability)
    THEN "ARQC"
    ELSE IF denial_decision(tvr, codes) \/ DefaultsToDecline(tvr, codes, capability)
    THEN "AAC"
    ELSE "TC"

first_generate_ac_decision(tvr, codes, capability) ==
    IF denial_decision(tvr, codes)
    THEN "AAC"
    ELSE IF AsksOnline(tvr, codes, capability)
    THEN "ARQC"
    ELSE IF DefaultsToDecline(tvr, codes, capability)
    THEN "AAC"
    ELSE "TC"

unable_to_go_online_decision(tvr, codes) ==
    IF Matched(tvr, DefaultMask(codes)) THEN "AAC" ELSE "TC"
=============================================================================
