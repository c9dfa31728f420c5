---------------------------- MODULE FinalSelection ----------------------------
(***************************************************************************)
(* Final selection among the candidates (contact/application_selection.rs).*)
(* The candidate list is a Vec in the code; here it is the set of its      *)
(* entries, each carrying the slot it had when the list was built, so that *)
(* equal entries stay distinct and removal keeps the relative order.       *)
(***************************************************************************)
EXTENDS Naturals, FiniteSets

\* prio is '87' b4-b1, 0 when the indicator or its value is absent; confirm
\* is its b8, application_cannot_be_selected_without_confirmation.
Candidate(App, Slot) ==
    [slot : Slot, app : App, prio : 0..15, confirm : BOOLEAN]

\* priority_sorted_indices: a stable sort, candidates without priority last.
SortKey(c) == IF c.prio = 0 THEN 16 ELSE c.prio

Precedes(c, d) ==
    \/ SortKey(c) < SortKey(d)
    \/ SortKey(c) = SortKey(d) /\ c.slot < d.slot

Sole(cands) == \E c \in cands : cands = {c}

\* FinalSelectionOutcome::Terminate
Terminates(cands, supported) ==
    \/ cands = {}
    \/ ~supported /\ \A c \in cands : c.confirm

\* FinalSelectionOutcome::Select
Selects(cands, supported, c) ==
    /\ c \in cands
    /\ ~c.confirm
    /\ supported => cands = {c}
    /\ \A d \in cands \ {c} : d.confirm \/ Precedes(c, d)

\* FinalSelectionOutcome::ConfirmAndSelect
Confirms(cands, supported, c) == supported /\ cands = {c} /\ c.confirm

\* FinalSelectionOutcome::OfferToCardholder
Offers(cands, supported) == supported /\ cands # {} /\ ~Sole(cands)
=============================================================================
