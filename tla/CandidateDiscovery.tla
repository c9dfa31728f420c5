-------------------------- MODULE CandidateDiscovery --------------------------
(***************************************************************************)
(* Building the candidate list (build_candidate_list and the PSE and AID   *)
(* list methods of contact/transaction_driver.rs).                         *)
(*                                                                         *)
(* The Payment System Environment is tried first: SELECT '1PAY.SYS.DDF01', *)
(* then the records of its directory from 1 on.  Anything unusual on the   *)
(* way, or a directory without a supported application, falls back to the  *)
(* list of AIDs, selecting each.  '6A81' ends the call.  A card is what it *)
(* answers; the reader may fail at every command.                          *)
(***************************************************************************)
EXTENDS ApplicationNames

VARIABLES
    pc,      \* the command to send next, or how the call ended
    card,    \* what the card answers (never changes)
    record,  \* number of the directory record to read
    index,   \* AIDs selected
    cands    \* DF names of the candidates

vars == <<pc, card, record, index, cands>>

Init ==
    /\ pc = "SelectPse" /\ card \in Cards
    /\ record = 1 /\ index = 0 /\ cands = <<>>

Fail == pc' = "Err" /\ UNCHANGED <<record, index, cands>>

\* Mutant: what the directory gave so far stays in the list.
KeepDirectory == pc' = "SelectAid" /\ UNCHANGED <<record, index, cands>>

\* build_candidate_list_pse returned None: its candidates are dropped.
FallBack == pc' = "SelectAid" /\ cands' = <<>> /\ UNCHANGED <<record, index>>

\* The answer to SELECT PSE.
select_pse(answer) ==
    /\ pc = "SelectPse"
    /\ IF answer.status = Blocked
       THEN Fail
       ELSE IF answer.status = OK /\ ~answer.malformed
       THEN pc' = "ReadRecord" /\ UNCHANGED <<record, index, cands>>
       ELSE FallBack

\* The directory has been read; an empty list falls back, too.
EndOfDirectory(list) ==
    /\ cands' = list
    /\ pc' = IF list = <<>> THEN "SelectAid" ELSE "Done"
    /\ UNCHANGED index

\* A record is read; 255 is the last there can be.
NextRecord(list) ==
    /\ record' = record + 1
    /\ IF record = MaxRecord
       THEN EndOfDirectory(list)
       ELSE cands' = list /\ UNCHANGED <<pc, index>>

\* The entries of a record that name an application of the terminal.
Supported(names) == SelectSeq(names, terminal_supports_adf_name)

\* The answer to READ RECORD.
read_directory_record(answer) ==
    /\ pc = "ReadRecord"
    /\ IF answer.status = RecordNotFound
       THEN EndOfDirectory(cands) /\ UNCHANGED record
       ELSE IF answer.status = OK /\ ~answer.malformed
       THEN NextRecord(cands \o Supported(answer.content))
       ELSE FallBack

\* Mutant: an application that cannot be selected is tried again.
PassOverNever == UNCHANGED <<index, cands>>

\* The application is refused, or its FCI is not its own or unreadable.
PassOver == index' = index + 1 /\ UNCHANGED cands

\* The answer to SELECT by the next AID.
select_aid(answer) ==
    /\ pc = "SelectAid" /\ index < Len(Aids)
    /\ IF answer.status = Blocked
       THEN Fail
       ELSE /\ IF /\ answer.status = OK /\ ~answer.malformed
                  /\ aid_matches_df_name(Aids[index + 1], answer.content)
               THEN index' = index + 1 /\ cands' = Append(cands, answer.content)
               ELSE PassOver
            /\ UNCHANGED <<pc, record>>

AidsExhausted ==
    /\ pc = "SelectAid" /\ index = Len(Aids)
    /\ pc' = "Done"
    /\ UNCHANGED <<card, record, index, cands>>

Sending == pc \in {"SelectPse", "ReadRecord"} \/ (pc = "SelectAid" /\ index < Len(Aids))

\* What the card answers to the command that is sent.
CardAnswer ==
    CASE pc = "SelectPse" -> card.pse
      [] pc = "ReadRecord" -> card.records[record]
      [] OTHER -> card.adf[index + 1]

\* The answer has come, or the exchange has failed.
Handle(answer) ==
    /\ select_pse(answer) \/ read_directory_record(answer) \/ select_aid(answer)
    /\ UNCHANGED card

Lost == Sending /\ Fail /\ UNCHANGED card

\* The reader answers a command at once.
Exchange == Handle(CardAnswer) \/ Lost

Over == pc \in {"Done", "Err"} /\ UNCHANGED vars

Next == Exchange \/ AidsExhausted \/ Over

Spec == Init /\ [][Next]_vars
-----------------------------------------------------------------------------
(* What discovery should come to, card by card. *)

DirectoryEnd ==
    LET ends == {n \in 1..MaxRecord : card.records[n].status = RecordNotFound}
    IN  IF ends = {} THEN MaxRecord + 1 ELSE CHOOSE n \in ends : \A m \in ends : n <= m

DirectoryUsable ==
    /\ card.pse.status = OK /\ ~card.pse.malformed
    /\ \A n \in 1..(DirectoryEnd - 1) : card.records[n].status = OK /\ ~card.records[n].malformed

\* Supported entries of the first n records, in their order.
DirectoryUpTo[n \in 0..MaxRecord] ==
    IF n = 0 THEN <<>> ELSE DirectoryUpTo[n - 1] \o Supported(card.records[n].content)

DirectoryList == DirectoryUpTo[DirectoryEnd - 1]

Selectable(i) ==
    /\ card.adf[i].status = OK /\ ~card.adf[i].malformed
    /\ aid_matches_df_name(Aids[i], card.adf[i].content)

\* DF names of the first n AIDs that can be selected.
AidsUpTo[n \in 0..Len(Aids)] ==
    IF n = 0 THEN <<>>
    ELSE AidsUpTo[n - 1] \o (IF Selectable(n) THEN <<card.adf[n].content>> ELSE <<>>)

AidList == AidsUpTo[Len(Aids)]

FromDirectory == DirectoryUsable /\ DirectoryList # <<>>

CardBlocks ==
    \/ card.pse.status = Blocked
    \/ ~FromDirectory /\ \E i \in DOMAIN Aids : card.adf[i].status = Blocked

\* The list is that of a directory that could be read to its end and names a
\* supported application, or else that of the AIDs, never a mixture; and no
\* list comes of a blocked card (build_candidate_list).
ListMatchesCard ==
    pc = "Done" => ~CardBlocks /\ cands = (IF FromDirectory THEN DirectoryList ELSE AidList)
=============================================================================
