--------------------------- MODULE ApplicationNames ---------------------------
(***************************************************************************)
(* The names of the terminal's and the card's applications, and what a     *)
(* card may answer while they are compared.                                *)
(***************************************************************************)
EXTENDS Naturals, Sequences

CONSTANTS
    Aids,       \* the terminal's applications, <<[aid, partial], ...>>
    Name,       \* DF names and AIDs, sequences
    MaxRecord,  \* 255 in the code
    Cards       \* what a card may answer, see CardAssumption

OK == "9000"
Blocked == "6A81"
RecordNotFound == "6A83"
StatusWord == {OK, Blocked, RecordNotFound, "6283"}

ASSUME DiscoveryAssumption ==
    /\ \A i \in DOMAIN Aids : Aids[i].aid \in Name /\ Aids[i].partial \in BOOLEAN
    /\ Aids \in Seq([aid : Name, partial : BOOLEAN])
    /\ MaxRecord \in Nat \ {0}

\* A card's answers: malformed is what does not parse (for the PSE, also an
\* SFI that READ RECORD refuses); content, else, is the names of the entries
\* of a record or the DF name of an ADF.
ASSUME CardAssumption ==
    \A c \in Cards :
        /\ c.pse.status \in StatusWord /\ c.pse.malformed \in BOOLEAN
        /\ \A n \in 1..MaxRecord :
              /\ c.records[n].status \in StatusWord /\ c.records[n].malformed \in BOOLEAN
              /\ c.records[n].malformed \/ c.records[n].content \in Seq(Name)
        /\ \A i \in DOMAIN Aids :
              /\ c.adf[i].status \in StatusWord /\ c.adf[i].malformed \in BOOLEAN
              /\ c.adf[i].malformed \/ c.adf[i].content \in Name

StartsWith(name, aid) == Len(aid) <= Len(name) /\ SubSeq(name, 1, Len(aid)) = aid

aid_matches_df_name(app, name) ==
    IF app.partial THEN StartsWith(name, app.aid) ELSE name = app.aid

terminal_supports_adf_name(name) ==
    \E i \in DOMAIN Aids : aid_matches_df_name(Aids[i], name)
=============================================================================
