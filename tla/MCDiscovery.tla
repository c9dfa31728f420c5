----------------------------- MODULE MCDiscovery -----------------------------
(* Instances of DiscoveryOverT0 for TLC. *)
EXTENDS DiscoveryOverT0

\* An application matched by the start of its name, and one by all of it.
SomeAids == <<[aid |-> <<1>>, partial |-> TRUE], [aid |-> <<2>>, partial |-> FALSE]>>
SomeNames == {<<1>>, <<2>>, <<1, 2>>, <<2, 1>>}

Ok(content) == [status |-> "9000", malformed |-> FALSE, content |-> content]
Refused(status) == [status |-> status, malformed |-> TRUE]
Garbage == Refused("9000")

PseAnswers == {Ok("fci"), Garbage, Refused("6A81"), Refused("6283")}
RecordAnswers ==
    {Ok(<<>>), Ok(<<<<1, 2>>, <<2, 1>>, <<2>>>>), Garbage, Refused("6A83"), Refused("6283")}
AdfAnswers == {Ok(<<1, 2>>), Ok(<<2>>), Garbage, Refused("6A81"), Refused("6283")}

\* A card without a usable PSE has no directory to speak of, and an answer
\* to SELECT by the one AID is combined with each to the other.
NoRecords == [n \in 1..MaxRecord |-> Refused("6A83")]
SomeCards ==
    {[pse |-> p, records |-> NoRecords, adf |-> <<a, b>>] :
        p \in PseAnswers \ {Ok("fci")}, a \in AdfAnswers, b \in AdfAnswers}
      \cup {[pse |-> Ok("fci"), records |-> <<r, s>>, adf |-> <<a, Ok(<<2>>)>>] :
        r \in RecordAnswers, s \in RecordAnswers, a \in AdfAnswers}
=============================================================================
