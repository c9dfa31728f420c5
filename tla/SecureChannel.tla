---------------------------- MODULE SecureChannel ----------------------------
(***************************************************************************)
(* What a secured exchange promises, whichever the keys and formats: the   *)
(* receiver takes payloads the sender sent, in the order they were sent,   *)
(* each at most once, and stops where one is missing unless both give up   *)
(* what is outstanding.                                                    *)
(***************************************************************************)
EXTENDS Naturals, Sequences
CONSTANT Payload
VARIABLES sent, upto, accepted
vars == <<sent, upto, accepted>>

Init == sent = <<>> /\ upto = 0 /\ accepted = <<>>

Send(p) == sent' = Append(sent, p) /\ UNCHANGED <<upto, accepted>>
Accept ==
  /\ upto < Len(sent)
  /\ upto' = upto + 1
  /\ accepted' = Append(accepted, sent[upto + 1])
  /\ UNCHANGED sent
GiveUp ==
  /\ upto < Len(sent)
  /\ upto' = Len(sent)
  /\ UNCHANGED <<sent, accepted>>

Next == (\E p \in Payload : Send(p)) \/ Accept \/ GiveUp
Spec == Init /\ [][Next]_vars
=============================================================================
