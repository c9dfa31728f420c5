---------------------------- MODULE MessageChannel ----------------------------
(***************************************************************************)
(* Two ends that secure their messages from a state each keeps: keys, the  *)
(* value the last MAC leaves behind, a counter, a challenge.  The terminal *)
(* between them relays what it is given, in any order, again or not at all;*)
(* it also holds messages of other cards and sessions.  Seal and Open are  *)
(* the functions of core/ that build and check a message.                  *)
(***************************************************************************)
EXTENDS Integers, Sequences, Optional, SequenceTheorems, TLAPS
CONSTANTS
  Payload, Initial,
  Seal(_, _),    \* the message for a payload, or None when it is refused
  Open(_, _),    \* the payload of a message that checks, or None
  After(_, _),   \* the state once a payload has gone through
  Foreign(_),    \* messages of other cards and sessions
  Lockstep(_),   \* one message per transaction or challenge
  MaxSent        \* bound on the messages of a behaviour

VARIABLES
  trail,      \* what was sent: the state it was sent from, payload, message
  sender, receiver,
  upto,       \* the last position of trail that is settled
  accepted,   \* the payloads the receiver took
  link        \* the messages that may reach the receiver
vars == <<trail, sender, receiver, upto, accepted, link>>

Init ==
  /\ trail = <<>> /\ upto = 0 /\ accepted = <<>>
  /\ sender \in Initial /\ receiver = sender
  /\ link = Foreign(sender)

Send(p) ==
  /\ Len(trail) < MaxSent
  /\ Lockstep(sender) => upto = Len(trail)
  /\ Seal(sender, p) # None
  /\ LET message == Unwrap(Seal(sender, p))
     IN  /\ trail' = Append(trail, [state |-> sender, payload |-> p, message |-> message])
         /\ link' = link \cup {message}
  /\ sender' = After(sender, p)
  /\ UNCHANGED <<receiver, upto, accepted>>

Accept(m) ==
  /\ Open(receiver, m) # None
  /\ LET p == Unwrap(Open(receiver, m))
     IN  /\ accepted' = Append(accepted, p)
         /\ receiver' = After(receiver, p)
  /\ upto' = upto + 1
  /\ UNCHANGED <<trail, sender, link>>

\* The message is lost or refused for good; the next transaction or
\* challenge starts both ends afresh.
GiveUp ==
  /\ Lockstep(receiver) /\ upto < Len(trail)
  /\ receiver' = sender
  /\ upto' = Len(trail)
  /\ UNCHANGED <<trail, sender, accepted, link>>

Next == (\E p \in Payload : Send(p)) \/ (\E m \in link : Accept(m)) \/ GiveUp
Spec == Init /\ [][Next]_vars

SentPayloads == [i \in 1..Len(trail) |-> trail[i].payload]
Abstract == INSTANCE SecureChannel WITH sent <- SentPayloads

\* Whatever reaches it, the receiver takes only what the other end sent to
\* it, in order and once: no message of another card or session, none of an
\* earlier exchange, none after one that is missing.  The MACs, session keys,
\* chaining values, counters and challenges of core/ are there for this.
ImplementsSecureChannel == Abstract!Spec

\* The two halves of each format agree: the message that is due, when it
\* arrives, is taken for the payload it was built from.
NextIsAccepted ==
  upto < Len(trail) =>
    Open(receiver, trail[upto + 1].message) = Some(trail[upto + 1].payload)

(***************************************************************************)
(* What the ciphers and MACs must give for this: states that differ never  *)
(* take each other's messages, a state takes its own, and foreign messages *)
(* are taken by none.  Then the discipline of the two ends does the rest,  *)
(* for any number of messages.                                             *)
(***************************************************************************)
FormatsAgree(State) ==
  \A s, t \in State, p \in Payload : Seal(t, p) # None =>
    Open(s, Unwrap(Seal(t, p))) = IF s = t THEN Some(p) ELSE None
ForeignIsRefused(State) == \A s \in State : \A m \in Foreign(s) : Open(s, m) = None
\* Every message leads to a state not met before on the same line.
StatesAdvance(State, age) ==
  \A s \in State, p \in Payload : Seal(s, p) # None =>
    /\ After(s, p) \in State
    /\ age[After(s, p)] = age[s] + 1
    /\ Foreign(After(s, p)) = Foreign(s)

Entry(State) == [state : State, payload : Payload,
                 message : {Unwrap(Seal(s, p)) : s \in State, p \in Payload}]
\* The receiver is where the sender was at the first message not settled.
InStep(State, age) ==
  /\ trail \in Seq(Entry(State)) /\ sender \in State /\ upto \in 0..Len(trail)
  /\ \A i \in 1..Len(trail) :
       /\ Seal(trail[i].state, trail[i].payload) # None
       /\ trail[i].message = Unwrap(Seal(trail[i].state, trail[i].payload))
       /\ age[trail[i].state] + (Len(trail) + 1 - i) = age[sender]
       /\ Foreign(trail[i].state) = Foreign(sender)
       /\ After(trail[i].state, trail[i].payload)
            = IF i = Len(trail) THEN sender ELSE trail[i + 1].state
  /\ receiver = IF upto = Len(trail) THEN sender ELSE trail[upto + 1].state
  /\ \A m \in link : m \in Foreign(sender) \/ \E i \in 1..Len(trail) : m = trail[i].message

\* A message the receiver takes is the one that is due.
LEMMA TakesWhatIsDue ==
  ASSUME NEW State, NEW age \in [State -> Nat],
         FormatsAgree(State), ForeignIsRefused(State),
         InStep(State, age), NEW m \in link, Open(receiver, m) # None
  PROVE  /\ upto < Len(trail)
         /\ Unwrap(Open(receiver, m)) = trail[upto + 1].payload
         /\ receiver = trail[upto + 1].state
<1>0. \A x : Unwrap(Some(x)) = x
  BY DEF Unwrap, Some
<1>1. /\ receiver \in State /\ Foreign(receiver) = Foreign(sender)
  <2>1. CASE upto = Len(trail)
    BY <2>1 DEF InStep
  <2>2. CASE upto # Len(trail)
    <3>1. upto + 1 \in 1..Len(trail) /\ trail[upto + 1] \in Entry(State)
      BY <2>2 DEF InStep
    <3>2. QED
      BY <2>2, <3>1 DEF InStep, Entry
  <2>3. QED
    BY <2>1, <2>2
<1>2. m \notin Foreign(sender)
  BY <1>1 DEF ForeignIsRefused
<1>3. PICK i \in 1..Len(trail) : m = trail[i].message
  BY <1>2 DEF InStep
<1>4. trail[i] \in Entry(State)
  BY <1>3 DEF InStep
<1>5. receiver = trail[i].state /\ Unwrap(Open(receiver, m)) = trail[i].payload
  <2>1. m = Unwrap(Seal(trail[i].state, trail[i].payload))
        /\ Seal(trail[i].state, trail[i].payload) # None
    BY <1>3 DEF InStep
  <2>2. trail[i].state \in State /\ trail[i].payload \in Payload
    BY <1>4 DEF Entry
  <2>3. Open(receiver, m) = IF receiver = trail[i].state THEN Some(trail[i].payload) ELSE None
    BY <1>1, <2>1, <2>2 DEF FormatsAgree
  <2>4. QED
    BY <1>0, <2>3
<1>6. i = upto + 1
  <2>0. trail[i].state \in State /\ sender \in State
    BY <1>4 DEF Entry, InStep
  <2>1. /\ age[trail[i].state] \in Nat /\ age[sender] \in Nat
        /\ age[trail[i].state] + (Len(trail) + 1 - i) = age[sender]
    BY <1>3, <2>0 DEF InStep
  <2>2. Len(trail) \in Nat /\ upto \in 0..Len(trail) /\ i \in 1..Len(trail)
    BY <1>3 DEF InStep
  <2>3. CASE upto = Len(trail)
    BY <1>5, <2>1, <2>2, <2>3 DEF InStep
  <2>4. CASE upto # Len(trail)
    <3>1. upto + 1 \in 1..Len(trail)
      BY <2>2, <2>4
    <3>2. receiver = trail[upto + 1].state
          /\ age[trail[upto + 1].state] + (Len(trail) + 1 - (upto + 1)) = age[sender]
      BY <2>4, <3>1 DEF InStep
    <3>3. QED
      BY <1>5, <2>1, <2>2, <3>1, <3>2
  <2>5. QED
    BY <2>3, <2>4
<1>7. QED
  BY <1>3, <1>5, <1>6 DEF InStep

LEMMA InStepAtFirst ==
  ASSUME NEW State, NEW age \in [State -> Nat], Initial \subseteq State, Init
  PROVE  InStep(State, age)
BY DEF Init, InStep

\* Each step keeps the two ends in step.
LEMMA StaysInStep ==
  ASSUME NEW State, NEW age \in [State -> Nat],
         FormatsAgree(State), ForeignIsRefused(State), StatesAdvance(State, age),
         InStep(State, age), [Next]_vars
  PROVE  InStep(State, age)'
<1>1. ASSUME NEW p \in Payload, Send(p)
      PROVE  InStep(State, age)'
  <2> DEFINE e == [state |-> sender, payload |-> p, message |-> Unwrap(Seal(sender, p))]
  <2>1. e \in Entry(State) /\ Seal(sender, p) # None
    BY <1>1 DEF Send, Entry, InStep
  <2>2. /\ trail' = Append(trail, e) /\ sender' = After(sender, p)
        /\ link' = link \cup {e.message} /\ UNCHANGED <<receiver, upto, accepted>>
    BY <1>1 DEF Send
  <2>3. /\ sender' \in State /\ age[sender'] = age[sender] + 1
        /\ Foreign(sender') = Foreign(sender)
    BY <2>1, <2>2 DEF StatesAdvance, InStep
  <2>4. /\ trail' \in Seq(Entry(State)) /\ Len(trail') = Len(trail) + 1
        /\ Len(trail) \in Nat
        /\ \A i \in 1..Len(trail) : trail'[i] = trail[i]
        /\ trail'[Len(trail) + 1] = e
    BY <2>1, <2>2 DEF InStep
  <2>5. upto' \in 0..Len(trail')
    BY <2>2, <2>4 DEF InStep
  <2>6. ASSUME NEW i \in 1..Len(trail')
        PROVE  /\ Seal(trail'[i].state, trail'[i].payload) # None
               /\ trail'[i].message = Unwrap(Seal(trail'[i].state, trail'[i].payload))
               /\ age[trail'[i].state] + (Len(trail') + 1 - i) = age[sender']
               /\ Foreign(trail'[i].state) = Foreign(sender')
               /\ After(trail'[i].state, trail'[i].payload)
                    = IF i = Len(trail') THEN sender' ELSE trail'[i + 1].state
    <3>1. CASE i = Len(trail) + 1
      <4>1. age[sender] \in Nat /\ trail'[i] = e
        BY <2>4, <3>1 DEF InStep
      <4>2. QED
        BY <2>1, <2>2, <2>3, <2>4, <3>1, <4>1
    <3>2. CASE i \in 1..Len(trail)
      <4>1. trail'[i] = trail[i] /\ trail[i] \in Entry(State)
        BY <2>4, <3>2 DEF InStep
      <4>2. age[trail[i].state] \in Nat /\ age[sender] \in Nat
        BY <4>1 DEF Entry, InStep
      <4>3. age[trail[i].state] + (Len(trail) + 1 - i) = age[sender]
            /\ Foreign(trail[i].state) = Foreign(sender)
            /\ Seal(trail[i].state, trail[i].payload) # None
            /\ trail[i].message = Unwrap(Seal(trail[i].state, trail[i].payload))
        BY <3>2 DEF InStep
      <4>4. After(trail[i].state, trail[i].payload) = trail'[i + 1].state
        <5>1. CASE i = Len(trail)
          BY <2>4, <3>2, <5>1 DEF InStep
        <5>2. CASE i # Len(trail)
          <6>1. i + 1 \in 1..Len(trail)
            BY <2>4, <3>2, <5>2
          <6>2. QED
            BY <2>4, <3>2, <5>2, <6>1 DEF InStep
        <5>3. QED
          BY <5>1, <5>2
      <4>5. age[trail[i].state] + (Len(trail') + 1 - i) = age[sender']
        <5>1. ASSUME NEW a \in Nat, NEW b \in Nat, NEW n \in Nat, a + (n + 1 - i) = b
              PROVE  a + (n + 1 + 1 - i) = b + 1
          BY <3>2, <5>1
        <5>2. QED
          BY <2>3, <2>4, <4>2, <4>3, <5>1
      <4>6. QED
        BY <2>3, <2>4, <3>2, <4>1, <4>3, <4>4, <4>5
    <3>3. QED
      BY <2>4, <3>1, <3>2
  <2>7. receiver' = IF upto' = Len(trail') THEN sender' ELSE trail'[upto' + 1].state
    <3>1. CASE upto = Len(trail)
      BY <2>2, <2>4, <3>1 DEF InStep
    <3>2. CASE upto # Len(trail)
      <4>1. upto + 1 \in 1..Len(trail)
        BY <3>2 DEF InStep
      <4>2. QED
        BY <2>2, <2>4, <3>2, <4>1 DEF InStep
    <3>3. QED
      BY <3>1, <3>2
  <2>8. ASSUME NEW m \in link'
        PROVE  m \in Foreign(sender') \/ \E i \in 1..Len(trail') : m = trail'[i].message
    <3>1. CASE m = e.message
      BY <2>4, <3>1
    <3>2. CASE m \in link
      BY <2>3, <2>4, <3>2 DEF InStep
    <3>3. QED
      BY <2>2, <3>1, <3>2
  <2>9. QED
    BY <2>3, <2>4, <2>5, <2>6, <2>7, <2>8 DEF InStep
<1>2. ASSUME NEW m \in link, Accept(m)
      PROVE  InStep(State, age)'
  <2>1. /\ upto < Len(trail) /\ receiver = trail[upto + 1].state
        /\ Unwrap(Open(receiver, m)) = trail[upto + 1].payload
    BY <1>2, TakesWhatIsDue DEF Accept
  <2>2. receiver' = After(trail[upto + 1].state, trail[upto + 1].payload)
    BY <1>2, <2>1 DEF Accept
  <2>3. /\ upto' = upto + 1 /\ trail' = trail /\ sender' = sender /\ link' = link
    BY <1>2 DEF Accept
  <2>4. upto \in Nat /\ Len(trail) \in Nat /\ upto + 1 \in 1..Len(trail)
    BY <2>1 DEF InStep
  <2>5. receiver' = IF upto + 1 = Len(trail) THEN sender ELSE trail[upto + 2].state
    BY <2>2, <2>4 DEF InStep
  <2>6. upto' \in 0..Len(trail') /\ (upto + 1) + 1 = upto + 2
    BY <2>3, <2>4
  <2>7. QED
    BY <2>3, <2>5, <2>6 DEF InStep
<1>3. ASSUME GiveUp
      PROVE  InStep(State, age)'
  BY <1>3 DEF GiveUp, InStep
<1>4. CASE UNCHANGED vars
  BY <1>4 DEF vars, InStep
<1>5. QED
  BY <1>1, <1>2, <1>3, <1>4 DEF Next

\* Every step is one the abstract channel allows.
LEMMA StepsAreAllowed ==
  ASSUME NEW State, NEW age \in [State -> Nat],
         FormatsAgree(State), ForeignIsRefused(State),
         InStep(State, age), [Next]_vars
  PROVE  [Abstract!Next]_(Abstract!vars)
<1>0. Len(trail) \in Nat /\ Len(SentPayloads) = Len(trail)
      /\ \A i \in 1..Len(trail) : SentPayloads[i] = trail[i].payload
  BY DEF InStep, SentPayloads
<1>1. ASSUME NEW p \in Payload, Send(p)
      PROVE  Abstract!Send(p)
  <2> DEFINE e == [state |-> sender, payload |-> p, message |-> Unwrap(Seal(sender, p))]
  <2>1. trail' = Append(trail, e) /\ e \in Entry(State)
    BY <1>1 DEF Send, InStep, Entry
  <2>2. /\ Len(trail') = Len(trail) + 1 /\ trail'[Len(trail) + 1] = e
        /\ \A i \in 1..Len(trail) : trail'[i] = trail[i]
    BY <2>1 DEF InStep
  <2>3. SentPayloads' = Append(SentPayloads, p)
    <3>1. SentPayloads' = [i \in 1..(Len(trail) + 1) |-> trail'[i].payload]
      BY <2>2 DEF SentPayloads
    <3>2. Append(SentPayloads, p)
            = [i \in 1..(Len(trail) + 1) |-> IF i = Len(trail) + 1 THEN p ELSE SentPayloads[i]]
      <4>0. \A i \in 1..Len(trail) : trail[i].payload \in Payload
        <5>1. \A i \in 1..Len(trail) : trail[i] \in Entry(State)
          BY DEF InStep
        <5>2. QED
          BY <5>1 DEF Entry
      <4>1. SentPayloads \in Seq(Payload)
        <5>1. SentPayloads \in [1..Len(trail) -> Payload]
          BY <4>0 DEF SentPayloads
        <5>2. QED
          BY <1>0, <5>1
      <4>2. /\ Append(SentPayloads, p) \in Seq(Payload)
            /\ Len(Append(SentPayloads, p)) = Len(trail) + 1
            /\ \A i \in 1..(Len(trail) + 1) :
                 Append(SentPayloads, p)[i] = IF i = Len(trail) + 1 THEN p ELSE SentPayloads[i]
        BY <1>0, <4>1
      <4>3. Append(SentPayloads, p) \in [1..(Len(trail) + 1) -> Payload]
        BY <4>2, LenProperties
      <4>4. [i \in 1..(Len(trail) + 1) |-> IF i = Len(trail) + 1 THEN p ELSE SentPayloads[i]]
              = [i \in 1..(Len(trail) + 1) |-> Append(SentPayloads, p)[i]]
        BY <4>2
      <4>5. QED
        BY <4>3, <4>4
    <3>3. \A i \in 1..(Len(trail) + 1) :
            trail'[i].payload = IF i = Len(trail) + 1 THEN p ELSE SentPayloads[i]
      BY <1>0, <2>2
    <3>4. QED
      BY <3>1, <3>2, <3>3
  <2>4. QED
    BY <1>1, <2>3 DEF Abstract!Send, Send
<1>2. ASSUME NEW m \in link, Accept(m)
      PROVE  Abstract!Accept
  <2>1. upto < Len(trail) /\ Unwrap(Open(receiver, m)) = trail[upto + 1].payload
    BY <1>2, TakesWhatIsDue DEF Accept
  <2>2. SentPayloads[upto + 1] = trail[upto + 1].payload
    BY <1>0, <2>1 DEF InStep
  <2>3. SentPayloads' = SentPayloads
    BY <1>2 DEF Accept, SentPayloads
  <2>4. QED
    BY <1>0, <1>2, <2>1, <2>2, <2>3 DEF Accept, Abstract!Accept
<1>3. ASSUME GiveUp
      PROVE  Abstract!GiveUp
  BY <1>0, <1>3 DEF GiveUp, Abstract!GiveUp, SentPayloads
<1>4. CASE UNCHANGED vars
  BY <1>4 DEF vars, Abstract!vars, SentPayloads
<1>5. QED
  BY <1>1, <1>2, <1>3, <1>4 DEF Next, Abstract!Next

\* For any formats that tell states apart, any payloads and any number of
\* messages, the two ends implement the secure channel.
THEOREM ChannelImplementsSecureChannel ==
  ASSUME NEW State, NEW age \in [State -> Nat], Initial \subseteq State,
         FormatsAgree(State), ForeignIsRefused(State), StatesAdvance(State, age)
  PROVE  Spec => ImplementsSecureChannel
<1>1. Init => InStep(State, age)
  BY InStepAtFirst
<1>2. InStep(State, age) /\ [Next]_vars => InStep(State, age)'
  BY StaysInStep
<1>3. Init => Abstract!Init
  BY DEF Init, Abstract!Init, SentPayloads
<1>4. InStep(State, age) /\ [Next]_vars => [Abstract!Next]_(Abstract!vars)
  BY StepsAreAllowed
<1>5. QED
  BY <1>1, <1>2, <1>3, <1>4, PTL DEF Spec, ImplementsSecureChannel, Abstract!Spec
=============================================================================
