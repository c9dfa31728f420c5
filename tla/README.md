# emv-rs, specified

TLA+ specifications of the contact EMV kernel in `src/src`, the TLC instances
that model-check them and TLAPS proofs of the theorems that hold for every
value of the constants.

## 1. The system

| Component | State | Operations | Talks to |
| --- | --- | --- | --- |
| Host-mediated flow (`contact/transaction_flow.rs`) | none of its own; the step it returned and the arguments the host brings back | `start`, `continue_with_application`, `submit_pin`, `bypass_pin_entry`, `submit_authorisation_response`, `submit_unable_to_go_online` | calls the driver; returns steps to the host |
| Driver (`contact/transaction_driver.rs`) | the card and the context | SELECT, GPO, READ RECORD, ODA, GET DATA, GENERATE AC, EXTERNAL AUTHENTICATE, issuer scripts, discovery | one command and one answer at a time with the reader |
| Context (`contact/transaction.rs`) | TVR, TSI, tag store, AIP, AFL, selected application, armed CDA and XDA keys, script results | the functions of Book 3 §10 that need no card | read and written by flow and driver |
| Final selection (`contact/application_selection.rs`) | none | `final_selection`, `aid_matches_df_name` | flow and discovery |
| Cardholder verification (`contact/cardholder_verification.rs`) | none | `process_cvm_list` with a callback per rule; VERIFY | callback into the flow |
| Terminal action analysis (`core/terminal_action_analysis.rs`) | none | three decisions over TVR and action codes | context |
| Restrictions, risk management (`contact/processing_restrictions.rs`, `contact/terminal_risk_management.rs`) | none | checks that set TVR bits | context |
| Reading of data, DOLs, TLV, codecs (`contact/read_application_data.rs`, `core/dol.rs`, `core/tlv.rs`, `core/*.rs`, `de/`) | none | bytes to elements and back | driver, context |
| Issuer scripts (`contact/issuer_script.rs`) | none | `process_scripts` with a callback per command | driver |
| Offline data authentication (`core/oda.rs`, `core/ecc_oda.rs`) | none | certificate chains, static and dynamic signatures | driver |
| Registers (`de/terminal_verification_results.rs`, ...) | bits | codecs | everybody |
| Tag store (`core/tag_store.rs`) | a map from tag to value and source | insertion that refuses a second value | everybody |
| UN generator (`core/un_generation.rs`) | registers P and Q | `power_up`, `generate_un`, `refresh_after_transaction`, `power_down` | the host that persists Q |
| T=0 transport (`pcsc.rs`) | none between commands | `transmit_apdu` | reader |
| Secure messaging, keys, encipherment (`core/secure_messaging.rs`, `core/master_key_derivation.rs`, `core/ec_*.rs`, ...) | what the caller hands back: chaining value, counter | wrap, derive, sign, verify, encipher | issuer's scripts, PIN entry |
| Configuration (`config.rs`, `contact/terminal.rs`) | none | files to terminal and applications | CLI, host |
| Command line (`bin/test_transaction.rs`) | its arguments | one transaction straight through the driver | a person at the keyboard |

Nothing runs concurrently: one call of the host runs at a time, and the
behaviours that are hard are of another kind. The card and the reader may
answer anything at every exchange, the issuer and the cardholder interrupt the
flow between calls, an error leaves behind what the call had changed so far,
the host may call again after it, one function runs twice over the same context
(the trial run of the CVM List, the second signature), callbacks hide errors
from the loop that called them, and results of one phase (TVR bits, tag store
entries) are read by others much later. The hazards in PROJECT.json name each
at its line.

## 2. Modules

| Module | Models | Used by |
| --- | --- | --- |
| `VerificationResults` | TVR and TSI as sets of named bits | all below |
| `TerminalActionAnalysis` | `terminal_action_analysis.rs` as operators | `TransactionFlow`, `TerminalHistory`, `CardData` |
| `ProcessingRestrictions` | the checks of `processing_restrictions.rs` | `TerminalHistory`, `CardData` |
| `TerminalRiskManagement` | floor limit, random selection, velocity | `TerminalHistory`, `CardData` |
| `TerminalProfile` | `config.rs`: defaults, overrides, validation, `find_application` | `TerminalHistory` |
| `TerminalHistory` | one terminal and one card over several transactions and power cycles; composes the four above with the UN generator | run `lifetime` |
| `FinalSelection` | `final_selection` as predicates on a set of candidates | `TransactionFlow` |
| `CvmList` | what a CVM List as a whole means: rule reached, results, TVR bits; the CVMs a terminal supports | `TransactionFlow`, `CardholderVerification` |
| `CardholderVerification` | the loop of `process_cvm_list` with the callback, the card and the reader, rule by rule | run `verification_scripts` |
| `IssuerScripts` | `process_scripts` and the driver's wrapper, command by command | run `verification_scripts` |
| `TransactionFlow` | the flow over driver and context; composes the operators above | runs `flow*` |
| `ApplicationNames` | DF names, partial matches, and what a card may answer | the two below |
| `CandidateDiscovery` | `build_candidate_list`: directory walk and AID list, answered at once | implemented by `DiscoveryOverT0` |
| `T0Transport` | `transmit_apdu`: one exchange round by round | `DiscoveryOverT0` |
| `DiscoveryOverT0` | the candidate list built over the T=0 reader; composes the two | run `discovery` |
| `KeyCertificates` | recovery of RSA and ECC keys from certificates as predicates, and certificates as an issuer makes them | `OfflineDataAuthentication` |
| `OfflineDataAuthentication` | chain, signature and failure bits of SDA, DDA, CDA and XDA through both GENERATE ACs | run `oda` |
| `AcProtocol` | the abstract specification: cryptograms, issuer, verdict | implemented by `TransactionFlow` and `TestTransaction` |
| `TestTransaction` | the command line's own composition of the card functions | run `cli` |
| `Optional`, `Bytes` | Rust's `Option`; numbers, BCD and bits in bytes | the byte-level modules |
| `Tlv`, `Apdu`, `CardResponses`, `Registers` | data objects, commands, responses and elements with the data object lists and script results among them, bit registers | `CardData`, `MCChannels` |
| `CardData` | one transaction byte by byte: commands sent, answers parsed, tag store, decision | runs `data`, `data_lengths`, `cdol2_arc` |
| `BlockCiphers`, `IssuerMessages`, `EllipticCurves` | modes and MACs; keys, scripts, cryptograms, issuer answers; signatures, sessions, PIN and biometric encipherment | `MCChannels` |
| `SecureChannel` | the abstract specification of a secured exchange | implemented by `MessageChannel` |
| `MessageChannel` | two ends and a terminal that relays what it likes | run `channels` |
| `MC*` | instances for TLC | |
| `*_proofs` | theorems (those of `MessageChannel` and `DiscoveryOverT0` are in the modules, those of `TestTransaction` in `TransactionFlow_proofs`) | |

### TransactionFlow and the code

`pc` is the card function to run next or what the last call returned (`Idle`
before `start`; `SelectApplication`, `CardholderVerification` and
`OnlineRequest` are the steps that wait for the host; `Done` is a final step
and `Err` an error). Every other variable is a field of `TransactionContext`
(`selected`, `store`, `tvr`, `tsi`, `cda`, `xda`, `scripts`, and `initiated`
for AIP and AFL), an argument or local of a call (`cands`, `chosen`, `pin`,
`response`, `asking`), or what the host holds (`first`, `second`). `card` and
`terminal` are chosen at the start and never change. `eliminated` and `retries`
only serve properties and the bound.

An action is an entry point up to its first card function, or one card
function with all it changes: `first_generate_ac` is terminal action analysis,
the TDOL bits, the exchange, the signature's verification, card action analysis
and the decision of `continue_after_cardholder_verification`. An error keeps
what the code had changed before it (`Fail`).

Abstractions: a tag's value is where it came from (an application, the
terminal, a response code); what a card is personalised with is a `Profile`;
DOLs are absent, malformed, plain, or plain with a TC Hash; a chain of
certificates is its outcome; `EXPIRATION` stands for every element whose length
processing restrictions check; risk management and restrictions leave a set of
bits from `RiskResult` and `RestrictionResult`; a signature is genuine or not
and an answer to an XDA request carries a cryptogram; the card selected by a DF
name answers with that name. The flow passes `false` to
`terminal_action_analysis`, so `OfflineOnlyConsulting` occurs in
`TerminalHistory` only. The tag store refuses a second value under a tag,
and a retried call runs into that: this is modelled at every insertion. The one
exception is '8A', which `store_authorisation_response_code` stores only where
there is none: a record that carries '8A', or a call made before, leaves its own.

`AcProtocol` says what the flow keeps to with every card. The card may answer
any cryptogram whatever it was asked for, and a TC at the second GENERATE AC is
approved (`Justified`); what the protocol forbids is that the kernel asks for a
TC against the issuer's word, asks for a second cryptogram without an ARQC, or
approves without a TC. The comments of the code promise more, see finding 3. An
error loses what the call learnt (`Fail`), since the host may call again.

### CardholderVerification and the code

`pc` walks the rules; `Leave` is the return of `run_cardholder_verification`
with its order of lost VERIFY, rollback and success. The card decrements its
PIN try counter and blocks; the reader may fail in VERIFY. The ten biometric
methods are one method, and amounts are compared with X and Y as numbers. The
abstract side is `CvmList`, which says what the whole list means without a loop,
and `LoopMatchesList` ties the two.

### IssuerScripts and the code

A message is the sequence of scripts the issuer sent; a script has a template, a
form (whether it can be taken apart), an identifier and commands. `at` is the
script the call is at: one for the other position is passed over (`PassBy`), and
`Finished` ends the call behind the last. `Sentinel` answers every command after a reader failure
without sending, as the driver's closure does. The nibble of the failed command
saturates at 15, which is why one script has 17 commands.

### Discovery, the transport and the code

`CandidateDiscovery` takes a command and its answer as one step; `pc` is the
command to send next. `T0Transport` is the loop of `transmit_apdu`: `pending`,
`accumulated` and the count of rounds are its locals, `size`, `sent` and
`executed` the card's side. A card splits its data into parts as it likes, says
'61xx' or '6Cxx' more often than it needs to, and a reader may fail before any
round. `DiscoveryOverT0` runs the first over the second: `Transmit` starts an
exchange for the driver's next command and `Response` hands the outcome back.
Data that lacks a part does not parse. `DirectoryUpTo` and `AidsUpTo` say, without
a loop over commands, what the first records and AIDs give. A card is a fixed table of answers; the
content of an entry is its DF name (labels, priorities and languages, which
discovery copies, are left to `FinalSelection`).

### Offline data authentication and the code

`KeyCertificates` translates the recovery functions: a signature is a record of
the key that made it, the recoverable message and the rest that is hashed, so
what hashing and RSA promise is built in and every check around them (format,
lengths, padding, remainder, PAN, dates, revocation) is explicit. Moduli and
static data are byte sequences because the boundaries between them are the
point. Dates are compared as the code does it; the properties compare them as
numbers. `OfflineDataAuthentication` has the driver's entry points as actions;
`stash` is what the driver keeps for the hash, `heard` what the card was sent.
The key for PIN encipherment is recovered with the others, from its certificate
and, unlike them, without the revocation list; `PinAttested` says which it may
be. The constants have types (`OdaAssumption`, `KeysAssumption`): which fields
there are in a card, a certificate and a terminal.
`last` is the verdict on the last signature and whether it was the card's own,
and serves the properties only. `Attested` says from the issuing side which keys
a card may be authenticated by. Left out: algorithm indicators (the driver does
not look at them either), lower bounds on key lengths, a selected name shorter
than a RID, records that hold the elements the kernel stores itself (these are
in `TransactionFlow`), and an Unpredictable Number missing from the tag store,
which the flow always puts there.

### TerminalHistory and the code

`stage` is where the terminal is in its life (`Off`, `Idle`, `Refused` when the
files are) or in its transaction. `PowerUp` is `config.rs` on the files and
`UnGenerator::power_up`; `Begin` is a sale with the number generated for it; then
`process_restrictions`, `run_terminal_risk_management` with its two GET DATA,
`terminal_action_analysis` and the issuer or its absence. `nv` and `p` are Q and
P; `End` is `refresh_after_transaction`, which follows every outcome. Power may
go at any stage. A hash is a term, so equal terms are equal inputs.

What lies around the library is external and stated in the module: the host
loads the files, draws random numbers, logs the amounts of a PAN (`KeepsLog`)
and persists the rolled Q at power-up (`PersistAtPowerUp`). The usage example of
`un_generation.rs` persists at shutdown or periodically; `UnNeverRepeats` says
what it takes for numbers not to repeat when power is lost without hardware
random numbers and with a clock that stands still. The flow and the command
line pass no log, so `SplitStaysBelowFloor` is about hosts that do. The
card counts its transactions, stops at the last value of its counter and never
answers above the request.

### CardData and the code

A card is described twice: by what it means (`codes`, `cdols`, `meanings`,
`answers`, the locator, the elements of its records) and by the bytes `MCCardData`
puts together from that. `Send` takes a command through `to_bytes` and the card
reads the bytes (`command_from_bytes`); `Responses` are what the card may answer
to it, taken back through `response_parse`: its data or a refusal, or `Lost` where
the command could not be encoded. A property says that something arrived.
`stage` is the next card function. What a card's bytes mean is stated without the
parsers, by how objects are encoded (`Holds`, `IsTemplate`, `LocatorBytes`), and
`CardsAssumption` says that the answers to GET PROCESSING OPTIONS and READ RECORD
mean what the description says: objects of fewer than 256 bytes with lengths in
any of BER's forms, templates of primitive objects, locators that name files 1 to
30 and no record number 255. A record that is no '70' template, elements twice,
empty or malformed, and refusals are all cards of that kind, and of the other
answers only that they are bytes is assumed. `CodesAreAsDescribed` and
`TerminalIsAsDescribed` (in `TerminalsAssumption`) say what the action codes and
the terminal type mean: bits by byte and place, a capability by Book 4 Table 24.
`Tlv` parses
nested objects by the recursive function `ParseAll`; `Registers` gives each named bit its
position in TVR, TSI, the terminal's three capabilities, the terminal transaction
qualifiers, the biometric terminal capabilities and the kernel identifier, and
TLC evaluates that no two names share a bit and that every register comes back
from its bytes (`NamesAssumption`, `RoundTripAssumption`); `terminal_value_for` is the
table of terminal values. SHA-1 is a parameter; offline
authentication, PIN verdicts, signatures and scripts are in modules of their
own and contribute what they leave behind.

### The channels and the code

`MessageChannel` has a state at each end and two functions, `Seal` and `Open`;
the terminal between them delivers any message it has seen, again, late or
never, and holds messages of other cards and sessions. `MCChannels` fills in the
kernel's functions for 20 kinds of exchange: scripts with 3DES and AES, with and
without confidentiality, chained by the MAC of the last; the older script
format; application cryptograms and both ARPC methods; EC-SDSA signatures;
Encrypt-then-MAC sessions, one of them two messages short of its last counter;
PIN and biometric data for a challenge. The other end (card or issuer), which
is not in the repository, is written from the same formats, and for decryption
and verification uses the kernel's inverses where it has them. The state
carries what the caller of these stateless functions must hand back, such as the
whole MAC of the last command.

### TestTransaction and the code

The command line calls the same card functions as the flow, so where it treats
a result alike the action is `TransactionFlow`'s with the command line's
variables unchanged, and where it does not the action is its own: it tries one
application only, verifies the cardholder whatever the AIP says, decides by
card action analysis alone, and reads the issuer's answer from a line
(`authorise`). `args` holds where each file is found. `AgreesWithFlow` compares
its verdicts with `FirstVerdict` and `Completed` of the flow.

## 3. Runs

| Run | Question | Bounds and why they suffice |
| --- | --- | --- |
| `flow` | Do cryptograms, signatures, XDA failures, response codes and verdict fit together, is the flow an `AcProtocol`, do applications mix, does the choice stand, is the first cryptogram asked for once, does every call return? | Two scenarios (`ScenarioSpec`). One application over every profile that takes another path (20, among them a record with '8A' and one with '9F37'), an online and an offline-only terminal, two TVR bits that action codes ask for, four replies; the two profiles with an armed key also with a host that calls again. Two applications of two profiles, lists of up to two entries with ties, priorities and confirmation, both kinds of terminals, one retry after an error anywhere. The card answers every GENERATE AC with any cryptogram |
| `verification_scripts` | Does the loop compute what the list means, and do both passes leave card and context as they should? Do script results and bits tell what the card did? | All lists of up to two rules and PIN lists of three; two PIN tries; reader failures at any VERIFY. Up to three scripts of every form, both positions, one of 17 commands so that the nibble saturates. The issuer's scripts follow the verification, for cards that ask for none, so that the two do not multiply |
| `lifetime` | Do limits, restrictions and numbers hold over several transactions with failures and power losses, and can a TVR bit help? | Five configurations (one refused, one with two rows for the card), seven cards, three pairs of counters (fresh, used, senseless), three kinds of sales, floor limits of 3 and 4 against amounts of 1 and 3; three transactions and two power-ups, so that a limit of 1 or 2 is passed and Q is rolled twice |
| `discovery` | Is the list the card's however the answers are served, and does discovery return? | 200 cards: every PSE answer, directories of two records (five kinds each), two AIDs, one of them partial, five answers each; answers of up to three parts in at most three rounds, so that rounds run out. 255 records and 256 rounds in the code; the proofs cover every bound |
| `oda` | Is a card authenticated exactly if it was issued for what it presents and signed what was exchanged? | 18 correct cards (issuer keys shorter than, equal to and longer than their room, with and without AIP in the static data) and an XDA card, each of four also with one element absent, one field of a certificate different, or one boundary shifted; four terminals; seven kinds of signatures at each GENERATE AC. Overheads of 2 and 1 bytes in place of 36 and 42; the proofs cover every length |
| `data` | Does what the card means reach the decision, and what the terminal means reach the card, through all the bytes between? | Six cards (both formats of each answer; files below and above 10; a directory; action codes present and absent; elements twice, empty, of odd length; a record that is no template), three terminals and two sales; lengths in shortest form, in longer ones outside a record and, for two cards, inside; every command may be refused |
| `channels` | Is anything taken that was not sent, or not taken that was due? | 20 kinds of exchange, three messages each out of up to four payloads, two cards and an earlier session; small ciphers and a group of 32749 elements, in which messages that should differ do |
| `cli` | Does the command line keep to `AcProtocol`, and do its verdicts agree with the flow's? | One application; every profile of `flow`; four placements of the four files, two installed terminals, nine typed lines (nothing, codes that are and are not hexadecimal, objects with and without a code, wrong lengths, none of these) |
| `flow_cda_twice`, `cdol2_arc`, `flow_xda_overruled`, `data_lengths` | One statement each of a comment or a test that the code contradicts | violated; see findings |

Deadlock is checked except in `channels`, where the behaviour ends when all
messages are sent and settled.

Fairness is `WF(Kernel)` (`WF(Next)` in `DiscoveryOverT0`, where no host acts): a call that has begun goes on until it returns. The
code runs a call on the caller's thread without waiting for anything but the
reader, and an exchange comes back with an answer or an error. Nothing is
assumed of the host. The runs of other modules than these claim no liveness
and assume no fairness: a host may stop, a message may never arrive.

### Findings

1. A second CDA signature is found bad although genuine
   (`transaction_driver.rs:1206`): the driver stores what it recovered with the
   insertion that refuses a second value. An online-approved CDA transaction
   is declined, and no TVR bit tells.
2. A card that asks for the response code in CDOL2 gets zeros
   (`transaction_flow.rs:576`): the code is stored where the resolver does not look.
3. A card that answers a TC to the AAC it was asked for is approved
   (`transaction_flow.rs:566`), after an XDA failure too and without the issuer,
   against the comments at lines 263 and 545 (run `flow_xda_overruled`). What
   holds is that the kernel does not ask for that TC (`XdaFailureIsHonoured`).
4. `oda_input_bytes` (`core/read_record.rs:63`) finds the start of a record's
   value by re-encoding its elements, so an inner length in a longer form than
   necessary cuts off bytes the card signed, where the test at line 153 has
   everything but the template's tag and length kept (run `data_lengths`). What
   holds for every card is `SignedInputIsRecordEnds`: the input is the end of
   each record, as long as the elements are when written shortest.

Seen while modelling, and without a run of their own:

* A list with an online and an offline PIN rule sets "Online CVM captured"
  without the host having been asked for an online PIN (`transaction_flow.rs:438`
  against line 205).
* An application discovered twice is attempted again after its elimination
  (`transaction_flow.rs:145`), as elimination removes one entry of the list.
* `verify_cda_inner` re-encodes the objects of an answer as `oda_input_bytes` does
  those of a record.
* A host that submits the issuer's answer after a call that failed completes over
  the response code of that first call (`transaction_flow.rs:581`); this is why
  `ArcMatchesDecision` speaks of hosts that have not called again.
* `TransactionFlow` ignores `oda_record_not_seventy_template`, which
  `read_application_data` reports.
* Binary amounts ('81', '9F04') of 2^32 and more are truncated; a '9F36' in a
  record makes the GET DATA of risk management fail, as does a '9F34' or '9F37'
  for the steps that store these. An '8A' in a record stays in place of the
  response code, without an error.
* 'default TDOL used' is set after terminal action analysis has decided.
* Dates are compared as BCD bytes, so a year 50 to 99 is later than 00 to 49.
* Numeric settings documented as packed BCD (`contact/terminal.rs:16`,
  `contact/transaction.rs:30`) are decimal numbers that the resolver packs.
* `EC-SDSA` verification answers an error, not false, when s is not below the
  group order; chaining script MACs needs the whole MAC, which `wrap_format_1_*`
  do not return; `ecc_pin_encipherment.rs:27` names P2 '88' where `verify.rs` sends '8A'.
* The command line's shortcut for a typed response code
  (`test_transaction.rs:88`, README.md:21) takes "05" for hexadecimal, so it is
  refused as data objects; "00" passes as padding and means approval because no
  code is found. It goes on after printing that the transaction shall be
  terminated (846, 878), approves a TC whose CDA signature failed, and inserts a
  response code without looking whether one is there (692).
* The ranges the documentation gives the random selection settings
  (`contact/terminal.rs:70`) are not validated by `config.rs` but by risk
  management, which then ends the transaction.

## 4. Proofs

TLAPS proves what follows for every value of the constants. What a theorem
assumes beyond the modules' own assumptions on constants (types of the code,
which TLC evaluates in the runs) is said with it.

`TransactionFlow_proofs` speaks of every set of applications, profiles,
terminals, candidate lists and issuer answers.

* `FlowTypesAlways` is type correctness.
* `CryptogramInvariant` is what the theorems on cryptograms rest on. None of the
  properties is inductive: that an approval is justified at the end depends on
  what was asked for in the second GENERATE AC, that on the call and on the XDA
  failures in the TVR at that time, and these on the first answer. `CallPoints`
  says which entry point may be where, `FirstAnswered` which first cryptogram
  is taken to the issuer, `AskedFor` when a TC is asked for at last,
  `ApprovalHeld` what keeps an outcome justified while the last scripts run, and
  `XdaFailures` where these bits come from. It holds for every card and for hosts
  that call again after an error; so do its corollaries `ApprovalRestsOnTcAlways`,
  `BadCdaStaysOfflineAlways` and `SecondFollowsArqcAlways`.
* `XdaFailureIsHonouredAlways` is two facts: `XdaBitsDeferred`, a part of the
  invariant, and `XdaFailureNeedsIssuer`, inductive with it, which leaves to a card
  after an XDA failure no approval but by a TC nobody asked for.
* `AcInvariant` and `FlowImplementsProtocol` hold for every card, also one that
  answers above the request, and for hosts that call again, under the condition of
  `FirstAcOnceAlways` below. `Requested` and `Settled` are what the refinement adds
  to the invariant: the request follows from the issuer's word, the outcome from
  the cryptograms. Then every step is a step of `AcProtocol` or a stutter.
* `FirstAcOnceAlways`: the call made again stops at the store, which refuses the
  elements read twice. This takes a CDOL1 in the records of every application,
  which EMV makes mandatory (`CardsHaveCdol1`), or a host that never calls again.
  `AskedWith` says that a cryptogram was asked for with a CDOL1 and CVM Results
  in the store, `NoWayBack` that a later call does not get beyond them.
* `ArcMatchesDecisionAlways`: in a transaction whose host has not called again,
  `ArcInv` keeps the response code absent, or the one a record brought along, until
  the decision, and the right one from then on.
* `NoForeignDataAlways`: `OwnerInv` places what was read with the application
  initiated, `EliminatedInv` keeps eliminated ones off the list. It is false for
  a list that names an application twice (a hazard of its own), hence
  `ListsNameOnce`.
* `ChoiceIsTheCardholdersAlways` needs no more than `CallPoints`, and
  `StoreIsWriteOnceAlways` types. The latter is stated for the proofs only: the
  store replaces nothing, and the theorems about what is in it rest on that.

`CardholderVerification_proofs` holds for every CVM List, terminal, card answer
and loss. The properties tie a loop to a statement over the whole list, so the
invariant says in between what the rules so far come to: `LoopInv` (no rule passed has
ended the loop, the bits are the union of theirs, `last` is the last one whose
condition held), `CallInv` (each pass starts from a fresh context and the
snapshot is that context) and `SuccessInv` (a success settled for an offline PIN
is the card's). `LoopMatchesListAlways`, `RequirementLeavesNoTraceAlways`,
`LostVerifyIsReportedAlways`, `OfflineSuccessIsTheCardsAlways` and
`NoPinSparesTheCardAlways` follow.

`IssuerScripts_proofs` holds for every message, any number of scripts and
commands. `CallInv` counts: a call has as many results as scripts of its position
so far (`Place`), each in the place that counting gives it and telling what the
card took; `AtHand` is what the card took of the script at hand; `ContextInv` is
what the first call leaves for the second, for each position by the results it
accounts for (`FailedInParts`). From it `ResultsTellWhatHappenedAlways`,
`BitsMatchResultsAlways` and `SilenceAfterLossAlways`.

`OfflineDataAuthentication_proofs` holds for all cards, terminals, key lengths,
PANs, dates and revocation lists.

* `ModulusRecovered` and `CertificateAccepted`: a modulus of any length, split
  over any room and the remainder, is put together again, and a certificate
  made out for a key is accepted until it expires and gives that key.
* `AuthenticatedIsGenuineAlways` and `GenuineIsAuthenticatedAlways` are the two
  directions of one question, by `ChainInvariant`: a key in use is attested, an
  authenticated card has something attested, and where something is attested and
  a DDOL is at hand the card is not refused. The work is in the lemmas that each
  recovery accepts exactly what the issuing side attests.
* `SignatureBindsExchangeAlways` by `ExchangeInvariant`: what the card has heard
  is, at each point, what the driver's `stash` puts into the hash; a signature
  in any of its faulty forms verifies only if it equals the genuine one.
* `SecondNeverRepairs`: after an XDA failure no answer changes the TSI or the tag
  store. `SecondDoesNotRepair` is not provable alone, because DDA and CDA steps do
  change them; `MethodInvariant` excludes those: the bits in the TVR are those of
  the card's one method, and an armed key comes with no arming failure.

`DiscoveryOverT0` proves, for all cards, applications, numbers of records and
rounds,

* `DiscoveryImplemented`: discovery over the T=0 reader implements discovery over
  one that answers at once. `TransportInv` says that what has arrived is `1..sent`
  in order and that a command still to be sent has not been executed; hence an
  answered exchange hands over the card's answer (`ReceivedWhole`), and every
  command is executed once (`CommandExecutedOnceAlways`);
* `ListMatchesCardAlways`: by `DiscoveryInv` the candidates so far are what the
  records or AIDs so far give. These are recursive functions, and that such a
  function is total and unfolds is an induction over numbers. The library's
  induction theorems take an operator, which the provers cannot instantiate;
  `EveryNumber` states induction for a set of numbers instead and follows from
  `NatLessThanWellFounded`.

`TransactionFlow_proofs` also proves, for every card, that the command line (`TestTransaction`) implements `AcProtocol` (`TestImplementsProtocolAlways`).
`TestInv` is the counterpart of `AcInv`: before the first answer there is no
cryptogram and no issuer, at `OnlineRequest` an ARQC, and after it the outcome
that the typed code calls for. `AgreesWithFlowAlways` needs no invariant: it is
shown step by step, from what a signature's verification leaves when it is good.

`TerminalHistory_proofs` proves six facts for all files, cards, counters and
numbers of transactions, with failures and power losses anywhere:
`OfflineRunIsBoundedAlways`, `SplitStaysBelowFloorAlways`,
`UnusableIsNotApprovedAlways`, `BitsNeverHelpAlways`,
`OfflineIsUnableToGoOnlineAlways` and `UnNeverRepeatsAlways`. They assume that
counters start in range, that a limit, an amount and a well-formed date are
numbers, and that a floor limit fits in 64 bits (`CounterAssumption`,
`CardAssumption`, `AmountAssumption`, `DateAssumption`). None of the first three
is inductive: what is approved says nothing of what was found before, and what
was found may be stale when the decision falls. The strengthenings add what lies
between.

* `RunIInv`: a run of offline approvals that has begun is, with the transaction in
  progress, no longer than the distance of the two counters, and within one
  of the limits. After risk management the upper limit's bit is set, or that distance
  is still within the limits.
* `SplitIInv`: the log is below the floor limit; after risk management the floor
  bit is set, or the log with the amount in progress is still below it. Sums
  saturate, which is harmless because no limit exceeds the point where they do.
* `UseIInv`: the restrictions found stay in the TVR until the decision, and a
  transaction whose elements cannot be read does not get that far.
* `UnInv`: each number given out comes from a value the register P has had since,
  and no two are the same. A number never repeats because Q is rolled at every
  power-up and P refreshed after every transaction, and neither chain of hashes
  comes back to where it was; the theorem has that as its hypothesis
  (`HashesTell`: from a value can be told how often it was rolled and refreshed).
  It is what one asks of the hash, and terms have it.

`ActedIsNotApproved` joins the first three: a set bit that the codes act on
rules out a TC, at the first decision and when the issuer cannot be reached.

`MessageChannel` proves that any formats give a secure channel
(`ChannelImplementsSecureChannel`) if states that differ
never take each other's messages (`FormatsAgree`), foreign messages are refused
(`ForeignIsRefused`) and no state occurs twice (`StatesAdvance`). The invariant
`InStep` places the receiver at the state the sender had at the first message
not settled. These three assumptions are what ciphers and MACs are for; the run
`channels` exercises the kernel's formats with small ciphers instead, and no proof
connects the two.

`CardData_proofs` speaks of bytes: of every card that `CardsAssumption` describes,
with any number of locator entries, records and elements, in any encoding of
lengths, refusing any command.

* `ReadsFollowTheLocatorAlways`, `StoreIsWhatTheCardSentAlways` and
  `SignedInputIsRecordEndsAlways`. For the last, `RewrittenNoLonger` shows that the
  elements in shortest lengths are no longer than what the card sent
  (`ShortestLength`, `JoinedNoLonger`), so that the cut is within the value.
* None of them is inductive. `CardInvAlways` is: `InOrder` says that the records
  asked for are the first of those listed, `WalkOk` that the walk is the rest of
  the list, `StoreOk` that the store keeps what the first so many records hold,
  `SignedOk` the same of the input for authentication, `ShapesOk` what the
  variables hold at each stage. `Sourced` adds that whatever in the store is not
  from a record is under one of five tags of the terminal's own: the elements the
  terminal itself uses have come from a record, as bytes.
* `DecisionFollowsTheCodesAlways`: the cryptogram in P1 of the first GENERATE AC is
  the one the codes in the listed records and the terminal's codes call for.
  Beside `CardInv` it takes `AcInv` (the application is the terminal's, only TVR
  bits with a place in `BookTvr` are set, and no GENERATE AC comes before the
  first one), and three facts: `CodeMeans` (a bit of `TvrLayout` is at its
  place in the books' table, for all forty), `IssuerCodeAgrees` (what the store holds
  under a code's tag is what the card meant, from `StoreOk` and `Sourced`) and
  `SameDecision` (codes that are alike on the bits that can be set decide alike).
* What the invariants need of the parsers is their meaning on encoded bytes:
  `HeldIsRead` and `TemplateIsRead` (an object in any form of its length is
  the node of its tag and value), `RecordIsRead` and `OtherRecordIsNone`,
  `OptionsAreRead` (both formats), `WalkIsListed` (`iter_reads` goes through what the
  locator lists), `HeaderReaches` (a command comes back from its bytes with its
  header), `OkReplies`. `ParseAll` and `ParsedDol` are recursive functions over
  byte strings. That they are what their definitions say is proved first
  (`ParseAllUnfolds`, `ParsedDolUnfolds`): for each length there is one function
  that parses all shorter strings (`ParserExists`, `ParsesAlike`), and these put
  together satisfy the definition.

Left to TLC:

* liveness (`CallReturns`, `DiscoveryReturns`), which the prover does not reach;
* of the bytes, `CardReadsTheTransaction` and `CardIsUnderstood`: packed decimals,
  padding and the elements' own parsers, each a statement about a table rather
  than about a course of steps;
* `NextIsAccepted`: that the kernel's formats take back what the other end built
  is a statement about those formats and not about the channel's discipline;
* the four findings, which are statements that are false.

## 5. Not modelled

* The mathematics of block ciphers, hashes, RSA and curves: libraries, and large
  numbers. They are parameters of the modules, or terms.
* Elements and commands the contact transaction does not use: biometric
  information templates, application selection indicators; PUT DATA, SEND POI INFORMATION, extended GET PROCESSING OPTIONS,
  INTERNAL AUTHENTICATE and GET CHALLENGE as bytes.
* The tables of tag names and formats (`core/tags.rs`, `core/tag_info.rs`), labels
  and languages of applications, printed text.
* Reading TOML files and connecting to a PC/SC reader: libraries and I/O. What a
  file says and that it may fail to load are modelled.
* The algorithm indicators, which the driver does not look at either.

Worth doing next: the elements' own formats (`CardReadsTheTransaction`,
`CardIsUnderstood`) on top of the lemmas about parsers, and that the kernel's
message formats meet the assumptions of `MessageChannel`.
