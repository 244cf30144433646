# dataspace-in-a-box in TLA+

A formal model of the connector in this repository: what it stores, what its request
handlers and background goroutines do to it, how a download gets to disk and when it may
be believed, who is believed and for how long, and what two connectors achieve together
over a network that loses and reorders requests. TLC checks small instances; TLAPS proves,
for every size, the invariants of each role and that it keeps its contract, and what two
connectors, or the two halves of one, achieve together.

All modules are translated from the Go code under `internal/`. Definitions carry the names
of the functions they stand for; `PROJECT.json` maps each to its lines.

## The system

One Go process per participant, one SQLite database (one connection, so one call at a time
is an atomic step), a protocol listener that counterparties call, a management listener for
the operator. Protocol messages are JSON POSTs. A handler answers at once and leaves the
reaction to a goroutine, which pushes a message to the counterparty (up to five attempts,
seconds apart) and then stores the state that follows. No goroutine survives the process.

| component | state | operations | what makes it correct |
|---|---|---|---|
| negotiation decisions (`dsp/negotiation.go`) | none | decide on a request, an acceptance, an offer, an agreement | nothing expired, unadvertised, unenforceable or not asked for is agreed to |
| provider role (`dsp/negotiation_handler.go`) | `negotiations`, `agreements`; goroutines | request, re-request, ACCEPTED event, verification, termination; push and store | a legal walk through the DSP states; one answer per message; agreement rows match what was issued |
| consumer role (`dsp/negotiation_consumer_handler.go`) | `consumer_negotiations`, `agreements`; goroutines | initiate, offer, agreement, FINALIZED event, termination; react by policy | the same walk; VERIFIED only of what was asked for and acknowledged; agreement recorded before AGREED |
| pushes (`dsp/callback.go`, `dsp/negotiation_client.go`) | none | POST with retries | at-least-once delivery does not start anything twice |
| provider role of a transfer (`dsp/transfer_handler.go`) | `transfer_processes`; a driver goroutine each | request, start, completion, suspension, termination; drive the configured steps | a legal walk; only under an agreement with that party; started by the provider and nobody else |
| consumer role of a transfer (`dsp/transfer_consumer_handler.go`) | `consumer_transfer_processes`; drivers | initiate, the provider's transitions, the configured steps | the same walk with any number of drivers at work; a pull only for a start that was granted |
| pulling data (`dsp/transfer_consumer_handler.go`, `dsp/idle_reader.go`) | the guard on running pulls, a partial file, outcome columns | pull, resume, discard, publish, record, drain at shutdown | no two pulls of one transfer; what is complete is whole; the row says what is on disk |
| serving data (`dsp/data_handler.go`) | none | serve a range | bytes begin to flow only for a STARTED transfer inside the dataset's window, and stop for good when it is over |
| agreements (`mgmt/router.go`, `store/`) | `agreements`, three origins | import, conclude, cite in a transfer | an agreement grants what it was made for, to whom, in which role |
| credentials and roster (`auth/`, `dsp/auth_middleware.go`) | the roster in memory, the highest version in the store | boot, check, mint, refuse | nothing under an expired roster; no older one comes back; no credential outlives the maximum |
| process start and stop (`cmd/dsbox/main.go`) | none of its own | boot, shut down, drain, crash | a drain that reports success lost nothing |
| catalog, configuration, store migration, routing, errors, version, keys, did:web, management listings, tools | none that changes | pure functions and I/O | not modelled, but for the values the protocol reads |

Components meet in five places: a handler starts a goroutine that writes the row the
handler read; the `agreements` table is written by negotiations and the import and read by
transfers; a start that is granted sets off a pull, which shares the row with the
transitions and the disk with the next pull; the roster stands in front of every handler
and every attempt of a push; and everything a goroutine pushes is a request to the same
handlers in the other connector.

What is hard here is not any one handler. It is a decision made on a row read earlier, a
message announced before it is stored, five attempts of which any may have succeeded, a
goroutine that is gone after a restart, and all of it twice, in two processes.
`PROJECT.json` lists these hazards at their lines with the properties that cover them.

## The modules

| module | what it is |
|---|---|
| `NegotiationRules` | the pure decisions of `negotiation.go`, shared by both roles |
| `NegotiationContract` | abstract: what one side promises. Each negotiation makes legal transitions only, and the agreements follow them |
| `ProviderNegotiation` | the provider role, against any consumer |
| `ConsumerNegotiation` | the consumer role, against any provider |
| `Negotiation` | both roles (`P`, `C`) joined by the requests under way (`wire`) |
| `TransferRules` | the states and legality tables of `transfer.go`, and which role applies which |
| `TransferContract` | abstract: what one side of a transfer promises. Legal transitions only, and data set moving only by a transfer that is STARTED at that moment |
| `ProviderTransfer` | the provider role of a transfer, its agreements and its data endpoint, against any consumer |
| `ConsumerTransfer` | the consumer role, against any provider |
| `DataPull` | the pulls of one consumer transfer, byte by byte, and the stop of the process |
| `Exchange` | one connector as provider from the first message to the last byte: `ProviderNegotiation` (`N`) and `ProviderTransfer` (`T`) over one agreements table |
| `Credentials` | rosters, clocks, credentials and the attempts of a push |
| `ProviderNegotiationProofs`, `ConsumerNegotiationProofs`, `NegotiationProofs`, `ProviderTransferProofs`, `ConsumerTransferProofs`, `ExchangeProofs`, `DataPullProofs`, `CredentialsProofs` | theorems about the module of that name |
| `MC*` | instances for TLC |

### Provider role of a negotiation

`row[n]` is the row of `negotiations` with provider pid `n`; the offer id is reduced to
`matches`, whether it is the one advertised. `agreements` holds the rows of origin
`negotiated`. `expired` is the clock, as far as the configuration has a `validity_until`.
`handler[h]` is a request being served and `task[n]` the goroutines of a negotiation.

A handler is two steps: the read with the checks made on it (`handleReRequest`,
`handleVerification`, ...: `lookup` in each), and the write with the answer and the
goroutine it starts (`storeReRequest`, `storeVerified`, ...). The row may change between
the two; the write is conditional (`Holds`) as in `SetState`, and `SetRerequested` is
conditional on its own flag, as in the code. A goroutine is the stages `push`, `store` and,
for an agreement, `record`; `delayedTerminate` has `sleep` before them. Creation is one
step: a fresh UUID has no row to read. `failWrite`, `failStore` and `failTask` are failing
store calls, each with what the code does about it; `crash` keeps the tables and drops
everything else.

The consumer is unconstrained, and so is the outcome of a push, because the provider does
not look at it.

### Consumer role of a negotiation

Same shape, with three differences that matter. An agreement is inserted (`CreateAgreement`)
before the state is written (`storeAgreed`), in two calls. A reaction has a copy of the row
that may lack the provider's pid; `resolveProviderPID` re-reads the pid and nothing else.
And the result of a push matters once: `endPush` lets a verification go on to its state
write only if it was acknowledged. Any answer below 300 acknowledges it, also one to the url
that a push without a pid goes to. `answer` is history: which of the agreements that arrived
won the state write, and whether a verification was acknowledged; no action reads it.

What a message carries is reduced to what the code asks about it: the agreement's id and
dataset, and whether its terms are enforceable.

### Two connectors negotiating

`Negotiation` instantiates both roles and replaces "any message at any time" by messages
that were sent. A goroutine at its push may put its message on `wire` again and again, a
handler takes one off it, in any order, or never. The consumer's verification is
acknowledged only if the provider granted it. Both sides' faults and crashes are included.
A negotiation has one name on both sides, and the provider's agreement carries the dataset
of its row.

### Provider role of a transfer

`agreement[a]` is a row of the `agreements` table by id, `row[t]` one of
`transfer_processes` by provider pid, `closed` the datasets whose `validity_until` has
passed. The three writers of agreements are `importAgreement` and, for both roles of a
negotiation, `concludeAgreement`; an insert that meets its id fails (`CreateAgreement`).

`handleTransferRequest` is one step: the agreement it reads never changes, and a fresh row
has nobody to race with. The four transition messages are one pair of steps, as they are
one function in the code (`applyTransition`): `lookup` reads and judges, `setTransferState`
writes conditionally. `driver[t]` is the `driveTransfer` goroutine with its own copy of the
state (`at`) and the steps left; it sleeps and pushes between its read and its write, and
`resolveTransferSequence` gives it whatever was configured, legal or not. The data endpoint
is judged in two steps, first the transfer (`handleData`) and then the agreement and the
window (`openSource`), and streams until `copyUnderRollingDeadline` ends, without looking
at the transfer again. A push's result is not modelled because the code discards it.

### Consumer role of a transfer

Same shape. What differs: the pid of the provider is learnt from the answer to the request
(`onTransferRequestAcknowledged`), which nothing orders before the provider's first message;
every transition that reaches the policy's state releases another driver
(`maybeDriveConsumerTransfer`), so a transfer has `Slots` for several at a time; and a
granted start with an address sets off a pull, here only its being there (`pulling`). A
driver started from a copy without a pid ends silently (`known`).

### Pulling data

One transfer. `pull[g]` is a start message being handled and then its goroutine, `pulling`
the transfer's entry in the map of running pulls, `partial` the partial file, `row` the
columns a pull reads and writes, `mode` the life of the process. A byte is a position in a
version of the provider's file; the provider replaces its file when it likes, so any answer
may be about any version, and state its length or none. `lookup` and `start` are the two
halves of the start message: the pull works with the expected length of the copy of the row
the message was read with (`known`), not with the row. `begin` is the guard and the size of
the partial file; `refuse` is every exit that leaves the disk alone; `answerFresh`,
`answerResumed` and `answerUnsatisfiable` are the answers (200, 206, 416) with what each
does to the row and the file; `copy`, `cutoff` and `finish` are the body; `record` and
`release` the outcome and the guard. `shutdown`, `cancelPulls`, `drainPulls` and `exit` are
the stop as `run` performs it. `trust` and `lost` are history: they say which answers stated
a length and were judged by the one on record, and whether the last change on disk reached
the row; `owed` which pulls a stop of the process has still to wait for: every one set off
before the drain reported, until it has recorded its outcome or was dropped at the guard. No
action reads them. A start handled after the drain reported finds a cancelled context and a
process about to exit, so its pull is refused before it touches the disk, and is not owed.

### From negotiation to bytes

`Exchange` joins the provider's two halves where the code joins them, in the agreements
table and in the window of a dataset. The transfer half is instantiated unchanged with
`agreement` computed from the rows the negotiation half inserted and the imports, so a step
of the negotiation half must look to the transfer half like a writer it allows for:
`TransferHalf` says exactly that, and carries everything proved of `ProviderTransfer` over.

### Credentials

Real time, and a clock per participant off by an `offset`. `boot` is the start of a process
up to the version check; it may end right after the version is stored. A push is a sequence
of attempts, each with its own roster check (`attemptPush`) and its own credential (`Mint`);
the verifier judges its roster first and then the credential (`requireParticipant`,
`Verify`). `issue` and `present` are a participant that does not run this code: it writes any
dates into a credential and presents it at any time. `minus` is the 64-bit difference that
`Verify` forms of two dates a counterparty chose.

## The runs

| run | shows | instance |
|---|---|---|
| `provider` | `TypeOK`, `InFlightIsLegal`, `StartsOnce`, `AgreementMatchesNegotiation`, `OnlyOfferedContracts`; refines `NegotiationContract` (`KeepsContract`) | one negotiation, two concurrent requests, two issuers, a plain, an expiring, a terminate-on-verify and an unadvertised dataset; faults |
| `provider_live` | `EveryDecisionLands`, `AgreedIsRecorded` | the same, without faults and symmetry |
| `provider_walkaway` | `WalkAwayTerminates` does not hold: see below | the same |
| `consumer` | `TypeOK`, `InFlightIsLegal`, `ReactsOnce`, `VerifiedWasAskedFor`; refines `NegotiationContract` | one negotiation, two concurrent pushes, two agreement ids, three datasets with every policy between them; faults |
| `consumer_live` | `EveryReactionLands` | the same with one agreement id, without faults and symmetry |
| `negotiation` | `VerifiedByBoth`, `SameEnd`, `AgreementsWereMade` | one negotiation, one request at a time on each side, three datasets; faults and crashes on both sides |
| `provider_transfer` | `TypeOK`, `InFlightIsLegal`, `GateHolds`, `StartedByProvider`; refines `TransferContract` (`KeepsContract`) | one transfer, two agreements, one of them with a sequence that ends in an illegal step, two requests at once, two participants, a dataset that is not configured and one that closes; faults |
| `consumer_transfer` | `TypeOK`, `InFlightIsLegal`; refines `TransferContract` | one transfer, two messages and two drivers at once, a policy for each trigger and an agreement without one; faults |
| `data_pull` | `TypeOK`, `PartialIsPrefix`, `CountIsTrue`, `CompletedIsWhole`, `DrainIsComplete`, `GuardIsFreed` | two starts at once, a file of two bytes and one of four, a ceiling of two; failing writes, stops, kills |
| `data_pull_resume` | `ResumptionIsToldApart` does not hold: see below | the same, without fairness |
| `credentials` | `TypeOK`, `RevokedStaysOut`, `SpanIsBounded`, `HonestIsHeard`, `SilentOnceExpired` | two connectors up to two units apart, a roster and its successor that drops one of them, two attempts, dates at both ends of the integers |
| `exchange` | `BytesWereNegotiated`, `TransferHalf`, `EveryStartLands`, `OverMeansQuiet` | one negotiation, one import, one transfer, one request at a time in each half, an expiring dataset, a negotiating participant and one that does not |

Bounds. Negotiations share nothing but the agreements table, whose ids differ between
negotiations of one provider; one negotiation has all the races of one row, and the proofs
remove the bound. Two handlers are what a conditional write needs to lose; a third one only
repeats the second. In `negotiation` one handler on each side suffices for messages to
overtake each other, since they may wait on the wire; the races within one side are those
of the other two runs, and `NegotiationProofs` removes this bound as well. Nothing is counted, so no state constraint is needed: retries are not
numbered, and each goroutine of a negotiation exists at most once (`StartsOnce`).

Transfers are as independent of each other as negotiations, and the proofs remove that bound
too, with the numbers of requests, drivers and pulls. Two agreements are needed in
`provider_transfer` for a sequence of an agreement's own and one of its dataset's. In
`data_pull` two versions are what a splice needs, one as long as the ceiling and one past
it, and two starts what the guard needs to refuse one. In `credentials` the integers wrap
at 16: far from the clocks, and near enough for a date to reach. `MaxTime`, the one bound
on time, covers both rosters' overlap, the first one's expiry and a whole schedule across it.

Deadlock is checked in all runs.

Fairness. Go schedules every runnable goroutine, each attempt of a push has a timeout and
there are five, a store call returns. So `FairSpec` has weak fairness for each handler and
each goroutine, and none for anything that depends on a counterparty or the operator: no
message need ever arrive and no push need succeed. Faults are left out of `FairSpec`: the
code resumes nothing after a crash and does not repeat a failed write, so nothing could be
promised (`callback.go`: "not a retry queue").

`ProviderTransfer`'s `Fairness`, assumed by `exchange`, is the same: a request in service
and a driver go on, since a push is bounded by its attempts and a stream by the file and
`data_idle_timeout`. `DataPull`'s `FairSpec` has weak fairness for the steps of each pull,
which the same timeout justifies (`idle_reader.go`); that it ends in the face of a stop is
not assumed but follows, because `refuse` and `cutoff` do not need an uncancelled context. There
the faults are in: a kill ends a pull, and a failing write does not keep it from ending.
`exchange` leaves failing writes and crashes out; for its safety properties they are
behaviours that stop, and for its liveness properties nothing is resumed after them.

The walk-away. `handleReRequest`'s comment (and DECISIONS.md section 23.9) says that a
re-request for another offer is a decision to walk away and ends the negotiation. The push
comes first and the state write is conditional on OFFERED; an ACCEPTED event served during
the push is granted, and the negotiation goes on to an agreement.

`SameEnd` excepts datasets with `on_idle: abandon`. There the exception is needed: the
termination of an abandoned request may reach the provider after it sent FINALIZED, and the
sides then end differently.

The resumption. `ConsumerTransfer.ExpectedBytes` is documented as "recorded on the first
attempt so a later one can tell a resumption from a different representation"
(`store.go:881-884`). The pull compares with the copy of the row its start message was read
with. A start that is read before an earlier pull has stored the length therefore resumes
that pull's partial file with length 0, takes a 206 about a longer file, and publishes bytes
of both as complete. `CompletedIsWhole` says when the comparison does protect: when every
answer stated a length and was judged by the one on record.

Other places where the code and what is said of it part, met while modelling and visible in
the modules, without a run of their own:

- `transfer_consumer_handler.go:273-281` calls a driver without a provider pid "unreachable
  through either trigger". Inbound messages are resolved by the consumer's pid, so a start
  may be served before `SetConsumerTransferProviderPID`; the policy it releases is dropped
  (`known` in `step`).
- `router.go` derives from `credentialTTL` how long a copied credential is good; with an
  issuer's clock ahead it is longer, and `SpanIsBounded` states the bound that does hold.
- A START is announced before STARTED is stored, so the consumer's request for the data may
  come too early, is answered 409, and is not tried again until the next start.
- Push first, conditional write later: the two sides of a transfer may end differently when
  both move it at once. Each side's walk is legal (`KeepsContract`), and that is all that is
  claimed.
- A start that arrives while a pull is ending is dropped, and a file replaced by one of the
  same size resumes into a mixture; both are accepted in DECISIONS.md section 31, and
  `Whole` asks for the length only.
- A download exactly one byte over `max_download_bytes`, and one that was complete but could
  not be placed, are continued behind their end, answered 416 and discarded.
- The gate of a transfer honours the agreement of a negotiation that was terminated later.
  The code asks for the agreement's row alone and nothing says that it should ask more, so no
  property forbids it: `BytesWereNegotiated` says "showed an agreement", not "stands".
- An earnest offer whose window closes before it is accepted is refused by `decideAccept`'s
  own second look. No property restates that guard; `OnlyOfferedContracts` is about the
  informational offers, which are withdrawn while they may be accepted.
- A roster document re-signed under the same version is accepted with other contents;
  `RosterAssumption` names the discipline that excludes it.

## The proofs

`ProviderNegotiationProofs` proves, for any sets of negotiations, requests, issuers and
datasets and any configuration satisfying `ConfigAssumption`:

| theorem | statement |
|---|---|
| `TypeCorrect` | `Spec => []TypeOK` |
| `InFlight` | `Spec => []InFlightIsLegal` |
| `AgreementsMatch` | `Spec => []AgreementMatchesNegotiation` |
| `OffersOnly` | `Spec => []OnlyOfferedContracts` |
| `GoroutinesStartOnce` | `Spec => []StartsOnce` |
| `ContractKept` | `Spec => KeepsContract`, the refinement |
| `DecisionsAreInFlight` | `FairSpec => []DecisionsPending`, what `EveryDecisionLands` and `AgreedIsRecorded` rest on |

The inductive invariant is `IInv`: the types, `InFlightIsLegal`, `AgreementMatchesNegotiation`
and `OffersAreTracked`. None of the safety properties is inductive alone. What a conditional
write may do depends on what the goroutine holds, hence `InFlightIsLegal`: the row is never
behind the state a copy was read in, and what a goroutine wants to write is a legal successor
of its copy. `RowStep` derives from it that any step leaves a row alone, creates it, or takes
it one legal transition further; everything else about a row's history follows from that one
lemma. `OffersAreTracked` adds what is known of the dataset once an offer or an agreement is
in flight, which is what `OnlyOfferedContracts` needs: an informational offer exists only for
a dataset that has already expired, and expiry is for ever.

`DecisionsPending` is the safety half of this role's liveness, in the runs without failures
that the liveness is claimed for: a row in a state it is to leave has a goroutine at work
whose copy of the row is still current, so the write that is ahead of it will match; and an
agreement that is announced is in the table or about to be. It is preserved because a row
leaves a state only by the write of the goroutine that was at work on the state before, or by
a message, and either starts the goroutine the new state needs in the same step (`StorePending`,
`StagePending`); any other goroutine that still holds the old state is not the one awaited.

`ConsumerNegotiationProofs` proves, for any sets of negotiations, requests, counterparties,
datasets and agreement ids and any policies satisfying `PolicyAssumption`:

| theorem | statement |
|---|---|
| `TypeCorrect` | `Spec => []TypeOK` |
| `InFlight` | `Spec => []InFlightIsLegal` |
| `ReactedOnce` | `Spec => []ReactsOnce` |
| `VerifiedAsked` | `Spec => []VerifiedWasAskedFor` |
| `ContractKept` | `Spec => KeepsContract`, the refinement |
| `ReactionsAreInFlight` | `FairSpec => []ReactionsPending`, what `EveryReactionLands` rests on |

The argument has the same shape. `Steps` lists the eight kinds of steps and each has one
lemma for its effect (`CreatedRow`, `LooksEffect`, `WritesEffect`, `RunEffect`, `RunRows`);
`RowStep` says that a step creates a row or advances every row, where advancing keeps the
dataset, the party and a known pid. `IInv` adds `AgreementsAreTracked` to the properties: a
request that is about to store AGREED has an agreement of its negotiation in the table, of
the dataset asked for unless it knows better, and a verification that was decided on has
behind it the agreement that won the state write, and an acknowledgement by the time it is to
be stored. `VerifiedWasAskedFor` is that at the moment of the write, and `ReactsOnce` follows from `InFlightIsLegal` alone: a reaction in
flight puts the row past the state the write would have to find. `TypeOK` is proved with
`InFlightIsLegal`, not before it, because the stages of a goroutine are typed only as long as
its action belongs to them.

`ReactionsPending` says the same of the consumer's reactions: a message whose write finds the
row where it was read starts the reaction to the state it stores in the same step
(`WritesPending`), and the goroutine that starts with the negotiation stays to abandon it
while it is REQUESTED; a goroutine that ends has stored its reaction, or its row has moved on
(`RunPending`).

`NegotiationProofs` proves, for any sets of negotiations, of requests served at once on
either side and of datasets, and any configurations satisfying `ConfigAssumption` and
`PolicyAssumption`, which are what the two halves assume of theirs:

| theorem | statement |
|---|---|
| `Halves` | `Spec => PP!Spec /\ CC!Spec`: either side behaves as its own module says |
| `VerifiedTogether` | `Spec => []VerifiedByBoth` |
| `EndedAlike` | `Spec => []SameEnd` |
| `AgreementsMade` | `Spec => []AgreementsWereMade` |

`PP` and `CC` are the proof modules of the two roles, instantiated like the roles
themselves; `ProviderOperations` and `ConsumerOperations` say that the operations are the
same, so that every lemma proved of a role can be cited. `Halves` is not immediate: a
message carries the dataset of the sender's row, and that this is one the receiver's module
allows for needs the sender's invariant. The invariant of the pair is `Inv`: both roles'
`IInv` and `CrossInv`, which in one sentence says that what a side has heard the other has
said. It has a part per direction: `ProviderHeard` and `ConsumerHeard` follow a message from
the goroutine that pushes it over the wire to the handler that has read it, the row it
stored and the goroutine that started, and each claims of all of these what the sender's
goroutine still shows. `ProviderTracked` and `ConsumerTracked` are what a side must know of
itself for that to mean something, such as that a side which announced a refusal has not
gone on to an agreement. The step proofs use the same few lemmas per role, stated with the
role (`Moves`, `ChecksPassed`, `NothingServedAnew`, `NothingCreated`, `AgreementsGain`): what
a step of that role may do to one goroutine, one request being served and one row. No
message is ever taken back, so each part of `CrossInv` is either kept by both sides' steps or
established by the receipt that made it interesting (`NothingUnsaid`). `VerifiedByBoth`
then follows because the consumer stores VERIFIED only on an acknowledgement, and only a
granted verification is acknowledged; `SameEnd` because a termination was announced by
somebody, and whoever announced one has not also finalized, except a consumer that
abandons.

`ProviderTransferProofs` proves, for any sets of transfers, agreements, participants,
datasets and requests and any configured sequences:

| theorem | statement |
|---|---|
| `TypeCorrect` | `Spec => []TypeOK` |
| `InFlight` | `Spec => []InFlightIsLegal` |
| `GateKept` | `Spec => []GateHolds` |
| `ProviderStarts` | `Spec => []StartedByProvider` |
| `ContractKept` | `Spec => KeepsContract`, the refinement of `TransferContract` |
| `StartsAreInFlight` | `NoFaultSpec => []StartsPending`, what `EveryStartLands` rests on |
| `OverDrains` | `Spec => [][\A t \in Transfers : Drains(t)]_vars`, what `OverMeansQuiet` rests on |

`IInv` holds the parts of `InFlightIsLegal` per driver and per request (`DriverLegal`,
`HandlerLegal`), the types, the gate and `StartedByProvider`. Types need legality, because
`pushTransferStep` takes the head of a sequence. `SetEffect` is the one lemma about the
conditional write, `RowStep` the one about rows: a step keeps every row but for its state,
which moves within `Past`. `GateHolds` follows with `AgreementKept`. `StartedByProvider` is
the argument the two legality tables are for: a driver never returns to REQUESTED
(`NeverBack`), a row comes to a running state by its driver or from another running state
(`RunsOnce`), and data only from STARTED (`CarriesOn`).

`StartsPending` is that a transfer waits in REQUESTED for a configured start only while its
driver has the start ahead of it on a copy that agrees with the row. The row cannot have moved
under the driver, because no message is legal from REQUESTED but a termination, which leaves
it (`WaitedBefore`, `StartPendingStep`). `Drains` is about every step, failures and restarts
included: a transfer that has ended or whose window has closed stays so, and the requests
that stream it, or have passed the first check and may yet pass the second, only grow fewer.
An admitted request of an expired dataset is not among them, because `openSource` looks at
the window again.

`ConsumerTransferProofs` proves `TypeCorrect`, `InFlight` and `ContractKept` for any sets of
transfers, agreements, providers, requests and drivers per transfer and any policies. Its
`Sound` and `Checked` are about one driver and one message as values, so that `SoundKept`
and `CheckedKept` can say that standing still keeps them, and `DriverMove` that a step
changes one driver to a sound one, none, or clears them all.

`ExchangeProofs` proves, for any sets of negotiations, transfers, imports and requests, any
participants and any configuration satisfying `IdAssumption`, `ConfigAssumption` and
`SequenceAssumption`:

| theorem | statement |
|---|---|
| `TransfersAreTransfers` | `Spec => TransferHalf`, the refinement of `ProviderTransfer` |
| `BytesNegotiated` | `Spec => []BytesWereNegotiated` |
| `StartsStayInFlight` | `Spec => []TT!StartsPending`, what its `EveryStartLands` rests on |
| `StreamsDrain` | `Spec => [][\A t \in Transfers : TT!Drains(t)]_(TT!vars)`, what its `OverMeansQuiet` rests on |

`GivenAgreements` carries the invariant of the negotiation half over (`NInv`), with what the
history variable records. The refinement mapping is the table a transfer reads, `Table`,
computed from the rows negotiated and imported: `RowNegotiated` and `RowImported` say that a
row more on one side is one entry more in it, which needs that ids are unique
(`AgreementMatchesNegotiation`) and those of the two origins distinct; `NegotiationsSeen`
and `ImportSeen` then make each step of the rest one of `ProviderTransfer` or none, and none
of its failures, so the two theorems about liveness carry over as well.
`BytesNegotiated` combines the invariants of both halves: a stream belongs to a transfer
that exists, it stands under an agreement with its party (`GateHolds`), that agreement is a
row whose negotiation showed it as issued and made no informational offer (`OfferTracked`),
and a negotiated row always names a party, so nobody else is meant by it.

`DataPullProofs` proves, for any number of starts at a time, any versions of any length and
any ceiling:

| theorem | statement |
|---|---|
| `TypeCorrect` | `Spec => []TypeOK` |
| `PrefixKept` | `Spec => []PartialIsPrefix` |
| `CountKept` | `Spec => []CountIsTrue` |
| `CompletedKept` | `Spec => []CompletedIsWhole` |
| `DrainKept` | `Spec => []DrainIsComplete` |

Everything rests on `GuardHolds`: one pull at most is past the guard, and holds the entry.
`Measured` then says that what that pull believes of the size of the partial file is true,
`Judged` and `JudgedPartial` that what it copies and what is on disk have the length on
record. `Alone` reduces a step of the active pull to that pull; `QuietStep` and `BusyStep`
are the two ways a step treats the row's count, which `CountedWhenQuiet` keeps also during a
pull that ends after a successful drain. `OwedIsUnderWay` is what a drain waits for: a pull
that is owed is counted, from before its goroutine runs to after its outcome is recorded.
`DiskAtRest` adds that a pull set off later, under the cancelled context, only gets refused.

`CredentialsProofs` proves, for any participants, rosters, offsets, lifetimes and dates that
satisfy the three assumptions: `TypeCorrect` (`TypeOK`), `ReplacedRostersStayOut`
(`RevokedStaysOut`), `CredentialsAreShort` (`SpanIsBounded`), `HonestAttemptsAreHeard`
(`HonestIsHeard`) and `ExpiredFallSilent` (`SilentOnceExpired`). The inductive invariant adds that
rosters only rise with the version remembered, that an attempt on the wire is no older than
its timeout, and that a credential was admitted for the last time within the span its first
admission allows.

All of them cover crashes and failing store calls, as far as the modules have them, except
the three `...InFlight` theorems about decisions, reactions and starts: nothing resumes a
goroutine after a crash, so what they say is true only while nothing fails.

Only model-checked: the liveness properties themselves (fairness and `ENABLED` are beyond the
prover). What is proved is the safety each of them rests on: that in every state to be left
something is at work that leaves it, or that what is to end only shrinks. What TLC adds is
that the work goes on under the fairness assumed. `Negotiation`
and `Exchange` have no type invariant of their own: their variables are those of the halves,
whose types the halves' runs check, and which `Halves`, `GivenAgreements` and
`TransfersAreTransfers` carry over.

## Not modelled

- Two connectors transferring: the two roles of a transfer are checked against any
  counterparty, not joined by a wire. What only the joint system shows, such as a request
  for data that comes before STARTED is stored, is listed as a hazard without a property.
- The bytes a range selects on the provider's side; `DataPull` takes an answer as what it
  claims to be.
- The catalog, JSON shapes and wording, constraint parsing, address validation and name
  resolution, HTTP routing, error documents, keys and did:web, the listings of the
  management listener, schema migration, and the tools: pure functions and I/O without
  protocol state. Of the configuration the modules take the values the protocol reads, with
  what its validation guarantees as assumptions.
- Signatures and document encodings: a credential is its claims, a roster its version,
  expiry and participants. The negotiation and transfer modules take authentication at its
  result, a verified issuer that is compared with the row's counterparty.
- Possible next step: the composition of the two roles of a transfer with `DataPull` between
  them.
