# Conduit: a verification development

TLA+ models of the Conduit payment-streaming contracts (Soroban, Rust), the TLC
runs that check them on small instances and TLAPS proofs of what matters most
for every instance.

## 1. The system

A *stream* is a contract of its own. A sender escrows tokens in it and they
become the recipient's at a fixed rate per second, over a bounded term or
open-ended. A *factory* deploys, funds and registers streams. A *governor*
keeps the parameters the factory enforces and the roles that may change them.

| Component | State | Operations | Talks to |
|---|---|---|---|
| DripStream (`contracts/stream`) | one `StreamInfo` record (sender, recipient, rate, start, end, withdrawn, paused_at, flags), mirrored in legacy keys; event sequence | `initialize`, `withdraw`, `cancel`, `pause`, `resume`, `top_up`, `extend_duration`, `clawback`, `force_cancel`, `transfer_recipient`, views | token contract (balance, transfer), ledger clock |
| DripFactory (`contracts/factory`) | wasm hash, governor address, stream count, pause flag; registry `StreamAddr`, `BySender`, `ByRecipient`; TTL cursor | `initialize`, `create_stream`, `create_batch_streams`, `pause`, `unpause`, `upgrade_stream_wasm`, paginated queries, `protocol_fee_bps` | governor (`config`), token, deployer |
| DripGovernor (`contracts/governor`) | role grants, admin count, fee, durations, top rate | `initialize`, `grant_role`, `revoke_role`, `transfer_authority`, five setters, `config` | read by the factory |
| TTL walker (`factory/src/ttl.rs`) | cursor `LastBumpedId` | extends eight registry entries per call | ledger storage |
| Yield rebate (`stream/src/yield_integration.rs`) | none | rebate arithmetic, no caller in the contract | - |
| Batch transfer processor (`src/batch_transfer_processor.rs`) | lock flag | sums up to 100 amounts | - |
| TWAP oracle (`src/oracle.rs`), `signature.rs` | - | not compiled into any crate | - |
| Scripts, CI, docs, tests | - | deployment, upgrade, query wrappers | all contracts |

**What makes it hard.** The host runs one invocation at a time and rolls a
failing one back completely, so there are no interleavings *inside* an
operation. The difficulty is in long sequences of legal calls by parties with
opposed interests, with ledger time passing between any two of them:

- the release arithmetic reads `now`, `start`, `end`, `paused_at` and
  `withdrawn`, and `pause`, `resume`, `extend_duration` each rewrite some of
  them, so an error accumulates over rounds;
- a failure *blocks*: an arithmetic error or a failing transfer in the common
  arithmetic makes `withdraw`, `cancel`, `clawback` and `force_cancel` fail
  together, and the escrow is stuck until somebody can repair the state;
- the escrow is only a token balance: anybody can add to it, `clawback` takes
  out of it without changing the terms, and `top_up` does not change the terms
  either, so terms and cover can drift apart;
- funding is checked once, by the factory, and has to last through everything
  that happens to the stream afterwards; the factory is never told about it;
- a stream's record is stored under one key and mirrored under others, and
  streams of an older contract have only the others;
- the governor guards its last admin by a counter kept beside the grants, and
  two setters check a product of which each stores one factor.

**What makes each component correct.** Stream: the recipient is never paid more
than the rate allows, never loses what it earned, can always be settled with,
and a stream funded for its term stays funded. Factory: a registered stream
exists and is funded for its term, ids are dense, a batch is all or nothing.
Governor: the counter is exact, governance never freezes, parameters fit.
Walker: every registry entry is visited again and again. Storage: what is read
is what was last meant, in every layout.

`PROJECT.json` lists the hazards at their lines with the properties for them.

## 2. Modules

| Module | Stands for |
|---|---|
| `TokenLedger` | the external token: when `transfer` succeeds and what it does |
| `StreamTerms` | a stream's record, the arguments of `initialize` and which it accepts |
| `DripStream` | the stream contract, one action per entry point, and the clock |
| `StreamProperties` | the stream's invariants, action properties and refinement |
| `StreamMeter` | what an open-ended stream promises, without timestamps |
| `StreamStorage` | the two storage layouts of a stream's record, and `initialize` as a call |
| `DripGovernor` | the governor contract and its properties |
| `Governance` | what the governor promises: sets of holders, no counter |
| `DripFactory` | the factory, its registry and walker, composed with `DripGovernor` |
| `StreamLog` | what the factory promises: a log of streams that is only appended to |
| `DripProtocol` | factory and governor together with the life of one stream they create |
| `YieldRebate` | the rebate arithmetic and a caller that accrues period by period |
| `BatchTransferProcessor` | the batch processor's checked sum and what its calls store in the lock |
| `DripStreamProofs` | types and payments of the stream |
| `StreamStepProofs` | what a step of the stream may never do |
| `StreamMeterProofs` | pauses, settlements and the meter refinement; what a funded stream keeps |
| `StreamStorageProofs` | the storage layouts |
| `HelperProofs` | the rebate arithmetic and the batch processor |
| `DripGovernorProofs` | the governor's invariants and its refinement of `Governance` |
| `DripFactoryProofs` | batches, registry, pages, walker, types and the log of the factory |
| `DripProtocolProofs` | the composition: what creation guarantees lasts |
| `MCDripStream`, `MCDripGovernor`, `MCDripFactory`, `MCDripProtocol`, `MCStreamStorage`, `MCHelpers` | finite instances |

`DripStream` extends `StreamTerms`, which extends `TokenLedger`; the factory
builds on the same two, so that what it deploys is what a stream starts from,
and instantiates `DripGovernor` as its environment. `DripProtocol` extends the
factory and instantiates the stream.

### DripStream

`info` is the stored `StreamInfo`, with the flags unpacked to `paused`,
`clawback` and `cancelled` and the token left implicit. `bal` is the token's
balance function; `bal[Self]` is the escrow. `eventSeq` is
`DataKey::EventSequence`. `now` is the ledger timestamp. `paid` is a history
variable: everything ever transferred to whoever is the recipient, by
`withdraw` and by settlement; nothing reads it but properties.

- A call that returns `Err` or traps is rolled back, so it is a stuttering
  step. Each early return, each `checked_` operation, each plain `+` or `-`
  (the release profile sets `overflow-checks = true`) and each transfer that can
  fail is a conjunct of the action's guard; the comment on it names the error.
- `require_auth` is `CanSign`: any account may sign, the contract's own
  address never does (the contract makes no calls as itself but the transfers).
- `Init` is the state a successful `initialize` leaves, at time `Genesis`.
  `initialize` does not check for backdating or funding (the factory does, but
  streams may be deployed directly), so both occur.
- A stream's sender is an account that can sign. `initialize` accepts any
  address; a sender that never signs is one that never calls, and the
  properties do not rely on a call of the sender. The sender that is the stream
  itself, which a direct deployment could name, is left out.
- `cancel` and `force_cancel` repeat the same settlement text; it is one
  operator, `Settle`, with the two transfers in order.
- `Deposit` is a plain token transfer to the contract by anyone; this is also
  how the factory funds a stream. `Tick` moves the clock to any later time.
- Numbers: `U64Max` and `I128Max` are constants, and every operation that can
  exceed them is guarded, so TLC reaches the overflows with small values.

A definition named `X_Fault` (for example `EffectiveNow_NoClamp`) is `X` after a
plausible slip of the code. No specification uses it; replacing `X` by it must
break the property it is paired with in `PROJECT.json`, which shows that the
property depends on the code being right.

### StreamMeter and the refinement

`StreamMeter` is a taxi meter: a clock that runs or is frozen, a price per
second, an escrow, and what was drawn. `StreamProperties!Meter` maps an
open-ended stream to it: the meter's clock is
`(IF paused THEN pausedAt ELSE now) - start`. The run `meter` checks that every
step of the contract is a meter step or a stutter: a pause earns nothing, a
`resume` leaves the clock where the pause stopped it, `clawback` leaves exactly
what is due. Bounded streams do not implement the meter (finding 1), and a
stream handed to its own address keeps the share it pays to itself, so the
run uses open-ended orders and signing recipients.

### DripGovernor

`roles` is the set of role keys that exist together with `AdminCount`;
`config` holds the parameters. `role::grant` and `role::revoke` are the
operators `Granted`, `CanRevoke` and `Revoked` on that record, so
`transfer_authority` composes them as the code does: the revocation sees the
effect of the grant. The factory address is written once and never read, and is
left out. Roles and fees go to any `Address`; callers are the `Account`s among
them, those that can sign. `initialize`, `grant_role` and `transfer_authority` do
not ask the new holder for a signature, so the last admin can be an address that
never signs, and then nothing can be changed any more.

`Governance` is what these operations amount to: for each role the set of its
holders, and the rules that a step may take the last holder of any role but the
admin's, that nobody is granted anything without an admin that can sign, that
such an admin can hand over in one step even when it is the only one, and that
fees and limits change each by itself, the former only while a fee manager can
sign, the latter only while a rate manager can. `DripGovernor!Promise` maps the grants to those sets and forgets the
counter, so the refinement fails when the counter lets through what the sets
would not.

### DripFactory

`settings` holds the wasm hash, the governor address and the pause flag;
`registry` the stream count, `StreamAddr` and the two indices; `deployed` maps
an address to the arguments the stream there was initialized with; `cursor` is
`LastBumpedId`. `unvisited` is a history variable: how many walks have passed
since an entry's time to live was last extended.

- `create_stream` is a function `Created` on a *book* of what it changes, with
  the guard `CanCreate`; `create_batch_streams` runs it on the book each request
  left behind (`BookAfter`), and one failing request disables the whole step.
- `config()` is answered at the addresses in `GovernorAt`, once the governor is
  initialized; its parameters are the variables of `DripGovernor`, which
  takes its own steps (`GovernorStep`) between calls.
- `StreamAt` is the address derived from an id; deploying needs code behind
  the hash (`Uploaded`), an unused address and a successful `initialize`.
- `pause`, `unpause` and `upgrade_stream_wasm` each include `Walk`, the whole
  of `bump_persistent_bucket`.
- The life of a stream after creation is `DripStream`. In this module it is
  `Transfer`: tokens move between any addresses but the factory's.
- `StreamLog` is the factory without books: a sequence of entries (address,
  sender, terms, clawback), extended by whole calls while it is open. `Log` maps
  the registry, in order of ids, and what was deployed behind each address to
  that sequence, and `Initialized /\ ~paused` to it being open. A batch that
  registered part of what it was asked for, in another order or for another
  sender, an entry that changed later, or a creation during a halt would not be
  a step of the log.
- One token stands for all: each stream uses one, and creation touches no other.
- A batch calls `require_auth` for the same sender once per request; the model
  assumes the host accepts that, as the code does.

### DripProtocol

One id, `Watched`, is followed. Its stream is an instance of `DripStream` that
shares the clock `now` and the token `bal` with the factory; `info`, `eventSeq`
and `paid` are its own state and mean something once its address is deployed.

- `FactoryCall` is any call of the factory or the governor. If it deploys the
  watched stream, `Birth` runs the stream's `initialize` in the same step, as
  `deploy_stream` does, also in the middle of a batch.
- `StreamCall` is any operation of the stream: the same `Operation` that
  `DripStream` is checked for. `OtherTransfer` is everybody else's tokens, which
  includes what other streams pay, and direct deposits to this one.
- `Watched` is a constant without a further assumption, so what is proved of it
  holds for every stream the factory ever creates. Two streams never call each
  other; they meet only in the token, which `OtherTransfer` covers.

`OpenNext` in `DripStream` is the stream as it looks from inside this
composition: its own operations, time, and any change of the balances that takes
nothing out of it (`Elsewhere`).

### StreamStorage

`store` is the instance storage, from keys to values; `written` is a history
variable with the record as the last writer meant it. `Init` is an empty
contract, or any layout an older contract can have left: individual keys only,
those with a default possibly missing, the clawback and cancelled flags in
dedicated keys. `Recipient`, `Token`, `RatePerSecond`, `StartTime` and `EndTime`
are written and read together and are one key, `Terms`. Each operation stores
what its handler stores, through `save` or `save_withdrawn`; `cancel` and
`force_cancel` store twice, from two loads. That `load()` returns `written`
(`ReadsBack`) is what allows `DripStream` to keep one variable, `info`.

### YieldRebate and BatchTransferProcessor

Neither has a caller in the repository. `Rebate` is `calculate_rebate_with_params`
with its three errors in `CanRebate`; `Accrue` is the caller its documentation
describes, which asks for the "time elapsed since last calculation". The mock
`calculate_rebate` is one fixed call of it.
`ProcessBatch` is one invocation of `process_batch`. `Call` has, for each way out,
the values stored at `B_Lock` (set before the checks, cleared where the call
returns) and the result; `LockAfter` is what remains of the stores once the
invocation is over, the last of them after a success and none after an error,
which the host undoes. So the clear at the end of the successful path is the one
that counts: it is what the next call finds. The clears before an error return
change nothing that lasts. The two calculators share nothing and are checked side
by side.

## 3. Runs

| Run | Instance | Shows |
|---|---|---|
| `stream` | alice pays bob; rates 0-2, starts 0 and 2, ends 0-4 (malformed ones included, which `initialize` rejects), clawback on and off, escrow 2 or 6; genesis 1, last time 5; threshold 2; four operations; `I128Max` 9, `U64Max` 7 | all safety properties of the stream |
| `meter` | the open-ended orders, five operations | `ImplementsMeter` |
| `governor` | two accounts, symmetric, and an address that cannot sign; two or three values per parameter | the governor's properties and `ImplementsGovernance` |
| `factory` | two senders with 3 and 2 tokens, up to three streams, well-formed and malformed requests, batches of nought to three with `MaxBatchSize` 2, walks of 2; one manager, who moves each bound; code present and missing | registry, pages, walker, funding at creation, `ImplementsLog` |
| `protocol` | two streams created in one batch, the second followed: over-funded, funded exactly, short of its term (rejected) or open-ended; top-ups, extensions, direct deposits, a new recipient; three operations, last time 4, threshold 1 | what creation guarantees lasts, what was earned stays; the liveness of the escape hatch |
| `storage` | two senders, two sets of terms, every subset of missing keys | the record that is read is the one that was stored |
| `helpers` | rates and principals below, at and above each limit, three periods with denominator 7; batches of up to four amounts with a limit of three and a largest u64 of 6 | rounding, overflow, and that no call locks out the next |

Four operations (five for `meter`) with arbitrary times in between reach
every pattern the properties are about: pause, resume, pause again, settle;
withdraw, claw back, extend, settle; extend after the end; two recipients.
`I128Max` 9 lies below rate x time at the end of a fast stream (10) and below
alice's balance after a full refund (10), so both overflows occur; `U64Max` 7
lies below the shifted end of a long stream. Time runs from before the start
to after the end plus the threshold. In `protocol` the whole supply is five
tokens and `I128Max` is 5, so that rate x time overflows once a shifted term is
lost. Deadlock checking is off where a run ends
because time, sequence numbers, periods or ids are used up (the bounds `MaxTime`,
`SeqMax`, `MaxPeriods`, `MaxStreams`), which is not a state of the real system.
It is off in `governor` because that contract really can stop, when the only
admin is an address that cannot sign.

**Properties of the stream.** `StreamInv` contains `NeverOverpaid` and the
parts that make it inductive. `ClaimNeverShrinks` says that no step takes back
what the recipient could obtain if the stream were settled now.
`FundingKept` says that without clawback the gap between the escrow and the
rest of the term never widens. `SolventIsPayable` says that without a gap the
arithmetic never promises more than the escrow. `SettlementBlockedOnlyByEarlyPause`
and `ResumeUnblocks` delimit when settlement can fail. `SettledForGood` and
`SettlementDrains` say that settlement is final and complete.
`PauseFreezesUntilEnd` says exactly how far a pause freezes the streamed total,
and `ChangesAreSequenced` is what a consumer of events relies on.

**Properties of the factory.** `CreatedFunded`: every stream of every batch is
born with what its term costs. `RegistryExact` says that ids are dense and that
each index holds exactly the streams created by, or for, an address.
`PagesExact` compares the paginated view with its definition at every offset and
limit. `NoEntryNeglected` bounds how long any entry waits, however the registry
grows between walks: no entry waits for more walks than one round takes.

**Properties of the composition.** `StaysFunded`: a bounded stream without
clawback that the factory created covers the rest of its term until it is
settled, whatever is withdrawn, paused, resumed, extended or created beside it.
`ArithmeticHolds`: its release arithmetic does not overflow, because the product
the factory checked bounds it ever after. `SettlesInFull`: whoever settles it,
and whenever, the recipient then has all that was streamed and nothing is left.
`EarnedForLife` is `ClaimNeverShrinks` for every stream the factory creates, with
all that happens beside it. `IndexNamesSender` relates the registry to the live
stream: its sender never changes, so `streams_by_sender` stays true where
`streams_by_recipient` does not (finding 4).

**Refinements.** `ImplementsMeter`, `ImplementsGovernance` and `ImplementsLog` show
that each contract is, step by step, one of the three short specifications above.

In `factory` the governor address can sign, as a contract account with the
governor's interface could, so that halts and creations mix; the governor of
this repository cannot sign (finding 3). In `protocol` it cannot.

**Fairness.** `FairProtocolSpec` assumes that ledgers keep closing (`TimePasses`)
and that a recipient for whom `force_cancel` stays possible eventually calls it.
Nothing is assumed of the sender, the factory or anybody else. `PauseIsEscapable`
holds for a pause that began at or after the start and whose threshold lies
within the time bound. It promises that each pause ends, not that a sender cannot
pause again: every pause restarts the clock of thirty days.

### What the code does not keep

Each of these is a run that ends in a counterexample.

1. `claim_pause_freezes`: `math.rs` tests the end before the pause. A bounded
   stream that stays paused past its end counts as fully streamed; resuming
   takes it back. README: "pause freezes the clock".
2. `claim_escape_hatch`: a stream paused before its start makes
   `paused_at - start_time` underflow once the start has passed. All
   settlement, `force_cancel` included, fails until the sender resumes; for an
   open-ended stream nothing else helps.
3. `claim_halt`: the factory asks the address it reads `config()` from to sign
   `pause`, `unpause` and `upgrade_stream_wasm`. `DripGovernor` has no
   `__check_auth` and never calls the factory, so with it nobody can halt or
   upgrade; an account as the governor can, but then creation fails. The
   instance is `factory` with the governor address unable to sign. The tests
   mock all authorizations.
4. `claim_index`: `transfer_recipient` does not reach the factory, so
   `streams_by_recipient` goes on listing the stream for its former recipient
   and never lists it for the new one.
5. `claim_initialized_once`: `initialize` looks for the consolidated key only,
   which a stream of an older contract does not have until its first store.

Smaller observations, without a run of their own: `withdrawable()` is not capped
by the balance, so an open-ended stream that has outrun its escrow reports more
than it can pay; a recipient that is the stream itself leaves its share in the
cancelled contract (`SettlementDrains` and `SettlesInFull` exclude it);
the governor checks its top rate against the shortest duration only; its last
admin can be an address that cannot sign, which freezes it all the same; its
longest duration binds creation only, since `extend_duration` knows no governor
(`ArithmeticHolds` shows that the arithmetic survives it); a bounded stream paused
before its start whose end is so late that `resume` overflows cannot be settled
before that end.

## 4. Proofs

All theorems hold for every value of the constants that satisfies the named
assumptions: addresses, times and inputs have their machine types (`AddressAssumption`,
`TimeAssumption`, `InputAssumption`, `I128MaxAssumption`), an id's address is
nobody else's (`FactoryAddressAssumption`), the factory's and the governor's
parameters are of their types (`FactoryInputAssumption`, `GovernorAssumption`),
and an index never holds more entries than a `u32` counts
(`FactoryBoundAssumption`).

| Theorem | Property | Module |
|---|---|---|
| `TypeCorrect` | `TypeOK` | `DripStreamProofs` |
| `PaymentsBounded` | `StreamInv`, with `NeverOverpaid` | `DripStreamProofs` |
| `SolventStreamsPay` | `SolventIsPayable` | `DripStreamProofs` |
| `FundingNeverEroded` | `FundingKept` | `StreamStepProofs` |
| `SettlementFinal` | `SettledForGood` | `StreamStepProofs` |
| `EarnedIsKept` | `ClaimNeverShrinks` | `StreamStepProofs` |
| `EventsComplete` | `ChangesAreSequenced` | `StreamStepProofs` |
| `SettlementAvailable` | `SettlementBlockedOnlyByEarlyPause` | `StreamStepProofs` |
| `PausesFreeze` | `PauseFreezesUntilEnd` | `StreamMeterProofs` |
| `SettlementsDrain` | `SettlementDrains` | `StreamMeterProofs` |
| `ResumesUnblock` | `ResumeUnblocks` | `StreamMeterProofs` |
| `OpenStreamsAreMeters` | `ImplementsMeter` | `StreamMeterProofs` |
| `GovernorTyped`, `CounterExact`, `AdminRemains`, `HandoverSucceeds`, `PrincipalRepresentable` | the governor's five invariants | `DripGovernorProofs` |
| `GovernanceKept` | `ImplementsGovernance` | `DripGovernorProofs` |
| `FactoryTyped` | `TypeOK` | `DripFactoryProofs` |
| `RegistryTrue` | `RegistryExact` | `DripFactoryProofs` |
| `StreamsBornFunded` | `CreatedFunded` | `DripFactoryProofs` |
| `PagesTrue` | `PagesExact` | `DripFactoryProofs` |
| `NobodyNeglected` | `NoEntryNeglected` | `DripFactoryProofs` |
| `LogKept` | `ImplementsLog` | `DripFactoryProofs` |
| `ProtocolTyped` | `ProtocolTypeOK` | `DripProtocolProofs` |
| `FundedForLife` | `StaysFunded` | `DripProtocolProofs` |
| `ArithmeticSafe` | `ArithmeticHolds` | `DripProtocolProofs` |
| `SettledInFull` | `SettlesInFull` | `DripProtocolProofs` |
| `SenderIndexTrue` | `IndexNamesSender` | `DripProtocolProofs` |
| `EarnedStays` | `EarnedForLife` | `DripProtocolProofs` |
| `FactoryUndisturbed` | `RegistryExact`, `PagesExact`, `NoEntryNeglected` and `ImplementsLog`, of the whole protocol | `DripProtocolProofs` |
| `StorageReadsBack`, `MirrorsFollow`, `ConsolidatedForGood` | `ReadsBack`, `MirrorsAgree`, `BegunForGood` | `StreamStorageProofs` |
| `RebatesNeverAhead`, `RebatesLoseLittle` | `NeverAhead`, `LosesLessThanAUnit` | `HelperProofs` |
| `BatchesExact` | `OutcomeExact` | `HelperProofs` |

**Payments.** `StreamedWithin` shows that `streamed_amount` never
exceeds `Entitlement`, the rate times the term of a bounded stream or times the
unpaused time of an open-ended one. This needs that a pause does not lie in
the future and that the end lies after the start, which is why both are parts of
`StreamInv`. `paid <= Entitlement` alone is not inductive: a withdrawal adds
`Owed`, which is computed from `withdrawn`, so the invariant also says that
`paid` equals `withdrawn` until settlement. Each operation then either pays
nobody and does not lower the entitlement (`QuietInv`), or pays at most what
is owed.

**Steps.** The action properties follow from `TypeOK` and `StreamInv` in both
states of a step. For `EarnedIsKept`, `ClaimFollows` reduces the claim to what is
paid, owed and escrowed, `OwedGrows` shows that time and resuming do not lower
what is owed, and `ClaimStep` has one case per operation. `SettlementAvailable`
needs `RangeConsistent`: it is why `initialize` must reject an end before the
start. `OpenStreamsAreMeters` assumes `OnlyOpenOrders` (no end, and nobody names
the stream as recipient at the start or later) and has one case per operation
over `MeterShows`, which reads the streamed total off the meter's clock.

**Governor.** The inductive invariant `RolesInv` adds that the
admins are finitely many and that nobody holds a role before `initialize`;
`GrantCounts` and `RevokeCounts` are the two facts about the role operators
that every case rests on. `PromiseSteps` shows that each operation is a
step of `Governance`: `GrantHolds` and `RevokeHolds` say what the operators do to
the sets of holders, and `CounterGuards` that a counter above one means that
another admin remains, which is where the exact counter is needed.

**Factory.** A batch is a recursive function over its requests. `BatchUnfolds`
opens one step of it, and what holds after a batch of any length is proved by the
least counterexample (`LeastElement`): if some request left a book that is not
`Grown`, the first one that did has a `Grown` predecessor, and `KeepsGrowing`
shows that one creation keeps it. `Grown` says that the registry is exact, that
the factory keeps nothing, that no stream lost tokens, and that every new stream
is `WellBorn`.
The walker's invariant `WalkInv` is stronger than `NoEntryNeglected`: walks since
the last visit, times the limit, plus the ids that come before it in the ring
(`Lag`), stay below the count. A creation lengthens the ring by as much as the
right side grows (`GrowthKeepsWalk`); a walk adds the limit on the left and takes
it from the lag of whoever it does not reach (`WalkKeepsWalk`). The governor's
invariant is not proved again: `DripFactoryProofs` instantiates `DripGovernorProofs`.
For `LogKept`, `BatchPlaces` shows that after n requests exactly the first n of
them are deployed at the ids that follow the old count, again by the least
counterexample; with `Grown`, which keeps the old entries, `BatchLogs` reads this
as a concatenation, and `LogSteps` has one case per operation.

**Composition.** `ProtocolInv` is the factory's invariant together with, once the
watched stream exists, the stream's own and "guaranteed streams have no funding
gap". A step of the protocol is, for the stream, one of its operations or
`Elsewhere` (`StreamSide`), so the lemmas about a stream among others apply
(`OpenTyped`, `OpenInv`, `FundingStep`); it is, for the factory, one of its own
steps or a change of balances (`FactorySide`); and a newborn stream satisfies
its invariant because creation left it `WellBorn` (`BirthSide`). `FundedSettles`
and `FundedComputes` turn the missing gap into `SettlesInFull` and
`ArithmeticHolds`, `ClaimStep` gives `EarnedForLife`. That the stream's sender is
the one it was deployed for is a conjunct of the invariant, on which
`SenderIndexTrue` rests. `CreatedFunded` is not among what `FactoryUndisturbed` lifts:
a stream may name the factory as recipient and pay it.

**Storage.** `StepsSave` shows that every operation ends in one `save` of the
record that was meant, the double store of `cancel` included; `SavedReadsBack`
that a saved record is read back, and `OldLayoutReads` that every old layout is.

**Helpers.** `RunningIsSum` shows, by the least counterexample, that the checked
sum of `process_batch` is the plain sum until that leaves the u64 range, and an
overflow from there on: the amounts are not negative, so a partial sum that is
too large never comes back. `BatchInv` adds that the stored lock is clear between
calls, which rests on what each way out stores last and on the rollback.

Only model-checked: `PauseIsEscapable` (liveness under fairness is beyond the
prover). Every other property of a passing run is stated by a theorem.

## 5. Not modelled

- The token's own rules beyond balances: trustlines, freezing, minting,
  authorization lists. A payee that cannot receive for such a reason blocks a
  settlement; the model's transfers fail on balances only.
- Time to live. `extend_ttl` cannot be observed by a contract and archival is the
  ledger's; `docs/architecture.md` admits that an idle stream can expire.
  Which registry entries the walker extends, and how often, is modelled.
- Event payloads, and the factory's and governor's events, which carry no
  sequence number.
- `deposit_to_vault`, `withdraw_from_vault` and `calculate_rebate`: they publish
  events and pass literals.
- `contracts/factory/src/signature.rs`, which no crate declares as a module.
- `src/oracle.rs`: not compiled, and not compilable; two versions of
  `get_twap_price` and of `calculate_fiat_stream_payout` run into each other in
  the text, so there is no one behaviour to model.
- Scripts and tests; the tests were read as documentation.
- Whether the host accepts `require_auth` of one sender several times in one
  invocation, which a batch depends on; the model assumes that it does.
- A whole population of running streams: one is followed, the others are
  transfers. That is enough for properties of one stream, and there are no
  promises that relate two.
