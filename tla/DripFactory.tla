---------------------------- MODULE DripFactory ----------------------------
(***************************************************************************)
(* The factory of contracts/factory, composed with the governor whose      *)
(* parameters it reads live: it pulls a deposit, deploys a stream, funds   *)
(* and registers it, one at a time or in a batch; whoever the governor     *)
(* address belongs to halts creation and upgrades the stream code, and     *)
(* each of those calls extends a few registry entries' time to live.       *)
(*                                                                         *)
(* A failing call is rolled back, also when it fails half way through a    *)
(* batch, and is a stuttering step.  The streams' later life is DripStream *)
(* and shows here only as tokens that move (Transfer).                     *)
(***************************************************************************)
EXTENDS Integers, Sequences, FiniteSets, StreamTerms

CONSTANTS
    Factory,            \* the factory's own address
    StreamAt,           \* id -> address derived from the salt sha256(id)
    GovernorAt,         \* addresses that answer config()
    Requests,           \* what create_stream is called with
    Batches,            \* the sequences create_batch_streams is called with
    Transfers,          \* amounts that move outside the factory
    Wasm, Uploaded,     \* code hashes, and those with code behind them
    MaxBatchSize,       \* MAX_BATCH_SIZE
    WalkLimit,          \* BATCH_LIMIT of the time-to-live walker
    InitialFunds,       \* balances before anything happens
    U32Max,             \* largest offset or limit of a page
    FallbackFee,        \* protocol_fee_bps without a governor: 30
    MaxTime,            \* bound: the last ledger time considered
    MaxStreams,         \* bound: streams ever created
    \* the governor's
    Authority, Bps, Seconds, Rates, FeeLimit,
    DefaultFee, DefaultMin, DefaultMax, DefaultRate

Request == [recipient : Holder, deposit : -I128Max .. I128Max,
            rate : -I128Max .. I128Max, start : 0 .. U64Max, end : 0 .. U64Max]

ASSUME FactoryAddressAssumption ==
    /\ Account \subseteq Holder /\ GovernorAt \subseteq Holder
    /\ Factory \in Holder \ Account
    /\ StreamAt \in [0 .. MaxStreams - 1 -> Holder \ (Account \cup {Factory})]
    /\ \A i, j \in 0 .. MaxStreams - 1 : StreamAt[i] = StreamAt[j] => i = j
ASSUME FactoryInputAssumption ==
    /\ Requests \subseteq Request /\ Batches \subseteq Seq(Request)
    /\ Transfers \subseteq 1 .. I128Max
    /\ Uploaded \subseteq Wasm
    /\ InitialFunds \in [Holder -> 0 .. I128Max]
ASSUME FactoryBoundAssumption ==
    /\ MaxStreams \in Nat /\ MaxStreams <= U64Max
    /\ U32Max \in Nat /\ MaxStreams <= U32Max     \* a Vec's length is a u32
    /\ MaxBatchSize \in Nat \ {0} /\ WalkLimit \in Nat \ {0}
    /\ U64Max \in Nat /\ MaxTime \in 0 .. U64Max

VARIABLES
    now,            \* ledger timestamp
    bal,            \* the token's balances
    settings,       \* StreamWasmHash, GovernorAddress, Paused; <<>> before
    registry,       \* StreamCount, StreamAddr, BySender, ByRecipient
    deployed,       \* address -> what initialize() of that stream got
    cursor,         \* LastBumpedId
    unvisited,      \* history: id -> walks since its entry was last extended
    governing,      \* the governor contract is initialized
    roles, config   \* its grants and parameters

governorVars == <<governing, roles, config>>
registryVars == <<bal, registry, deployed>>
vars == <<now, registryVars, settings, cursor, unvisited, governorVars>>

Governor == INSTANCE DripGovernor WITH
    Address <- Authority, Account <- Authority, initialized <- governing

ASSUME GovernorAssumption == Governor!ParameterAssumption

Ids == 0 .. registry.count - 1

TypeOK ==
    /\ now \in 0 .. MaxTime
    /\ bal \in [Holder -> 0 .. I128Max]
    /\ settings # <<>> => settings \in [wasm : Wasm, governor : Holder, paused : BOOLEAN]
    /\ registry.count \in 0 .. MaxStreams
    /\ registry.addr \in [Ids -> Holder]
    /\ registry.bySender \in [Holder -> Seq(Ids)]
    /\ registry.byRecipient \in [Holder -> Seq(Ids)]
    /\ \A a \in DOMAIN deployed : deployed[a] \in Order
    /\ cursor \in 0 .. MaxStreams /\ unvisited \in [Ids -> Nat]
    /\ Governor!TypeOK

-----------------------------------------------------------------------------
(* Creating one stream, as a function of a book of what the call changes,  *)
(* so that a batch can run it on the result of the request before.         *)

Book == [bal |-> bal, registry |-> registry, deployed |-> deployed]

Initialized == settings # <<>>
GovernorAnswers == settings.governor \in GovernorAt /\ governing
CanSign(address) == address \in Account

(* Fault: creation does not look at the halt.                              *)
Halted_Ignored == FALSE
Halted == settings.paused                                   \* ContractPaused

(* Fault: only the first second is funded.                                 *)
FundsTerm_OneSecond(r) == r.deposit >= r.rate

(* A bounded stream is funded for its whole term; the product is checked.  *)
FundsTerm(r) ==
    r.end > 0 => LET required == r.rate * (r.end - r.start) IN
        /\ required <= I128Max                              \* ArithmeticOverflow
        /\ r.deposit >= required                            \* InsufficientDeposit

(* The conditions that do not depend on what earlier requests did.         *)
ValidRequest(r) ==
    /\ r.deposit > 0                                        \* InvalidDeposit
    /\ r.rate > 0                                           \* InvalidRate
    /\ r.deposit >= r.rate                                  \* InsufficientDeposit
    /\ r.end > 0 => r.end > r.start                         \* InvalidTimeRange
    /\ r.start >= now                                       \* BackdatedStream
    /\ FundsTerm(r)

(* enforce_bounds on the governor's parameters of this moment.             *)
WithinBounds(r) ==
    /\ r.rate <= config.maxRate                             \* RateExceedsMax
    /\ r.end > 0 => r.end - r.start \in config.minDuration .. config.maxDuration
                                \* DurationTooShort, DurationExceedsMax

OrderFor(sender, r, clawback) ==
    [sender |-> sender, recipient |-> r.recipient, rate |-> r.rate,
     start |-> r.start, end |-> r.end, clawback |-> clawback]

(* Fault: the recipient's index is not extended.                           *)
IndexedForRecipient_Not(index, recipient, id) == index
IndexedForRecipient(index, recipient, id) ==
    [index EXCEPT ![recipient] = Append(@, id)]

(* Fault: the two parties are mixed up when the stream is indexed.         *)
Registered_Swapped(reg, sender, recipient, address) ==
    LET id == reg.count IN
    [count |-> id + 1,
     addr |-> [i \in 0 .. id |-> IF i = id THEN address ELSE reg.addr[i]],
     bySender |-> [reg.bySender EXCEPT ![recipient] = Append(@, id)],
     byRecipient |-> IndexedForRecipient(reg.byRecipient, sender, id)]

Registered(reg, sender, recipient, address) ==
    LET id == reg.count IN
    [count |-> id + 1,
     addr |-> [i \in 0 .. id |-> IF i = id THEN address ELSE reg.addr[i]],
     bySender |-> [reg.bySender EXCEPT ![sender] = Append(@, id)],
     byRecipient |-> IndexedForRecipient(reg.byRecipient, recipient, id)]

Pulled(book, sender, r) == Move(book.bal, sender, Factory, r.deposit)

CanDeploy(book, order) ==
    /\ settings.wasm \in Uploaded
    /\ StreamAt[book.registry.count] \notin DOMAIN book.deployed
    /\ ValidOrder(order)

(* Fault: a batch checks the sender's funds once, before the first deposit *)
(* is pulled.                                                              *)
CanPull_Upfront(book, sender, r) == r.deposit <= bal[sender]
CanPull(book, sender, r) == CanMove(book.bal, sender, Factory, r.deposit)

CanCreate(book, sender, r, clawback) ==
    /\ CanSign(sender)
    /\ Initialized                                          \* NotInitialized
    /\ ~Halted
    /\ ValidRequest(r)
    /\ GovernorAnswers                                      \* GovernorNotResponding
    /\ WithinBounds(r)
    /\ CanPull(book, sender, r)
    /\ book.registry.count < MaxStreams
    /\ CanDeploy(book, OrderFor(sender, r, clawback))
    /\ CanMove(Pulled(book, sender, r), Factory,
               StreamAt[book.registry.count], r.deposit)

Created(book, sender, r, clawback) ==
    LET address == StreamAt[book.registry.count] IN
    [bal |-> Move(Pulled(book, sender, r), Factory, address, r.deposit),
     registry |-> Registered(book.registry, sender, r.recipient, address),
     deployed |-> [a \in DOMAIN book.deployed \cup {address} |->
                     IF a = address THEN OrderFor(sender, r, clawback)
                     ELSE book.deployed[a]]]

(* The book after each request of a batch.                                 *)
BookAfter(sender, requests, clawback) ==
    LET after[n \in 0 .. Len(requests)] ==
            IF n = 0 THEN Book
            ELSE Created(after[n - 1], sender, requests[n], clawback)
    IN  after

-----------------------------------------------------------------------------
(* The walker over the registry: the ids after the cursor, wrapping around *)
(* the number of streams of this moment.                                   *)
Visited == {(cursor + 1 + i) % registry.count : i \in 0 .. WalkLimit - 1}

(* Fault: the cursor remembers where to go on instead of where it was.     *)
LastVisited_Next == (cursor + WalkLimit + 1) % registry.count
LastVisited == (cursor + WalkLimit) % registry.count

(* bump_persistent_bucket.                                                 *)
Walk ==
    IF registry.count = 0 THEN UNCHANGED <<cursor, unvisited>>
    ELSE /\ cursor' = LastVisited
         /\ unvisited' = [id \in Ids |->
                            IF id \in Visited THEN 0 ELSE unvisited[id] + 1]

-----------------------------------------------------------------------------
(* The read-only entry points.                                             *)

(* The governor's fee, or the default when it cannot be read.              *)
FeeFallsBack == ~(Initialized /\ GovernorAnswers)
ProtocolFeeBps == IF FeeFallsBack THEN FallbackFee ELSE config.feeBps

(* Fault: the sum of offset and limit wraps around.                        *)
PageEnd_Wrapping(offset, limit) == (offset + limit) % (U32Max + 1)
PageEnd(offset, limit) ==
    IF offset + limit > U32Max THEN U32Max ELSE offset + limit

Page(index, offset, limit) ==
    LET end == PageEnd(offset, limit) IN
    SubSeq(index, offset + 1, IF end < Len(index) THEN end ELSE Len(index))

-----------------------------------------------------------------------------
Init ==
    /\ now = 0
    /\ bal = InitialFunds
    /\ settings = <<>>
    /\ registry = [count |-> 0, addr |-> <<>>,
                   bySender |-> [a \in Holder |-> <<>>],
                   byRecipient |-> [a \in Holder |-> <<>>]]
    /\ deployed = <<>>
    /\ cursor = 0
    /\ unvisited = <<>>
    /\ Governor!Init

Initialize(wasm, governor) ==
    /\ ~Initialized                                         \* AlreadyInitialized
    /\ settings' = [wasm |-> wasm, governor |-> governor, paused |-> FALSE]
    /\ UNCHANGED <<now, registryVars, cursor, unvisited, governorVars>>

(* Every request is checked against what the ones before it left behind;   *)
(* if one fails, the whole call is undone.                                 *)
CreateAll(sender, requests, clawback) ==
    LET after == BookAfter(sender, requests, clawback)
        last == after[Len(requests)]
    IN  /\ \A n \in 1 .. Len(requests) :
              CanCreate(after[n - 1], sender, requests[n], clawback)
        /\ bal' = last.bal
        /\ registry' = last.registry
        /\ deployed' = last.deployed
        /\ unvisited' = [id \in 0 .. last.registry.count - 1 |->
                           IF id \in Ids THEN unvisited[id] ELSE 0]
        /\ UNCHANGED <<now, settings, cursor, governorVars>>

CreateStream(sender, request, clawback) ==
    CreateAll(sender, <<request>>, clawback)

CreateBatchStreams(sender, requests, clawback) ==
    /\ requests # <<>>                                      \* EmptyBatch
    /\ Len(requests) <= MaxBatchSize                        \* BatchTooLarge
    /\ CreateAll(sender, requests, clawback)

(* upgrade_stream_wasm, pause and unpause need the governor address's      *)
(* signature and drive the walker.                                         *)
UpgradeStreamWasm(wasm) ==
    /\ Initialized                                          \* NotInitialized
    /\ CanSign(settings.governor)
    /\ Walk
    /\ settings' = [settings EXCEPT !.wasm = wasm]
    /\ UNCHANGED <<now, registryVars, governorVars>>

SetPaused(paused) ==
    /\ Initialized                                          \* NotInitialized
    /\ CanSign(settings.governor)
    /\ settings.paused # paused                             \* AlreadyPaused, NotPaused
    /\ Walk
    /\ settings' = [settings EXCEPT !.paused = paused]
    /\ UNCHANGED <<now, registryVars, governorVars>>

Pause == SetPaused(TRUE)
Unpause == SetPaused(FALSE)

(* Environment: the governor's own operations, tokens that streams pay out *)
(* or users pay each other, and time.                                      *)
GovernorStep ==
    /\ Governor!Next
    /\ UNCHANGED <<now, registryVars, settings, cursor, unvisited>>

Transfer(from, to, amount) ==
    /\ CanMove(bal, from, to, amount)
    /\ bal' = Move(bal, from, to, amount)
    /\ UNCHANGED <<now, registry, deployed, settings, cursor, unvisited, governorVars>>

Tick ==
    /\ now' \in (now + 1) .. MaxTime
    /\ UNCHANGED <<registryVars, settings, cursor, unvisited, governorVars>>

(* What the factory and the governor do when they are called.              *)
Calls ==
    \/ \E wasm \in Wasm, governor \in Holder : Initialize(wasm, governor)
    \/ \E sender \in Account, r \in Requests, clawback \in BOOLEAN :
          CreateStream(sender, r, clawback)
    \/ \E sender \in Account, requests \in Batches, clawback \in BOOLEAN :
          CreateBatchStreams(sender, requests, clawback)
    \/ \E wasm \in Wasm : UpgradeStreamWasm(wasm)
    \/ Pause
    \/ Unpause
    \/ GovernorStep

Next ==
    \/ Calls
    \/ \E from, to \in Holder \ {Factory}, amount \in Transfers :
          Transfer(from, to, amount)
    \/ Tick

Spec == Init /\ [][Next]_vars

-----------------------------------------------------------------------------
(* A stream enters the world funded for its whole term, or for a second    *)
(* when it is open-ended, not backdated and well-formed, whatever other    *)
(* requests its batch holds and whatever the governor has just changed.    *)
(* Nothing of the deposit stays with the factory.                          *)
CreatedFunded ==
    [][ /\ \A a \in DOMAIN deployed' \ DOMAIN deployed :
              LET o == deployed'[a]
                  term == IF o.end > 0 THEN o.end - o.start ELSE 1
              IN  /\ term > 0 /\ o.start >= now
                  /\ bal'[a] >= o.rate * term
        /\ bal'[Factory] = bal[Factory] ]_vars

Increasing(s) == \A i, j \in 1 .. Len(s) : i < j => s[i] < s[j]

Holds(index, ids) == Increasing(index) /\ {index[i] : i \in 1 .. Len(index)} = ids

(* The registry tells the truth: ids are dense, each stands for one        *)
(* deployed stream, and each address finds exactly the streams created by  *)
(* it and for it, each once and in order of creation.                      *)
RegistryExact ==
    /\ DOMAIN registry.addr = Ids
    /\ DOMAIN deployed = {registry.addr[id] : id \in Ids}
    /\ \A i, j \in Ids : registry.addr[i] = registry.addr[j] => i = j
    /\ \A a \in Holder :
          /\ Holds(registry.bySender[a],
                   {id \in Ids : deployed[registry.addr[id]].sender = a})
          /\ Holds(registry.byRecipient[a],
                   {id \in Ids : deployed[registry.addr[id]].recipient = a})

(* The walker neglects no entry: however creations fall between its calls, *)
(* no id waits for more calls than it takes to walk the registry once.     *)
NoEntryNeglected == \A id \in Ids : unvisited[id] * WalkLimit < registry.count

(* Each page of an index holds exactly the entries from offset to offset   *)
(* plus limit, at every offset and limit a caller can name.                *)
PagesExact ==
    \A a \in Holder : \A offset, limit \in 0 .. U32Max :
        LET all == registry.bySender[a]
            page == Page(all, offset, limit)
        IN  \A i \in 1 .. Len(all) :
              IF i \in offset + 1 .. offset + limit
              THEN i - offset <= Len(page) /\ page[i - offset] = all[i]
              ELSE i - offset \notin 1 .. Len(page)

(* Request by request, with deposits pulled and contracts deployed between *)
(* them, the factory keeps a log of streams that each call extends by all  *)
(* it asks for or by nothing, that never loses or re-points an entry, and  *)
(* that a halt closes.                                                     *)
TermsAsked(r) == [recipient |-> r.recipient, rate |-> r.rate,
                  start |-> r.start, end |-> r.end]

Logged(address) ==
    [at |-> address, sender |-> deployed[address].sender,
     terms |-> TermsAsked(deployed[address]), clawback |-> deployed[address].clawback]

AskedInOneCall ==
    {[i \in 1 .. Len(q) |-> TermsAsked(q[i])] :
        q \in {<<r>> : r \in Requests}
               \cup {b \in Batches : Len(b) \in 1 .. MaxBatchSize}}

Log == INSTANCE StreamLog WITH
    Sender <- Account, At <- StreamAt, Asked <- AskedInOneCall,
    log <- [i \in 1 .. registry.count |-> Logged(registry.addr[i - 1])],
    accepting <- Initialized /\ ~settings.paused

ImplementsLog == Log!LogSpec

-----------------------------------------------------------------------------
(* A claim of the repository that the code does not keep.                  *)

(* CHANGELOG: the governor can halt creation in an emergency.              *)
HaltAvailable ==
    Initialized /\ GovernorAnswers => CanSign(settings.governor)
=============================================================================
