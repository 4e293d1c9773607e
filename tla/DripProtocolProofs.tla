------------------------- MODULE DripProtocolProofs -------------------------
(* What the factory guarantees a stream holds for the stream's whole life, *)
(* whatever happens beside it, for all values of the constants: the proofs *)
(* about the factory and about a stream among others, put together.        *)
EXTENDS DripProtocol, DripFactoryProofs

(* What StreamMeterProofs proves of a stream among others.                 *)
SP == INSTANCE StreamMeterProofs WITH
    Self <- StreamAt[Watched], Orders <- Order,
    InitialBalances <- [Holder -> 0 .. I128Max], Genesis <- 0

LEMMA Assumptions ==
    /\ SP!AddressAssumption /\ SP!TimeAssumption /\ SP!InputAssumption
    /\ SP!I128MaxAssumption /\ Self \in Holder \ (Account \cup {Factory})
    /\ Account \subseteq Holder /\ Factory \in Holder
<1>1. Watched \in 0 .. MaxStreams - 1
    BY WatchedAssumption
<1>2. SP!AddressAssumption
    BY <1>1, FactoryAddressAssumption, WatchedAssumption DEF SP!AddressAssumption
<1>3. SP!TimeAssumption
    BY FactoryBoundAssumption, WatchedAssumption DEF SP!TimeAssumption
<1>4. SP!InputAssumption
    BY FactoryInputAssumption, WatchedAssumption
    DEF SP!InputAssumption, SP!Order, Order
<1>5. SP!I128MaxAssumption
    BY I128MaxAssumption DEF SP!I128MaxAssumption
<1> QED BY <1>1, <1>2, <1>3, <1>4, <1>5, FactoryAddressAssumption DEF Self

(* DripProtocol's instance of the stream and this one are the same stream. *)
LEMMA SameStream ==
    /\ Stream!TypeOK <=> SP!TypeOK
    /\ Stream!FundingGap = SP!FundingGap
    /\ Stream!Streamed = SP!Streamed
    /\ Stream!StreamedOk <=> SP!StreamedOk
    /\ Stream!Claim = SP!Claim
    /\ Stream!LapsedPause <=> SP!LapsedPause
<1> QED BY DEF Stream!TypeOK, SP!TypeOK, Stream!StreamInfo, SP!StreamInfo,
               Stream!FundingGap, SP!FundingGap, Stream!Term, SP!Term,
               Stream!EffectiveNow, SP!EffectiveNow, Stream!Bounded, SP!Bounded,
               Stream!Streamed, SP!Streamed, Stream!StreamedOk, SP!StreamedOk,
               Stream!Claim, SP!Claim, Stream!SettledShare, SP!SettledShare,
               Stream!Owed, SP!Owed, Stream!Lesser, SP!Lesser,
               Stream!AtLeast0, SP!AtLeast0, Stream!LapsedPause, SP!LapsedPause

LEMMA SameOperations == Stream!Operation => SP!Operation
<1> QED BY DEF
           Stream!Operation, SP!Operation, Stream!Withdraw, SP!Withdraw,
           Stream!Cancel, SP!Cancel, Stream!ForceCancel, SP!ForceCancel,
           Stream!Pause, SP!Pause, Stream!Resume, SP!Resume, Stream!TopUp,
           SP!TopUp, Stream!ExtendDuration, SP!ExtendDuration,
           Stream!Clawback, SP!Clawback, Stream!TransferRecipient,
           SP!TransferRecipient, Stream!Live, SP!Live, Stream!NextEvent,
           SP!NextEvent, Stream!Settle, SP!Settle, Stream!CanSettle,
           SP!CanSettle, Stream!SettledShare, SP!SettledShare,
           Stream!SettledRefund, SP!SettledRefund, Stream!AfterShare,
           SP!AfterShare, Stream!PauseThresholdMet, SP!PauseThresholdMet,
           Stream!ResumedStart, SP!ResumedStart, Stream!ResumedEnd,
           SP!ResumedEnd, Stream!ClawbackAmount, SP!ClawbackAmount,
           Stream!Owed, SP!Owed, Stream!Lesser, SP!Lesser, Stream!AtLeast0,
           SP!AtLeast0, Stream!CanSign, SP!CanSign, Stream!CanMove,
           SP!CanMove, Stream!Move, SP!Move, Stream!EffectiveNow,
           SP!EffectiveNow, Stream!Bounded, SP!Bounded, Stream!Streamed,
           SP!Streamed, Stream!StreamedOk, SP!StreamedOk

-----------------------------------------------------------------------------
(* Each step, seen by the factory and seen by the watched stream.          *)

WatchedInv == /\ SP!TypeOK /\ SP!StreamInv
              /\ info.sender = deployed[Self].sender
              /\ Guaranteed => SP!FundingGap <= 0

ProtocolInv == FactoryInv /\ (Exists => WatchedInv)

LEMMA OperationOpens ==
    ASSUME Exists, SP!TypeOK, StreamCall
    PROVE  /\ [SP!OpenNext]_(SP!vars) /\ SP!TypeOK'
           /\ UNCHANGED <<registry, deployed, settings, cursor, unvisited, governorVars>>
<1>1. SP!Operation
    BY SameOperations DEF StreamCall
<1>2. [SP!OpenNext]_(SP!vars)
    BY <1>1 DEF SP!OpenNext
<1> QED BY <1>2, Assumptions, SP!OpenTyped DEF StreamCall

(* The registry, the walker, the settings and the governor keep their      *)
(* invariant whatever the stream does.                                     *)
LEMMA FactorySide == ProtocolInv /\ [ProtocolNext]_protocolVars => FactoryInv'
<1> SUFFICES ASSUME ProtocolInv, [ProtocolNext]_protocolVars PROVE FactoryInv'
    OBVIOUS
<1>1. CASE StreamCall
    <2>1. /\ SP!TypeOK'
          /\ UNCHANGED <<registry, deployed, settings, cursor, unvisited, governorVars>>
        BY <1>1, OperationOpens DEF StreamCall, ProtocolInv, WatchedInv
    <2>2. bal' \in [Holder -> 0 .. I128Max] /\ now' \in 0 .. MaxTime
        BY <2>1 DEF SP!TypeOK
    <2>3. RegistryInv'
        <3>1. BalancesOf(NextBook) /\ ExactRegistry(Book)
              /\ NextBook.registry = Book.registry /\ NextBook.deployed = Book.deployed
            BY <2>1, <2>2 DEF BalancesOf, NextBook, Book, ProtocolInv, FactoryInv, RegistryInv
        <3>2. ExactRegistry(NextBook)
            BY <3>1, SameRegistry
        <3> QED BY <3>1, <3>2
                DEF RegistryInv, BalancesOf, ExactRegistry, IdsOf, Book, NextBook
    <2>4. WalkInv'
        BY <2>1 DEF ProtocolInv, FactoryInv, WalkInv, Ids
    <2>5. SettingsInv'
        BY <2>1, <2>2 DEF ProtocolInv, FactoryInv, SettingsInv
    <2>6. GP!GovernorInv'
        BY <2>1, GovernorKept DEF ProtocolInv, FactoryInv
    <2> QED BY <2>3, <2>4, <2>5, <2>6 DEF FactoryInv
<1>2. CASE FactoryCall \/ OtherTransfer \/ TimePasses \/ UNCHANGED protocolVars
    <2>1. [Next]_vars
        BY <1>2 DEF FactoryCall, OtherTransfer, TimePasses, protocolVars, Next
    <2> QED BY <2>1, FactoryInvNext DEF ProtocolInv
<1> QED BY <1>1, <1>2 DEF ProtocolNext

(* Whatever the factory, the governor and everybody else do is a step      *)
(* elsewhere for a stream that exists.                                     *)
LEMMA StreamSide ==
    ASSUME ProtocolInv, [ProtocolNext]_protocolVars, Exists
    PROVE  /\ Exists' /\ [SP!OpenNext]_(SP!vars)
           /\ deployed'[Self] = deployed[Self]
<1>0. SP!TypeOK /\ RegistryInv
    BY DEF ProtocolInv, WatchedInv, FactoryInv
<1>1. CASE StreamCall
    BY <1>0, <1>1, OperationOpens DEF Exists
<1>2. CASE FactoryCall
    <2>1. Grown(NextBook) /\ NextBook.bal = bal' /\ NextBook.deployed = deployed'
        BY <1>0, <1>2, CallsGrow DEF FactoryCall, NextBook
    <2>2. /\ bal' \in [Holder -> 0 .. I128Max]
          /\ bal'[Self] >= bal[Self] /\ Self \in DOMAIN deployed'
          /\ deployed'[Self] = deployed[Self]
        BY <2>1, WatchedAssumption DEF Grown, BalancesOf, Self, Exists
    <2>3. now' = now
        BY <1>2 DEF FactoryCall, Calls, Initialize, CreateStream, CreateBatchStreams,
                    CreateAll, UpgradeStreamWasm, Pause, Unpause, SetPaused, GovernorStep
    <2>4. UNCHANGED streamVars
        BY <1>2 DEF FactoryCall, Birth, Exists
    <2> QED BY <2>2, <2>3, <2>4
            DEF SP!OpenNext, SP!Elsewhere, streamVars, Exists, Self
<1>3. CASE OtherTransfer
    <2>1. PICK from \in Holder \ {Factory, Self}, to \in Holder \ {Factory},
               amount \in Transfers : Transfer(from, to, amount)
        BY <1>3 DEF OtherTransfer
    <2>2. bal' \in [Holder -> 0 .. I128Max]
        BY <1>0, <2>1, TransferKeepsBalances DEF Transfer, RegistryInv
    <2>3. bal'[Self] >= bal[Self]
        <3>1. /\ bal' = Move(bal, from, to, amount) /\ DOMAIN bal = Holder
              /\ bal[Self] \in Int /\ Self \in Holder /\ amount \in Nat
            BY <1>0, <2>1, Assumptions, FactoryInputAssumption, I128MaxAssumption
            DEF Transfer, RegistryInv, BalancesOf, Book
        <3> QED BY <2>1, <3>1 DEF Move
    <2> QED BY <1>3, <2>1, <2>2, <2>3
            DEF OtherTransfer, Transfer, SP!OpenNext, SP!Elsewhere, streamVars, Exists, Self
<1>4. CASE TimePasses
    BY <1>4 DEF TimePasses, Tick, streamVars, registryVars, SP!OpenNext, SP!Tick, Exists, Self
<1>5. CASE UNCHANGED protocolVars
    BY <1>5 DEF protocolVars, vars, streamVars, registryVars, SP!vars, Exists, Self
<1> QED BY <1>1, <1>2, <1>3, <1>4, <1>5 DEF ProtocolNext

(* A stream is born with its escrow.                                       *)
LEMMA BirthSide ==
    ASSUME ProtocolInv, [ProtocolNext]_protocolVars, ~Exists, Exists'
    PROVE  WatchedInv'
<1>0. RegistryInv /\ now \in 0 .. MaxTime
    BY DEF ProtocolInv, FactoryInv, SettingsInv
<1>1. FactoryCall
    BY DEF ProtocolNext, StreamCall, OtherTransfer, Transfer, TimePasses, Tick,
           protocolVars, vars, registryVars, Exists, Self
<1>2. Grown(NextBook) /\ NextBook.bal = bal' /\ NextBook.deployed = deployed'
    BY <1>0, <1>1, CallsGrow DEF FactoryCall, NextBook
<1> DEFINE o == deployed'[Self]
<1>3. WellBorn(o, bal'[Self]) /\ bal' \in [Holder -> 0 .. I128Max]
    BY <1>2 DEF Grown, BalancesOf, Exists, Self
<1>4. now' = now
    BY <1>1 DEF FactoryCall, Calls, Initialize, CreateStream, CreateBatchStreams,
                CreateAll, UpgradeStreamWasm, Pause, Unpause, SetPaused, GovernorStep
<1>5. info' = NewStream(o) /\ eventSeq' = 0 /\ paid' = 0
    BY <1>1 DEF FactoryCall, Birth, Exists, Self
<1>6. /\ o \in Order /\ ValidOrder(o)
      /\ o.end > 0 => bal'[Self] >= o.rate * (o.end - o.start)
    BY <1>3 DEF WellBorn
<1> HIDE DEF o
<1>7. /\ o \in SP!Order /\ SP!ValidOrder(o) /\ info' = SP!NewStream(o)
    BY <1>5, <1>6 DEF Order, SP!Order, ValidOrder, SP!ValidOrder, NewStream, SP!NewStream
<1>8. /\ SP!TypeOK' /\ SP!StreamInv'
      /\ SP!Bounded' /\ bal'[Self] >= o.rate * (o.end - o.start) => SP!FundingGap' <= 0
    BY <1>0, <1>3, <1>4, <1>5, <1>7, Assumptions, SP!BornFunded DEF Self
<1>9. Guaranteed' => SP!FundingGap' <= 0
    <2>1. info'.end = o.end
        BY <1>5 DEF NewStream
    <2> QED BY <1>6, <1>8, <2>1 DEF Guaranteed, SP!Bounded
<1>10. info'.sender = deployed'[Self].sender
    BY <1>5 DEF NewStream, o
<1> QED BY <1>8, <1>9, <1>10 DEF WatchedInv, Self

(* A guaranteed stream was guaranteed before the step, or is newly born.   *)
LEMMA StaysGuaranteed ==
    ASSUME ProtocolInv, [ProtocolNext]_protocolVars, Exists, Guaranteed'
    PROVE  Guaranteed /\ SP!Bounded /\ ~info.clawback /\ ~info'.cancelled
<1>1. /\ info'.clawback = info.clawback /\ (SP!Bounded' <=> SP!Bounded)
      /\ info.cancelled => info'.cancelled
    BY StreamSide, Assumptions, SP!TermsKept DEF ProtocolInv, WatchedInv
<1> QED BY <1>1 DEF Guaranteed, SP!Bounded

LEMMA ProtocolInvInit == ProtocolInit => ProtocolInv
<1> SUFFICES ASSUME ProtocolInit PROVE ProtocolInv
    OBVIOUS
<1>1. FactoryInv
    BY FactoryInvInit DEF ProtocolInit
<1>2. ~Exists
    BY DEF ProtocolInit, Init, Exists
<1> QED BY <1>1, <1>2 DEF ProtocolInv

LEMMA ProtocolInvNext == ProtocolInv /\ [ProtocolNext]_protocolVars => ProtocolInv'
<1> SUFFICES ASSUME ProtocolInv, [ProtocolNext]_protocolVars, Exists' PROVE WatchedInv'
    BY FactorySide DEF ProtocolInv
<1>1. CASE ~Exists
    BY <1>1, BirthSide
<1>2. CASE Exists
    <2>1. SP!TypeOK /\ SP!StreamInv /\ [SP!OpenNext]_(SP!vars)
        BY <1>2, StreamSide DEF ProtocolInv, WatchedInv
    <2>2. SP!TypeOK' /\ SP!StreamInv'
        BY <2>1, Assumptions, SP!OpenTyped, SP!OpenInv
    <2>3. ASSUME Guaranteed' PROVE SP!FundingGap' <= 0
        <3>1. Guaranteed /\ SP!Bounded /\ ~info.clawback /\ ~info'.cancelled
            BY <1>2, <2>3, StaysGuaranteed
        <3>2. SP!FundingGap' <= SP!FundingGap /\ SP!FundingGap <= 0
            BY <1>2, <2>1, <3>1, Assumptions, SP!FundingStep DEF ProtocolInv, WatchedInv
        <3>3. SP!FundingGap \in Int /\ SP!FundingGap' \in Int
            BY <2>1, <2>2, Assumptions, I128MaxAssumption
            DEF SP!FundingGap, SP!Term, SP!TypeOK, SP!StreamInfo
        <3> QED BY <3>2, <3>3
    <2>4. info'.sender = deployed'[Self].sender
        <3>1. info'.sender = info.sender
            BY <2>1, Assumptions, SP!TermsKept
        <3>2. info.sender = deployed[Self].sender /\ deployed'[Self] = deployed[Self]
            BY <1>2, StreamSide DEF ProtocolInv, WatchedInv
        <3> QED BY <3>1, <3>2
    <2> QED BY <2>2, <2>3, <2>4 DEF WatchedInv, Self
<1> QED BY <1>1, <1>2

LEMMA ProtocolAlways == ProtocolSpec => []ProtocolInv
<1> QED BY ProtocolInvInit, ProtocolInvNext, PTL DEF ProtocolSpec

-----------------------------------------------------------------------------
(* Types of the factory, the governor and the stream inside the protocol.  *)
THEOREM ProtocolTyped == ProtocolSpec => []ProtocolTypeOK
<1>1. ProtocolInv => ProtocolTypeOK
    BY FactoryTypes, SameStream DEF ProtocolInv, WatchedInv, ProtocolTypeOK
<1> QED BY <1>1, ProtocolAlways, PTL

(* Every stream with an end and without clawback that the factory creates, *)
(* in whatever batch, holds what the rest of its term costs until it is    *)
(* settled.                                                                *)
THEOREM FundedForLife == ProtocolSpec => []StaysFunded
<1>1. ProtocolInv => StaysFunded
    BY SameStream DEF ProtocolInv, WatchedInv, StaysFunded, Guaranteed
<1> QED BY <1>1, ProtocolAlways, PTL

(* Every stream the factory creates is found under its sender, once, for   *)
(* as long as the ledger lasts.                                            *)
THEOREM SenderIndexTrue == ProtocolSpec => []IndexNamesSender
<1>1. ASSUME ProtocolInv, Exists PROVE IndexNamesSender
    <2> DEFINE a == info.sender
               mine == registry.bySender[a]
               ids == {id \in IdsOf(Book) : deployed[StreamAt[id]].sender = a}
    <2>1. /\ SP!TypeOK /\ a = deployed[Self].sender
          /\ ExactRegistry(Book) /\ Book.registry = registry /\ Book.deployed = deployed
        BY <1>1 DEF ProtocolInv, WatchedInv, FactoryInv, RegistryInv, Book
    <2>2. a \in Holder
        BY <2>1, Assumptions DEF SP!TypeOK, SP!StreamInfo
    <2>3. PICK id \in IdsOf(Book) : Self = StreamAt[id]
        BY <1>1, <2>1 DEF ExactRegistry, Exists
    <2>4. id \in 0 .. MaxStreams - 1
        BY <2>1, FactoryBoundAssumption DEF IdsOf, ExactRegistry
    <2>5. Watched = id
        BY <2>3, <2>4, WatchedAssumption, FactoryAddressAssumption DEF Self
    <2>6. Watched \in ids /\ ids \in SUBSET Nat
        BY <2>1, <2>3, <2>5, FactoryBoundAssumption DEF IdsOf, ExactRegistry
    <2>7. ExactIndex(mine, ids)
        BY <2>1, <2>2 DEF ExactRegistry
    <2> HIDE DEF mine, ids, a
    <2>8. PICK i \in 1 .. Len(mine) : mine[i] = Watched
        BY <2>6, <2>7 DEF ExactIndex
    <2>9. ASSUME NEW j \in 1 .. Len(mine), j # i PROVE mine[j] # Watched
        <3>1. mine \in Seq(ids) /\ Len(mine) \in Nat
            BY <2>7 DEF ExactIndex
        <3>2. mine[j] \in ids /\ mine[i] \in ids
            BY <3>1
        <3>3. mine[j] \in Nat /\ mine[i] \in Nat
            BY <2>6, <3>2
        <3>4. j \in Int /\ i \in Int /\ mine[j] \in Nat /\ mine[i] \in Nat
            BY <3>1, <3>3
        <3>5. mine[j] < mine[i] \/ mine[i] < mine[j]
            BY <2>7, <2>9, <3>4 DEF ExactIndex, Increasing
        <3> QED BY <2>8, <3>4, <3>5
    <2> QED BY <2>8, <2>9 DEF IndexNamesSender, mine, a
<1>2. ProtocolInv => IndexNamesSender
    BY <1>1 DEF IndexNamesSender
<1> QED BY <1>2, ProtocolAlways, PTL

(* Its release arithmetic does not overflow while it may be needed.        *)
THEOREM ArithmeticSafe == ProtocolSpec => []ArithmeticHolds
<1>1. ASSUME ProtocolInv PROVE ArithmeticHolds
    <2> SUFFICES ASSUME Guaranteed, info.withdrawn + bal[Self] <= I128Max,
                        ~(info.paused /\ info.pausedAt < info.start)
                 PROVE  SP!StreamedOk
        BY SameStream DEF ArithmeticHolds
    <2>1. WatchedInv /\ SP!Bounded /\ SP!FundingGap <= 0
        BY <1>1 DEF ProtocolInv, WatchedInv, Guaranteed, SP!Bounded
    <2> QED BY <2>1, Assumptions, SP!FundedComputes DEF WatchedInv, Self
<1> QED BY <1>1, ProtocolAlways, PTL

(* Settling it, by whoever and whenever, pays the recipient everything     *)
(* that was streamed and leaves nothing behind.                            *)
THEOREM SettledInFull == ProtocolSpec => SettlesInFull
<1> DEFINE InFull == Guaranteed /\ info'.cancelled /\ info.recipient # Self
                        => /\ paid' >= Stream!Streamed
                           /\ bal'[Self] = 0
<1>1. ASSUME ProtocolInv, [ProtocolNext]_protocolVars PROVE InFull
    <2> SUFFICES ASSUME Guaranteed, info'.cancelled, info.recipient # Self
                 PROVE  paid' >= SP!Streamed /\ bal'[Self] = 0
        BY SameStream
    <2>1. /\ WatchedInv /\ SP!Bounded /\ SP!FundingGap <= 0
          /\ [SP!OpenNext]_(SP!vars) /\ ~info.cancelled
        BY <1>1, StreamSide DEF ProtocolInv, WatchedInv, Guaranteed, SP!Bounded
    <2> QED BY <2>1, Assumptions, SP!FundedSettles DEF WatchedInv, Self
<1> HIDE DEF InFull
<1>2. ProtocolInv /\ [ProtocolNext]_protocolVars => [InFull]_protocolVars
    BY <1>1
<1> QED BY <1>2, ProtocolAlways, PTL DEF ProtocolSpec, SettlesInFull, InFull

(* No stream the factory creates takes back what its recipient earned, in  *)
(* any interleaving with the factory, the governor and the other streams,  *)
(* except by a pause that outlasts the end.                                *)
THEOREM EarnedStays == ProtocolSpec => EarnedForLife
<1> DEFINE Kept == Exists /\ ~Stream!LapsedPause
                      => Exists' /\ Stream!Claim' >= Stream!Claim
<1>1. ASSUME ProtocolInv, [ProtocolNext]_protocolVars PROVE Kept
    <2>0. (Stream!Claim = SP!Claim)'
        BY SameStream, PTL
    <2> SUFFICES ASSUME Exists, ~SP!LapsedPause
                 PROVE  Exists' /\ SP!Claim' >= SP!Claim
        BY <2>0, SameStream
    <2>1. SP!TypeOK /\ SP!StreamInv /\ Exists' /\ [SP!OpenNext]_(SP!vars)
        BY <1>1, StreamSide DEF ProtocolInv, WatchedInv
    <2>2. SP!TypeOK'
        BY <2>1, Assumptions, SP!OpenTyped
    <2> QED BY <2>1, <2>2, Assumptions, SP!ClaimStep
<1> HIDE DEF Kept
<1>2. ProtocolInv /\ [ProtocolNext]_protocolVars => [Kept]_protocolVars
    BY <1>1
<1> QED BY <1>2, ProtocolAlways, PTL DEF ProtocolSpec, EarnedForLife, Kept

(* What the factory promises by itself it promises beside the streams it   *)
(* created: their withdrawals, settlements and deposits leave the registry *)
(* exact, its pages and walks complete, and the log as it was.             *)
THEOREM FactoryUndisturbed ==
    ProtocolSpec => /\ [](RegistryExact /\ PagesExact /\ NoEntryNeglected)
                    /\ ImplementsLog
<1>1. ProtocolInv => RegistryExact /\ PagesExact /\ NoEntryNeglected
    BY RegistryShows, PagesShow, WalkShows DEF ProtocolInv, FactoryInv
<1>2. ProtocolInit => Log!LogInit
    BY LogStarts DEF ProtocolInit
<1>3. ASSUME ProtocolInv, [ProtocolNext]_protocolVars
      PROVE  [Log!LogNext]_(Log!streamLog)
    <2>1. CASE StreamCall
        <3>1. UNCHANGED <<registry, deployed, settings>>
            BY <2>1 DEF StreamCall
        <3> QED BY <3>1, LogStands
    <2>2. CASE FactoryCall \/ OtherTransfer \/ TimePasses \/ UNCHANGED protocolVars
        <3>1. [Next]_vars
            BY <2>2 DEF FactoryCall, OtherTransfer, TimePasses, protocolVars, Next
        <3> QED BY <1>3, <3>1, LogSteps DEF ProtocolInv
    <2> QED BY <1>3, <2>1, <2>2 DEF ProtocolNext
<1>4. ProtocolInv /\ [ProtocolNext]_protocolVars => [Log!LogNext]_(Log!streamLog)
    BY <1>3
<1>5. Log!LogInit /\ [][Log!LogNext]_(Log!streamLog) => ImplementsLog
    BY DEF ImplementsLog, Log!LogSpec
<1> QED BY <1>1, <1>2, <1>4, <1>5, ProtocolAlways, PTL DEF ProtocolSpec
=============================================================================
