---------------------------- MODULE DripProtocol ----------------------------
(***************************************************************************)
(* The factory and the governor together with the life of one stream the   *)
(* factory creates: DripFactory and DripStream sharing the ledger's clock  *)
(* and the token.  Watched is any id, so what holds for its stream holds   *)
(* for every stream the factory ever creates; the other streams, and users *)
(* paying each other or the stream, show as transfers.                     *)
(***************************************************************************)
EXTENDS DripFactory

CONSTANTS
    Watched,            \* the id of the stream that is followed
    Amounts, Extras, NewRecipients, SeqMax, PauseThreshold  \* DripStream's

ASSUME WatchedAssumption ==
    /\ Watched \in 0 .. MaxStreams - 1
    /\ Amounts \subseteq -I128Max .. I128Max /\ Extras \subseteq 0 .. U64Max
    /\ NewRecipients \subseteq Holder
    /\ SeqMax \in Nat /\ PauseThreshold \in Nat

VARIABLES info, eventSeq, paid      \* of the watched stream, once it exists

Self == StreamAt[Watched]

Stream == INSTANCE StreamProperties WITH
    Self <- StreamAt[Watched], Orders <- Order,
    InitialBalances <- [Holder -> 0 .. I128Max], Genesis <- 0

streamVars == <<info, eventSeq, paid>>
protocolVars == <<vars, streamVars>>

Exists == Self \in DOMAIN deployed

ProtocolTypeOK == TypeOK /\ (Exists => Stream!TypeOK)

-----------------------------------------------------------------------------
ProtocolInit ==
    /\ Init
    /\ info = <<>> /\ eventSeq = 0 /\ paid = 0

(* Deploying the stream runs its initialize() within the same invocation.  *)
Birth ==
    IF Self \in DOMAIN deployed' \ DOMAIN deployed
    THEN info' = NewStream(deployed'[Self]) /\ eventSeq' = 0 /\ paid' = 0
    ELSE UNCHANGED streamVars

FactoryCall == Calls /\ Birth

StreamCall ==
    /\ Exists
    /\ Stream!Operation
    /\ UNCHANGED <<registry, deployed, settings, cursor, unvisited, governorVars>>

(* Environment: everybody else's tokens, and time.                         *)
OtherTransfer ==
    /\ \E from \in Holder \ {Factory, Self}, to \in Holder \ {Factory},
          amount \in Transfers : Transfer(from, to, amount)
    /\ UNCHANGED streamVars

TimePasses == Tick /\ UNCHANGED streamVars

ProtocolNext == FactoryCall \/ StreamCall \/ OtherTransfer \/ TimePasses

ProtocolSpec == ProtocolInit /\ [][ProtocolNext]_protocolVars

-----------------------------------------------------------------------------
(* A stream with an end whose deposit the sender cannot take back.         *)
Guaranteed == Exists /\ ~info.cancelled /\ info.end > 0 /\ ~info.clawback

(* What create_stream made sure of lasts: until it is settled, such a      *)
(* stream holds what the rest of its term costs, whatever is withdrawn,    *)
(* paused, resumed, extended, topped up or created beside it.              *)
StaysFunded == Guaranteed => Stream!FundingGap <= 0

(* Whoever settles such a stream, and whenever, the recipient has then     *)
(* received everything that was streamed, and the sender the rest.         *)
SettlesInFull ==
    [][ Guaranteed /\ info'.cancelled /\ info.recipient # Self
            => /\ paid' >= Stream!Streamed
               /\ bal'[Self] = 0 ]_protocolVars

(* Beside everything the factory, the governor and other streams do, no    *)
(* stream the factory ever creates takes back what its recipient earned,   *)
(* except by a pause that outlasts the end.                                *)
EarnedForLife ==
    [][ Exists /\ ~Stream!LapsedPause
            => Exists' /\ Stream!Claim' >= Stream!Claim ]_protocolVars

(* Whatever becomes of a stream, streams_by_sender of whoever may pause,   *)
(* extend and claw it back today names it, exactly once.                   *)
IndexNamesSender ==
    Exists => LET mine == registry.bySender[info.sender] IN
              \E i \in 1 .. Len(mine) :
                 mine[i] = Watched /\ \A j \in 1 .. Len(mine) \ {i} : mine[j] # Watched

(* The release arithmetic of such a stream does not overflow before more   *)
(* tokens than an i128 counts have gone through it: only a pause from      *)
(* before the start makes it fail.                                         *)
ArithmeticHolds ==
    Guaranteed /\ info.withdrawn + bal[Self] <= I128Max /\ ~Stream!StreamedOk
        => info.paused /\ info.pausedAt < info.start

-----------------------------------------------------------------------------
Held == Exists /\ info.paused /\ ~info.cancelled

(* Time passes, and a recipient who may force-cancel for good does so.     *)
FairProtocolSpec ==
    /\ ProtocolSpec
    /\ WF_protocolVars(TimePasses)
    /\ WF_protocolVars(StreamCall /\ Stream!ForceCancel)

(* The sender cannot hold a started stream paused for ever: a pause that   *)
(* can outlast the threshold ends, by resume, cancel or force_cancel, as   *)
(* long as the recipient is somebody who can call and the amounts fit.     *)
PauseIsEscapable ==
    (Held /\ info.pausedAt >= info.start
          /\ info.pausedAt + PauseThreshold <= MaxTime)
    ~> \/ ~Held
       \/ ~CanSign(info.recipient) \/ ~Stream!StreamedOk
       \/ eventSeq = SeqMax

-----------------------------------------------------------------------------
(* A claim of the repository that the code does not keep.                  *)

(* streams_by_recipient lists the streams where the address is recipient.  *)
IndexNamesRecipient ==
    Exists => \E i \in 1 .. Len(registry.byRecipient[info.recipient]) :
                 registry.byRecipient[info.recipient][i] = Watched
=============================================================================
