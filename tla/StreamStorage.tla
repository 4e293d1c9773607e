--------------------------- MODULE StreamStorage ---------------------------
(***************************************************************************)
(* How a stream contract keeps the record that DripStream calls info: the  *)
(* module state of contracts/stream.  Newer contracts read it from one     *)
(* key, Config, and go on writing the individual keys beside it; streams   *)
(* of an older contract start with individual keys only, two of which no   *)
(* newer code ever writes.                                                 *)
(*                                                                         *)
(* Key "Terms" stands for Recipient, Token, RatePerSecond, StartTime and   *)
(* EndTime, which are written and read together.  What each operation may  *)
(* change is DripStream's; here it is any record it may store.             *)
(***************************************************************************)
EXTENDS Integers

CONSTANTS
    Sender,         \* addresses that own streams
    Terms,          \* values of the keys that "Terms" stands for
    MaxWithdrawn,   \* bound: tokens withdrawn
    MaxTime         \* bound: the last ledger time considered

ASSUME StorageAssumption == MaxWithdrawn \in Nat /\ MaxTime \in Nat

VARIABLES
    store,      \* instance storage: the keys that exist, and their values
    written     \* history: the record as the last writer meant it, or <<>>

vars == <<store, written>>

Flag == {"Paused", "ClawbackEnabled", "Cancelled"}

Record == [sender : Sender, terms : Terms, withdrawn : 0 .. MaxWithdrawn,
           pausedAt : 0 .. MaxTime, flags : SUBSET Flag]

Mirrors == {"Sender", "Terms", "Withdrawn", "PausedAt", "Flags"}

Key == Mirrors \cup {"ClawbackEnabled", "Cancelled", "Config"}

-----------------------------------------------------------------------------
(* Reading and writing.  As in DripStream, X_Fault serves mutation runs.   *)

Has(key) == key \in DOMAIN store
GetOr(key, default) == IF Has(key) THEN store[key] ELSE default

(* Fault: the dedicated keys of old streams are not looked at.             *)
LoadedFlags_KeyOnly == GetOr("Flags", {})

(* The flags of an old stream: the Flags key and the two dedicated keys.   *)
LoadedFlags ==
    GetOr("Flags", {})
      \cup (IF GetOr("ClawbackEnabled", FALSE) THEN {"ClawbackEnabled"} ELSE {})
      \cup (IF GetOr("Cancelled", FALSE) THEN {"Cancelled"} ELSE {})

(* load() does not trap.                                                   *)
Readable == Has("Config") \/ (Has("Sender") /\ Has("Terms"))

Load ==
    IF Has("Config") THEN store["Config"]
    ELSE [sender |-> store["Sender"], terms |-> store["Terms"],
          withdrawn |-> GetOr("Withdrawn", 0), pausedAt |-> GetOr("PausedAt", 0),
          flags |-> LoadedFlags]

Mirrored(r) == [Sender |-> r.sender, Terms |-> r.terms, Withdrawn |-> r.withdrawn,
                PausedAt |-> r.pausedAt, Flags |-> r.flags]

(* Fault: the individual keys are written once and no longer kept.         *)
Saved_ConfigOnly(s, r) ==
    [k \in DOMAIN s \cup Mirrors \cup {"Config"} |->
        IF k = "Config" THEN r ELSE IF k \in DOMAIN s THEN s[k] ELSE Mirrored(r)[k]]

(* save(): Config and the individual keys; the two dedicated flag keys     *)
(* stay what they were.                                                    *)
Saved(s, r) ==
    [k \in DOMAIN s \cup Mirrors \cup {"Config"} |->
        IF k = "Config" THEN r
        ELSE IF k \in Mirrors THEN Mirrored(r)[k]
        ELSE s[k]]

Save(r) == store' = Saved(store, r)

Live == Readable /\ Load.flags \cap {"Cancelled"} = {}
IsPaused == "Paused" \in Load.flags

-----------------------------------------------------------------------------
(* What an older contract may have left behind for a record: the key of a  *)
(* field that has its default may be missing, Flags holds the pause only.  *)
Optional(r) ==
    {k \in {"Withdrawn", "PausedAt", "Flags", "ClawbackEnabled", "Cancelled"} :
        \/ k = "Withdrawn" /\ r.withdrawn = 0
        \/ k = "PausedAt" /\ r.pausedAt = 0
        \/ k = "Flags" /\ "Paused" \notin r.flags
        \/ k \in Flag /\ k \notin r.flags}

OldLayout(r, missing) ==
    [k \in Key \ ({"Config"} \cup missing) |->
        IF k = "Flags" THEN r.flags \cap {"Paused"}
        ELSE IF k \in Flag THEN k \in r.flags
        ELSE Mirrored(r)[k]]

Init ==
    \/ store = <<>> /\ written = <<>>
    \/ \E r \in Record : \E missing \in SUBSET Optional(r) :
          store = OldLayout(r, missing) /\ written = r

(* Fault: nothing keeps initialize() from being called again.              *)
CanInitialize_Always == TRUE
CanInitialize == ~Has("Config")                             \* AlreadyInitialized

Initialize(sender, terms, clawback) ==
    LET r == [sender |-> sender, terms |-> terms, withdrawn |-> 0, pausedAt |-> 0,
              flags |-> IF clawback THEN {"ClawbackEnabled"} ELSE {}]
    IN  /\ CanInitialize
        /\ Save(r)
        /\ written' = r

(* withdraw(): save_withdrawn loads the record again before it stores it.  *)
Withdraw(total) ==
    /\ Live
    /\ total > Load.withdrawn
    /\ Save([Load EXCEPT !.withdrawn = total])
    /\ written' = [written EXCEPT !.withdrawn = total]

Pause(now) ==
    /\ Live
    /\ ~IsPaused                                            \* AlreadyPaused
    /\ Save([Load EXCEPT !.pausedAt = now, !.flags = @ \cup {"Paused"}])
    /\ written' = [written EXCEPT !.pausedAt = now, !.flags = @ \cup {"Paused"}]

Resume(terms) ==
    /\ Live
    /\ IsPaused                                             \* NotPaused
    /\ Save([Load EXCEPT !.terms = terms, !.pausedAt = 0, !.flags = @ \ {"Paused"}])
    /\ written' = [written EXCEPT !.terms = terms, !.pausedAt = 0,
                                  !.flags = @ \ {"Paused"}]

(* extend_duration and transfer_recipient.                                 *)
ChangeTerms(terms) ==
    /\ Live
    /\ Save([Load EXCEPT !.terms = terms])
    /\ written' = [written EXCEPT !.terms = terms]

(* cancel and force_cancel store the record twice: set_cancelled() loads   *)
(* and saves, then the caller saves the copy it loaded before.             *)
Settle ==
    LET cancelled == [Load EXCEPT !.flags = @ \cup {"Cancelled"}] IN
    /\ Live
    /\ store' = Saved(Saved(store, cancelled), cancelled)
    /\ written' = [written EXCEPT !.flags = @ \cup {"Cancelled"}]

Next ==
    \/ \E sender \in Sender, terms \in Terms, clawback \in BOOLEAN :
          Initialize(sender, terms, clawback)
    \/ \E total \in 0 .. MaxWithdrawn : Withdraw(total)
    \/ \E now \in 0 .. MaxTime : Pause(now)
    \/ \E terms \in Terms : Resume(terms) \/ ChangeTerms(terms)
    \/ Settle

Spec == Init /\ [][Next]_vars

-----------------------------------------------------------------------------
(* Whichever contract wrote it and however the layouts mix, load() returns *)
(* the record as it was last meant, its clawback and cancelled flags       *)
(* included: DripStream's info is what the storage holds.                  *)
ReadsBack == /\ written # <<>> => Readable /\ Load = written
             /\ written = <<>> => ~Readable

(* Once a record is consolidated, whoever reads the individual keys sees   *)
(* the same stream as load(), flags included.                              *)
MirrorsAgree ==
    Has("Config") => \A k \in Mirrors : Has(k) /\ store[k] = Mirrored(Load)[k]

(* A consolidated stream is initialized for good: its sender and clawback  *)
(* flag never change and a settlement is never undone.                     *)
BegunForGood ==
    [][ Has("Config") =>
            /\ Readable' /\ Load'.sender = Load.sender
            /\ \A f \in {"ClawbackEnabled", "Cancelled"} :
                  f \in Load.flags => f \in Load'.flags
            /\ "ClawbackEnabled" \in Load'.flags => "ClawbackEnabled" \in Load.flags
      ]_vars

-----------------------------------------------------------------------------
(* A claim of the repository that the code does not keep.                  *)

(* README: initialize() rejects a second call, so that nobody can replace  *)
(* the addresses of a stream.                                              *)
InitializedOnce == [][ Readable => Load'.sender = Load.sender ]_vars
=============================================================================
