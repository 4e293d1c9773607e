------------------------ MODULE StreamStorageProofs ------------------------
(* The storage of a stream returns what was put into it, for any senders,  *)
(* terms and bounds, and whatever layout an older contract left behind.    *)
EXTENDS StreamStorage, TLAPS

(* The two histories of a contract: nothing yet, or a record that is there *)
(* to be read.                                                             *)
Recorded == /\ written # <<>> => Readable /\ Load = written /\ written \in Record
            /\ written = <<>> => ~Readable

LEMMA SavedReadsBack ==
    ASSUME NEW r, Save(r)
    PROVE  /\ Has("Config")' /\ Readable' /\ Load' = r
           /\ \A k \in Mirrors : Has(k)' /\ store'[k] = Mirrored(r)[k]
<1>1. /\ DOMAIN store' = DOMAIN store \cup Mirrors \cup {"Config"}
      /\ store'["Config"] = r
      /\ \A k \in Mirrors : store'[k] = Mirrored(r)[k]
    BY DEF Save, Saved, Mirrors
<1> QED BY <1>1 DEF Has, Readable, Load

LEMMA RecordIsNotEmpty == \A r \in Record : r # <<>>
<1> SUFFICES ASSUME NEW r \in Record, r = <<>> PROVE FALSE
    OBVIOUS
<1>1. "sender" \in DOMAIN r
    BY DEF Record
<1>2. DOMAIN r = 1 .. 0
    OBVIOUS
<1>3. DOMAIN r = {}
    BY <1>2
<1> QED BY <1>1, <1>3

(* Every step stores a record, and it is the one that was meant.           *)
LEMMA StepsSave ==
    ASSUME Recorded, Next
    PROVE  Save(written') /\ written' \in Record
<1>0. ASSUME Live
      PROVE  Load = written /\ written \in Record
    BY <1>0 DEF Recorded, Live
<1>1. ASSUME NEW sender \in Sender, NEW terms \in Terms, NEW clawback \in BOOLEAN,
             Initialize(sender, terms, clawback)
      PROVE  Save(written') /\ written' \in Record
    BY <1>1, StorageAssumption DEF Initialize, Record, Flag
<1>2. ASSUME NEW total \in 0 .. MaxWithdrawn, Withdraw(total)
      PROVE  Save(written') /\ written' \in Record
    <2>1. Load = written /\ written \in Record
        BY <1>0, <1>2 DEF Withdraw
    <2> QED BY <1>2, <2>1 DEF Withdraw, Record
<1>3. ASSUME NEW now \in 0 .. MaxTime, Pause(now)
      PROVE  Save(written') /\ written' \in Record
    <2>1. Load = written /\ written \in Record
        BY <1>0, <1>3 DEF Pause
    <2> QED BY <1>3, <2>1 DEF Pause, Record, Flag
<1>4. ASSUME NEW terms \in Terms, Resume(terms)
      PROVE  Save(written') /\ written' \in Record
    <2>1. Load = written /\ written \in Record
        BY <1>0, <1>4 DEF Resume
    <2> DEFINE r == [written EXCEPT !.terms = terms, !.pausedAt = 0,
                                    !.flags = @ \ {"Paused"}]
    <2>2. Save(r) /\ written' = r
        BY <1>4, <2>1 DEF Resume
    <2>3. /\ r.sender = written.sender /\ r.terms = terms /\ r.pausedAt = 0
          /\ r.withdrawn = written.withdrawn /\ r.flags \subseteq Flag
        BY <2>1 DEF Record
    <2>4. 0 \in 0 .. MaxTime
        BY StorageAssumption
    <2>5. r \in Record
        BY <2>1, <2>3, <2>4 DEF Record
    <2> QED BY <2>2, <2>5
<1>5. ASSUME NEW terms \in Terms, ChangeTerms(terms)
      PROVE  Save(written') /\ written' \in Record
    <2>1. Load = written /\ written \in Record
        BY <1>0, <1>5 DEF ChangeTerms
    <2> QED BY <1>5, <2>1 DEF ChangeTerms, Record
<1>6. ASSUME Settle
      PROVE  Save(written') /\ written' \in Record
    <2>1. Load = written /\ written \in Record
        BY <1>0, <1>6 DEF Settle
    <2> DEFINE r == [written EXCEPT !.flags = @ \cup {"Cancelled"}]
    <2>2. store' = Saved(Saved(store, r), r) /\ written' = r
        BY <1>6, <2>1 DEF Settle
    <2>3. Saved(Saved(store, r), r) = Saved(store, r)
        BY DEF Saved
    <2>4. r \in Record
        BY <2>1 DEF Record, Flag
    <2> QED BY <2>2, <2>3, <2>4 DEF Save
<1> QED BY <1>1, <1>2, <1>3, <1>4, <1>5, <1>6 DEF Next

(* What an older contract left behind reads back as what it meant.         *)
LEMMA OldLayoutReads ==
    ASSUME NEW r \in Record, NEW missing \in SUBSET Optional(r),
           store = OldLayout(r, missing)
    PROVE  Readable /\ Load = r /\ ~Has("Config")
<1> DEFINE Old == [sender |-> store["Sender"], terms |-> store["Terms"],
                   withdrawn |-> GetOr("Withdrawn", 0),
                   pausedAt |-> GetOr("PausedAt", 0), flags |-> LoadedFlags]
<1>0. /\ r = [sender |-> r.sender, terms |-> r.terms, withdrawn |-> r.withdrawn,
              pausedAt |-> r.pausedAt, flags |-> r.flags]
      /\ r.flags \in SUBSET Flag
    BY DEF Record
<1>1. DOMAIN store = Key \ ({"Config"} \cup missing)
    BY DEF OldLayout
<1>2. /\ ~Has("Config") /\ Has("Sender") /\ Has("Terms")
    BY <1>1 DEF Has, Key, Mirrors, Optional
<1>3. store["Sender"] = r.sender /\ store["Terms"] = r.terms
    BY <1>1, <1>2 DEF OldLayout, Mirrored, Has, Flag
<1>4. GetOr("Withdrawn", 0) = r.withdrawn
    BY <1>1 DEF OldLayout, Mirrored, GetOr, Has, Flag, Optional, Key, Mirrors
<1>5. GetOr("PausedAt", 0) = r.pausedAt
    BY <1>1 DEF OldLayout, Mirrored, GetOr, Has, Flag, Optional, Key, Mirrors
<1>6. GetOr("Flags", {}) = r.flags \cap {"Paused"}
    <2>1. CASE Has("Flags")
        BY <1>1, <2>1 DEF OldLayout, GetOr, Has, Flag
    <2>2. CASE ~Has("Flags")
        <3>1. "Flags" \in missing
            BY <1>1, <2>2 DEF Has, Key, Mirrors
        <3>2. "Paused" \notin r.flags
            BY <3>1 DEF Optional, Flag
        <3> QED BY <2>2, <3>2 DEF GetOr
    <2> QED BY <2>1, <2>2
<1>7. ASSUME NEW f \in {"ClawbackEnabled", "Cancelled"}
      PROVE  GetOr(f, FALSE) <=> f \in r.flags
    <2>1. CASE Has(f)
        BY <1>1, <2>1 DEF OldLayout, GetOr, Has, Flag
    <2>2. CASE ~Has(f)
        <3>1. f \in missing
            BY <1>1, <2>2 DEF Has, Key
        <3>2. f \notin r.flags
            BY <3>1 DEF Optional, Flag
        <3> QED BY <2>2, <3>2 DEF GetOr
    <2> QED BY <2>1, <2>2
<1>8. LoadedFlags = r.flags
    BY <1>0, <1>6, <1>7 DEF LoadedFlags, Flag
<1> QED BY <1>0, <1>2, <1>3, <1>4, <1>5, <1>8 DEF Load, Readable

LEMMA StartsRecorded == Init => Recorded /\ ~Has("Config")
<1>1. ASSUME store = <<>>, written = <<>> PROVE Recorded /\ ~Has("Config")
    BY <1>1 DEF Recorded, Readable, Has
<1>2. ASSUME NEW r \in Record, NEW missing \in SUBSET Optional(r),
             store = OldLayout(r, missing), written = r
      PROVE  Recorded /\ ~Has("Config")
    BY <1>2, OldLayoutReads, RecordIsNotEmpty DEF Recorded
<1> QED BY <1>1, <1>2 DEF Init

LEMMA StaysRecorded == Recorded /\ [Next]_vars => Recorded'
<1>1. ASSUME Recorded, Next PROVE Recorded'
    <2>1. Save(written') /\ written' \in Record
        BY <1>1, StepsSave
    <2> QED BY <2>1, SavedReadsBack, RecordIsNotEmpty DEF Recorded
<1>2. ASSUME Recorded, UNCHANGED vars PROVE Recorded'
    BY <1>2 DEF vars, Recorded, Readable, Load, LoadedFlags, GetOr, Has
<1> QED BY <1>1, <1>2

(* load() returns the record that was last meant, in every layout.         *)
THEOREM StorageReadsBack == Spec => []ReadsBack
<1>1. Recorded => ReadsBack
    BY DEF Recorded, ReadsBack
<1> QED BY <1>1, StartsRecorded, StaysRecorded, PTL DEF Spec

(* The individual keys agree with Config from the first save on.           *)
THEOREM MirrorsFollow == Spec => []MirrorsAgree
<1>1. Init => MirrorsAgree
    BY StartsRecorded DEF MirrorsAgree
<1>2. Recorded /\ MirrorsAgree /\ [Next]_vars => MirrorsAgree'
    <2>1. ASSUME Recorded, Next PROVE MirrorsAgree'
        BY <2>1, StepsSave, SavedReadsBack DEF MirrorsAgree
    <2>2. ASSUME MirrorsAgree, UNCHANGED vars PROVE MirrorsAgree'
        BY <2>2 DEF vars, MirrorsAgree, Load, LoadedFlags, GetOr, Has
    <2> QED BY <2>1, <2>2
<1> QED BY <1>1, <1>2, StartsRecorded, StaysRecorded, PTL DEF Spec

(* A consolidated stream is not initialized again, keeps its clawback flag *)
(* and, once it is cancelled, stays cancelled.                             *)
THEOREM ConsolidatedForGood == Spec => BegunForGood
<1> DEFINE Kept ==
        Has("Config") =>
            /\ Readable' /\ Load'.sender = Load.sender
            /\ \A f \in {"ClawbackEnabled", "Cancelled"} :
                  f \in Load.flags => f \in Load'.flags
            /\ "ClawbackEnabled" \in Load'.flags => "ClawbackEnabled" \in Load.flags
<1>1. ASSUME Recorded, Next, Has("Config") PROVE Kept
    <2> DEFINE Same == /\ written'.sender = written.sender
                       /\ written.flags \ {"Paused"} \subseteq written'.flags
                       /\ "ClawbackEnabled" \in written'.flags
                            => "ClawbackEnabled" \in written.flags
    <2>1. /\ Load = written /\ written \in Record
          /\ Readable' /\ Load' = written'
        BY <1>1, StepsSave, SavedReadsBack DEF Recorded, Readable
    <2>2. \A sender, terms, clawback : ~Initialize(sender, terms, clawback)
        BY <1>1 DEF Initialize, CanInitialize
    <2>3. ASSUME NEW total, Withdraw(total) PROVE Same
        BY <2>1, <2>3 DEF Withdraw, Record
    <2>4. ASSUME NEW now, Pause(now) PROVE Same
        BY <2>1, <2>4 DEF Pause, Record
    <2>5. ASSUME NEW terms, Resume(terms) \/ ChangeTerms(terms) PROVE Same
        BY <2>1, <2>5 DEF Resume, ChangeTerms, Record
    <2>6. ASSUME Settle PROVE Same
        BY <2>1, <2>6 DEF Settle, Record
    <2>7. Same
        BY <1>1, <2>2, <2>3, <2>4, <2>5, <2>6 DEF Next
    <2> QED BY <2>1, <2>7
<1>2. Recorded /\ [Next]_vars => [Kept]_vars
    BY <1>1
<1> QED BY <1>2, StartsRecorded, StaysRecorded, PTL DEF Spec, BegunForGood
=============================================================================
