----------------------------- MODULE StreamLog -----------------------------
(***************************************************************************)
(* What the factory promises of the streams it ever created, free of       *)
(* books, deposits and deployments: a log that is only ever appended to.   *)
(* Each call appends all of the streams it asks for, in the order asked,   *)
(* or none.  Nothing is appended while the log is closed.                  *)
(***************************************************************************)
EXTENDS Integers, Sequences

CONSTANTS
    Sender,     \* who may ask for streams
    Asked,      \* the sequences of terms one call may ask for
    At          \* position -> address

VARIABLES
    log,        \* the streams created, first to last
    accepting   \* streams are created at all

streamLog == <<log, accepting>>

(* What a call for these terms appends.                                    *)
Entries(sender, asked, clawback) ==
    [i \in 1 .. Len(asked) |->
        [at |-> At[Len(log) + i - 1], sender |-> sender,
         terms |-> asked[i], clawback |-> clawback]]

LogInit == log = <<>> /\ accepting = FALSE

Record ==
    LET more == Len(log') - Len(log)
        asked == [i \in 1 .. more |-> log'[Len(log) + i].terms]
    IN  /\ accepting /\ accepting' = accepting
        /\ asked \in Asked
        /\ \E sender \in Sender, clawback \in BOOLEAN :
              log' = log \o Entries(sender, asked, clawback)

(* Opening at the start, halting and resuming.                             *)
Gate == accepting' = ~accepting /\ log' = log

LogNext == Record \/ Gate

LogSpec == LogInit /\ [][LogNext]_streamLog
=============================================================================
