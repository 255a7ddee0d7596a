----------------------------- MODULE LogForward -----------------------------
(***************************************************************************)
(* The log of a running test on its way to the controller: pytest writes   *)
(* it, the LogClient thread of the evaluation-runner (client.py) posts     *)
(* what is new every five seconds, post_log (result.py) appends it to      *)
(* tmp/runner-<uuid>.log.  The log is a sequence of pieces numbered from   *)
(* 1, the bytes between any two places where a read can end.               *)
(*                                                                         *)
(* Perturbations names what may happen:                                    *)
(*   disk      an append fails after any part of it: 500                   *)
(*   wide      that part may end inside a character                        *)
(*   net       a request raises, before or after it was served             *)
(*   file      the log is not there yet, or ends inside a character        *)
(*   orphan    the killed pytest's workers go on writing                   *)
(***************************************************************************)
EXTENDS Naturals, Sequences, FiniteSets

CONSTANTS
    MaxPieces,      \* bound: pieces the test writes
    MaxStored,      \* bound: pieces stored by the time of the last failing append
    MaxBroken,      \* bound: characters that are cut
    Perturbations

ASSUME BoundsAssumption == MaxPieces \in Nat /\ MaxStored \in Nat /\ MaxBroken \in Nat

VARIABLES
    written,    \* pieces in pytest's log
    stopped,    \* LogClient._stop_event
    position,   \* LogClient.last_position
    last,       \* the thread has left its loop
    to,         \* where its read ended
    pc,         \* the thread: "check", "read", "post", "ended" or "dead"
    exists,     \* the controller's copy has been opened for the first time
    stored,     \* the controller's copy
    broken      \* where, after how many pieces, it has a part of a character only

forwardVars == <<written, stopped, position, last, to, pc, exists, stored, broken>>

ForwardTypeOK ==
    /\ written \in 0..MaxPieces
    /\ stopped \in BOOLEAN /\ last \in BOOLEAN
    /\ position \in 0..written /\ to \in 0..written
    /\ pc \in {"check", "read", "post", "ended", "dead"}
    /\ exists \in BOOLEAN /\ stored \in Seq(1..written) /\ broken \subseteq Nat

(* wait() starts the thread as soon as pytest is started.                  *)
ForwardInit ==
    /\ written = 0 /\ stopped = FALSE
    /\ position = 0 /\ to = 0
    /\ last = FALSE /\ pc = "check"
    /\ exists = FALSE /\ stored = <<>> /\ broken = {}

copyVars == <<exists, stored, broken>>

May(p) == p \in Perturbations

Write ==
    /\ written < MaxPieces
    /\ stopped => May("orphan")
    /\ written' = written + 1
    /\ UNCHANGED <<stopped, position, last, to, pc, copyVars>>

(* wait(): pytest has ended, or is killed.                                 *)
Stop ==
    /\ ~stopped /\ stopped' = TRUE
    /\ UNCHANGED <<written, position, last, to, pc, copyVars>>

-----------------------------------------------------------------------------
(* LogClient                                                               *)

(* Mutant of Check: what came after the last round is not sent.            *)
CheckNoLast ==
    /\ pc = "check"
    /\ pc' = IF stopped THEN "ended" ELSE "read"
    /\ UNCHANGED <<written, stopped, position, last, to, copyVars>>

(* run: one more send_log after the loop.                                  *)
Check ==
    /\ pc = "check"
    /\ last' = stopped
    /\ pc' = "read"
    /\ UNCHANGED <<written, stopped, position, to, copyVars>>

Return == pc' = IF last THEN "ended" ELSE "check"

Read ==
    /\ pc = "read"
    /\ to' = written
    /\ IF written > position THEN pc' = "post" ELSE Return
    /\ UNCHANGED <<written, stopped, position, last, copyVars>>

(* What the file holds between two places.                                 *)
Pieces(from, upto) == [i \in 1..(upto - from) |-> from + i]

(* post_log opens the copy, which makes it, and appends up to a place.     *)
Appends(upto) ==
    /\ exists' = TRUE /\ stored' = stored \o Pieces(position, upto)
    /\ UNCHANGED broken

(* It cannot be opened, or some of the batch is not written.               *)
AppendFails ==
    \/ UNCHANGED copyVars
    \/ \E part \in position..to : Appends(part)
    \/ /\ May("wide") /\ Cardinality(broken) < MaxBroken /\ exists' = TRUE
       /\ \E part \in position..(to - 1) : stored' = stored \o Pieces(position, part)
       /\ broken' = broken \cup {Len(stored')}

Accepted ==
    /\ pc = "post" /\ Return
    /\ Appends(to)
    /\ position' = to
    /\ UNCHANGED <<written, stopped, last, to>>

(* Mutant of Refused: the position advances, whatever the answer.          *)
RefusedForgotten ==
    /\ May("disk") /\ pc = "post" /\ Return
    /\ Len(stored) <= MaxStored
    /\ AppendFails
    /\ position' = to
    /\ UNCHANGED <<written, stopped, last, to>>

(* The position stays: the next round sends the batch again, and more.     *)
Refused ==
    /\ May("disk") /\ pc = "post" /\ Return
    /\ Len(stored) <= MaxStored
    /\ AppendFails
    /\ UNCHANGED <<written, stopped, position, last, to>>

(* Nothing catches an exception of send_log.                               *)
PostRaises ==
    /\ May("net") /\ pc = "post" /\ pc' = "dead"
    /\ UNCHANGED copyVars \/ Appends(to)
    /\ UNCHANGED <<written, stopped, position, last, to>>

ReadRaises ==
    /\ May("file") /\ pc = "read" /\ pc' = "dead"
    /\ UNCHANGED <<written, stopped, position, last, to, copyVars>>

LogClient == Check \/ Read \/ Accepted \/ Refused \/ PostRaises \/ ReadRaises

ForwardNext == Write \/ Stop \/ LogClient

ForwardSpec == ForwardInit /\ [][ForwardNext]_forwardVars

-----------------------------------------------------------------------------
(* Whatever fails, a piece is stored only after the piece before it: the   *)
(* copy may repeat itself or end early, but it skips nothing.              *)
NoGaps ==
    \A i \in DOMAIN stored :
        stored[i] = 1 \/ \E j \in 1..(i - 1) : stored[j] + 1 = stored[i]

(* Once the thread has ended, and not at a batch that was refused, the     *)
(* controller has the whole log, whatever was refused or lost before:      *)
(* unless somebody writes on after the end of the test.                    *)
LogIsComplete ==
    pc = "ended" /\ position = to =>
        \A p \in 1..written : \E j \in DOMAIN stored : stored[j] = p
=============================================================================
