-------------------------------- MODULE Log --------------------------------
(***************************************************************************)
(* log (src/log.hpp:13-16): one record is a chain of << on std::cout that  *)
(* ends with endl.  The threads of the server log with no lock of their    *)
(* own.  As long as sync_with_stdio is on, as here, each << is one write   *)
(* to the buffer of stdout, which is a file when the server runs in the    *)
(* background (src/README.md:1541): what is in the buffer reaches the file *)
(* when endl flushes it, or earlier, and is lost if the process dies.      *)
(*                                                                         *)
(* What a piece says is left out: it is known by the record it belongs to, *)
(* the n-th of a thread, and its place in it.                              *)
(***************************************************************************)
EXTENDS Integers, Sequences, FiniteSets

CONSTANTS
    Thread,
    Pieces,      \* writes of a record before the '\n' of its endl, 11 in the code
    MaxRecords   \* bound: calls of log by each thread

ASSUME LogAssumption == Pieces \in Nat \ {0} /\ MaxRecords \in Nat

VARIABLES
    lpc,         \* 0 outside log, else the number of the thread's next write
    calls,       \* how often each thread has called log
    out,         \* what was written to stdout
    flushed,     \* how much of it has reached the file
    overlapped,  \* records during which another thread was in log
    alive

logvars == <<lpc, calls, out, flushed, overlapped, alive>>

LogInit ==
    /\ lpc = [t \in Thread |-> 0]
    /\ calls = [t \in Thread |-> 0]
    /\ out = <<>> /\ flushed = 0
    /\ overlapped = {}
    /\ alive = TRUE

(* Mutants: '\n' in place of endl, flush in place of endl. *)
NoFlush == flushed
NoNewline == Pieces

Atom(t, c, p) == [thread |-> t, call |-> c, piece |-> p]

Inside == {t \in Thread : lpc[t] # 0}

Overlaps(t) ==
    IF Inside = {} THEN {}
    ELSE {[thread |-> u, call |-> calls[u]] : u \in Inside}
           \cup {[thread |-> t, call |-> calls[t] + 1]}

Call(t) ==
    /\ alive /\ lpc[t] = 0 /\ calls[t] < MaxRecords
    /\ lpc' = [lpc EXCEPT ![t] = 1]
    /\ calls' = [calls EXCEPT ![t] = @ + 1]
    /\ overlapped' = overlapped \cup Overlaps(t)
    /\ UNCHANGED <<out, flushed, alive>>

(* The last piece is the '\n' of endl. *)
LastPiece == Pieces + 1

Write(t) ==
    /\ alive /\ lpc[t] \in 1 .. LastPiece
    /\ out' = Append(out, Atom(t, calls[t], lpc[t]))
    /\ lpc' = [lpc EXCEPT ![t] = @ + 1]
    /\ UNCHANGED <<calls, flushed, overlapped, alive>>

Flushed == Len(out)

(* endl flushes what all threads have written, and log returns. *)
Flush(t) ==
    /\ alive /\ lpc[t] = LastPiece + 1
    /\ flushed' = Flushed
    /\ lpc' = [lpc EXCEPT ![t] = 0]
    /\ UNCHANGED <<calls, out, overlapped, alive>>

(* The buffer was full: some of it is written. *)
Spill ==
    /\ alive
    /\ flushed' \in flushed + 1 .. Len(out)
    /\ UNCHANGED <<lpc, calls, out, overlapped, alive>>

Die ==
    /\ alive /\ alive' = FALSE
    /\ UNCHANGED <<lpc, calls, out, flushed, overlapped>>

LogNext == Spill \/ Die \/ \E t \in Thread : Call(t) \/ Write(t) \/ Flush(t)

LogSpec == LogInit /\ [][LogNext]_logvars

-----------------------------------------------------------------------------
(* The calls of a thread that have returned. *)
Returned(t) == IF lpc[t] = 0 THEN calls[t] ELSE calls[t] - 1

(* When log has returned its record is in log.txt, all of it, whoever      *)
(* flushed it and even if the server dies at once: a request that was      *)
(* logged before it killed the server can be found there.                  *)
ReturnedIsInFile ==
    \A t \in Thread : \A c \in 1 .. Returned(t) : \A p \in 1 .. Pieces :
        \E i \in 1 .. flushed : out[i] = Atom(t, c, p)

(* A record that no other thread logged beside stands on a line of its     *)
(* own; the records of the main thread, before the server listens, do.     *)
StartsLine(i) == i = 1 \/ out[i - 1].piece = Pieces + 1

AloneIsALine ==
    \A i \in DOMAIN out :
       [thread |-> out[i].thread, call |-> out[i].call] \notin overlapped =>
          IF out[i].piece = 1 THEN StartsLine(i)
          ELSE i > 1 /\ out[i - 1] = Atom(out[i].thread, out[i].call, out[i].piece - 1)
=============================================================================
