----------------------------- MODULE LogProofs -----------------------------
(***************************************************************************)
(* The two invariants of Log for any set of threads, length of a record    *)
(* and number of calls.  LogInv adds to them the types and                 *)
(*   PiecesWritten  what a thread inside log has written is in out,        *)
(*   LastWrite      the last write ended a line, or its thread is still in *)
(*                  log and has written nothing since,                     *)
(*   AloneInside    a thread whose record overlaps no other is alone in    *)
(*                  log, and the last write is its own or ended a line.    *)
(***************************************************************************)
EXTENDS Log, TLAPS

LogTypeOK ==
    /\ lpc \in [Thread -> 0 .. Pieces + 2]
    /\ calls \in [Thread -> Nat]
    /\ out \in Seq([thread : Thread, call : Nat, piece : 1 .. Pieces + 1])
    /\ flushed \in 0 .. Len(out)

PiecesWritten ==
    \A t \in Thread : lpc[t] # 0 =>
        /\ calls[t] > 0
        /\ \A p \in 1 .. lpc[t] - 1 : \E i \in 1 .. Len(out) : out[i] = Atom(t, calls[t], p)

LastWrite ==
    Len(out) > 0 =>
       \/ out[Len(out)].piece = Pieces + 1
       \/ \E t \in Thread : lpc[t] > 1 /\ out[Len(out)] = Atom(t, calls[t], lpc[t] - 1)

AloneInside ==
    \A t \in Thread : lpc[t] # 0 /\ [thread |-> t, call |-> calls[t]] \notin overlapped =>
        /\ \A u \in Thread : lpc[u] # 0 => u = t
        /\ IF lpc[t] = 1
           THEN Len(out) > 0 => out[Len(out)].piece = Pieces + 1
           ELSE Len(out) > 0 /\ out[Len(out)] = Atom(t, calls[t], lpc[t] - 1)

LogInv ==
    /\ LogTypeOK /\ PiecesWritten /\ LastWrite /\ AloneInside
    /\ ReturnedIsInFile /\ AloneIsALine

(* Nothing was logged yet. *)
LEMMA LogInitInv == LogInit => LogInv
<1> SUFFICES ASSUME LogInit PROVE LogInv
    OBVIOUS
<1> USE LogAssumption DEF LogInit
<1>1. LogTypeOK
  <2>1. out \in Seq([thread : Thread, call : Nat, piece : 1 .. Pieces + 1])
    OBVIOUS
  <2>2. lpc \in [Thread -> 0 .. Pieces + 2] /\ calls \in [Thread -> Nat]
    OBVIOUS
  <2> QED
    BY <2>1, <2>2 DEF LogTypeOK
<1>2. PiecesWritten /\ LastWrite /\ AloneInside
    BY DEF PiecesWritten, LastWrite, AloneInside
<1>3. ReturnedIsInFile /\ AloneIsALine
    BY DEF ReturnedIsInFile, Returned, AloneIsALine
<1> QED
    BY <1>1, <1>2, <1>3 DEF LogInv

(* A call that finds nobody in log begins on a new line; one that finds    *)
(* somebody overlaps with all of them.                                     *)
LEMMA CallInv ==
    ASSUME LogInv, NEW t \in Thread, Call(t)
    PROVE  LogInv'
<1> USE LogAssumption DEF LogInv, LogTypeOK, Call
<1>1. LogTypeOK'
    OBVIOUS
<1>2. /\ lpc'[t] = 1 /\ calls'[t] = calls[t] + 1 /\ lpc[t] = 0
      /\ \A u \in Thread : u # t => lpc'[u] = lpc[u] /\ calls'[u] = calls[u]
    OBVIOUS
<1>3. PiecesWritten'
  <2> SUFFICES ASSUME NEW u \in Thread, lpc'[u] # 0
               PROVE  /\ calls'[u] > 0
                      /\ \A p \in 1 .. lpc'[u] - 1 :
                            \E i \in 1 .. Len(out) : out[i] = Atom(u, calls'[u], p)
      BY DEF PiecesWritten
  <2>1. CASE u = t
    BY <2>1, <1>2
  <2>2. CASE u # t
    BY <2>2, <1>2 DEF PiecesWritten
  <2> QED
    BY <2>1, <2>2
<1>4. LastWrite'
  <2> SUFFICES ASSUME Len(out) > 0, out[Len(out)].piece # Pieces + 1
               PROVE  \E u \in Thread : /\ lpc'[u] > 1
                                        /\ out[Len(out)] = Atom(u, calls'[u], lpc'[u] - 1)
      BY DEF LastWrite
  <2>1. PICK u \in Thread : lpc[u] > 1 /\ out[Len(out)] = Atom(u, calls[u], lpc[u] - 1)
    BY DEF LastWrite
  <2>2. u # t /\ lpc'[u] = lpc[u] /\ calls'[u] = calls[u]
    BY <1>2, <2>1
  <2> QED
    BY <2>1, <2>2
<1>5. AloneInside'
  <2> SUFFICES ASSUME NEW u \in Thread, lpc'[u] # 0,
                      [thread |-> u, call |-> calls'[u]] \notin overlapped'
               PROVE  /\ \A v \in Thread : lpc'[v] # 0 => v = u
                      /\ IF lpc'[u] = 1
                         THEN Len(out) > 0 => out[Len(out)].piece = Pieces + 1
                         ELSE Len(out) > 0 /\ out[Len(out)] = Atom(u, calls'[u], lpc'[u] - 1)
      BY DEF AloneInside
  <2>1. CASE Inside = {}
    <3>1. \A v \in Thread : lpc[v] = 0
      BY <2>1 DEF Inside
    <3>2. u = t /\ \A v \in Thread : lpc'[v] # 0 => v = t
      BY <3>1, <1>2
    <3>3. Len(out) > 0 => out[Len(out)].piece = Pieces + 1
      BY <3>1 DEF LastWrite
    <3> QED
      BY <3>2, <3>3, <1>2
  <2>2. CASE Inside # {}
    <3>1. /\ [thread |-> t, call |-> calls[t] + 1] \in overlapped'
          /\ \A v \in Thread : lpc[v] # 0 =>
                [thread |-> v, call |-> calls[v]] \in overlapped'
      BY <2>2 DEF Overlaps, Inside
    <3> QED
      BY <3>1, <1>2
  <2> QED
    BY <2>1, <2>2
<1>6. AloneIsALine'
    BY DEF AloneIsALine, StartsLine
<1>7. /\ ReturnedIsInFile /\ out' = out /\ flushed' = flushed
      /\ \A u \in Thread : Returned(u)' = Returned(u)
    BY <1>2 DEF Returned
<1> HIDE DEF LogInv, LogTypeOK, Call
<1>8. ReturnedIsInFile'
    BY <1>7 DEF ReturnedIsInFile
<1> QED
    BY <1>1, <1>3, <1>4, <1>5, <1>6, <1>8 DEF LogInv

(* One piece more at the end of out. *)
LEMMA WriteInv ==
    ASSUME LogInv, NEW t \in Thread, Write(t)
    PROVE  LogInv'
<1> DEFINE atom == Atom(t, calls[t], lpc[t])
<1> USE LogAssumption
<1>1. LogTypeOK /\ PiecesWritten /\ AloneInside /\ ReturnedIsInFile /\ AloneIsALine
    BY DEF LogInv
<1>2. /\ lpc \in [Thread -> 0 .. Pieces + 2] /\ calls \in [Thread -> Nat]
      /\ flushed \in 0 .. Len(out) /\ Len(out) \in Nat
      /\ out \in Seq([thread : Thread, call : Nat, piece : 1 .. Pieces + 1])
    BY <1>1 DEF LogTypeOK
<1>3. /\ lpc[t] \in 1 .. Pieces + 1 /\ calls' = calls /\ overlapped' = overlapped
      /\ flushed' = flushed /\ out' = Append(out, atom)
      /\ lpc' = [lpc EXCEPT ![t] = lpc[t] + 1]
    BY DEF Write, LastPiece
<1>4. /\ lpc'[t] = lpc[t] + 1
      /\ \A u \in Thread : u # t => lpc'[u] = lpc[u]
    BY <1>2, <1>3
<1>5. atom \in [thread : Thread, call : Nat, piece : 1 .. Pieces + 1]
    BY <1>2, <1>3 DEF Atom
<1>6. atom.thread = t /\ atom.call = calls[t] /\ atom.piece = lpc[t]
    BY DEF Atom
<1> HIDE DEF atom
<1>7. /\ out' \in Seq([thread : Thread, call : Nat, piece : 1 .. Pieces + 1])
      /\ Len(out') = Len(out) + 1 /\ out'[Len(out) + 1] = atom
      /\ \A i \in 1 .. Len(out) : out'[i] = out[i]
    BY <1>2, <1>3, <1>5
<1>8. LogTypeOK'
  <2>1. lpc' \in [Thread -> 0 .. Pieces + 2]
    BY <1>2, <1>3
  <2>2. flushed' \in 0 .. Len(out')
    BY <1>2, <1>3, <1>7
  <2> QED
    BY <1>2, <1>3, <1>7, <2>1, <2>2 DEF LogTypeOK
<1>9. PiecesWritten'
  <2> SUFFICES ASSUME NEW u \in Thread, lpc'[u] # 0
               PROVE  /\ calls[u] > 0
                      /\ \A p \in 1 .. lpc'[u] - 1 :
                            \E i \in 1 .. Len(out') : out'[i] = Atom(u, calls[u], p)
      BY <1>3 DEF PiecesWritten
  <2>1. /\ lpc[u] # 0 /\ calls[u] > 0
        /\ \A p \in 1 .. lpc[u] - 1 : \E i \in 1 .. Len(out) : out[i] = Atom(u, calls[u], p)
    BY <1>1, <1>3, <1>4 DEF PiecesWritten
  <2>2. ASSUME NEW p \in 1 .. lpc'[u] - 1
        PROVE  \E i \in 1 .. Len(out') : out'[i] = Atom(u, calls[u], p)
    <3>1. CASE p \in 1 .. lpc[u] - 1
      <4>1. PICK i \in 1 .. Len(out) : out[i] = Atom(u, calls[u], p)
        BY <2>1, <3>1
      <4>2. i \in 1 .. Len(out') /\ out'[i] = out[i]
        BY <1>2, <1>7
      <4> QED
        BY <4>1, <4>2
    <3>2. CASE p \notin 1 .. lpc[u] - 1
      <4>1. u = t /\ p = lpc[t]
        BY <1>2, <1>3, <1>4, <3>2
      <4>2. Len(out) + 1 \in 1 .. Len(out')
        BY <1>2, <1>7
      <4>3. atom = Atom(u, calls[u], p)
        BY <4>1 DEF atom
      <4> QED
        BY <1>7, <4>2, <4>3
    <3> QED
      BY <3>1, <3>2
  <2> QED
    BY <2>1, <2>2
<1>10. lpc'[t] > 1 /\ Len(out') > 0 /\ out'[Len(out')] = Atom(t, calls[t], lpc'[t] - 1)
  <2>1. Len(out') = Len(out) + 1 /\ Len(out') > 0
    BY <1>2, <1>7
  <2>2. lpc'[t] > 1 /\ lpc'[t] - 1 = lpc[t]
    BY <1>3, <1>4
  <2> QED
    BY <1>7, <2>1, <2>2 DEF atom
<1>11. LastWrite'
    BY <1>3, <1>10 DEF LastWrite
<1>12. AloneInside'
  <2> SUFFICES ASSUME NEW u \in Thread, lpc'[u] # 0,
                      [thread |-> u, call |-> calls[u]] \notin overlapped
               PROVE  /\ \A v \in Thread : lpc'[v] # 0 => v = u
                      /\ IF lpc'[u] = 1
                         THEN Len(out') > 0 => out'[Len(out')].piece = Pieces + 1
                         ELSE /\ Len(out') > 0
                              /\ out'[Len(out')] = Atom(u, calls[u], lpc'[u] - 1)
      BY <1>3 DEF AloneInside
  <2>1. \A v \in Thread : lpc'[v] # 0 => lpc[v] # 0
    BY <1>3, <1>4
  <2>2. \A v \in Thread : lpc[v] # 0 => v = u
    BY <1>1, <2>1 DEF AloneInside
  <2>3. u = t
    BY <1>3, <2>2
  <2>4. lpc'[t] # 1
    BY <1>3, <1>4
  <2> QED
    BY <1>10, <2>1, <2>2, <2>3, <2>4
<1>13. ReturnedIsInFile'
  <2> SUFFICES ASSUME NEW u \in Thread, NEW c \in 1 .. Returned(u)', NEW p \in 1 .. Pieces
               PROVE  \E i \in 1 .. flushed : out'[i] = Atom(u, c, p)
      BY <1>3 DEF ReturnedIsInFile
  <2>1. Returned(u)' = Returned(u)
    BY <1>3, <1>4 DEF Returned
  <2>2. PICK i \in 1 .. flushed : out[i] = Atom(u, c, p)
    BY <1>1, <2>1 DEF ReturnedIsInFile
  <2>3. i \in 1 .. Len(out)
    BY <1>2
  <2> QED
    BY <1>7, <2>2, <2>3
<1>14. AloneIsALine'
  <2>1. DOMAIN out = 1 .. Len(out) /\ DOMAIN out' = 1 .. Len(out) + 1
    BY <1>2, <1>7
  <2> SUFFICES ASSUME NEW i \in 1 .. Len(out) + 1,
                      [thread |-> out'[i].thread, call |-> out'[i].call] \notin overlapped
               PROVE  IF out'[i].piece = 1 THEN i = 1 \/ out'[i - 1].piece = Pieces + 1
                      ELSE /\ i > 1
                           /\ out'[i - 1] = Atom(out'[i].thread, out'[i].call, out'[i].piece - 1)
      BY <1>3, <2>1 DEF AloneIsALine, StartsLine
  <2>2. CASE i \in 1 .. Len(out)
    <3>1. out'[i] = out[i] /\ i \in DOMAIN out
      BY <1>7, <2>1, <2>2
    <3>2. i > 1 => i - 1 \in 1 .. Len(out)
      BY <1>2, <2>2
    <3>3. i > 1 => out'[i - 1] = out[i - 1]
      BY <1>7, <3>2
    <3>4. IF out[i].piece = 1 THEN i = 1 \/ out[i - 1].piece = Pieces + 1
          ELSE /\ i > 1
               /\ out[i - 1] = Atom(out[i].thread, out[i].call, out[i].piece - 1)
      BY <1>1, <3>1 DEF AloneIsALine, StartsLine
    <3>5. i = 1 \/ i > 1
      BY <2>2
    <3> QED
      BY <3>1, <3>3, <3>4, <3>5
  <2>3. CASE i = Len(out) + 1
    <3>1. out'[i] = atom /\ i - 1 = Len(out)
      BY <1>2, <1>7, <2>3
    <3>2. Len(out) > 0 => i > 1 /\ out'[i - 1] = out[Len(out)]
      <4> SUFFICES ASSUME Len(out) > 0 PROVE i > 1 /\ out'[i - 1] = out[Len(out)]
          OBVIOUS
      <4>1. i > 1 /\ Len(out) \in 1 .. Len(out)
        BY <1>2, <2>3
      <4> QED
        BY <1>7, <3>1, <4>1
    <3>3. Len(out) = 0 => i = 1
      BY <2>3
    <3>4. [thread |-> t, call |-> calls[t]] \notin overlapped /\ lpc[t] # 0
      BY <1>3, <1>6, <3>1
    <3>5. IF lpc[t] = 1
          THEN Len(out) > 0 => out[Len(out)].piece = Pieces + 1
          ELSE Len(out) > 0 /\ out[Len(out)] = Atom(t, calls[t], lpc[t] - 1)
      BY <1>1, <3>4 DEF AloneInside
    <3>6. Len(out) = 0 \/ Len(out) > 0
      BY <1>2
    <3> QED
      BY <1>6, <3>1, <3>2, <3>3, <3>5, <3>6
  <2> QED
    BY <2>2, <2>3, <1>2
<1> QED
    BY <1>8, <1>9, <1>11, <1>12, <1>13, <1>14 DEF LogInv

(* endl flushes: all that the thread has written is in the file.           *)
LEMMA FlushInv ==
    ASSUME LogInv, NEW t \in Thread, Flush(t)
    PROVE  LogInv'
<1> USE LogAssumption
<1>1. LogTypeOK /\ PiecesWritten /\ LastWrite /\ AloneInside /\ ReturnedIsInFile /\ AloneIsALine
    BY DEF LogInv
<1>2. /\ lpc \in [Thread -> 0 .. Pieces + 2] /\ calls \in [Thread -> Nat]
      /\ flushed \in 0 .. Len(out) /\ Len(out) \in Nat
      /\ out \in Seq([thread : Thread, call : Nat, piece : 1 .. Pieces + 1])
    BY <1>1 DEF LogTypeOK
<1>3. /\ lpc[t] = Pieces + 2 /\ flushed' = Len(out) /\ lpc' = [lpc EXCEPT ![t] = 0]
      /\ calls' = calls /\ out' = out /\ overlapped' = overlapped
    BY DEF Flush, LastPiece, Flushed
<1>4. lpc'[t] = 0 /\ \A u \in Thread : u # t => lpc'[u] = lpc[u]
    BY <1>2, <1>3
<1>5. LogTypeOK'
  <2>1. lpc' \in [Thread -> 0 .. Pieces + 2] /\ flushed' \in 0 .. Len(out)
    BY <1>2, <1>3
  <2> QED
    BY <1>2, <1>3, <2>1 DEF LogTypeOK
<1>6. PiecesWritten'
    BY <1>1, <1>3, <1>4 DEF PiecesWritten
<1>7. LastWrite'
  <2> SUFFICES ASSUME Len(out) > 0, out[Len(out)].piece # Pieces + 1
               PROVE  \E u \in Thread : /\ lpc'[u] > 1
                                        /\ out[Len(out)] = Atom(u, calls[u], lpc'[u] - 1)
      BY <1>3 DEF LastWrite
  <2>1. PICK u \in Thread : lpc[u] > 1 /\ out[Len(out)] = Atom(u, calls[u], lpc[u] - 1)
    BY <1>1 DEF LastWrite
  <2>2. out[Len(out)].piece = lpc[u] - 1
    BY <2>1 DEF Atom
  <2>3. u # t
    BY <1>3, <2>2
  <2> QED
    BY <1>4, <2>1, <2>3
<1>8. AloneInside'
    BY <1>1, <1>3, <1>4 DEF AloneInside
<1>9. ReturnedIsInFile'
  <2> SUFFICES ASSUME NEW u \in Thread, NEW c \in 1 .. Returned(u)', NEW p \in 1 .. Pieces
               PROVE  \E i \in 1 .. Len(out) : out[i] = Atom(u, c, p)
      BY <1>3 DEF ReturnedIsInFile
  <2>1. CASE c \in 1 .. Returned(u)
    <3>1. PICK i \in 1 .. flushed : out[i] = Atom(u, c, p)
      BY <1>1, <2>1 DEF ReturnedIsInFile
    <3>2. i \in 1 .. Len(out)
      BY <1>2
    <3> QED
      BY <3>1, <3>2
  <2>2. CASE u = t /\ c = calls[t]
    <3>1. p \in 1 .. lpc[t] - 1 /\ lpc[t] # 0
      BY <1>3
    <3> QED
      BY <1>1, <2>2, <3>1 DEF PiecesWritten
  <2>3. u # t => Returned(u)' = Returned(u)
    BY <1>3, <1>4 DEF Returned
  <2>4. u = t => Returned(u)' = calls[t] /\ Returned(u) = calls[t] - 1
    BY <1>3, <1>4 DEF Returned
  <2>5. calls[t] \in Nat
    BY <1>2
  <2> QED
    BY <2>1, <2>2, <2>3, <2>4, <2>5
<1>10. AloneIsALine'
    BY <1>1, <1>3 DEF AloneIsALine, StartsLine
<1> QED
    BY <1>5, <1>6, <1>7, <1>8, <1>9, <1>10 DEF LogInv

(* Every step of the threads, of the buffer, and the end of the process.   *)
LEMMA LogNextInv == LogInv /\ [LogNext]_logvars => LogInv'
<1> SUFFICES ASSUME LogInv, [LogNext]_logvars PROVE LogInv'
    OBVIOUS
<1>1. ASSUME NEW t \in Thread, Call(t) PROVE LogInv'
    BY <1>1, CallInv
<1>2. ASSUME NEW t \in Thread, Write(t) PROVE LogInv'
    BY <1>2, WriteInv
<1>3. ASSUME NEW t \in Thread, Flush(t) PROVE LogInv'
    BY <1>3, FlushInv
<1>4. CASE Spill \/ Die \/ UNCHANGED logvars
  <2>1. /\ UNCHANGED <<lpc, calls, out, overlapped>>
        /\ flushed' \in flushed .. Len(out)
    BY <1>4 DEF Spill, Die, logvars, LogInv, LogTypeOK
  <2>2. LogTypeOK' /\ PiecesWritten' /\ LastWrite' /\ AloneInside'
    BY <2>1 DEF LogInv, LogTypeOK, PiecesWritten, LastWrite, AloneInside
  <2>3. ReturnedIsInFile'
    BY <2>1 DEF LogInv, LogTypeOK, ReturnedIsInFile, Returned
  <2>4. AloneIsALine'
    BY <2>1 DEF LogInv, AloneIsALine, StartsLine
  <2> QED
    BY <2>2, <2>3, <2>4 DEF LogInv
<1> QED
    BY <1>1, <1>2, <1>3, <1>4 DEF LogNext

(* LogInv holds throughout. *)
LEMMA LogInvariant == LogSpec => []LogInv
    BY LogInitInv, LogNextInv, PTL DEF LogSpec

(* A record is in the file as soon as log has returned, and stays there    *)
(* whatever the other threads do and whenever the process dies.            *)
THEOREM LoggedIsKept == LogSpec => []ReturnedIsInFile
    BY LogInvariant, PTL DEF LogInv

(* Records tear each other apart only if their calls overlap.              *)
THEOREM AloneMeansWholeLine == LogSpec => []AloneIsALine
    BY LogInvariant, PTL DEF LogInv
=============================================================================
