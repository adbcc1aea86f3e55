----------------------------- MODULE WriterProofs -----------------------------
(***************************************************************************)
(* The writer's channel is closed once and never sent on after that,       *)
(* nothing is stranded in it, a close that nothing cuts short is graceful, *)
(* and the writer implements an outbox: for any senders, any capacity.     *)
(***************************************************************************)
EXTENDS Writer, SequenceTheorems, TLAPS

(* The gate: closed and the channel change together, by whoever runs the      *)
(* once, and no reader is inside when they do.                                *)
GateOK ==
  /\ cancelled \in BOOLEAN /\ closed \in BOOLEAN /\ chan \in BOOLEAN
  /\ once \in {"new", "done"} \cup Procs
  /\ readers \subseteq Senders
  /\ pc \in [Senders -> {"idle", "copied", "locked"}]
  /\ panicked \in BOOLEAN
GateInv ==
  /\ GateOK
  /\ closed <=> ~chan
  /\ once = "done" <=> ~chan
  /\ \A s \in Senders : s \in readers <=> pc[s] = "locked"
  /\ readers # {} => chan
  /\ ~panicked

LEMMA GateInit == Init => GateInv
  BY DEF Init, GateInv, GateOK, Procs

LEMMA GateStep == GateInv /\ [Next]_vars => GateInv'
<1> SUFFICES ASSUME GateInv, [Next]_vars PROVE GateInv'
  OBVIOUS
<1> USE DEF GateInv, GateOK, gate
<1>1. ASSUME NEW s \in Senders, Enter(s) PROVE GateInv'
  BY <1>1 DEF Enter, Move
<1>2. ASSUME NEW s \in Senders, RLock(s) PROVE GateInv'
  BY <1>2 DEF RLock, Move, SeesClosed
<1>3. ASSUME NEW s \in Senders, Push(s) PROVE GateInv'
  BY <1>3 DEF Push, RUnlock, Move
<1>4. ASSUME NEW s \in Senders, Refuse(s) PROVE GateInv'
  BY <1>4 DEF Refuse, RUnlock, Move
<1>5. ASSUME NEW p \in Procs, DoOnce(p) PROVE GateInv'
  BY <1>5 DEF DoOnce, Procs
<1>6. ASSUME NEW p \in Procs, CloseChannel(p) PROVE GateInv'
  BY <1>6 DEF CloseChannel, NoReaders, Procs
<1>7. ASSUME UNCHANGED gate, UNCHANGED pc, cancelled' \in BOOLEAN PROVE GateInv'
  BY <1>7
<1>8. ASSUME NEW p \in Procs, OnceDone(p) \/ DrainOne(p) \/ DrainEnds(p) PROVE GateInv'
  BY <1>7, <1>8 DEF OnceDone, DrainOne, DrainEnds
<1>9. CASE LoopReceives \/ LoopSeesEnd \/ WriteOk \/ WriteFails \/ LoopLeaves
  BY <1>7, <1>9 DEF LoopReceives, LoopSeesEnd, WriteOk, WriteFails, LoopLeaves
<1>10. CASE CloseBegins \/ CloseReturns \/ StopBegins \/ ClosingEnds \/ DrainBegins
            \/ ParentEnds \/ UNCHANGED vars
  BY <1>7, <1>10
     DEF CloseBegins, CloseReturns, StopBegins, StopCancels, ClosingEnds, DrainBegins,
         ParentEnds, vars
<1>11. QED
  BY <1>1, <1>2, <1>3, <1>4, <1>5, <1>6, <1>8, <1>9, <1>10
     DEF Next, Sender, Once, Drain, Leave

(* No send on a closed channel and no second close (NeverPanics): enqueue     *)
(* tests closed under the read lock and Close, Stop and the write loop close  *)
(* under the write lock, once.                                                *)
THEOREM WriterNeverPanics == Spec => []NeverPanics
<1>1. GateInv => NeverPanics
  BY DEF GateInv, NeverPanics
<1>2. QED
  BY GateInit, GateStep, <1>1, PTL DEF Spec

------------------------------------------------------------------------------
(* Where the processes are: nobody drains the channel for good before it is   *)
(* closed, and only a cut makes the loop leave an open channel.               *)
PlaceInv ==
  /\ at \in [Procs -> {"idle", "select", "writing", "leaving", "once", "drain",
                       "wait", "returned", "done"}]
  /\ failed \in BOOLEAN /\ cut \in BOOLEAN
  /\ at["loop"] \in {"select", "writing", "leaving", "once", "drain", "done"}
  /\ at["close"] \in {"idle", "once", "wait", "returned"}
  /\ at["stop"] \in {"idle", "once", "drain", "wait", "returned"}
  /\ at["drain"] \in {"idle", "drain"}
  /\ at["loop"] \in {"drain", "done"} => ~chan
  /\ at["stop"] \in {"once", "drain", "wait"} => cut
  /\ at["drain"] = "drain" => cut
  /\ cancelled /\ at["loop"] \in {"select", "writing", "leaving"} => cut
  /\ ~cut /\ at["loop"] \notin {"select", "writing"} => ~chan

LEMMA PlaceInit == Init => PlaceInv
  BY DEF Init, PlaceInv, Procs

LEMMA PlaceStep == GateInv /\ PlaceInv /\ [Next]_vars => PlaceInv'
<1> SUFFICES ASSUME GateInv, PlaceInv, [Next]_vars PROVE PlaceInv'
  OBVIOUS
<1> USE DEF PlaceInv, Go, Procs
<1>1. ASSUME UNCHANGED <<cancelled, at, failed, cut>>, chan' = chan \/ chan' = FALSE
      PROVE  PlaceInv'
  BY <1>1
<1>2. ASSUME NEW s \in Senders, Sender(s) PROVE PlaceInv'
  BY <1>1, <1>2 DEF Sender, Enter, RLock, Push, Refuse, gate
<1>3. ASSUME NEW p \in Procs, DoOnce(p) \/ CloseChannel(p) \/ DrainOne(p) PROVE PlaceInv'
  BY <1>1, <1>3 DEF DoOnce, CloseChannel, DrainOne, gate
<1>4. ASSUME NEW p \in Procs, OnceDone(p) PROVE PlaceInv'
  <2>1. ~chan /\ UNCHANGED <<cancelled, failed, cut, chan>> /\ at[p] = "once"
    BY <1>4 DEF OnceDone, GateInv, gate
  <2>2. at' = [at EXCEPT ![p] = IF p = "close" THEN "wait" ELSE "drain"]
    BY <1>4 DEF OnceDone, After
  <2>3. p # "drain"
    BY <2>1
  <2>4. QED
    BY <2>1, <2>2, <2>3
<1>5. ASSUME NEW p \in Procs, DrainEnds(p) PROVE PlaceInv'
  BY <1>5 DEF DrainEnds, Drained, gate
<1>6. CASE LoopReceives \/ WriteOk \/ WriteFails
  <2>1. CASE LoopReceives
    BY <2>1 DEF LoopReceives, gate
  <2>2. CASE WriteOk
    BY <2>2 DEF WriteOk, gate
  <2>3. CASE WriteFails
    BY <2>3 DEF WriteFails, gate
  <2>4. QED
    BY <1>6, <2>1, <2>2, <2>3
<1>7. CASE LoopSeesEnd
  BY <1>7 DEF LoopSeesEnd, ChannelEnds, gate
<1>8. CASE LoopLeaves
  BY <1>8 DEF LoopLeaves, gate
<1>9. CASE CloseBegins \/ CloseReturns \/ StopBegins
  <2>1. CASE CloseBegins
    BY <2>1 DEF CloseBegins, gate
  <2>2. CASE CloseReturns
    BY <2>2 DEF CloseReturns, gate
  <2>3. CASE StopBegins
    BY <2>3 DEF StopBegins, gate
  <2>4. QED
    BY <1>9, <2>1, <2>2, <2>3
<1>10. CASE ClosingEnds \/ DrainBegins \/ ParentEnds
  <2>1. CASE ClosingEnds
    BY <2>1 DEF ClosingEnds, gate
  <2>2. CASE DrainBegins
    BY <2>2 DEF DrainBegins, gate
  <2>3. CASE ParentEnds
    BY <2>3 DEF ParentEnds, gate
  <2>4. QED
    BY <1>10, <2>1, <2>2, <2>3
<1>11. CASE UNCHANGED vars
  BY <1>1, <1>11 DEF vars
<1>12. QED
  BY <1>2, <1>3, <1>4, <1>5, <1>6, <1>7, <1>8, <1>9, <1>10, <1>11 DEF Next, Once, Drain, Leave

------------------------------------------------------------------------------
(* What the queue, the loop and the wire hold: a message goes missing only    *)
(* when something cut the flow.                                               *)
HoldInv ==
  /\ queue \in Seq(Nat) /\ Len(queue) <= Capacity
  /\ inflight \in Seq(Nat) /\ wire \in Seq(Nat) /\ issued \in Nat
  /\ Len(inflight) = IF at["loop"] = "writing" THEN 1 ELSE 0
  /\ at["loop"] = "done" => Len(queue) = 0
  /\ cut = FALSE /\ at["loop"] \notin {"select", "writing"} => Len(queue) = 0
  /\ cut = FALSE => Len(wire) + Len(inflight) + Len(queue) = issued

LEMMA HoldInit == Init => HoldInv
<1> SUFFICES ASSUME Init PROVE HoldInv
  OBVIOUS
<1>1. at["loop"] = "select" /\ Len(<<>>) = 0 /\ <<>> \in Seq(Nat)
  BY EmptySeq DEF Init, Procs
<1>2. QED
  BY <1>1, WriterAssumption DEF Init, HoldInv, WriterAssumption

(* The length of a queue from which something was taken.                      *)
LEMMA Taken ==
  ASSUME NEW q \in Seq(Nat), q # <<>>
  PROVE  Tail(q) \in Seq(Nat) /\ Len(Tail(q)) = Len(q) - 1 /\ Head(q) \in Nat /\ Len(q) # 0
  BY EmptySeq, HeadTailProperties

LEMMA HoldStep == GateInv /\ PlaceInv /\ HoldInv /\ [Next]_vars => HoldInv'
<1> SUFFICES ASSUME GateInv, PlaceInv, HoldInv, [Next]_vars PROVE HoldInv'
  OBVIOUS
<1> USE WriterAssumption DEF HoldInv, WriterAssumption, Go
<1> Len(queue) \in Nat /\ Len(wire) \in Nat /\ Len(inflight) \in Nat
  BY LenProperties
<1>1. ASSUME UNCHANGED flow, cut' \in {cut, TRUE},
             Len(inflight) = IF at'["loop"] = "writing" THEN 1 ELSE 0,
             at'["loop"] = "done" => Len(queue) = 0,
             cut = FALSE /\ at'["loop"] \notin {"select", "writing"} => Len(queue) = 0
      PROVE  HoldInv'
  BY <1>1 DEF flow
<1>2. ASSUME NEW s \in Senders, Enter(s) \/ RLock(s) \/ Refuse(s) PROVE HoldInv'
  BY <1>2, <1>1 DEF Enter, RLock, Refuse
<1>3. ASSUME NEW s \in Senders, Push(s) PROVE HoldInv'
  <2>1. chan
    BY <1>3 DEF Push, GateInv, GateOK
  <2>2. /\ Len(queue) < Capacity /\ issued' = issued + 1 /\ queue' = Append(queue, issued')
        /\ UNCHANGED <<at, cut, inflight, wire>>
    BY <1>3, <2>1 DEF Push, HasRoom
  <2>3. queue' \in Seq(Nat) /\ Len(queue') = Len(queue) + 1
    BY <2>2, AppendProperties
  <2>4. at["loop"] \notin {"drain", "done"} /\ (cut = FALSE => at["loop"] \in {"select", "writing"})
    BY <2>1 DEF PlaceInv
  <2>5. UNCHANGED <<at, cut, inflight, wire>> /\ issued' = issued + 1 /\ Len(queue) < Capacity
    BY <2>2
  <2>6. (cut = FALSE => Len(wire) + Len(inflight) + Len(queue) = issued)'
    <3> DEFINE w == Len(wire)  f == Len(inflight)  q == Len(queue)
    <3>1. w \in Nat /\ f \in Nat /\ q \in Nat /\ issued \in Nat
      OBVIOUS
    <3>2. cut' = cut /\ w' = w /\ f' = f /\ q' = q + 1 /\ issued' = issued + 1
      BY <2>3, <2>5
    <3>3. cut = FALSE => w + f + q = issued
      OBVIOUS
    <3> HIDE DEF w, f, q
    <3>4. (cut = FALSE => w + f + q = issued)'
      BY <3>1, <3>2, <3>3
    <3>5. QED
      BY <3>4 DEF w, f, q
  <2>7. (queue \in Seq(Nat) /\ Len(queue) <= Capacity /\ inflight \in Seq(Nat) /\ wire \in Seq(Nat) /\ issued \in Nat)'
    BY <2>3, <2>5
  <2>8. (Len(inflight) = IF at["loop"] = "writing" THEN 1 ELSE 0)'
    BY <2>5
  <2>9. QED
    BY <2>4, <2>5, <2>6, <2>7, <2>8
<1>4. ASSUME NEW p \in Procs, DoOnce(p) \/ CloseChannel(p) PROVE HoldInv'
  BY <1>4, <1>1 DEF DoOnce, CloseChannel
<1>5. ASSUME NEW p \in Procs, OnceDone(p) PROVE HoldInv'
  BY <1>5, <1>1 DEF OnceDone, After, PlaceInv, Procs
<1>6. ASSUME NEW p \in Procs, DrainOne(p) PROVE HoldInv'
  <2>1. /\ queue' = Tail(queue) /\ UNCHANGED <<at, inflight, wire, issued, cut>>
        /\ queue # <<>> /\ at[p] = "drain"
    BY <1>6 DEF DrainOne
  <2>2. queue' \in Seq(Nat) /\ Len(queue') = Len(queue) - 1 /\ Len(queue) # 0
    BY <2>1, Taken
  <2>3. cut
    BY <2>1, <2>2 DEF PlaceInv, Procs
  <2>4. QED
    BY <2>1, <2>2, <2>3
<1>7. ASSUME NEW p \in Procs, DrainEnds(p) PROVE HoldInv'
  <2>1. Len(queue) = 0
    BY <1>7, EmptySeq DEF DrainEnds
  <2>2. QED
    BY <1>7, <1>1, <2>1 DEF DrainEnds, Drained, PlaceInv, Procs
<1>8. CASE LoopReceives
  <2>1. Tail(queue) \in Seq(Nat) /\ Len(Tail(queue)) = Len(queue) - 1 /\ Head(queue) \in Nat
    BY <1>8, Taken DEF LoopReceives
  <2>2. Len(inflight') = 1 /\ inflight' \in Seq(Nat)
    BY <1>8, <2>1 DEF LoopReceives
  <2>3. at' = [at EXCEPT !["loop"] = "writing"] /\ at["loop"] = "select" /\ at'["loop"] = "writing"
    BY <1>8 DEF LoopReceives, PlaceInv, Procs
  <2>4. queue' \in Seq(Nat) /\ Len(queue') = Len(queue) - 1 /\ UNCHANGED <<wire, issued, cut>>
    BY <1>8, <2>1 DEF LoopReceives
  <2>5. Len(inflight) = 0
    BY <2>3
  <2>6. (cut = FALSE => Len(wire) + Len(inflight) + Len(queue) = issued)'
    <3> DEFINE w == Len(wire)  f == Len(inflight)  q == Len(queue)
    <3>1. w \in Nat /\ f = 0 /\ q \in Nat /\ issued \in Nat
      BY <2>5
    <3>2. cut' = cut /\ w' = w /\ f' = 1 /\ q' = q - 1 /\ issued' = issued
      BY <2>2, <2>4
    <3>3. cut = FALSE => w + f + q = issued
      OBVIOUS
    <3> HIDE DEF w, f, q
    <3>4. (cut = FALSE => w + f + q = issued)'
      BY <3>1, <3>2, <3>3
    <3>5. QED
      BY <3>4 DEF w, f, q
  <2>7. QED
    BY <2>2, <2>3, <2>4, <2>6
<1>9. CASE LoopSeesEnd
  <2>1. cut = FALSE => Len(queue) = 0
    BY <1>9, EmptySeq DEF LoopSeesEnd, ChannelEnds, PlaceInv
  <2>2. QED
    BY <1>9, <1>1, <2>1 DEF LoopSeesEnd, PlaceInv, Procs
<1>10. CASE WriteOk
  <2>1. Len(wire \o inflight) = Len(wire) + Len(inflight) /\ wire \o inflight \in Seq(Nat)
    BY ConcatProperties
  <2>2. at["loop"] = "writing" /\ at'["loop"] = "select" /\ Len(inflight') = 0
    BY <1>10, EmptySeq DEF WriteOk, PlaceInv, Procs
  <2>3. QED
    BY <1>10, <2>1, <2>2 DEF WriteOk
<1>11. CASE WriteFails
  <2>1. at'["loop"] = "leaving" /\ Len(inflight') = 0 /\ cut'
    BY <1>11, EmptySeq DEF WriteFails, PlaceInv, Procs
  <2>2. QED
    BY <1>11, <2>1 DEF WriteFails
<1>12. CASE LoopLeaves
  BY <1>12, <1>1 DEF LoopLeaves, PlaceInv, Procs
<1>13. CASE CloseBegins \/ CloseReturns \/ StopBegins \/ ClosingEnds \/ DrainBegins \/ ParentEnds
  BY <1>13, <1>1
     DEF CloseBegins, CloseReturns, StopBegins, ClosingEnds, DrainBegins, ParentEnds, PlaceInv, Procs
<1>14. CASE UNCHANGED vars
  BY <1>14, <1>1 DEF vars, flow
<1>15. QED
  BY <1>2, <1>3, <1>4, <1>5, <1>6, <1>7, <1>8, <1>9, <1>10, <1>11, <1>12, <1>13, <1>14
     DEF Next, Sender, Once, Drain, Leave

LEMMA WriterInvariant == Spec => [](GateInv /\ PlaceInv /\ HoldInv)
<1>1. Init => GateInv /\ PlaceInv /\ HoldInv
  BY GateInit, PlaceInit, HoldInit
<1>2. GateInv /\ PlaceInv /\ HoldInv /\ [Next]_vars => (GateInv /\ PlaceInv /\ HoldInv)'
  BY GateStep, PlaceStep, HoldStep
<1>3. QED
  BY <1>1, <1>2, PTL DEF Spec

(* The types, and the queue within its capacity, for any capacity.            *)
THEOREM WriterTypes == Spec => []TypeOK
<1>1. GateInv /\ PlaceInv /\ HoldInv => TypeOK
  BY DEF GateInv, GateOK, PlaceInv, HoldInv, TypeOK
<1>2. QED
  BY <1>1, WriterInvariant, PTL

(* Whatever races with a close: no goroutine sends on or closes a closed      *)
(* channel, no enqueue that was under way puts a message behind the last      *)
(* drain, and a close that nothing cuts short has written everything that was *)
(* accepted before it (ClosesCleanly).                                        *)
THEOREM WriterClosesCleanly == Spec => []ClosesCleanly
<1>1. GateInv /\ PlaceInv /\ HoldInv => NothingStranded
  BY EmptySeq DEF PlaceInv, HoldInv, NothingStranded
<1>2. GateInv /\ PlaceInv /\ HoldInv => CloseIsGraceful
  BY DEF PlaceInv, HoldInv, CloseIsGraceful
<1>3. GateInv /\ PlaceInv /\ HoldInv /\ NeverPanics => ClosesCleanly
  BY <1>1, <1>2 DEF ClosesCleanly
<1>4. QED
  BY <1>3, WriterInvariant, WriterNeverPanics, PTL

------------------------------------------------------------------------------
(* The writer implements the outbox.                                          *)

(* What is pending grows at the end when the queue does.                      *)
LEMMA PendingGrows ==
  ASSUME NEW f \in Seq(Nat), NEW q \in Seq(Nat), NEW x \in Nat
  PROVE  f \o Append(q, x) = Append(f \o q, x)
<1>1. <<x>> \in Seq(Nat) /\ f \o q \in Seq(Nat)
  BY ConcatProperties
<1>2. Append(q, x) = q \o <<x>> /\ Append(f \o q, x) = (f \o q) \o <<x>>
  BY <1>1, AppendIsConcat
<1>3. QED
  BY <1>1, <1>2, ConcatAssociative

(* Taking a message from the queue into flight changes nothing.               *)
LEMMA PendingMoves ==
  ASSUME NEW q \in Seq(Nat), q # <<>>
  PROVE  <<Head(q)>> \o Tail(q) = q
<1>1. Len(q) \in Nat \ {0} /\ Head(q) = q[1]
  BY EmptySeq
<1>2. SubSeq(q, 1, Len(q)) = <<q[1]>> \o SubSeq(q, 1 + 1, Len(q))
  <2>1. 1 \in 1 .. Len(q) /\ Len(q) \in 1 .. Len(q)
    BY <1>1
  <2>2. QED
    BY <2>1, SubSeqRecursiveFirst
<1>3. QED
  BY <1>1, <1>2, SubSeqFull, TailIsSubSeq

(* The message in flight is the head of what is pending.                      *)
LEMMA PendingHead ==
  ASSUME NEW f \in Seq(Nat), NEW q \in Seq(Nat), Len(f) = 1
  PROVE  /\ f \o q \in Seq(Nat) /\ f \o q # <<>>
         /\ Head(f \o q) = f[1] /\ Tail(f \o q) = q
         /\ f = <<f[1]>> /\ f[1] \in Nat
<1>1. Len(q) \in Nat /\ f \o q \in Seq(Nat) /\ Len(f \o q) = 1 + Len(q)
  BY ConcatProperties, LenProperties
<1>2. f \o q # <<>>
  BY <1>1, EmptySeq
<1>3. \A i \in 1 .. 1 + Len(q) : (f \o q)[i] = IF i <= 1 THEN f[i] ELSE q[i - 1]
  <2>1. \A i \in 1 .. Len(f) + Len(q) :
          (f \o q)[i] = IF i <= Len(f) THEN f[i] ELSE q[i - Len(f)]
    BY ConcatProperties
  <2>2. QED
    BY <2>1
<1>4. Head(f \o q) = f[1]
  BY <1>1, <1>2, <1>3
<1>5. Tail(f \o q) = q
  <2>1. Tail(f \o q) \in Seq(Nat) /\ Len(Tail(f \o q)) = Len(q)
        /\ \A i \in 1 .. Len(q) : Tail(f \o q)[i] = (f \o q)[i + 1]
    BY <1>1, <1>2, HeadTailProperties
  <2>2. \A i \in 1 .. Len(q) : Tail(f \o q)[i] = q[i]
    BY <1>1, <1>3, <2>1
  <2>3. QED
    BY <2>1, <2>2, SeqEqual
<1>6. f[1] \in Nat
  BY ElementOfSeq
<1>7. f = <<f[1]>>
  <2>1. <<f[1]>> \in Seq(Nat) /\ Len(<<f[1]>>) = 1 /\ <<f[1]>>[1] = f[1]
    BY <1>6
  <2>2. QED
    BY <2>1, SeqEqual
<1>8. QED
  BY <1>1, <1>2, <1>4, <1>5, <1>6, <1>7

(* Draining takes away the first message behind the one in flight.            *)
LEMMA PendingShrinks ==
  ASSUME NEW f \in Seq(Nat), NEW q \in Seq(Nat), q # <<>>
  PROVE  /\ Len(f) + 1 \in DOMAIN (f \o q)
         /\ f \o Tail(q) = Promise!RemoveAt(f \o q, Len(f) + 1)
<1> DEFINE p == f \o q  n == Len(f) + 1
<1>1. Len(f) \in Nat /\ Len(q) \in Nat \ {0} /\ p \in Seq(Nat) /\ Len(p) = Len(f) + Len(q)
      /\ DOMAIN p = 1 .. Len(p)
  BY ConcatProperties, LenProperties, EmptySeq
<1>2. SubSeq(p, 1, Len(f)) = f
  <2>1. CASE Len(f) = 0
    BY <2>1, <1>1, SubSeqEmpty, EmptySeq
  <2>2. CASE Len(f) # 0
    <3>1. 1 \in 1 .. Len(f) /\ Len(f) \in 1 .. Len(f)
      BY <2>2, <1>1
    <3>2. QED
      BY <3>1, SubSeqOfConcat1, SubSeqFull
  <2>3. QED
    BY <2>1, <2>2
<1>3. SubSeq(p, n + 1, Len(p)) = Tail(q)
  <2>1. CASE Len(q) = 1
    BY <2>1, <1>1, SubSeqEmpty, TailIsSubSeq
  <2>2. CASE Len(q) # 1
    <3>1. n + 1 \in Len(f) + 1 .. Len(f) + Len(q) /\ Len(p) \in Len(f) + 1 .. Len(f) + Len(q)
      <4> DEFINE a == Len(f)  b == Len(q)  c == Len(p)
      <4>1. a \in Nat /\ b \in Nat \ {0} /\ b # 1 /\ c = a + b
        BY <2>2, <1>1
      <4> HIDE DEF a, b, c
      <4>2. a + 1 + 1 \in a + 1 .. a + b /\ c \in a + 1 .. a + b
        BY <4>1
      <4>3. QED
        BY <4>2 DEF a, b, c
    <3>2. SubSeq(p, n + 1, Len(p)) = SubSeq(q, n + 1 - Len(f), Len(p) - Len(f))
      BY <3>1, SubSeqOfConcat2
    <3>3. n + 1 - Len(f) = 2 /\ Len(p) - Len(f) = Len(q)
      BY <1>1
    <3>4. QED
      BY <3>2, <3>3, TailIsSubSeq
  <2>3. QED
    BY <2>1, <2>2
<1>4. n - 1 = Len(f) /\ n \in DOMAIN p
  BY <1>1
<1>5. QED
  BY <1>2, <1>3, <1>4 DEF Promise!RemoveAt

LEMMA OutboxInit == Init => Promise!Init
  BY EmptySeq, ConcatEmptySeq DEF Init, Promise!Init

LEMMA OutboxStep == GateInv /\ PlaceInv /\ HoldInv /\ [Next]_vars => [Promise!Next]_(Promise!vars)
<1> SUFFICES ASSUME GateInv, PlaceInv, HoldInv, [Next]_vars
             PROVE  Promise!Next \/ UNCHANGED Promise!vars
  OBVIOUS
<1>0. queue \in Seq(Nat) /\ inflight \in Seq(Nat) /\ wire \in Seq(Nat) /\ issued \in Nat
  BY DEF HoldInv
<1>1. ASSUME UNCHANGED flow, UNCHANGED chan PROVE UNCHANGED Promise!vars
  BY <1>1 DEF flow, Promise!vars
<1>2. ASSUME NEW s \in Senders, Sender(s), ~Push(s) PROVE UNCHANGED Promise!vars
  BY <1>1, <1>2 DEF Sender, Enter, RLock, Refuse, gate
<1>3. ASSUME NEW s \in Senders, Push(s) PROVE Promise!Accept
  <2>1. chan
    BY <1>3 DEF Push, GateInv
  <2>2. /\ Len(queue) < Capacity /\ issued' = issued + 1 /\ queue' = Append(queue, issued')
        /\ UNCHANGED <<chan, inflight, wire>>
    BY <1>3, <2>1 DEF Push, HasRoom
  <2>3. inflight \o queue' = Append(inflight \o queue, issued')
    BY <1>0, <2>2, PendingGrows
  <2>4. Len(inflight \o queue) = Len(inflight) + Len(queue)
    BY <1>0, ConcatProperties
  <2>5. Len(inflight) \in {0, 1} /\ Len(queue) \in Nat
    BY <1>0, LenProperties DEF HoldInv
  <2>6. Len(inflight \o queue) <= Capacity
    <3> DEFINE a == Len(inflight)  b == Len(queue)  c == Len(inflight \o queue)
    <3>1. a \in {0, 1} /\ b \in Nat /\ b < Capacity /\ c = a + b /\ Capacity \in Nat
      BY <2>2, <2>4, <2>5, WriterAssumption DEF WriterAssumption
    <3> HIDE DEF a, b, c
    <3>2. c <= Capacity
      BY <3>1
    <3>3. QED
      BY <3>2 DEF c
  <2>7. QED
    BY <2>1, <2>2, <2>3, <2>6 DEF Promise!Accept
<1>4. ASSUME NEW p \in Procs, DoOnce(p) \/ OnceDone(p) \/ DrainEnds(p) PROVE UNCHANGED Promise!vars
  BY <1>1, <1>4 DEF DoOnce, OnceDone, DrainEnds, gate
<1>5. ASSUME NEW p \in Procs, CloseChannel(p) PROVE Promise!Close
  BY <1>5 DEF CloseChannel, GateInv, GateOK, Procs, flow, Promise!Close
<1>6. ASSUME NEW p \in Procs, DrainOne(p) PROVE Promise!Discard
  <2>1. queue # <<>> /\ queue' = Tail(queue) /\ UNCHANGED <<inflight, wire, issued, chan>>
    BY <1>6 DEF DrainOne, gate
  <2>2. /\ Len(inflight) + 1 \in DOMAIN (inflight \o queue)
        /\ inflight \o Tail(queue) = Promise!RemoveAt(inflight \o queue, Len(inflight) + 1)
    BY <1>0, <2>1, PendingShrinks
  <2>3. QED
    BY <2>1, <2>2 DEF Promise!Discard
<1>7. CASE LoopReceives
  <2>1. queue # <<>> /\ inflight' = <<Head(queue)>> /\ queue' = Tail(queue)
        /\ UNCHANGED <<wire, issued, chan>> /\ at["loop"] # "writing"
    BY <1>7 DEF LoopReceives, gate
  <2>2. inflight = <<>>
    BY <1>0, <2>1, EmptySeq DEF HoldInv
  <2>3. inflight \o queue = queue
    BY <1>0, <2>2, ConcatEmptySeq
  <2>4. inflight' \o queue' = queue
    BY <1>0, <2>1, PendingMoves
  <2>5. QED
    BY <2>1, <2>3, <2>4 DEF Promise!vars
<1>8. ASSUME WriteOk \/ WriteFails
      PROVE  /\ inflight' = <<>> /\ UNCHANGED <<queue, issued, chan>> /\ Len(inflight) = 1
             /\ inflight' \o queue' = queue
  <2>1. inflight' = <<>> /\ UNCHANGED <<queue, issued, chan>> /\ at["loop"] = "writing"
    BY <1>8 DEF WriteOk, WriteFails, gate
  <2>2. Len(inflight) = 1
    BY <2>1 DEF HoldInv
  <2>3. QED
    BY <1>0, <2>1, <2>2, ConcatEmptySeq
<1>9. ASSUME WriteOk PROVE Promise!Send
  <2>1. inflight \o queue # <<>> /\ Head(inflight \o queue) = inflight[1]
        /\ Tail(inflight \o queue) = queue /\ inflight = <<inflight[1]>> /\ inflight[1] \in Nat
    BY <1>0, <1>8, <1>9, PendingHead
  <2>2. wire' = Append(wire, inflight[1])
    BY <1>0, <1>9, <2>1, AppendIsConcat DEF WriteOk
  <2>3. QED
    BY <1>8, <1>9, <2>1, <2>2 DEF Promise!Send
<1>10. ASSUME WriteFails PROVE Promise!Discard
  <2>1. /\ inflight \o queue \in Seq(Nat) /\ inflight \o queue # <<>>
        /\ Tail(inflight \o queue) = queue
    BY <1>0, <1>8, <1>10, PendingHead
  <2>2. 1 \in DOMAIN (inflight \o queue) /\ queue = Promise!RemoveAt(inflight \o queue, 1)
    <3> DEFINE p == inflight \o queue
    <3>1. p \in Seq(Nat) /\ Len(p) \in Nat \ {0} /\ DOMAIN p = 1 .. Len(p) /\ Tail(p) = queue /\ p # <<>>
      BY <2>1, EmptySeq, LenProperties
    <3> HIDE DEF p
    <3>2. Tail(p) = SubSeq(p, 2, Len(p)) /\ SubSeq(p, 1, 0) = <<>>
      BY <3>1, TailIsSubSeq, SubSeqEmpty
    <3>3. <<>> \o queue = queue
      BY <1>0, ConcatEmptySeq
    <3>4. 1 - 1 = 0 /\ 1 + 1 = 2 /\ 1 \in DOMAIN p
      BY <3>1
    <3>5. Promise!RemoveAt(p, 1) = queue
      BY <3>1, <3>2, <3>3, <3>4 DEF Promise!RemoveAt
    <3>6. QED
      BY <3>4, <3>5 DEF p
  <2>3. UNCHANGED wire
    BY <1>10 DEF WriteFails
  <2>4. QED
    BY <1>8, <1>10, <2>2, <2>3 DEF Promise!Discard
<1>11. CASE Leave \/ CloseBegins \/ CloseReturns \/ StopBegins \/ ClosingEnds \/ DrainBegins
            \/ ParentEnds \/ UNCHANGED vars
  BY <1>1, <1>11
     DEF Leave, LoopSeesEnd, LoopLeaves, CloseBegins, CloseReturns, StopBegins, ClosingEnds,
         DrainBegins, ParentEnds, vars, flow, gate
<1>12. QED
  BY <1>2, <1>3, <1>4, <1>5, <1>6, <1>7, <1>9, <1>10, <1>11
     DEF Next, Once, Drain, Promise!Next

(* The writer implements the outbox: what it has accepted is written in order *)
(* and at most once, the queue is bounded, and nothing is accepted after it   *)
(* was closed, however enqueues, drains, Close and Stop interleave.           *)
THEOREM WriterIsOutbox == Spec => Outbox
<1>1. Init => Promise!Init
  BY OutboxInit
<1>2. GateInv /\ PlaceInv /\ HoldInv /\ [Next]_vars => [Promise!Next]_(Promise!vars)
  BY OutboxStep
<1>3. QED
  BY <1>1, <1>2, WriterInvariant, PTL DEF Spec, Outbox, Promise!Spec
==============================================================================
