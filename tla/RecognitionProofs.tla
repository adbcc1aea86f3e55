--------------------------- MODULE RecognitionProofs ---------------------------
(***************************************************************************)
(* The recogniser hears every frame once and in order, with finish-task    *)
(* after the last, the closed channel is never sent on, and a text posted  *)
(* while nobody ends the recognition is that of the whole utterance: for   *)
(* any capacity of the queue, any number of frames and results.            *)
(***************************************************************************)
EXTENDS Recognition, SequenceTheorems, TLAPS

(* Somebody has begun to end the recognition.                                 *)
Ending == over = TRUE \/ at["stop"] # "idle"

(* finish-task has been written, after all the frames there will ever be.     *)
Ended == Len(wire) = pushed + 1 /\ chan = FALSE /\ finishCalled = TRUE

Spots == {"idle", "push", "send", "closing", "finish", "stopped", "recv", "write", "done",
          "read", "mark", "finished", "leaving", "drain", "choose", "vad", "task", "close",
          "cancel", "wait", "channels"}

(* The channel is closed by FinishASR, the last thing the supervisor does to  *)
(* the queue: no Push is on its way then.                                     *)
GateInv ==
  /\ at \in [Procs -> Spots]
  /\ chan = FALSE => at["sup"] = "stopped" /\ mode = "manual"
  /\ at["sup"] = "finish" => mode = "manual"
  /\ finishCalled = TRUE => chan = FALSE
  /\ at["worker"] = "finish" => chan = FALSE /\ finishCalled = TRUE /\ queue = <<>>
  /\ panicked = FALSE

(* Written, held and queued frames are those pushed, in order, as long as the *)
(* worker may still write.                                                    *)
WireInv ==
  /\ at["worker"] \in {"recv", "write", "finish", "done"}
  /\ at["worker"] # "done" =>
       /\ held = IF at["worker"] = "write" THEN <<Len(wire) + 1>> ELSE <<>>
       /\ \A i \in 1 .. Len(queue) : queue[i] = Len(wire) + Len(held) + i
       /\ Len(wire) + Len(held) + Len(queue) = pushed
  /\ \A i \in 1 .. Len(wire) :
       wire[i] = i \/ (wire[i] = Fin /\ i = Len(wire) /\ at["worker"] = "done" /\ Ended)

(* What each signal means while nobody ends the recognition and the stream    *)
(* has not failed.                                                            *)
SignalInv ==
  /\ qctx = TRUE \/ sctx = TRUE \/ sclosed = TRUE \/ err = "canceled" => Ending
  /\ outcome = "finished" => Ended
  /\ at["reader"] = "mark" => finalText # 0
  /\ at["reader"] = "finished" => outcome = "finished"
  /\ at["reader"] \in {"leaving", "done"} => err # None \/ outcome = "finished"
  /\ taskFinished = TRUE => Ending \/ err # None \/ outcome = "finished"
  /\ vadReady = TRUE => Ending \/ err # None \/ outcome = "finished" \/ finalText # 0

(* In manual mode the text is not asked for before finish-task was written.   *)
ResultInv ==
  /\ at["worker"] = "done" /\ workerErr = FALSE => Ending \/ Ended
  /\ mode = "manual" =>
       /\ at["result"] = "choose" => Ending \/ Ended
       /\ at["result"] = "vad" => Ending
  /\ (posted # None /\ posted.ok /\ posted.alone) =>
       IF mode = "manual" THEN outcome = "finished" /\ posted.text = finalText
       ELSE posted.text # 0

------------------------------------------------------------------------------
(* Types.                                                                     *)

FlagsOK ==
  /\ mode \in Modes /\ over \in BOOLEAN /\ qctx \in BOOLEAN /\ sctx \in BOOLEAN
  /\ chan \in BOOLEAN /\ finished \in BOOLEAN /\ qclosed \in BOOLEAN /\ workerErr \in BOOLEAN
  /\ sclosed \in BOOLEAN /\ conn \in BOOLEAN /\ finishCalled \in BOOLEAN
  /\ err \in {None, "canceled", "failed"} /\ vadReady \in BOOLEAN /\ taskFinished \in BOOLEAN
  /\ outcome \in {"running", "finished"} /\ panicked \in BOOLEAN
  /\ DOMAIN at = Procs

FramesOK ==
  /\ queue \in Seq(Nat) /\ Len(queue) <= Capacity
  /\ held \in Seq(Nat) /\ Len(held) <= 1 /\ pushed \in Nat /\ wire \in Seq(Nat)

TextsOK == partialText \in 0 .. results /\ finalText \in 0 .. results /\ results \in Nat

LEMMA TypesSplit == TypeOK <=> FlagsOK /\ FramesOK /\ TextsOK
  BY DEF TypeOK, FlagsOK, FramesOK, TextsOK

LEMMA TypesInit == Init => TypeOK
<1> SUFFICES ASSUME Init PROVE TypeOK
  OBVIOUS
<1>1. FlagsOK
  BY DEF Init, FlagsOK
<1>2. FramesOK
  <2>1. queue \in Seq(Nat) /\ held \in Seq(Nat) /\ wire \in Seq(Nat)
    BY DEF Init
  <2>2. Len(queue) = 0 /\ Len(held) = 0 /\ pushed = 0
    BY DEF Init
  <2>3. QED
    BY <2>1, <2>2, RecognitionAssumption DEF FramesOK
<1>3. TextsOK
  BY DEF Init, TextsOK
<1>4. QED
  BY <1>1, <1>2, <1>3, TypesSplit

LEMMA FlagsStep == FlagsOK /\ [Next]_vars => FlagsOK'
<1> SUFFICES ASSUME FlagsOK, [Next]_vars PROVE FlagsOK'
  OBVIOUS
<1> USE DEF FlagsOK, Goto, queueing, contexts, link, signals, texts
<1>1. CASE Fetch \/ PushChecks \/ ListenStops
  BY <1>1 DEF Fetch, PushChecks, ListenStops
<1>2. CASE PushSends
  <2>1. panicked' \in BOOLEAN /\ DOMAIN at' = Procs
    BY <1>2 DEF PushSends
  <2>2. QED
    BY <1>2, <2>1 DEF PushSends
<1>3. CASE FinishASR
  <2>1. finished' \in BOOLEAN /\ chan' \in BOOLEAN /\ DOMAIN at' = Procs
    BY <1>3 DEF FinishASR
  <2>2. QED
    BY <1>3, <2>1 DEF FinishASR
<1>4. CASE WorkerSeesCancel
  BY <1>4 DEF WorkerSeesCancel, WorkerEnds
<1>5. CASE Recv
  <2>1. workerErr' \in BOOLEAN /\ DOMAIN at' = Procs
    BY <1>5 DEF Recv, WorkerEnds
  <2>2. QED
    BY <1>5, <2>1 DEF Recv
<1>6. CASE FinishChecks
  <2>1. workerErr' \in BOOLEAN /\ finishCalled' \in BOOLEAN
    BY <1>6 DEF FinishChecks, WorkerEnds
  <2>2. DOMAIN at' = Procs
    BY <1>6 DEF FinishChecks, WorkerEnds
  <2>3. QED
    BY <1>6, <2>1, <2>2 DEF FinishChecks
<1>7. CASE WriteOk
  BY <1>7 DEF WriteOk, WorkerEnds
<1>8. CASE WriteFails
  BY <1>8 DEF WriteFails, RecordError, WorkerEnds
<1>9. CASE ReadPartial \/ ReadSentence \/ ReadFinished
  BY <1>9 DEF ReadPartial, ReadSentence, ReadFinished
<1>10. CASE MarkVADReady
  BY <1>10 DEF MarkVADReady
<1>11. CASE MarkFinished
  BY <1>11 DEF MarkFinished
<1>12. CASE Leave
  BY <1>12 DEF Leave
<1>13. CASE ReadFails
  BY <1>13 DEF ReadFails, RecordError
<1>14. CASE Drain \/ Choose \/ Returns \/ Abandons
  BY <1>14 DEF Drain, Choose, Returns, Abandons
<1>15. CASE TurnEnds
  BY <1>15 DEF TurnEnds
<1>16. CASE StopBegins
  BY <1>16 DEF StopBegins
<1>17. CASE QueueCloses
  BY <1>17 DEF QueueCloses, KeepsChannel
<1>18. CASE QueueCancel
  BY <1>18 DEF QueueCancel, QueueCancels
<1>19. CASE StreamCloses
  BY <1>19 DEF StreamCloses
<1>20. CASE ChannelsClose
  BY <1>20 DEF ChannelsClose
<1>21. CASE UNCHANGED vars
  BY <1>21 DEF vars
<1>22. QED
  BY <1>1, <1>2, <1>3, <1>4, <1>5, <1>6, <1>7, <1>8, <1>9, <1>10, <1>11, <1>12, <1>13, <1>14,
     <1>15, <1>16, <1>17, <1>18, <1>19, <1>20, <1>21
     DEF Next, Supervise, Work, Read, Await, Stop

LEMMA OneInSeq ==
  /\ <<>> \in Seq(Nat) /\ Len(<<>>) = 0
  /\ \A x \in Nat : <<x>> \in Seq(Nat) /\ Len(<<x>>) = 1
  OBVIOUS

LEMMA FramesStep == FramesOK /\ [Next]_vars => FramesOK'
<1> SUFFICES ASSUME FramesOK, [Next]_vars PROVE FramesOK'
  OBVIOUS
<1> USE DEF FramesOK, queueing, link
<1>1. CASE PushSends
  <2>1. CASE UNCHANGED <<queue, pushed>>
    BY <1>1, <2>1 DEF PushSends
  <2>2. CASE HasRoom /\ pushed' = pushed + 1 /\ queue' = Append(queue, pushed')
    <3>1. queue' \in Seq(Nat) /\ Len(queue') = Len(queue) + 1 /\ pushed' \in Nat
      BY <2>2, AppendProperties
    <3>2. Len(queue') <= Capacity
      BY <2>2, <3>1, LenProperties, RecognitionAssumption DEF HasRoom
    <3>3. QED
      BY <1>1, <3>1, <3>2 DEF PushSends
  <2>3. QED
    BY <1>1, <2>1, <2>2 DEF PushSends
<1>2. CASE Recv
  <2>1. queue' = Tail(queue) /\ queue # <<>> /\ UNCHANGED <<pushed, wire>>
    BY <1>2 DEF Recv
  <2>2. queue' \in Seq(Nat) /\ Len(queue') <= Capacity /\ Head(queue) \in Nat
    BY <2>1, HeadTailProperties, LenProperties, RecognitionAssumption
  <2>3. held' = <<>> \/ held' = <<Head(queue)>>
    BY <1>2 DEF Recv, WorkerEnds
  <2>4. held' \in Seq(Nat) /\ Len(held') <= 1
    <3>1. CASE held' = <<>>
      BY <3>1, OneInSeq
    <3>2. CASE held' = <<Head(queue)>>
      BY <2>2, <3>2, OneInSeq
    <3>3. QED
      BY <2>3, <3>1, <3>2
  <2>5. QED
    BY <2>1, <2>2, <2>4
<1>3. ASSUME UNCHANGED <<queue, pushed>>,
             wire' = wire \/ wire' = wire \o held \/ wire' = Append(wire, Fin),
             held' = held \/ held' = <<>>
      PROVE  FramesOK'
  <2>1. wire' \in Seq(Nat)
    <3>1. wire \o held \in Seq(Nat) /\ Append(wire, Fin) \in Seq(Nat)
      BY ConcatProperties, AppendProperties DEF Fin
    <3>2. QED
      BY <1>3, <3>1
  <2>2. held' \in Seq(Nat) /\ Len(held') <= 1
    <3>1. CASE held' = held
      BY <3>1
    <3>2. CASE held' = <<>>
      BY <3>2, OneInSeq
    <3>3. QED
      BY <1>3, <3>1, <3>2
  <2>3. QED
    BY <1>3, <2>1, <2>2
<1>4. CASE WriteOk
  BY <1>3, <1>4 DEF WriteOk, WorkerEnds
<1>5. CASE WorkerSeesCancel \/ FinishChecks \/ WriteFails
  BY <1>3, <1>5 DEF WorkerSeesCancel, FinishChecks, WriteFails, WorkerEnds
<1>6. CASE Fetch \/ PushChecks \/ ListenStops \/ FinishASR
  BY <1>3, <1>6 DEF Fetch, PushChecks, ListenStops, FinishASR
<1>7. CASE \/ ReadPartial \/ ReadSentence \/ ReadFinished \/ ReadFails
           \/ MarkVADReady \/ MarkFinished \/ Leave
  BY <1>3, <1>7
     DEF ReadPartial, ReadSentence, ReadFinished, ReadFails, MarkVADReady, MarkFinished, Leave
<1>8. CASE Drain \/ Choose \/ Returns \/ Abandons \/ TurnEnds
  BY <1>3, <1>8 DEF Drain, Choose, Returns, Abandons, TurnEnds
<1>9. CASE StopBegins \/ QueueCloses \/ QueueCancel \/ StreamCloses \/ ChannelsClose
  BY <1>3, <1>9 DEF StopBegins, QueueCloses, QueueCancel, StreamCloses, ChannelsClose
<1>10. CASE UNCHANGED vars
  BY <1>3, <1>10 DEF vars
<1>11. QED
  BY <1>1, <1>2, <1>4, <1>5, <1>6, <1>7, <1>8, <1>9, <1>10
     DEF Next, Supervise, Work, Read, Await, Stop

LEMMA TextsStep == TextsOK /\ [Next]_vars => TextsOK'
<1> SUFFICES ASSUME TextsOK, [Next]_vars PROVE TextsOK'
  OBVIOUS
<1> USE DEF TextsOK, texts
<1>1. CASE ReadPartial \/ ReadSentence \/ ReadFinished
  BY <1>1 DEF ReadPartial, ReadSentence, ReadFinished, More
<1>2. ASSUME UNCHANGED texts PROVE TextsOK'
  BY <1>2
<1>3. CASE Fetch \/ PushChecks \/ PushSends \/ ListenStops \/ FinishASR
  BY <1>2, <1>3 DEF Fetch, PushChecks, PushSends, ListenStops, FinishASR
<1>4. CASE WorkerSeesCancel \/ Recv \/ FinishChecks \/ WriteOk \/ WriteFails
  BY <1>2, <1>4 DEF WorkerSeesCancel, Recv, FinishChecks, WriteOk, WriteFails
<1>5. CASE ReadFails \/ MarkVADReady \/ MarkFinished \/ Leave
  BY <1>2, <1>5 DEF ReadFails, MarkVADReady, MarkFinished, Leave
<1>6. CASE Drain \/ Choose \/ Returns \/ Abandons \/ TurnEnds
  BY <1>2, <1>6 DEF Drain, Choose, Returns, Abandons, TurnEnds
<1>7. CASE StopBegins \/ QueueCloses \/ QueueCancel \/ StreamCloses \/ ChannelsClose
  BY <1>2, <1>7 DEF StopBegins, QueueCloses, QueueCancel, StreamCloses, ChannelsClose
<1>8. CASE UNCHANGED vars
  BY <1>2, <1>8 DEF vars
<1>9. QED
  BY <1>1, <1>3, <1>4, <1>5, <1>6, <1>7, <1>8 DEF Next, Supervise, Work, Read, Await, Stop

LEMMA TypesStep == TypeOK /\ [Next]_vars => TypeOK'
<1> SUFFICES ASSUME TypeOK, [Next]_vars PROVE TypeOK'
  OBVIOUS
<1>1. FlagsOK' /\ FramesOK' /\ TextsOK'
  BY TypesSplit, FlagsStep, FramesStep, TextsStep
<1>2. QED
  BY <1>1 DEF TypeOK, FlagsOK, FramesOK, TextsOK

------------------------------------------------------------------------------
(* The channel and those who use it.                                          *)

LEMMA GateInit == Init => GateInv
  BY DEF Init, GateInv, Procs, Spots

LEMMA GateStep == TypeOK /\ GateInv /\ [Next]_vars => GateInv'
<1> SUFFICES ASSUME TypeOK, GateInv, [Next]_vars PROVE GateInv'
  OBVIOUS
<1> USE DEF GateInv, Goto, queueing, contexts, link, signals, texts
<1>0. chan \in BOOLEAN /\ finishCalled \in BOOLEAN
  BY DEF TypeOK
<1>1. ASSUME UNCHANGED <<mode, queue, chan, panicked, finishCalled>>,
             NEW p \in Procs, NEW l \in Spots,
             at' = [at EXCEPT ![p] = l], p # "sup", l # "finish"
      PROVE  GateInv'
  BY <1>1 DEF Procs
<1>2. CASE Fetch \/ PushChecks \/ ListenStops
  BY <1>2 DEF Fetch, PushChecks, ListenStops, Procs, Spots
<1>3. CASE PushSends
  <2>1. chan = TRUE
    BY <1>0, <1>3 DEF PushSends
  <2>2. panicked' = panicked /\ UNCHANGED <<mode, chan, finishCalled>>
    BY <1>3, <2>1 DEF PushSends
  <2>3. at' = [at EXCEPT !["sup"] = "idle"] \/ at' = [at EXCEPT !["sup"] = "closing"]
    BY <1>3 DEF PushSends
  <2>4. QED
    BY <1>0, <2>1, <2>2, <2>3 DEF Procs, Spots
<1>4. CASE FinishASR
  BY <1>0, <1>4 DEF FinishASR, Procs, Spots
<1>5. CASE Recv
  <2>1. at["worker"] = "recv" /\ UNCHANGED <<mode, chan, panicked, finishCalled>>
    BY <1>5 DEF Recv
  <2>2. at' = [at EXCEPT !["worker"] = "done"] \/ at' = [at EXCEPT !["worker"] = "write"]
    BY <1>5 DEF Recv, WorkerEnds
  <2>3. QED
    BY <2>1, <2>2 DEF Procs, Spots
<1>6. CASE FinishChecks
  <2>1. chan = FALSE /\ queue = <<>> /\ UNCHANGED <<mode, queue, chan, panicked>>
    BY <1>0, <1>6 DEF FinishChecks, SeesEnd
  <2>2. \/ at' = [at EXCEPT !["worker"] = "done"]
        \/ at' = [at EXCEPT !["worker"] = "finish"] /\ finishCalled' = TRUE
    BY <1>6 DEF FinishChecks, WorkerEnds
  <2>3. QED
    BY <2>1, <2>2 DEF Procs, Spots
<1>7. CASE WriteOk
  <2>1. at' = [at EXCEPT !["worker"] = "done"] \/ at' = [at EXCEPT !["worker"] = "recv"]
    BY <1>7 DEF WriteOk, WorkerEnds
  <2>2. QED
    BY <1>1, <1>7, <2>1 DEF WriteOk, Procs, Spots
<1>8. CASE WorkerSeesCancel \/ WriteFails
  BY <1>1, <1>8 DEF WorkerSeesCancel, WriteFails, WorkerEnds, Procs, Spots
<1>9. CASE ReadPartial \/ TurnEnds \/ UNCHANGED vars
  BY <1>9 DEF ReadPartial, TurnEnds, vars
<1>10. CASE ReadSentence
  BY <1>10 DEF ReadSentence, Procs, Spots
<1>11. CASE ReadFinished \/ MarkVADReady \/ MarkFinished \/ ReadFails \/ Leave
  BY <1>1, <1>11 DEF ReadFinished, MarkVADReady, MarkFinished, ReadFails, Leave, Procs, Spots
<1>12. CASE Drain \/ Choose \/ Returns \/ Abandons
  <2>1. \E l \in Spots : l # "finish" /\ at' = [at EXCEPT !["result"] = l]
    BY <1>12 DEF Drain, Choose, Awaited, Returns, Abandons, Spots
  <2>2. UNCHANGED <<mode, queue, chan, panicked, finishCalled>>
    BY <1>12 DEF Drain, Choose, Returns, Abandons
  <2>3. QED
    BY <1>1, <2>1, <2>2 DEF Procs
<1>13. CASE StopBegins \/ QueueCloses \/ QueueCancel \/ StreamCloses \/ ChannelsClose
  BY <1>1, <1>13
     DEF StopBegins, QueueCloses, KeepsChannel, QueueCancel, StreamCloses, ChannelsClose, Procs,
         Spots
<1>14. QED
  BY <1>2, <1>3, <1>4, <1>5, <1>6, <1>7, <1>8, <1>9, <1>10, <1>11, <1>12, <1>13
     DEF Next, Supervise, Work, Read, Await, Stop

------------------------------------------------------------------------------
(* Frames.                                                                    *)

LEMMA WireInit == Init => WireInv
<1> SUFFICES ASSUME Init PROVE WireInv
  OBVIOUS
<1>1. Len(wire) = 0 /\ Len(held) = 0 /\ Len(queue) = 0 /\ held = <<>> /\ pushed = 0
  BY DEF Init
<1>2. at["worker"] = "recv"
  BY DEF Init, Procs
<1>3. QED
  BY <1>1, <1>2 DEF WireInv

(* What was written stays written, until the worker writes again.             *)
LEMMA EndedStays ==
  ASSUME Ended, UNCHANGED wire, pushed' = pushed \/ chan = TRUE,
         chan' = chan \/ chan' = FALSE, finishCalled = TRUE => finishCalled' = TRUE
  PROVE  Ended'
  BY DEF Ended

LEMMA WireStep == TypeOK /\ GateInv /\ WireInv /\ [Next]_vars => WireInv'
<1> SUFFICES ASSUME TypeOK, GateInv, WireInv, [Next]_vars PROVE WireInv'
  OBVIOUS
<1> USE DEF Goto, queueing, contexts, link, signals, texts
<1>1. /\ queue \in Seq(Nat) /\ held \in Seq(Nat) /\ wire \in Seq(Nat) /\ pushed \in Nat
      /\ at \in [Procs -> Spots] /\ chan \in BOOLEAN /\ finishCalled \in BOOLEAN
  BY DEF TypeOK, GateInv
<1>2. Len(wire) \in Nat /\ Len(held) \in Nat /\ Len(queue) \in Nat
  BY <1>1, LenProperties
<1>3. "worker" \in Procs /\ "sup" \in Procs
  BY DEF Procs
<1>4. ASSUME UNCHANGED wire, at'["worker"] \in {"recv", "write", "finish", "done"},
             at["worker"] = "done" => at'["worker"] = "done",
             at'["worker"] # "done" =>
               /\ held' = IF at'["worker"] = "write" THEN <<Len(wire) + 1>> ELSE <<>>
               /\ \A i \in 1 .. Len(queue') : queue'[i] = Len(wire) + Len(held') + i
               /\ Len(wire) + Len(held') + Len(queue') = pushed',
             Ended => Ended'
      PROVE  WireInv'
  BY <1>4 DEF WireInv
<1>5. ASSUME UNCHANGED <<wire, held, queue, pushed>>, at'["worker"] = at["worker"],
             chan' = chan \/ chan' = FALSE, finishCalled = TRUE => finishCalled' = TRUE
      PROVE  WireInv'
  BY <1>4, <1>5, EndedStays DEF WireInv
<1>6. CASE PushSends
  <2>1. chan = TRUE /\ at'["worker"] = at["worker"] /\ UNCHANGED <<wire, held, chan, finishCalled>>
    <3>1. at["sup"] = "send" /\ UNCHANGED <<wire, held, chan, finishCalled>>
      BY <1>6 DEF PushSends
    <3>2. \E l : at' = [at EXCEPT !["sup"] = l]
      BY <1>6 DEF PushSends
    <3>3. QED
      BY <1>1, <1>3, <3>1, <3>2 DEF GateInv
  <2>2. CASE UNCHANGED <<queue, pushed>>
    BY <1>5, <2>1, <2>2
  <2>3. CASE queue' = Append(queue, pushed') /\ pushed' = pushed + 1
    <3>1. /\ Len(queue') = Len(queue) + 1 /\ queue'[Len(queue) + 1] = pushed + 1
          /\ \A i \in 1 .. Len(queue) : queue'[i] = queue[i]
      BY <1>1, <2>3, AppendProperties
    <3>2. ASSUME at["worker"] # "done"
          PROVE  /\ \A i \in 1 .. Len(queue') : queue'[i] = Len(wire) + Len(held) + i
                 /\ Len(wire) + Len(held) + Len(queue') = pushed'
      <4> DEFINE n == Len(queue)
                 m == Len(wire) + Len(held)
      <4>1. n \in Nat /\ m \in Nat /\ m + n = pushed /\ \A i \in 1 .. n : queue[i] = m + i
        BY <1>2, <3>2 DEF WireInv
      <4>2. Len(queue') = n + 1 /\ queue'[n + 1] = m + (n + 1) /\ m + Len(queue') = pushed'
        BY <2>3, <3>1, <4>1
      <4>3. \A i \in 1 .. n : queue'[i] = queue[i]
        BY <3>1
      <4>4. \A i \in 1 .. n + 1 : queue'[i] = m + i
        <5> HIDE DEF n, m
        <5>1. QED
          BY <4>1, <4>2, <4>3
      <4>5. QED
        BY <4>2, <4>4
    <3>3. ~Ended
      BY <2>1 DEF Ended
    <3>4. QED
      BY <1>4, <2>1, <3>2, <3>3 DEF WireInv
  <2>4. QED
    BY <1>6, <2>2, <2>3 DEF PushSends
<1>7. ASSUME UNCHANGED <<wire, pushed, chan>>, finishCalled = TRUE => finishCalled' = TRUE,
             at'["worker"] = "done"
      PROVE  WireInv'
  BY <1>4, <1>7, EndedStays
<1>8. CASE WorkerSeesCancel \/ WriteFails
  BY <1>1, <1>3, <1>7, <1>8 DEF WorkerSeesCancel, WriteFails, WorkerEnds
<1>9. CASE Recv
  <2>1. UNCHANGED <<wire, pushed, chan, finishCalled>> /\ queue # <<>> /\ queue' = Tail(queue)
    BY <1>9 DEF Recv
  <2>2. CASE at'["worker"] = "done"
    BY <1>7, <2>1, <2>2
  <2>3. CASE held' = <<Head(queue)>> /\ at'["worker"] = "write"
    <3>1. /\ Len(queue') = Len(queue) - 1 /\ Len(queue) >= 1 /\ Head(queue) = queue[1]
          /\ \A i \in 1 .. Len(queue') : queue'[i] = queue[i + 1]
      BY <1>1, <2>1, HeadTailProperties, EmptySeq, LenProperties
    <3>2. at["worker"] = "recv" /\ held = <<>> /\ Len(held) = 0
      BY <1>9 DEF Recv, WireInv
    <3> DEFINE n == Len(queue)
               m == Len(wire)
    <3>3. m + n = pushed /\ \A i \in 1 .. n : queue[i] = m + i
      BY <1>2, <3>2 DEF WireInv
    <3>4. held' = <<m + 1>> /\ Len(held') = 1
      BY <1>2, <2>3, <3>1, <3>3
    <3>5. /\ \A i \in 1 .. Len(queue') : queue'[i] = m + 1 + i
          /\ m + 1 + Len(queue') = pushed
      <4> HIDE DEF m
      <4>1. m \in Nat /\ n \in Nat
        BY <1>2 DEF m
      <4>2. QED
        BY <3>1, <3>3, <4>1
    <3>6. Ended => Ended'
      BY <2>1, EndedStays
    <3>7. /\ \A i \in 1 .. Len(queue') : queue'[i] = Len(wire) + Len(held') + i
          /\ Len(wire) + Len(held') + Len(queue') = pushed'
      BY <2>1, <3>4, <3>5
    <3>8. QED
      BY <1>4, <2>1, <2>3, <3>2, <3>4, <3>6, <3>7
  <2>4. QED
    BY <1>1, <1>3, <1>9, <2>2, <2>3 DEF Recv, WorkerEnds
<1>10. CASE FinishChecks
  <2>1. /\ UNCHANGED <<wire, pushed, chan, queue>> /\ (finishCalled = TRUE => finishCalled' = TRUE)
        /\ at["worker"] = "recv"
    BY <1>10 DEF FinishChecks
  <2>2. CASE at'["worker"] = "done"
    BY <1>7, <2>1, <2>2
  <2>3. CASE held' = held /\ at'["worker"] = "finish"
    BY <1>4, <2>1, <2>3, EndedStays DEF WireInv
  <2>4. QED
    BY <1>1, <1>3, <1>10, <2>2, <2>3 DEF FinishChecks, WorkerEnds
<1>11. CASE WriteOk /\ at["worker"] = "write"
  <2>1. /\ UNCHANGED <<queue, pushed, chan, finishCalled>> /\ at'["worker"] = "recv"
        /\ wire' = wire \o held /\ held' = <<>>
    BY <1>1, <1>3, <1>11 DEF WriteOk
  <2> DEFINE m == Len(wire)
  <2>2. held = <<m + 1>> /\ Len(held) = 1 /\ held[1] = m + 1 /\ m \in Nat
    BY <1>2, <1>11 DEF WireInv
  <2>3. \A i \in 1 .. m : wire[i] = i
    BY <1>11 DEF WireInv
  <2>4. /\ Len(wire') = m + 1 /\ wire'[m + 1] = m + 1
        /\ \A i \in 1 .. m : wire'[i] = wire[i]
    BY <1>1, <2>1, <2>2, ConcatProperties
  <2>5. \A i \in 1 .. Len(wire') : wire'[i] = i
    <3> HIDE DEF m
    <3>1. QED
      BY <2>2, <2>3, <2>4
  <2>6. Len(held') = 0
    BY <2>1
  <2>7. /\ \A i \in 1 .. Len(queue') : queue'[i] = Len(wire') + Len(held') + i
        /\ Len(wire') + Len(held') + Len(queue') = pushed'
    BY <1>2, <1>11, <2>1, <2>2, <2>4, <2>6 DEF WireInv
  <2>8. QED
    BY <2>1, <2>5, <2>7 DEF WireInv
<1>12. CASE WriteOk /\ at["worker"] = "finish"
  <2>1. /\ UNCHANGED <<pushed, chan, finishCalled>> /\ at'["worker"] = "done"
        /\ wire' = Append(wire, Fin)
    BY <1>1, <1>3, <1>12 DEF WriteOk, WorkerEnds
  <2>2. chan = FALSE /\ finishCalled = TRUE /\ Len(queue) = 0 /\ Len(held) = 0
    BY <1>12 DEF GateInv, WireInv
  <2> DEFINE m == Len(wire)
  <2>3. m = pushed /\ m \in Nat /\ \A i \in 1 .. m : wire[i] = i
    BY <1>2, <1>12, <2>2 DEF WireInv
  <2>4. /\ Len(wire') = m + 1 /\ wire'[m + 1] = Fin
        /\ \A i \in 1 .. m : wire'[i] = wire[i]
    BY <1>1, <2>1, AppendProperties DEF Fin
  <2>5. Ended'
    BY <2>1, <2>2, <2>3, <2>4 DEF Ended
  <2>6. \A i \in 1 .. Len(wire') : wire'[i] = i \/ (wire'[i] = Fin /\ i = Len(wire'))
    <3> HIDE DEF m
    <3>1. QED
      BY <2>3, <2>4
  <2>7. QED
    BY <2>1, <2>5, <2>6 DEF WireInv
<1>13. CASE WriteOk
  BY <1>11, <1>12, <1>13 DEF WriteOk
<1>14. CASE FinishASR
  <2>1. at'["worker"] = at["worker"] /\ (chan' = chan \/ chan' = FALSE)
    BY <1>1, <1>14 DEF FinishASR, Procs
  <2>2. UNCHANGED <<wire, held, queue, pushed, finishCalled>>
    BY <1>14 DEF FinishASR
  <2>3. QED
    BY <1>5, <2>1, <2>2
<1>15. CASE Fetch \/ PushChecks \/ ListenStops
  BY <1>1, <1>5, <1>15 DEF Fetch, PushChecks, ListenStops, Procs
<1>16. CASE ReadPartial \/ ReadSentence \/ ReadFinished \/ ReadFails
  BY <1>1, <1>5, <1>16 DEF ReadPartial, ReadSentence, ReadFinished, ReadFails, Procs
<1>17. CASE MarkVADReady \/ MarkFinished \/ Leave
  BY <1>1, <1>5, <1>17 DEF MarkVADReady, MarkFinished, Leave, Procs
<1>18. CASE Drain \/ Choose \/ Returns \/ Abandons
  BY <1>1, <1>5, <1>18 DEF Drain, Choose, Returns, Abandons, Procs
<1>19. CASE TurnEnds \/ UNCHANGED vars
  BY <1>5, <1>19 DEF TurnEnds, vars
<1>20. CASE StopBegins \/ QueueCloses \/ QueueCancel
  BY <1>1, <1>5, <1>20 DEF StopBegins, QueueCloses, KeepsChannel, QueueCancel, Procs
<1>21. CASE StreamCloses \/ ChannelsClose
  BY <1>1, <1>5, <1>21 DEF StreamCloses, ChannelsClose, Procs
<1>22. QED
  BY <1>6, <1>8, <1>9, <1>10, <1>13, <1>14, <1>15, <1>16, <1>17, <1>18, <1>19, <1>20, <1>21
     DEF Next, Supervise, Work, Read, Await, Stop

------------------------------------------------------------------------------
(* Signals and results.                                                       *)

(* What ends stays ended.                                                     *)
LEMMA EndingGrows == TypeOK /\ GateInv /\ Ending /\ [Next]_vars => Ending'
<1> SUFFICES ASSUME TypeOK, GateInv, Ending, [Next]_vars PROVE Ending'
  OBVIOUS
<1> USE DEF Goto, queueing, contexts, link, signals, texts
<1>1. at \in [Procs -> Spots] /\ "stop" \in Procs
  BY DEF GateInv, Procs
<1>2. ASSUME NEW p \in Procs \ {"stop"}, NEW l, at' = at \/ at' = [at EXCEPT ![p] = l],
             UNCHANGED over
      PROVE  Ending'
  BY <1>1, <1>2 DEF Ending
<1>3. CASE Fetch \/ PushChecks \/ PushSends \/ ListenStops
  BY <1>2, <1>3 DEF Fetch, PushChecks, PushSends, ListenStops, Procs
<1>4. CASE FinishASR
  BY <1>1, <1>4 DEF FinishASR, Ending
<1>5. CASE WorkerSeesCancel \/ Recv \/ FinishChecks \/ WriteOk \/ WriteFails
  <2>1. UNCHANGED over /\ \E l : at' = [at EXCEPT !["worker"] = l]
    BY <1>5 DEF WorkerSeesCancel, Recv, FinishChecks, WriteOk, WriteFails, WorkerEnds
  <2>2. QED
    BY <1>2, <2>1 DEF Procs
<1>6. CASE ReadPartial \/ ReadSentence \/ ReadFinished \/ ReadFails
  BY <1>2, <1>6 DEF ReadPartial, ReadSentence, ReadFinished, ReadFails, Procs
<1>7. CASE MarkVADReady \/ MarkFinished \/ Leave
  BY <1>2, <1>7 DEF MarkVADReady, MarkFinished, Leave, Procs
<1>8. CASE Drain \/ Choose \/ Returns \/ Abandons
  BY <1>2, <1>8 DEF Drain, Choose, Returns, Abandons, Procs
<1>9. CASE TurnEnds \/ UNCHANGED vars
  BY <1>9 DEF TurnEnds, Ending, vars
<1>10. CASE StopBegins \/ QueueCloses \/ QueueCancel \/ StreamCloses \/ ChannelsClose
  BY <1>1, <1>10
     DEF StopBegins, QueueCloses, QueueCancel, StreamCloses, ChannelsClose, Ending
<1>11. QED
  BY <1>3, <1>4, <1>5, <1>6, <1>7, <1>8, <1>9, <1>10
     DEF Next, Supervise, Work, Read, Await, Stop

LEMMA EndedGrows == TypeOK /\ GateInv /\ WireInv /\ Ended /\ [Next]_vars => Ended'
<1> SUFFICES ASSUME TypeOK, GateInv, WireInv, Ended, [Next]_vars PROVE Ended'
  OBVIOUS
<1> USE DEF queueing, contexts, link
<1>1. at["worker"] = "done" /\ chan = FALSE
  <2>1. /\ Len(wire) \in Nat /\ Len(held) \in Nat /\ Len(queue) \in Nat /\ pushed \in Nat
    BY LenProperties DEF TypeOK
  <2>2. QED
    BY <2>1 DEF Ended, WireInv
<1>2. at["sup"] # "send"
  BY <1>1 DEF GateInv
<1>3. UNCHANGED <<wire, pushed>>
  BY <1>1, <1>2
     DEF Next, Supervise, Work, Read, Await, Stop, Fetch, PushChecks, PushSends, ListenStops,
         FinishASR, WorkerSeesCancel, Recv, FinishChecks, WriteOk, WriteFails, ReadPartial,
         ReadSentence, ReadFinished, ReadFails, MarkVADReady, MarkFinished, Leave, Drain, Choose,
         Returns, Abandons, TurnEnds, StopBegins, QueueCloses, QueueCancel, StreamCloses,
         ChannelsClose, vars
<1>4. (chan' = chan \/ chan' = FALSE) /\ finishCalled' = finishCalled
  BY <1>1, <1>2
     DEF Next, Supervise, Work, Read, Await, Stop, Fetch, PushChecks, PushSends, ListenStops,
         FinishASR, WorkerSeesCancel, Recv, FinishChecks, WriteOk, WriteFails, ReadPartial,
         ReadSentence, ReadFinished, ReadFails, MarkVADReady, MarkFinished, Leave, Drain, Choose,
         Returns, Abandons, TurnEnds, StopBegins, QueueCloses, KeepsChannel, QueueCancel,
         StreamCloses, ChannelsClose, vars
<1>5. QED
  BY <1>3, <1>4, EndedStays DEF Ended

LEMMA SignalInit == Init => SignalInv
  BY RecognitionAssumption DEF Init, SignalInv, Procs

LEMMA SignalStep == TypeOK /\ GateInv /\ WireInv /\ SignalInv /\ [Next]_vars => SignalInv'
<1> SUFFICES ASSUME TypeOK, GateInv, WireInv, SignalInv, [Next]_vars PROVE SignalInv'
  OBVIOUS
<1> USE DEF Goto, queueing, contexts, link, signals, texts
<1>1. /\ at \in [Procs -> Spots] /\ err \in {None, "canceled", "failed"}
      /\ None # "failed" /\ None # "canceled" /\ finalText \in Nat /\ results \in Nat
      /\ "reader" \in Procs /\ "stop" \in Procs
  BY RecognitionAssumption DEF TypeOK, GateInv, Procs
<1>2. (Ending => Ending') /\ (Ended => Ended')
  BY EndingGrows, EndedGrows
<1>3. ASSUME UNCHANGED <<qctx, sctx, sclosed, err, outcome, finalText, taskFinished, vadReady>>,
             at'["reader"] = at["reader"]
      PROVE  SignalInv'
  BY <1>2, <1>3 DEF SignalInv
<1>4. CASE Fetch \/ PushChecks \/ PushSends \/ ListenStops \/ FinishASR
  <2>1. at'["reader"] = at["reader"]
    BY <1>1, <1>4 DEF Fetch, PushChecks, PushSends, ListenStops, FinishASR
  <2>2. QED
    BY <1>3, <1>4, <2>1 DEF Fetch, PushChecks, PushSends, ListenStops, FinishASR
<1>5. CASE WorkerSeesCancel \/ Recv \/ FinishChecks \/ WriteOk
  <2>1. at'["reader"] = at["reader"]
    BY <1>1, <1>5 DEF WorkerSeesCancel, Recv, FinishChecks, WriteOk, WorkerEnds
  <2>2. QED
    BY <1>3, <1>5, <2>1 DEF WorkerSeesCancel, Recv, FinishChecks, WriteOk
<1>6. ASSUME RecordError, UNCHANGED <<qctx, sctx, sclosed, outcome, finalText>>,
             at'["reader"] = at["reader"] \/ at'["reader"] = "leaving"
      PROVE  SignalInv'
  <2>1. err' # None /\ (err' = "canceled" => Ending)
    BY <1>1, <1>6 DEF RecordError, SignalInv
  <2>2. QED
    BY <1>2, <1>6, <2>1 DEF SignalInv
<1>7. CASE WriteFails
  <2>1. at'["reader"] = at["reader"]
    BY <1>1, <1>7 DEF WriteFails, WorkerEnds
  <2>2. QED
    BY <1>6, <1>7, <2>1 DEF WriteFails
<1>8. CASE ReadFails
  <2>1. at'["reader"] = "leaving"
    BY <1>1, <1>8 DEF ReadFails
  <2>2. QED
    BY <1>6, <1>8, <2>1 DEF ReadFails
<1>9. CASE ReadPartial
  BY <1>3, <1>9 DEF ReadPartial
<1>10. CASE ReadSentence
  <2>1. /\ UNCHANGED <<qctx, sctx, sclosed, err, outcome, taskFinished, vadReady>>
        /\ finalText' = finalText \/ finalText' = results + 1
    BY <1>10 DEF ReadSentence, More
  <2>2. /\ at["reader"] = "read"
        /\ at'["reader"] = "read" \/ (at'["reader"] = "mark" /\ finalText' # 0)
    <3>1. at["reader"] = "read"
      BY <1>10 DEF ReadSentence, Reads
    <3>2. CASE finalText' = results + 1 /\ at' = [at EXCEPT !["reader"] = "mark"]
      BY <1>1, <3>1, <3>2
    <3>3. CASE finalText' = finalText /\ finalText # 0 /\ at' = [at EXCEPT !["reader"] = "mark"]
      BY <1>1, <3>1, <3>3
    <3>4. CASE at' = at
      BY <3>1, <3>4
    <3>5. QED
      BY <1>10, <3>2, <3>3, <3>4 DEF ReadSentence, More
  <2>3. finalText # 0 => finalText' # 0
    BY <1>1, <2>1
  <2>4. QED
    BY <1>2, <2>1, <2>2, <2>3 DEF SignalInv
<1>11. CASE ReadFinished
  <2>1. PICK i \in DOMAIN wire : wire[i] = Fin
    BY <1>11 DEF ReadFinished
  <2>2. i \in 1 .. Len(wire) /\ Fin # i
    BY LenProperties DEF Fin, TypeOK
  <2>3. Ended
    BY <2>1, <2>2 DEF WireInv
  <2>4. outcome' = "finished" /\ at'["reader"] = "finished"
    BY <1>1, <1>11 DEF ReadFinished
  <2>5. UNCHANGED <<qctx, sctx, sclosed, err, taskFinished, vadReady>>
    BY <1>11 DEF ReadFinished
  <2>6. QED
    BY <1>2, <2>3, <2>4, <2>5 DEF SignalInv
<1>12. CASE MarkVADReady
  <2>1. at["reader"] = "mark" /\ at'["reader"] = "read"
    BY <1>1, <1>12 DEF MarkVADReady
  <2>2. UNCHANGED <<qctx, sctx, sclosed, err, outcome, finalText, taskFinished>>
    BY <1>12 DEF MarkVADReady
  <2>3. QED
    BY <1>2, <2>1, <2>2 DEF SignalInv
<1>13. CASE MarkFinished \/ Leave
  <2>1. at["reader"] \in {"finished", "leaving"} /\ at'["reader"] \in {"leaving", "done"}
    BY <1>1, <1>13 DEF MarkFinished, Leave
  <2>2. UNCHANGED <<qctx, sctx, sclosed, err, outcome, finalText>>
    BY <1>13 DEF MarkFinished, Leave
  <2>3. QED
    BY <1>2, <2>1, <2>2 DEF SignalInv
<1>14. CASE Drain \/ Choose \/ Returns \/ Abandons
  <2>1. at'["reader"] = at["reader"]
    BY <1>1, <1>14 DEF Drain, Choose, Returns, Abandons
  <2>2. QED
    BY <1>3, <1>14, <2>1 DEF Drain, Choose, Returns, Abandons
<1>15. CASE StopBegins \/ QueueCloses \/ UNCHANGED vars
  <2>1. at'["reader"] = at["reader"]
    BY <1>1, <1>15 DEF StopBegins, QueueCloses, vars
  <2>2. QED
    BY <1>3, <1>15, <2>1 DEF StopBegins, QueueCloses, vars
<1>16. ASSUME Ending', UNCHANGED <<err, outcome, finalText>>, at'["reader"] = at["reader"]
       PROVE  SignalInv'
  BY <1>2, <1>16 DEF SignalInv
<1>17. CASE TurnEnds
  BY <1>16, <1>17 DEF TurnEnds, Ending
<1>18. CASE QueueCancel \/ StreamCloses \/ ChannelsClose
  <2>1. at'["reader"] = at["reader"] /\ Ending'
    BY <1>1, <1>18 DEF QueueCancel, StreamCloses, ChannelsClose, Ending
  <2>2. QED
    BY <1>16, <1>18, <2>1 DEF QueueCancel, StreamCloses, ChannelsClose
<1>19. QED
  BY <1>4, <1>5, <1>7, <1>8, <1>9, <1>10, <1>11, <1>12, <1>13, <1>14, <1>15, <1>17, <1>18
     DEF Next, Supervise, Work, Read, Await, Stop

PostedInv ==
  (posted # None /\ posted.ok /\ posted.alone) =>
    IF mode = "manual" THEN outcome = "finished" /\ posted.text = finalText
    ELSE posted.text # 0

LEMMA ResultInit == Init => ResultInv
  BY DEF Init, ResultInv, Procs

LEMMA ResultStep ==
  TypeOK /\ GateInv /\ WireInv /\ SignalInv /\ ResultInv /\ [Next]_vars => ResultInv'
<1> SUFFICES ASSUME TypeOK, GateInv, WireInv, SignalInv, ResultInv, [Next]_vars PROVE ResultInv'
  OBVIOUS
<1> USE DEF Goto, queueing, contexts, link, signals, texts
<1>1. /\ at \in [Procs -> Spots] /\ err \in {None, "canceled", "failed"}
      /\ None # "failed" /\ None # "canceled"
      /\ "worker" \in Procs /\ "result" \in Procs /\ "stop" \in Procs
  BY RecognitionAssumption DEF TypeOK, GateInv, Procs
<1>2. (Ending => Ending') /\ (Ended => Ended')
  BY EndingGrows, EndedGrows
<1>3. UNCHANGED mode
  BY DEF Next, Supervise, Work, Read, Await, Stop, Fetch, PushChecks, PushSends, ListenStops,
         FinishASR, WorkerSeesCancel, Recv, FinishChecks, WriteOk, WriteFails, ReadPartial,
         ReadSentence, ReadFinished, ReadFails, MarkVADReady, MarkFinished, Leave, Drain, Choose,
         Returns, Abandons, TurnEnds, StopBegins, QueueCloses, QueueCancel, StreamCloses,
         ChannelsClose, vars
<1>4. PostedInv
  BY DEF ResultInv, PostedInv
<1>5. ASSUME at'["worker"] = "done" /\ workerErr' = FALSE => Ending' \/ Ended',
             mode = "manual" => /\ at'["result"] = "choose" => Ending' \/ Ended'
                                /\ at'["result"] = "vad" => Ending',
             PostedInv'
      PROVE  ResultInv'
  BY <1>3, <1>5 DEF ResultInv, PostedInv
<1>6. ASSUME UNCHANGED posted, outcome = "finished" => UNCHANGED <<outcome, finalText>>
      PROVE  PostedInv'
  BY <1>3, <1>4, <1>6 DEF PostedInv
<1>7. ASSUME UNCHANGED <<workerErr, posted>>,
             outcome = "finished" => UNCHANGED <<outcome, finalText>>,
             at'["worker"] = at["worker"],
             at'["result"] = at["result"] \/ at'["result"] \notin {"choose", "vad"}
      PROVE  ResultInv'
  BY <1>2, <1>5, <1>6, <1>7 DEF ResultInv
<1>8. CASE Fetch \/ PushChecks \/ PushSends \/ ListenStops
  <2>1. at'["worker"] = at["worker"] /\ at'["result"] = at["result"]
    BY <1>1, <1>8 DEF Fetch, PushChecks, PushSends, ListenStops
  <2>2. QED
    BY <1>7, <1>8, <2>1 DEF Fetch, PushChecks, PushSends, ListenStops
<1>9. CASE FinishASR
  <2>1. at'["worker"] = at["worker"] /\ at'["result"] = "drain"
    BY <1>1, <1>9 DEF FinishASR
  <2>2. QED
    BY <1>7, <1>9, <2>1 DEF FinishASR
<1>10. ASSUME UNCHANGED <<posted, outcome, finalText>>, at'["result"] = at["result"],
              at'["worker"] = "done" /\ workerErr' = FALSE => Ending' \/ Ended'
       PROVE  ResultInv'
  BY <1>2, <1>5, <1>6, <1>10 DEF ResultInv
<1>11. ASSUME NEW e, WorkerEnds(e), workerErr' = FALSE PROVE e \in {None, "canceled"}
  BY <1>11 DEF WorkerEnds
<1>12. CASE WorkerSeesCancel \/ Recv \/ FinishChecks \/ WriteOk \/ WriteFails
  <2>1. UNCHANGED <<posted, outcome, finalText>> /\ at'["result"] = at["result"]
    BY <1>1, <1>12 DEF WorkerSeesCancel, Recv, FinishChecks, WriteOk, WriteFails, WorkerEnds
  <2>2. ASSUME WorkerSeesCancel PROVE Ending
    BY <2>2 DEF WorkerSeesCancel, SignalInv, TypeOK
  <2>3. ASSUME Recv \/ FinishChecks, at'["worker"] = "done", workerErr' = FALSE PROVE Ending
    <3>1. CASE sclosed
      BY <3>1 DEF SignalInv, TypeOK
    <3>2. CASE err # None /\ WorkerEnds(err)
      BY <1>1, <1>11, <2>3, <3>2 DEF SignalInv
    <3>3. CASE at'["worker"] = "write" \/ at'["worker"] = "finish"
      BY <2>3, <3>3
    <3>4. QED
      BY <1>1, <2>3, <3>1, <3>2, <3>3 DEF Recv, FinishChecks
  <2>4. ASSUME WriteOk, at'["worker"] = "done" PROVE Ended'
    <3>1. at["worker"] = "finish" /\ wire' = Append(wire, Fin)
      BY <1>1, <2>4 DEF WriteOk
    <3>2. UNCHANGED <<chan, pushed, finishCalled>>
      BY <2>4 DEF WriteOk
    <3>3. Len(queue) = 0 /\ Len(held) = 0 /\ chan = FALSE /\ finishCalled = TRUE
      BY <3>1 DEF GateInv, WireInv
    <3>4. Len(wire) = pushed /\ Len(wire') = Len(wire) + 1
      BY <3>1, <3>3, AppendProperties, LenProperties DEF WireInv, TypeOK, Fin
    <3>5. QED
      BY <3>2, <3>3, <3>4 DEF Ended
  <2>5. ASSUME WriteFails, workerErr' = FALSE PROVE Ending
    BY <1>1, <1>11, <2>5 DEF WriteFails, SignalInv, TypeOK
  <2>6. QED
    BY <1>2, <1>10, <1>12, <2>1, <2>2, <2>3, <2>4, <2>5
<1>13. CASE ReadPartial \/ ReadSentence \/ ReadFinished
  <2>1. at'["worker"] = at["worker"] /\ at'["result"] = at["result"]
    BY <1>1, <1>13 DEF ReadPartial, ReadSentence, ReadFinished
  <2>2. outcome # "finished" /\ UNCHANGED <<workerErr, posted>>
    BY <1>13 DEF ReadPartial, ReadSentence, ReadFinished, Reads
  <2>3. QED
    BY <1>7, <2>1, <2>2
<1>14. CASE ReadFails \/ MarkVADReady \/ MarkFinished \/ Leave
  <2>1. at'["worker"] = at["worker"] /\ at'["result"] = at["result"]
    BY <1>1, <1>14 DEF ReadFails, MarkVADReady, MarkFinished, Leave
  <2>2. QED
    BY <1>7, <1>14, <2>1 DEF ReadFails, MarkVADReady, MarkFinished, Leave
<1>15. CASE Drain
  <2>1. UNCHANGED <<workerErr, outcome, finalText>> /\ at'["worker"] = at["worker"]
    BY <1>1, <1>15 DEF Drain
  <2>2. PostedInv'
    BY <1>6, <1>15, <2>1 DEF Drain, PostedInv, Failure
  <2>3. \/ at'["result"] = "done"
        \/ (at'["result"] = "choose" /\ at["worker"] = "done" /\ workerErr = FALSE)
    BY <1>1, <1>15 DEF Drain, TypeOK
  <2>4. QED
    BY <1>2, <1>5, <2>1, <2>2, <2>3 DEF ResultInv
<1>16. CASE Choose
  <2>1. at["result"] = "choose" /\ UNCHANGED <<workerErr, posted, outcome, finalText>>
    BY <1>16 DEF Choose
  <2>2. at'["worker"] = at["worker"] /\ at'["result"] = Awaited
    BY <1>1, <1>16 DEF Choose
  <2>3. Awaited = "vad" => ~Ended
    BY DEF Awaited, Ended
  <2>4. Awaited \in {"vad", "task"}
    BY DEF Awaited
  <2>5. QED
    BY <1>2, <1>5, <1>6, <2>1, <2>2, <2>3, <2>4 DEF ResultInv
<1>17. CASE Returns
  <2>1. /\ UNCHANGED <<workerErr, outcome, finalText>>
        /\ at'["worker"] = at["worker"] /\ at'["result"] = "done"
    BY <1>1, <1>17 DEF Returns
  <2>2. CASE err = None /\ posted' = Final
    <3>1. posted'.text = finalText /\ (posted'.alone => ~Ending)
      BY <2>2 DEF Final, Ending
    <3>2. ASSUME ~Ending, mode = "manual" PROVE outcome = "finished"
      <4>1. at["result"] = "task" /\ taskFinished = TRUE
        BY <1>17, <3>2 DEF Returns, ResultInv, TypeOK
      <4>2. QED
        BY <2>2, <3>2, <4>1 DEF SignalInv
    <3>3. ASSUME ~Ending, mode # "manual" PROVE finalText # 0
      <4>1. vadReady = TRUE \/ taskFinished = TRUE
        BY <1>17 DEF Returns, TypeOK
      <4>2. outcome # "finished"
        BY <3>3 DEF SignalInv, Ended, GateInv
      <4>3. QED
        BY <2>2, <3>3, <4>1, <4>2 DEF SignalInv
    <3>4. PostedInv'
      BY <1>3, <2>1, <3>1, <3>2, <3>3 DEF PostedInv
    <3>5. QED
      BY <1>2, <1>5, <2>1, <3>4 DEF ResultInv
  <2>3. CASE posted' = Failure \/ posted' = None
    <3>1. PostedInv'
      BY <2>3 DEF PostedInv, Failure
    <3>2. QED
      BY <1>2, <1>5, <2>1, <3>1 DEF ResultInv
  <2>4. QED
    BY <1>17, <2>2, <2>3 DEF Returns
<1>18. CASE Abandons
  <2>1. /\ UNCHANGED <<workerErr, outcome, finalText>>
        /\ at'["worker"] = at["worker"] /\ at'["result"] = "done"
    BY <1>1, <1>18 DEF Abandons
  <2>2. PostedInv'
    BY <1>18 DEF Abandons, PostedInv, Failure
  <2>3. QED
    BY <1>2, <1>5, <2>1, <2>2 DEF ResultInv
<1>19. CASE TurnEnds \/ UNCHANGED vars
  BY <1>7, <1>19 DEF TurnEnds, vars
<1>20. CASE StopBegins \/ QueueCloses \/ QueueCancel \/ StreamCloses \/ ChannelsClose
  <2>1. at'["worker"] = at["worker"] /\ at'["result"] = at["result"]
    BY <1>1, <1>20 DEF StopBegins, QueueCloses, QueueCancel, StreamCloses, ChannelsClose
  <2>2. QED
    BY <1>7, <1>20, <2>1 DEF StopBegins, QueueCloses, QueueCancel, StreamCloses, ChannelsClose
<1>21. QED
  BY <1>8, <1>9, <1>12, <1>13, <1>14, <1>15, <1>16, <1>17, <1>18, <1>19, <1>20
     DEF Next, Supervise, Work, Read, Await, Stop

------------------------------------------------------------------------------
(* The theorems.                                                              *)

RecInv == TypeOK /\ GateInv /\ WireInv /\ SignalInv /\ ResultInv

LEMMA RecInvariant == Spec => []RecInv
<1>1. Init => RecInv
  BY TypesInit, GateInit, WireInit, SignalInit, ResultInit DEF RecInv
<1>2. RecInv /\ [Next]_vars => RecInv'
  BY TypesStep, GateStep, WireStep, SignalStep, ResultStep DEF RecInv
<1>3. QED
  BY <1>1, <1>2, PTL DEF Spec

(* Types; the audio queue never holds more than its capacity (TypeOK;         *)
(* queue.go Push).                                                            *)
THEOREM RecognitionTypes == Spec => []TypeOK
<1>1. RecInv => TypeOK
  BY DEF RecInv
<1>2. QED
  BY RecInvariant, <1>1, PTL

(* Frames are heard in order, finish-task comes after the last, and no frame  *)
(* is sent on the closed channel (HeardInOrder; Push, Finish and the worker   *)
(* of queue.go).                                                              *)
THEOREM FramesAreHeardInOrder == Spec => []HeardInOrder
<1>1. ASSUME RecInv PROVE HeardInOrder
  <2>1. wire \in Seq(Nat) /\ panicked = FALSE
    BY <1>1 DEF RecInv, TypeOK, GateInv
  <2>2. \A i \in 1 .. Len(wire) : wire[i] = i \/ (wire[i] = Fin /\ i = Len(wire) /\ i = pushed + 1)
    BY <1>1 DEF RecInv, WireInv, Ended
  <2>3. DOMAIN wire = 1 .. Len(wire)
    BY <2>1, LenProperties
  <2>4. QED
    BY <2>1, <2>2, <2>3 DEF HeardInOrder
<1>2. QED
  BY RecInvariant, <1>1, PTL

(* A text posted while nobody ends the recognition is the result of the whole *)
(* utterance (ResultIsTrue; asr.go Result, session.go readASRResultManual and *)
(* readASRResultAuto).                                                        *)
THEOREM PostedTextIsTheResult == Spec => []ResultIsTrue
<1>1. RecInv => ResultIsTrue
  BY DEF RecInv, SignalInv, ResultInv, ResultIsTrue, Ended
<1>2. QED
  BY RecInvariant, <1>1, PTL
==============================================================================
