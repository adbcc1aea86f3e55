------------------------------ MODULE Recognition ------------------------------
(***************************************************************************)
(* The recognition of one utterance: the audio queue                       *)
(* (src/internal/audio/queue.go), the recogniser's stream                  *)
(* (src/internal/ai/bailian/asr.go), and the session's use of both: the    *)
(* supervisor pushes frames and handles listen.stop, a goroutine waits for *)
(* the result, and stopASR may come at any time, from the supervisor or    *)
(* from another goroutine in closeWithReason.  A frame is its number, a    *)
(* text the number of the result that brought it, 0 the empty text.        *)
(***************************************************************************)
EXTENDS Naturals, Sequences

CONSTANTS
  Modes,         (* of listening: "auto", "manual"                            *)
  Capacity,      (* of the queue                                              *)
  MaxFrames,     (* bound: frames the device sends                            *)
  MaxResults,    (* bound: results the recogniser sends                       *)
  None           (* no error, nothing posted                                  *)

ASSUME RecognitionAssumption ==
  /\ Capacity \in Nat \ {0} /\ MaxFrames \in Nat /\ MaxResults \in Nat
  /\ None \notin {"canceled", "failed"}

Procs == {"sup", "worker", "reader", "result", "stop"}

(* finish-task among the frames.                                              *)
Fin == 0

VARIABLES
  mode,
  over,                          (* turnCtx is cancelled                      *)
  queue, chan,                   (* what the channel holds; it is open        *)
  finished, qclosed, qctx,       (* q.finished, q.closed, q.ctx is cancelled  *)
  workerErr, held,               (* q.workerErr; the frame being written      *)
  pushed, wire,                  (* frames accepted; what was written         *)
  sclosed, sctx, conn,           (* s.closed, s.ctx cancelled, connection open*)
  finishCalled, err,             (* s.finishCalled, s.err                     *)
  vadReady, taskFinished,        (* these channels are closed                 *)
  partialText, finalText,
  results, outcome,              (* of the recogniser                         *)
  posted,                        (* the event of the result goroutine         *)
  panicked,                      (* a send on a closed channel                *)
  at                             (* where the goroutines are                  *)

queueing == <<queue, chan, finished, qclosed, workerErr, held, pushed>>
contexts == <<over, qctx, sctx>>
link     == <<wire, conn, finishCalled, sclosed>>
signals  == <<err, vadReady, taskFinished>>
texts    == <<partialText, finalText, results, outcome>>
vars == <<mode, over, queue, chan, finished, qclosed, qctx, workerErr, held, pushed,
          wire, sclosed, sctx, conn, finishCalled, err, vadReady, taskFinished,
          partialText, finalText, results, outcome, posted, panicked, at>>

(* startASRStream: in auto mode the result is waited for at once.             *)
Init ==
  /\ mode \in Modes
  /\ over = FALSE /\ qctx = FALSE /\ sctx = FALSE
  /\ queue = <<>> /\ chan = TRUE /\ finished = FALSE /\ qclosed = FALSE
  /\ workerErr = FALSE /\ held = <<>> /\ pushed = 0 /\ wire = <<>>
  /\ sclosed = FALSE /\ conn = TRUE /\ finishCalled = FALSE /\ err = None
  /\ vadReady = FALSE /\ taskFinished = FALSE
  /\ partialText = 0 /\ finalText = 0 /\ results = 0 /\ outcome = "running"
  /\ posted = None /\ panicked = FALSE
  /\ at = [p \in Procs |-> CASE p = "worker" -> "recv" [] p = "reader" -> "read"
                             [] p = "result" /\ mode = "auto" -> "choose"
                             [] OTHER -> "idle"]

Goto(p, l) == at' = [at EXCEPT ![p] = l]

------------------------------------------------------------------------------
(* The supervisor.  It finds no queue any more once stopASR has begun.        *)

Fetch ==
  /\ at["sup"] = "idle" /\ at["stop"] = "idle" /\ pushed < MaxFrames /\ Goto("sup", "push")
  /\ UNCHANGED <<mode, posted, panicked>>
  /\ UNCHANGED <<queueing, contexts, link, signals, texts>>

(* Push, up to the unlock; the supervisor closes the session on an error.     *)
PushChecks ==
  /\ at["sup"] = "push"
  /\ Goto("sup", IF qclosed \/ finished \/ workerErr THEN "closing" ELSE "send")
  /\ UNCHANGED <<mode, posted, panicked>>
  /\ UNCHANGED <<queueing, contexts, link, signals, texts>>

AnyRoom == TRUE                   (* mutant of HasRoom: the queue is endless   *)
HasRoom == Len(queue) < Capacity

(* Push after it: the context, a full queue, or room.                         *)
PushSends ==
  /\ at["sup"] = "send"
  /\ \/ /\ chan /\ ~qctx /\ HasRoom /\ Goto("sup", "idle")
        /\ pushed' = pushed + 1 /\ queue' = Append(queue, pushed')
        /\ UNCHANGED panicked
     \/ /\ ~chan /\ ~qctx /\ panicked' = TRUE /\ Goto("sup", "closing")
        /\ UNCHANGED <<queue, pushed>>
     \/ /\ (qctx \/ ~HasRoom) /\ Goto("sup", "closing")
        /\ UNCHANGED <<queue, pushed, panicked>>
  /\ UNCHANGED <<mode, posted, chan, finished, qclosed, workerErr, held>>
  /\ UNCHANGED <<contexts, link, signals, texts>>

(* listen.stop in manual mode, once: stream and queue are remembered, ...     *)
ListenStops ==
  /\ mode = "manual" /\ at["sup"] = "idle" /\ at["stop"] = "idle" /\ Goto("sup", "finish")
  /\ UNCHANGED <<mode, posted, panicked>>
  /\ UNCHANGED <<queueing, contexts, link, signals, texts>>

(* ... the queue is finished and the result waited for.                       *)
FinishASR ==
  /\ at["sup"] = "finish"
  /\ at' = [at EXCEPT !["sup"] = "stopped", !["result"] = "drain"]
  /\ IF qclosed \/ finished THEN UNCHANGED <<finished, chan>>
     ELSE finished' = TRUE /\ chan' = FALSE
  /\ UNCHANGED <<mode, posted, panicked, queue, qclosed, workerErr, held, pushed>>
  /\ UNCHANGED <<contexts, link, signals, texts>>

------------------------------------------------------------------------------
(* The worker of the queue, with WritePCM and Finish of the stream.           *)

(* An error that is no cancellation is recorded.                              *)
WorkerEnds(e) ==
  /\ Goto("worker", "done") /\ held' = <<>>
  /\ workerErr' = (workerErr \/ e \notin {None, "canceled"})

(* recordError: both channels are closed.                                     *)
RecordError ==
  /\ err' = IF err # None THEN err ELSE IF sclosed \/ sctx THEN "canceled" ELSE "failed"
  /\ vadReady' = TRUE /\ taskFinished' = TRUE

WorkerSeesCancel ==
  /\ at["worker"] = "recv" /\ qctx /\ WorkerEnds(None)
  /\ UNCHANGED <<mode, posted, panicked, queue, chan, finished, qclosed, pushed>>
  /\ UNCHANGED <<contexts, link, signals, texts>>

(* WritePCM refuses on a stream that is closed or has failed.                 *)
Recv ==
  /\ at["worker"] = "recv" /\ queue # <<>> /\ queue' = Tail(queue)
  /\ \/ /\ sclosed /\ WorkerEnds("closed")
     \/ /\ ~sclosed /\ err # None /\ WorkerEnds(err)
     \/ /\ ~sclosed /\ err = None /\ held' = <<Head(queue)>> /\ Goto("worker", "write")
        /\ UNCHANGED workerErr
  /\ UNCHANGED <<mode, posted, panicked, chan, finished, qclosed, pushed>>
  /\ UNCHANGED <<contexts, link, signals, texts>>

SeesClose == ~chan                (* mutant of SeesEnd: the backlog is left    *)
SeesEnd == ~chan /\ queue = <<>>

(* Finish: finishCalled is set, the stream's error is looked at after it.     *)
FinishChecks ==
  /\ at["worker"] = "recv" /\ SeesEnd
  /\ finishCalled' = (finishCalled \/ ~sclosed)
  /\ \/ sclosed /\ WorkerEnds("closed")
     \/ ~sclosed /\ err # None /\ WorkerEnds(err)
     \/ ~sclosed /\ err = None /\ Goto("worker", "finish") /\ UNCHANGED <<workerErr, held>>
  /\ UNCHANGED <<mode, posted, panicked, queue, chan, finished, qclosed, pushed>>
  /\ UNCHANGED <<wire, conn, sclosed>> /\ UNCHANGED <<contexts, signals, texts>>

WriteOk ==
  /\ conn
  /\ \/ at["worker"] = "write" /\ Goto("worker", "recv")
        /\ wire' = wire \o held /\ held' = <<>> /\ UNCHANGED workerErr
     \/ at["worker"] = "finish" /\ wire' = Append(wire, Fin) /\ WorkerEnds(None)
  /\ UNCHANGED <<mode, posted, panicked, queue, chan, finished, qclosed, pushed>>
  /\ UNCHANGED <<conn, finishCalled, sclosed>> /\ UNCHANGED <<contexts, signals, texts>>

(* The connection does not survive a write that fails or is cancelled.        *)
WriteFails ==
  /\ at["worker"] \in {"write", "finish"} /\ conn' = FALSE /\ RecordError
  /\ WorkerEnds(IF qctx THEN "canceled" ELSE "failed")
  /\ UNCHANGED <<mode, posted, panicked, queue, chan, finished, qclosed, pushed>>
  /\ UNCHANGED <<wire, finishCalled, sclosed>> /\ UNCHANGED <<contexts, texts>>

------------------------------------------------------------------------------
(* readLoop.  The recogniser finishes a task only after finish-task.          *)

Reads == at["reader"] = "read" /\ conn /\ ~sctx /\ outcome = "running"
More == results < MaxResults /\ results' = results + 1

(* result-generated within a sentence, ...                                    *)
ReadPartial ==
  /\ Reads /\ More /\ partialText' = results'
  /\ UNCHANGED <<mode, posted, panicked, at, finalText, outcome>>
  /\ UNCHANGED <<queueing, contexts, link, signals>>

(* ... and at its end, with a text or without.                                *)
ReadSentence ==
  /\ Reads /\ More
  /\ \/ finalText' = results' /\ Goto("reader", "mark")
     \/ /\ UNCHANGED finalText
        /\ IF finalText # 0 THEN Goto("reader", "mark") ELSE UNCHANGED at
  /\ UNCHANGED <<mode, posted, panicked, partialText, outcome>>
  /\ UNCHANGED <<queueing, contexts, link, signals>>

MarkVADReady ==
  /\ at["reader"] = "mark" /\ Goto("reader", "read") /\ vadReady' = TRUE
  /\ UNCHANGED <<mode, posted, panicked, err, taskFinished>>
  /\ UNCHANGED <<queueing, contexts, link, texts>>

(* task-finished brings a last text or makes the partial text the final one.  *)
ReadFinished ==
  /\ Reads /\ Fin \in {wire[i] : i \in DOMAIN wire} /\ outcome' = "finished"
  /\ \/ More /\ finalText' = results'
     \/ UNCHANGED results /\ finalText' = IF finalText = 0 THEN partialText ELSE finalText
  /\ Goto("reader", "finished")
  /\ UNCHANGED <<mode, posted, panicked, partialText>>
  /\ UNCHANGED <<queueing, contexts, link, signals>>

MarkFinished ==
  /\ at["reader"] = "finished" /\ Goto("reader", "leaving")
  /\ vadReady' = TRUE /\ taskFinished' = TRUE
  /\ UNCHANGED <<mode, posted, panicked, err>>
  /\ UNCHANGED <<queueing, contexts, link, texts>>

(* task-failed, or conn.Read fails.                                           *)
ReadFails ==
  /\ at["reader"] = "read" /\ Goto("reader", "leaving") /\ RecordError
  /\ UNCHANGED <<mode, posted, panicked>> /\ UNCHANGED <<queueing, contexts, link, texts>>

Leave ==
  /\ at["reader"] = "leaving" /\ Goto("reader", "done")
  /\ conn' = FALSE /\ vadReady' = TRUE /\ taskFinished' = TRUE
  /\ UNCHANGED <<mode, posted, panicked, err, wire, finishCalled, sclosed>>
  /\ UNCHANGED <<queueing, contexts, texts>>

------------------------------------------------------------------------------
(* readASRResultAuto, readASRResultManual and Result.                         *)

(* What is posted: an error, or the text with whether nobody had begun to end *)
(* the recognition.                                                           *)
Failure == [ok |-> FALSE, text |-> 0, alone |-> FALSE]
Final == [ok |-> TRUE, text |-> finalText, alone |-> ~over /\ at["stop"] = "idle"]

(* The manual one waits for the worker first.                                 *)
Drain ==
  /\ at["result"] = "drain"
  /\ \/ over /\ Goto("result", "done") /\ UNCHANGED posted
     \/ /\ at["worker"] = "done"
        /\ IF workerErr THEN Goto("result", "done") /\ posted' = IF over THEN None ELSE Failure
           ELSE Goto("result", "choose") /\ UNCHANGED posted
  /\ UNCHANGED <<mode, panicked>> /\ UNCHANGED <<queueing, contexts, link, signals, texts>>

Early == "vad"                    (* mutant of Awaited: finish is not looked at *)
Awaited == IF finishCalled THEN "task" ELSE "vad"

Choose ==
  /\ at["result"] = "choose" /\ Goto("result", Awaited)
  /\ UNCHANGED <<mode, posted, panicked>>
  /\ UNCHANGED <<queueing, contexts, link, signals, texts>>

(* The error of the stream goes before the text.                              *)
Returns ==
  /\ \/ at["result"] = "vad" /\ (vadReady \/ taskFinished)
     \/ at["result"] = "task" /\ taskFinished
  /\ Goto("result", "done")
  /\ posted' = CASE err = None -> Final
                 [] err = "failed" /\ ~over -> Failure
                 [] OTHER -> None
  /\ UNCHANGED <<mode, panicked>> /\ UNCHANGED <<queueing, contexts, link, signals, texts>>

(* A context: nothing is posted, unless the stream had failed.                *)
Abandons ==
  /\ at["result"] \in {"vad", "task"} /\ (over \/ sctx) /\ Goto("result", "done")
  /\ posted' = IF sctx /\ ~over /\ err = "failed" THEN Failure ELSE None
  /\ UNCHANGED <<mode, panicked>> /\ UNCHANGED <<queueing, contexts, link, signals, texts>>

------------------------------------------------------------------------------
(* The turn's context ends, and both derived from it.                         *)
TurnEnds ==
  /\ ~over /\ over' = TRUE /\ qctx' = TRUE /\ sctx' = TRUE
  /\ UNCHANGED <<mode, posted, panicked, at>>
  /\ UNCHANGED <<queueing, link, signals, texts>>

(* stopASR takes queue and stream; ...                                        *)
StopBegins ==
  /\ at["stop"] = "idle" /\ Goto("stop", "close")
  /\ UNCHANGED <<mode, posted, panicked>>
  /\ UNCHANGED <<queueing, contexts, link, signals, texts>>

AlsoChannel == FALSE              (* mutant of KeepsChannel: close(q.queue) too *)
KeepsChannel == chan

(* ... Close of the queue, ...                                                *)
QueueCloses ==
  /\ at["stop"] = "close" /\ Goto("stop", "cancel")
  /\ qclosed' = TRUE /\ chan' = KeepsChannel
  /\ UNCHANGED <<mode, posted, panicked, queue, finished, workerErr, held, pushed>>
  /\ UNCHANGED <<contexts, link, signals, texts>>

NotCancelled == qctx              (* mutant of QueueCancels: no q.cancel       *)
QueueCancels == TRUE

QueueCancel ==
  /\ at["stop"] = "cancel" /\ Goto("stop", "wait") /\ qctx' = QueueCancels
  /\ UNCHANGED <<mode, posted, panicked, over, sctx>>
  /\ UNCHANGED <<queueing, link, signals, texts>>

(* ... which waits for the worker, and Close of the stream.                   *)
StreamCloses ==
  /\ at["stop"] = "wait" /\ at["worker"] = "done" /\ Goto("stop", "channels")
  /\ sclosed' = TRUE /\ sctx' = TRUE /\ conn' = FALSE
  /\ UNCHANGED <<mode, posted, panicked, over, qctx, wire, finishCalled>>
  /\ UNCHANGED <<queueing, signals, texts>>

ChannelsClose ==
  /\ at["stop"] = "channels" /\ Goto("stop", "done")
  /\ vadReady' = TRUE /\ taskFinished' = TRUE
  /\ UNCHANGED <<mode, posted, panicked, err>>
  /\ UNCHANGED <<queueing, contexts, link, texts>>

Supervise == PushChecks \/ PushSends \/ FinishASR
Work == WorkerSeesCancel \/ Recv \/ FinishChecks
Read == MarkVADReady \/ MarkFinished \/ Leave
Await == Drain \/ Choose \/ Returns \/ Abandons
Stop == QueueCloses \/ QueueCancel \/ StreamCloses \/ ChannelsClose

Next ==
  \/ Fetch \/ ListenStops \/ Supervise
  \/ Work \/ WriteOk \/ WriteFails
  \/ ReadPartial \/ ReadSentence \/ ReadFinished \/ ReadFails \/ Read
  \/ Await \/ TurnEnds \/ StopBegins \/ Stop

Spec == Init /\ [][Next]_vars

(* Goroutines run.  A write or a read may hang until its context ends.        *)
Fairness ==
  /\ WF_vars(Supervise) /\ WF_vars(Work) /\ WF_vars(Read) /\ WF_vars(Await) /\ WF_vars(Stop)
  /\ WF_vars((qctx \/ ~conn) /\ (WriteOk \/ WriteFails))
  /\ WF_vars((sctx \/ ~conn) /\ ReadFails)

FairSpec == Spec /\ Fairness

------------------------------------------------------------------------------
(* Properties.                                                                *)

(* Types; the queue never holds more than its capacity.                       *)
TypeOK ==
  /\ mode \in Modes /\ over \in BOOLEAN /\ qctx \in BOOLEAN /\ sctx \in BOOLEAN
  /\ queue \in Seq(Nat) /\ Len(queue) <= Capacity /\ chan \in BOOLEAN
  /\ finished \in BOOLEAN /\ qclosed \in BOOLEAN /\ workerErr \in BOOLEAN
  /\ held \in Seq(Nat) /\ Len(held) <= 1 /\ pushed \in Nat /\ wire \in Seq(Nat)
  /\ sclosed \in BOOLEAN /\ conn \in BOOLEAN /\ finishCalled \in BOOLEAN
  /\ err \in {None, "canceled", "failed"} /\ vadReady \in BOOLEAN /\ taskFinished \in BOOLEAN
  /\ partialText \in 0 .. results /\ finalText \in 0 .. results /\ results \in Nat
  /\ outcome \in {"running", "finished"} /\ panicked \in BOOLEAN
  /\ DOMAIN at = Procs

(* The recogniser hears the frames in order, none missing, and finish-task    *)
(* after the last of them; and no frame is ever sent on the closed channel,   *)
(* although Push sends after it has given the lock back.                      *)
HeardInOrder ==
  /\ ~panicked
  /\ \A i \in DOMAIN wire :
       \/ wire[i] = i
       \/ wire[i] = Fin /\ i = pushed + 1 /\ i = Len(wire)

(* A text posted while nobody was ending the recognition is the result of     *)
(* the whole utterance: in manual mode every frame up to listen.stop and      *)
(* finish-task had been written, and the task was finished with that text; in *)
(* auto mode it is the text of a sentence, never the empty text of a stream   *)
(* that has not got so far.                                                   *)
ResultIsTrue ==
  (posted # None /\ posted.ok /\ posted.alone) =>
    IF mode = "manual"
    THEN Len(wire) = pushed + 1 /\ outcome = "finished" /\ posted.text = finalText
    ELSE posted.text # 0

(* stopASR, which the supervisor runs and waits in, gets through whatever the *)
(* network does, and every goroutine of the recognition ends with it.         *)
StopEndsAll == at["stop"] = "close" ~>
  /\ at["stop"] = "done" /\ at["worker"] = "done" /\ at["reader"] = "done"
  /\ at["result"] \in {"idle", "done"}
==============================================================================
