------------------------------- MODULE TtsStream -------------------------------
(***************************************************************************)
(* A speech synthesis stream, src/internal/ai/bailian/tts.go, with its     *)
(* users in src/internal/session/orchestration.go: the orchestrator that   *)
(* sends sentences and finishes, the consumer of NextPCM, and stopTTS,     *)
(* which closes.  The stream adds a read loop and the handlers of its two  *)
(* timers.  The service answers late, fails, ends or hangs.  A chunk of    *)
(* audio is its number.  Time is not counted: an armed timer may expire.   *)
(***************************************************************************)
EXTENDS Naturals, Sequences

CONSTANTS
  Sentences,     (* bound: sentences of the answer                            *)
  MaxAudio,      (* bound: chunks of audio the service sends                  *)
  Capacity,      (* of pcmCh                                                  *)
  None           (* no error, no verdict                                      *)

ASSUME TtsAssumption ==
  /\ Sentences \in Nat /\ MaxAudio \in Nat /\ Capacity \in Nat \ {0}
  /\ None \notin {"first", "sentence", "error", "eof"}

Timers == {"first", "sentence"}
Procs == {"orch", "reader", "player", "close"} \cup Timers

VARIABLES
  over,                (* the turn's context is cancelled                     *)
  cancelled,           (* s.ctx is, which is derived from it                  *)
  closed, finished,    (* s.closed, s.finished                                *)
  err,                 (* s.err                                               *)
  armed,               (* timers that run                                     *)
  timedOut,            (* firstAudioTimedOut, sentenceTimedOut                *)
  firstAudioSent, firstAudioReceived,
  conn,                (* the connection is open on this side                 *)
  pcmCh, chan,         (* what the channel holds; it is open                  *)
  sent, ended,         (* sentences, and finish-task, written                 *)
  heard, outcome,      (* chunks read; how the task ended                     *)
  held,                (* the chunk of the read loop                          *)
  played, verdict,     (* what NextPCM has returned: chunks, then an error    *)
  at                   (* where the processes are                             *)

state  == <<closed, finished, err>>
alarms == <<armed, timedOut, firstAudioSent, firstAudioReceived>>
sound  == <<pcmCh, chan, heard, outcome, held, played, verdict>>
net    == <<conn, sent, ended>>
vars   == <<over, cancelled, closed, finished, err, armed, timedOut, firstAudioSent,
            firstAudioReceived, conn, pcmCh, chan, sent, ended, heard, outcome,
            held, played, verdict, at>>

(* CreateStream has dialled and has read task-started.                        *)
Init ==
  /\ over = FALSE /\ cancelled = FALSE /\ closed = FALSE /\ finished = FALSE /\ err = None
  /\ armed = {} /\ timedOut = {} /\ firstAudioSent = FALSE /\ firstAudioReceived = FALSE
  /\ conn = TRUE /\ pcmCh = <<>> /\ chan = TRUE /\ sent = 0 /\ ended = FALSE
  /\ heard = 0 /\ outcome = "running" /\ held = <<>> /\ played = <<>> /\ verdict = None
  /\ at = [p \in Procs |-> IF p = "reader" THEN "read" ELSE "idle"]

Goto(p, l) == at' = [at EXCEPT ![p] = l]

(* A timeout goes before any other cause.  The other errors, a cancellation   *)
(* among them, are one: "error".                                              *)
Cause(late, e) ==
  CASE "first" \in late -> "first"
    [] "first" \notin late /\ "sentence" \in late -> "sentence"
    [] OTHER -> e

(* recordError: the first one stays.                                          *)
RecordError(late) == err' = IF err = None THEN Cause(late, "error") ELSE err

(* resetSentenceTimer, under timerMu; the mutant starts no timer for an       *)
(* answer that has begun to sound.                                            *)
StopsIfHeard(timers) ==
  IF closed \/ cancelled THEN timers
  ELSE (timers \ {"sentence"}) \cup (IF heard = 0 THEN {"sentence"} ELSE {})
Rearmed(timers) == IF closed \/ cancelled THEN timers ELSE timers \cup {"sentence"}

------------------------------------------------------------------------------
(* SendSentence and Finish.                                                   *)

(* The two contexts are looked at, then under writeMu and mu the stream: what *)
(* happens between the two looks could as well happen before both or after.   *)
Refused == cancelled \/ closed \/ err # None

Call ==
  /\ at["orch"] = "idle"
  /\ \/ Refused /\ Goto("orch", "gone") /\ UNCHANGED finished
     \/ ~Refused /\ ~finished /\ sent < Sentences /\ Goto("orch", "saying") /\ UNCHANGED finished
     \/ ~Refused /\ ~finished /\ Goto("orch", "ending") /\ finished' = TRUE
  /\ UNCHANGED <<over, cancelled, closed, err>> /\ UNCHANGED <<alarms, sound, net>>

Written ==
  /\ conn /\ ~over
  /\ \/ at["orch"] = "saying" /\ Goto("orch", "arm") /\ sent' = sent + 1 /\ UNCHANGED ended
     \/ at["orch"] = "ending" /\ Goto("orch", "rearm") /\ ended' = TRUE /\ UNCHANGED sent
  /\ UNCHANGED <<over, cancelled, conn>> /\ UNCHANGED <<state, alarms, sound>>

WriteFails ==
  /\ at["orch"] \in {"saying", "ending"} /\ Goto("orch", "gone")
  /\ RecordError(timedOut)
  /\ UNCHANGED <<over, cancelled, closed, finished>> /\ UNCHANGED <<alarms, sound, net>>

(* The first sentence starts the timer of the first audio.                    *)
ArmFirst ==
  /\ at["orch"] = "arm" /\ Goto("orch", "rearm")
  /\ firstAudioSent' = TRUE
  /\ armed' = IF firstAudioSent \/ firstAudioReceived THEN armed ELSE armed \cup {"first"}
  /\ UNCHANGED <<over, cancelled, timedOut, firstAudioReceived>>
  /\ UNCHANGED <<state, sound, net>>

(* The last thing both do.                                                    *)
Rearm ==
  /\ at["orch"] = "rearm" /\ Goto("orch", IF ended THEN "done" ELSE "idle")
  /\ armed' = Rearmed(armed)
  /\ UNCHANGED <<over, cancelled, timedOut, firstAudioSent, firstAudioReceived>>
  /\ UNCHANGED <<state, sound, net>>

------------------------------------------------------------------------------
(* readLoop.                                                                  *)

Reads == at["reader"] = "read" /\ conn /\ ~cancelled /\ outcome = "running"

(* Binary: the first one stops the timer of the first audio, if that has not  *)
(* been decided the other way; each one starts the sentence timer again.      *)
ReadAudio ==
  /\ Reads /\ sent > 0 /\ heard < MaxAudio
  /\ heard' = heard + 1 /\ held' = <<heard'>>
  /\ firstAudioReceived' = TRUE
  /\ armed' = Rearmed(IF firstAudioReceived THEN armed ELSE armed \ {"first"})
  /\ Goto("reader", "push")
  /\ UNCHANGED <<over, cancelled, timedOut, firstAudioSent, pcmCh, chan, outcome, played, verdict>>
  /\ UNCHANGED <<state, net>>

AnyRoom == TRUE                   (* mutant of HasRoom: the channel is endless *)
HasRoom == Len(pcmCh) < Capacity

Push ==
  /\ at["reader"] = "push" /\ HasRoom /\ Goto("reader", "read")
  /\ pcmCh' = pcmCh \o held /\ held' = <<>>
  /\ UNCHANGED <<over, cancelled, chan, heard, outcome, played, verdict>>
  /\ UNCHANGED <<state, alarms, net>>

(* It gives the chunk up, without recording an error.                         *)
PushGivesUp ==
  /\ at["reader"] = "push" /\ cancelled /\ Goto("reader", "leaving")
  /\ held' = <<>>
  /\ UNCHANGED <<over, cancelled, pcmCh, chan, heard, outcome, played, verdict>>
  /\ UNCHANGED <<state, alarms, net>>

(* stopTimers.                                                                *)
ReadFinished ==
  /\ Reads /\ ended /\ outcome' = "finished" /\ armed' = {}
  /\ Goto("reader", "leaving")
  /\ UNCHANGED <<over, cancelled, timedOut, firstAudioSent, firstAudioReceived>>
  /\ UNCHANGED <<pcmCh, chan, heard, held, played, verdict>> /\ UNCHANGED <<state, net>>

ReadFailed ==
  /\ Reads /\ outcome' = "failed" /\ armed' = {}
  /\ Goto("reader", "record")
  /\ UNCHANGED <<over, cancelled, timedOut, firstAudioSent, firstAudioReceived>>
  /\ UNCHANGED <<pcmCh, chan, heard, held, played, verdict>> /\ UNCHANGED <<state, net>>

(* conn.Read fails: the network, or one of this side's reasons.               *)
ReadFails ==
  /\ at["reader"] = "read" /\ Goto("reader", "record")
  /\ UNCHANGED <<over, cancelled>> /\ UNCHANGED <<state, alarms, sound, net>>

ReaderRecords ==
  /\ at["reader"] = "record" /\ Goto("reader", "leaving")
  /\ RecordError(timedOut)
  /\ UNCHANGED <<over, cancelled, closed, finished>> /\ UNCHANGED <<alarms, sound, net>>

(* The deferred part: stopTimers, conn.Close, close(pcmCh).                   *)
Leave ==
  /\ at["reader"] = "leaving" /\ Goto("reader", "done")
  /\ armed' = {} /\ conn' = FALSE /\ chan' = FALSE
  /\ UNCHANGED <<over, cancelled, timedOut, firstAudioSent, firstAudioReceived, sent, ended>>
  /\ UNCHANGED <<pcmCh, heard, outcome, held, played, verdict>> /\ UNCHANGED state

------------------------------------------------------------------------------
(* handleFirstAudioTimeout and handleSentenceTimeout.                         *)

Expires(t) ==
  /\ t \in armed /\ at[t] = "idle" /\ Goto(t, "fired") /\ armed' = armed \ {t}
  /\ UNCHANGED <<over, cancelled, timedOut, firstAudioSent, firstAudioReceived>>
  /\ UNCHANGED <<state, sound, net>>

(* CompareAndSwap: audio has come, or will come too late.                     *)
DecideFirst ==
  /\ at["first"] = "fired" /\ firstAudioReceived' = TRUE
  /\ Goto("first", IF firstAudioReceived THEN "idle" ELSE "late")
  /\ UNCHANGED <<over, cancelled, armed, timedOut, firstAudioSent>>
  /\ UNCHANGED <<state, sound, net>>

DecideSentence ==
  /\ at["sentence"] = "fired"
  /\ Goto("sentence", IF closed \/ cancelled THEN "idle" ELSE "late")
  /\ UNCHANGED <<over, cancelled>> /\ UNCHANGED <<state, alarms, sound, net>>

(* The flag, then recordError: whoever sees the flag alone would record it.   *)
TimesOut(t) ==
  /\ at[t] = "late" /\ Goto(t, "cancel")
  /\ timedOut' = timedOut \cup {t} /\ RecordError(timedOut')
  /\ UNCHANGED <<over, cancelled, closed, finished, armed, firstAudioSent, firstAudioReceived>>
  /\ UNCHANGED <<sound, net>>

TimeoutCancels(t) ==
  /\ at[t] = "cancel" /\ Goto(t, "idle") /\ cancelled' = TRUE /\ conn' = FALSE
  /\ UNCHANGED <<over, sent, ended>> /\ UNCHANGED <<state, alarms, sound>>

------------------------------------------------------------------------------
(* NextPCM, called in a loop by consumeTTSPCM.                                *)

Take ==
  /\ at["player"] = "idle" /\ pcmCh # <<>>
  /\ played' = Append(played, Head(pcmCh)) /\ pcmCh' = Tail(pcmCh)
  /\ UNCHANGED <<over, cancelled, chan, heard, outcome, held, verdict, at>>
  /\ UNCHANGED <<state, alarms, net>>

Verdict(v) == verdict' = v /\ Goto("player", "done")

(* What both ends of NextPCM look at.                                         *)
Fault == Cause(timedOut, IF closed THEN "error" ELSE err)

(* Mutant of End: without the last look at the context.                       *)
EndUnchecked == IF Fault # None THEN Fault ELSE "eof"
End == IF Fault # None THEN Fault ELSE IF cancelled THEN "error" ELSE "eof"

(* The channel is closed, the caller's context is, or the stream's.           *)
SeesEnd ==
  /\ at["player"] = "idle" /\ ~chan /\ pcmCh = <<>> /\ Verdict(End)
  /\ UNCHANGED <<over, cancelled, pcmCh, chan, heard, outcome, held, played>>
  /\ UNCHANGED <<state, alarms, net>>

SeesCancel ==
  /\ at["player"] = "idle"
  /\ \/ over /\ Verdict("error")
     \/ cancelled /\ pcmCh = <<>> /\ Verdict(IF Fault # None THEN Fault ELSE "error")
  /\ UNCHANGED <<over, cancelled, pcmCh, chan, heard, outcome, held, played>>
  /\ UNCHANGED <<state, alarms, net>>

(* The consumer returns for a reason of its own: its turn is superseded, the  *)
(* encoder fails, the pacer takes no more.                                    *)
PlayerLeaves ==
  /\ at["player"] = "idle" /\ Verdict("error")
  /\ UNCHANGED <<over, cancelled, pcmCh, chan, heard, outcome, held, played>>
  /\ UNCHANGED <<state, alarms, net>>

------------------------------------------------------------------------------
(* The turn's context is cancelled.                                           *)
TurnEnds ==
  /\ ~over /\ over' = TRUE /\ cancelled' = TRUE
  /\ UNCHANGED at /\ UNCHANGED <<state, alarms, sound, net>>

(* Close, once: stopTimers, closed, then the context and the connection.      *)
CloseStops ==
  /\ at["close"] = "idle" /\ Goto("close", "mark") /\ armed' = {}
  /\ UNCHANGED <<over, cancelled, timedOut, firstAudioSent, firstAudioReceived>>
  /\ UNCHANGED <<state, sound, net>>

CloseMarks ==
  /\ at["close"] = "mark" /\ Goto("close", "cancel") /\ closed' = TRUE
  /\ UNCHANGED <<over, cancelled, finished, err>> /\ UNCHANGED <<alarms, sound, net>>

ConnOnly == cancelled             (* mutant of CloseCancels: no cancel         *)
CloseCancels == TRUE

CloseConn ==
  /\ at["close"] = "cancel" /\ Goto("close", "done")
  /\ cancelled' = CloseCancels /\ conn' = FALSE
  /\ UNCHANGED <<over, sent, ended>> /\ UNCHANGED <<state, alarms, sound>>

Orchestrate == ArmFirst \/ Rearm
Read == Push \/ PushGivesUp \/ ReaderRecords \/ Leave
Handle == DecideFirst \/ DecideSentence
Handler(t) == TimesOut(t) \/ TimeoutCancels(t)
Play == Take \/ SeesEnd \/ SeesCancel

Next ==
  \/ Call \/ Written \/ WriteFails \/ Orchestrate
  \/ ReadAudio \/ ReadFinished \/ ReadFailed \/ ReadFails \/ Read
  \/ \E t \in Timers : Expires(t) \/ Handler(t)
  \/ Handle \/ Play \/ PlayerLeaves \/ TurnEnds
  \/ CloseStops \/ CloseMarks \/ CloseConn

Spec == Init /\ [][Next]_vars

(* Goroutines run, a timer that nobody stops expires, and reading a dead      *)
(* connection fails.  The service, the model and the network owe nothing.     *)
Fairness ==
  /\ WF_vars(Orchestrate) /\ WF_vars(Read) /\ WF_vars(Handle) /\ WF_vars(Play)
  /\ WF_vars((cancelled \/ ~conn) /\ ReadFails)
  /\ \A t \in Timers : WF_vars(Expires(t)) /\ WF_vars(Handler(t))
  /\ WF_vars(CloseMarks) /\ WF_vars(CloseConn)

FairSpec == Spec /\ Fairness

------------------------------------------------------------------------------
(* Properties.                                                                *)

Errors == Timers \cup {"error"}

(* Types; the channel never holds more than its capacity.                     *)
TypeOK ==
  /\ over \in BOOLEAN /\ cancelled \in BOOLEAN /\ closed \in BOOLEAN /\ finished \in BOOLEAN
  /\ err \in Errors \cup {None} /\ armed \subseteq Timers /\ timedOut \subseteq Timers
  /\ firstAudioSent \in BOOLEAN /\ firstAudioReceived \in BOOLEAN
  /\ conn \in BOOLEAN /\ chan \in BOOLEAN /\ ended \in BOOLEAN /\ sent \in Nat /\ heard \in Nat
  /\ pcmCh \in Seq(Nat) /\ Len(pcmCh) <= Capacity
  /\ held \in Seq(Nat) /\ Len(held) <= 1 /\ played \in Seq(Nat)
  /\ outcome \in {"running", "finished", "failed"}
  /\ verdict \in Errors \cup {None, "eof"}
  /\ DOMAIN at = Procs

(* The consumer gets the audio in order without a gap; and io.EOF, on which   *)
(* the answer counts as spoken and goes into the history, only when the       *)
(* service has finished the task and every chunk it sent was taken: a timer,  *)
(* a cancelled turn, a Close or a broken connection never passes for the end. *)
InOrder == \A i \in DOMAIN played : played[i] = i
EOFIsComplete ==
  /\ InOrder
  /\ verdict = "eof" => outcome = "finished" /\ Len(played) = heard

(* Once a sentence or the end of the input was sent, the consumer is not kept *)
(* for ever, even if the service falls silent at any point.                   *)
StreamEnds == (sent > 0 \/ ended) ~> verdict # None

(* Close ends the read loop even when it is held by a full channel nobody     *)
(* reads any more, and the consumer.                                          *)
CloseEnds == closed ~> (at["reader"] = "done" /\ verdict # None)
==============================================================================
