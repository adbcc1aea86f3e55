------------------------------- MODULE Session -------------------------------
(***************************************************************************)
(* One device session (src/internal/session/session.go): the supervisor    *)
(* goroutine that owns the conversation state, and the goroutines that     *)
(* talk to it through the bounded channel s.events -- the WebSocket read   *)
(* loop, the three timers, the readers of the recognition result, and, for *)
(* every turn, the orchestrator with its downlink pacer.  A turn is named  *)
(* by its generation.  What the orchestrator, the pacer and the writer     *)
(* send to the device is the subject of Downlink.                          *)
(***************************************************************************)
EXTENDS Naturals, Sequences, SequencesExt, FiniteSets

CONSTANTS
  MaxMsgs,       (* bound: messages the device sends in one session           *)
  EventCap,      (* capacity of the channel s.events                          *)
  HistoryTurns,  (* cfg.Session.MaxHistoryTurns                               *)
  Conforming,    (* the device follows the protocol: hello once, then waits   *)
                 (* for the server's hello, and every message is well formed  *)
  DialMayFail,   (* opening the recognition stream may fail                   *)
  Evictable      (* the registry may call Close from a goroutine of its own   *)

ASSUME SessionAssumption ==
  /\ MaxMsgs \in Nat
  /\ EventCap \in Nat \ {0}
  /\ HistoryTurns \in Nat \ {0}
  /\ Conforming \in BOOLEAN
  /\ DialMayFail \in BOOLEAN
  /\ Evictable \in BOOLEAN

VARIABLES
  state, mode, manualStop, generation,  (* the fields of Session under s.mu   *)
  history,       (* generations of the committed turns, oldest first          *)
  live,          (* generations whose turn context is not cancelled           *)
  turnCancel,    (* generation s.turnCancel would cancel, 0 when it is nil    *)
  asr,           (* generation of s.asrStream and s.asrQueue, 0 when nil      *)
  helloTimer,    (* s.helloTimer is running                                   *)
  listenTimer, asrTimer,  (* generation a running timer was armed for, or 0   *)
  events,        (* s.events: at most EventCap buffered, then blocked senders *)
  sup,           (* program counter and local variables of the supervisor     *)
  readLoop,      (* program counter of the read loop                          *)
  asrReader, orch, pacer,  (* program counters of each turn's goroutines      *)
  closing,       (* progress of closeWithReason under s.closeOnce             *)
  reason,        (* why the session was closed                                *)
  helloSent,     (* the server's hello was handed to the writer               *)
  msgs,          (* number of messages the device has sent                    *)
  aborted        (* history variable: turns an abort interrupted              *)

turnVars == <<live, turnCancel, asr, listenTimer, asrTimer>>
goVars   == <<asrReader, orch, pacer>>
coreVars == <<state, mode, manualStop, generation, history, aborted>>
peerVars == <<readLoop, msgs, helloSent>>
endVars  == <<closing, reason>>
vars == <<coreVars, turnVars, goVars, peerVars, endVars, helloTimer, events, sup>>

Turns    == 1 .. MaxMsgs          (* each new turn takes a message            *)
States   == {"Connected", "Ready", "Listening", "Processing", "Speaking", "Closed"}
Reasons  == {"none", "duplicate hello", "bad hello", "bad message", "bad audio",
             "hello timeout", "listen timeout", "asr timeout", "error",
             "write failed", "disconnected", "evicted"}
Msgs     == {"hello", "start_auto", "start_manual", "stop", "abort", "other",
             "audio", "bad_audio", "junk"}

Words    == Msgs \cup {"good", "bad", "text", "empty", "full", "partial"}

(* An event of s.events; gen is 0 where the code leaves the field zero.      *)
Event ==
  [kind : {"hello", "text", "audio", "final", "finished"}, gen : Nat, arg : Words]
    \cup [kind : {"timeout", "error", "close"}, gen : Nat, arg : Reasons]
Ev(k, g, a) == [kind |-> k, gen |-> g, arg |-> a]
NoEvent == Ev("close", 0, "none")

Init ==
  /\ state = "Connected" /\ mode = "auto" /\ manualStop = FALSE
  /\ generation = 0 /\ history = << >> /\ aborted = {}
  /\ live = {} /\ turnCancel = 0 /\ asr = 0
  /\ helloTimer = TRUE /\ listenTimer = 0 /\ asrTimer = 0
  /\ events = << >>
  /\ sup = [pc |-> "idle", ev |-> NoEvent, seen |-> "Connected", why |-> "none"]
  /\ readLoop = "reading" /\ msgs = 0 /\ helloSent = FALSE
  /\ asrReader = [g \in Turns |-> "none"]
  /\ orch = [g \in Turns |-> "none"]
  /\ pacer = [g \in Turns |-> "none"]
  /\ closing = "no" /\ reason = "none"

CtxDone == closing = "done"       (* s.cancel has been called                 *)

(* Mutant of Post: the send does not block, and a full channel loses it.      *)
LossyPost(e) ==
  events' = IF CtxDone \/ Len(events) >= EventCap THEN events ELSE Append(events, e)

(* postEvent: a cancelled session drops the event; otherwise the sender       *)
(* takes its place in the channel, blocked while that is beyond EventCap.     *)
Post(e) == events' = IF CtxDone THEN events ELSE Append(events, e)

------------------------------------------------------------------------------
(* The read loop.                                                             *)

FromReadLoop(e) == \/ e.kind \in {"hello", "text", "audio"}
                   \/ e.kind = "error" /\ e.gen = 0

(* The read loop is inside postEvent with an event the channel has no room    *)
(* for.                                                                       *)
ReadBlocked ==
  \E i \in DOMAIN events : i > EventCap /\ FromReadLoop(events[i])

(* The event a message becomes; in CONNECTED any message counts as the hello. *)
Tagged(m) ==
  IF state = "Connected"
  THEN Ev("hello", 0, IF m = "hello" THEN "good" ELSE "bad")
  ELSE CASE m = "audio"     -> Ev("audio", 0, "good")
         [] m = "bad_audio" -> Ev("audio", 0, "bad")
         [] m = "junk"      -> Ev("error", 0, "bad message")
         [] OTHER           -> Ev("text", 0, m)

Sends(m) ==                       (* what the device may send now             *)
  /\ msgs < MaxMsgs
  /\ Conforming => /\ m \notin {"bad_audio", "junk"}
                   /\ (m = "hello") = (msgs = 0)
                   /\ m # "hello" => helloSent

Read(m) ==
  /\ readLoop = "reading" /\ ~ReadBlocked /\ ~CtxDone
  /\ Sends(m)
  /\ msgs' = msgs + 1
  /\ Post(Tagged(m))
  /\ readLoop' = IF Tagged(m).kind = "error" THEN "leaving" ELSE "reading"
  /\ UNCHANGED <<coreVars, turnVars, goVars, endVars, helloTimer, sup, helloSent>>

(* The device disconnects, the context is cancelled, or a message could not   *)
(* be parsed: the deferred post of the Close event.                           *)
ReadExit ==
  /\ readLoop \in {"reading", "leaving"} /\ ~ReadBlocked
  /\ Post(Ev("close", 0, "disconnected"))
  /\ readLoop' = "gone"
  /\ UNCHANGED <<coreVars, turnVars, goVars, endVars, helloTimer, sup, msgs, helloSent>>

------------------------------------------------------------------------------
(* The timers.                                                                *)

HelloTimerFires ==
  /\ helloTimer /\ helloTimer' = FALSE
  /\ Post(Ev("timeout", 0, "hello timeout"))
  /\ UNCHANGED <<coreVars, turnVars, goVars, peerVars, endVars, sup>>

ListenTimerFires ==
  /\ listenTimer # 0 /\ listenTimer' = 0
  /\ Post(Ev("timeout", listenTimer, "listen timeout"))
  /\ UNCHANGED <<coreVars, live, turnCancel, asr, asrTimer, goVars, peerVars,
                 endVars, helloTimer, sup>>

AsrTimerFires ==
  /\ asrTimer # 0 /\ asrTimer' = 0
  /\ Post(Ev("timeout", asrTimer, "asr timeout"))
  /\ UNCHANGED <<coreVars, live, turnCancel, asr, listenTimer, goVars, peerVars,
                 endVars, helloTimer, sup>>

------------------------------------------------------------------------------
(* The readers of the recognition result and the answer of a turn.            *)

(* stream.Result returned the final text, possibly empty, or an error.        *)
AsrResult(g) ==
  /\ asrReader[g] = "waiting"
  /\ \E e \in {Ev("final", g, "text"), Ev("final", g, "empty"), Ev("error", g, "error")} :
       Post(e)
  /\ asrReader' = [asrReader EXCEPT ![g] = "done"]
  /\ UNCHANGED <<coreVars, turnVars, orch, pacer, peerVars, endVars, helloTimer, sup>>

(* The turn context is cancelled: the reader returns without an event.        *)
AsrCancelled(g) ==
  /\ asrReader[g] = "waiting" /\ g \notin live
  /\ asrReader' = [asrReader EXCEPT ![g] = "done"]
  /\ UNCHANGED <<coreVars, turnVars, orch, pacer, peerVars, endVars, helloTimer,
                 events, sup>>

(* The orchestrator or its PCM consumer fails: it posts a fatal error and its *)
(* deferred call stops the pacer.                                             *)
OrchFails(g) ==
  /\ orch[g] \in {"running", "overflowed"}
  /\ orch' = [orch EXCEPT ![g] = "failed"]
  /\ Post(Ev("error", g, "error"))
  /\ UNCHANGED <<coreVars, turnVars, asrReader, pacer, peerVars, endVars,
                 helloTimer, sup>>

(* Enqueue finds the downlink queue full: it posts a fatal error, but the     *)
(* consumer reports success and the orchestrator goes on to FinishInput.      *)
DownlinkOverflows(g) ==
  /\ orch[g] = "running" /\ pacer[g] \in {"waiting", "started"}
  /\ orch' = [orch EXCEPT ![g] = "overflowed"]
  /\ Post(Ev("error", g, "error"))
  /\ UNCHANGED <<coreVars, turnVars, asrReader, pacer, peerVars, endVars,
                 helloTimer, sup>>

OrchFinishesInput(g) ==
  /\ orch[g] \in {"running", "overflowed"}
  /\ orch' = [orch EXCEPT ![g] = "finished"]
  /\ UNCHANGED <<coreVars, turnVars, asrReader, pacer, peerVars, endVars,
                 helloTimer, events, sup>>

(* The turn context is cancelled: the orchestrator returns without an event.  *)
OrchCancelled(g) ==
  /\ orch[g] \in {"running", "overflowed"} /\ g \notin live
  /\ orch' = [orch EXCEPT ![g] = "failed"]
  /\ UNCHANGED <<coreVars, turnVars, asrReader, pacer, peerVars, endVars,
                 helloTimer, events, sup>>

(* Mutant: the state is not checked.                                          *)
CarelessTransition(g) == state' = IF generation = g THEN "Speaking" ELSE state

(* transitionToSpeaking.                                                      *)
TransitionToSpeaking(g) ==
  state' = IF generation = g /\ state = "Processing" THEN "Speaking" ELSE state

(* The first packet: tts.start has been sent, and transitionToSpeaking moves  *)
(* the session to SPEAKING if the turn is still the current one.              *)
PacerStarts(g) ==
  /\ pacer[g] = "waiting" /\ orch[g] # "none"
  /\ pacer' = [pacer EXCEPT ![g] = "started"]
  /\ TransitionToSpeaking(g)
  /\ UNCHANGED <<mode, manualStop, generation, history, aborted, turnVars,
                 asrReader, orch, peerVars, endVars, helloTimer, events, sup>>

(* All packets are sent: finishTurn.  The answer is full when neither text is *)
(* empty.                                                                     *)
PacerFinishes(g) ==
  /\ pacer[g] \in {"waiting", "started"} /\ orch[g] = "finished"
  /\ pacer' = [pacer EXCEPT ![g] = "gone"]
  /\ \E a \in {"full", "partial"} : Post(Ev("finished", g, a))
  /\ UNCHANGED <<coreVars, turnVars, asrReader, orch, peerVars, endVars,
                 helloTimer, sup>>

(* The writer refuses a packet: its queue is full or it is closed.            *)
PacerFails(g) ==
  /\ pacer[g] \in {"waiting", "started"} /\ orch[g] # "none"
  /\ pacer' = [pacer EXCEPT ![g] = "gone"]
  /\ Post(Ev("error", g, "error"))
  /\ UNCHANGED <<coreVars, turnVars, asrReader, orch, peerVars, endVars,
                 helloTimer, sup>>

(* The pacer was stopped, by the orchestrator's failure or with its turn.     *)
PacerStopped(g) ==
  /\ pacer[g] \in {"waiting", "started"}
  /\ g \notin live \/ orch[g] = "failed"
  /\ pacer' = [pacer EXCEPT ![g] = "gone"]
  /\ UNCHANGED <<coreVars, turnVars, asrReader, orch, peerVars, endVars,
                 helloTimer, events, sup>>

------------------------------------------------------------------------------
(* The supervisor.  It takes an event and reads the state (Take); a handler   *)
(* then acts on what was read.                                                *)

Goto(pc) == sup' = [sup EXCEPT !.pc = pc]
GiveUp(r) == sup' = [sup EXCEPT !.pc = "closing", !.why = r]

Take ==
  /\ sup.pc = "idle" /\ state # "Closed" /\ events # << >>
  /\ sup' = [pc |-> "handle", ev |-> Head(events), seen |-> state, why |-> "none"]
  /\ events' = Tail(events)
  /\ UNCHANGED <<coreVars, turnVars, goVars, peerVars, endVars, helloTimer>>

Handling(kind) == sup.pc = "handle" /\ sup.ev.kind = kind

AnyGeneration == TRUE             (* mutant of Current: results are not checked *)
OldGeneration == sup.ev.gen < generation    (* mutant: the test is inverted     *)

(* The event belongs to the current generation.                               *)
Current == sup.ev.gen = generation

KeepTurn == turnCancel' = 0 /\ UNCHANGED live       (* mutant of CancelTurn       *)

(* s.turnCancel is called, if there is one, and forgotten.                    *)
CancelTurn == live' = live \ {turnCancel} /\ turnCancel' = 0

(* Mutant: the result timer goes on.                                          *)
ReleaseStream == asr' = 0 /\ listenTimer' = 0 /\ UNCHANGED asrTimer

(* stopListeningTimer, stopASRResultTimer and stopASR.                        *)
ReleaseListening == asr' = 0 /\ listenTimer' = 0 /\ asrTimer' = 0

KeptTimer(t) == t                 (* mutant: the timer is not started           *)
EarlyTimer(t) == generation + 1   (* mutant: armed for the turn to come         *)

(* startListeningTimer, startASRResultTimer: the new value of timer t.        *)
Armed(t) == IF state = "Closed" THEN t ELSE generation

(* A handler that leaves early without touching anything.                    *)
Dismiss ==
  /\ Goto("idle")
  /\ UNCHANGED <<coreVars, turnVars, goVars, peerVars, endVars, helloTimer, events>>

CloseFor(r) ==
  /\ GiveUp(r)
  /\ UNCHANGED <<coreVars, turnVars, goVars, peerVars, endVars, helloTimer, events>>

(* handleHelloEvent.                                                          *)
HandleHello ==
  /\ Handling("hello")
  /\ \/ sup.seen # "Connected" /\ CloseFor("duplicate hello")
     \/ sup.seen = "Connected" /\ sup.ev.arg = "bad" /\ CloseFor("bad hello")
     \/ /\ sup.seen = "Connected" /\ sup.ev.arg = "good"
        /\ helloTimer' = FALSE
        /\ \/ Goto("hello") /\ helloSent' = TRUE
           \/ GiveUp("write failed") /\ UNCHANGED helloSent
        /\ UNCHANGED <<coreVars, turnVars, goVars, readLoop, msgs, endVars, events>>

(* The end of handleHelloEvent, after the server's hello is on its way.       *)
HelloDone ==
  /\ sup.pc = "hello"
  /\ state' = "Ready"
  /\ Goto("idle")
  /\ UNCHANGED <<mode, manualStop, generation, history, aborted, turnVars, goVars,
                 peerVars, endVars, helloTimer, events>>

Text(args) == Handling("text") /\ sup.ev.arg \in args

DuplicateHello == Text({"hello"}) /\ CloseFor("duplicate hello")

(* listen.start: the turn is opened under s.mu ...                            *)
ListenStart ==
  /\ Text({"start_auto", "start_manual"}) /\ sup.seen = "Ready"
  /\ state' = "Listening"
  /\ mode' = IF sup.ev.arg = "start_auto" THEN "auto" ELSE "manual"
  /\ manualStop' = FALSE
  /\ generation' = generation + 1
  /\ turnCancel' = generation + 1
  /\ live' = IF CtxDone THEN live ELSE live \cup {generation + 1}
  /\ Goto("arm")
  /\ UNCHANGED <<history, aborted, asr, listenTimer, asrTimer, goVars, peerVars,
                 endVars, helloTimer, events>>

(* ... the timer is armed ...                                                 *)
ArmListenTimer ==
  /\ sup.pc = "arm"
  /\ listenTimer' = Armed(listenTimer)
  /\ Goto("dial")
  /\ UNCHANGED <<coreVars, live, turnCancel, asr, asrTimer, goVars, peerVars,
                 endVars, helloTimer, events>>

(* ... and the supervisor itself opens the recognition stream.                *)
DialOk ==
  /\ sup.pc = "dial"
  /\ asr' = generation
  /\ asrReader' = IF mode = "auto" /\ generation \in Turns
                  THEN [asrReader EXCEPT ![generation] = "waiting"] ELSE asrReader
  /\ Goto("idle")
  /\ UNCHANGED <<coreVars, live, turnCancel, listenTimer, asrTimer, orch, pacer,
                 peerVars, endVars, helloTimer, events>>

(* When that fails the supervisor posts the error to its own channel, which   *)
(* blocks when the channel is full: nobody else takes events.                 *)
DialFails ==
  /\ sup.pc = "dial"
  /\ DialMayFail \/ generation \notin live
  /\ Post(Ev("error", generation, "error"))
  /\ Goto(IF Len(events) < EventCap \/ CtxDone THEN "idle" ELSE "posting")
  /\ UNCHANGED <<coreVars, turnVars, goVars, peerVars, endVars, helloTimer>>

(* Only a cancelled session context releases the supervisor from there.       *)
PostReleased ==
  /\ sup.pc = "posting" /\ CtxDone
  /\ Goto("idle")
  /\ UNCHANGED <<coreVars, turnVars, goVars, peerVars, endVars, helloTimer, events>>

(* listen.stop in manual mode: the listening timer is replaced by the result  *)
(* timer, the queue is finished and a reader waits for the result.            *)
ListenStop ==
  /\ Text({"stop"}) /\ sup.seen = "Listening" /\ mode = "manual" /\ ~manualStop
  /\ manualStop' = TRUE
  /\ listenTimer' = 0
  /\ asrTimer' = Armed(asrTimer)
  /\ asrReader' = IF asr # 0 /\ generation \in Turns
                  THEN [asrReader EXCEPT ![generation] = "waiting"] ELSE asrReader
  /\ Goto("idle")
  /\ UNCHANGED <<state, mode, generation, history, aborted, live, turnCancel, asr,
                 orch, pacer, peerVars, endVars, helloTimer, events>>

(* handleAbortEvent.                                                          *)
Abort ==
  /\ Text({"abort"}) /\ sup.seen # "Connected"
  /\ generation' = generation + 1
  /\ CancelTurn /\ ReleaseListening
  /\ state' = "Ready"
  /\ aborted' = IF turnCancel # 0 THEN aborted \cup {turnCancel} ELSE aborted
  /\ Goto("idle")
  /\ UNCHANGED <<mode, manualStop, history, goVars, peerVars, endVars, helloTimer,
                 events>>

(* The remaining text messages change nothing here.                           *)
IgnoreText ==
  /\ Handling("text")
  /\ \/ sup.ev.arg = "other"
     \/ sup.ev.arg \in {"start_auto", "start_manual"} /\ sup.seen # "Ready"
     \/ sup.ev.arg = "stop" /\ ~(sup.seen = "Listening" /\ mode = "manual" /\ ~manualStop)
     \/ sup.ev.arg = "abort" /\ sup.seen = "Connected"
  /\ Dismiss

(* handleClientAudioEvent: a bad packet closes the session in every state; in *)
(* LISTENING the packet is decoded and pushed, and either may fail.           *)
HandleAudio ==
  /\ Handling("audio")
  /\ \/ sup.ev.arg = "bad" /\ CloseFor("bad audio")
     \/ sup.ev.arg = "good" /\ Dismiss
     \/ /\ sup.ev.arg = "good" /\ sup.seen = "Listening"
        /\ ~(mode = "manual" /\ manualStop)
        /\ CloseFor("bad audio")

(* handleASRFinalEvent: the turn goes back to READY on an empty text, and     *)
(* starts its answer otherwise.                                               *)
HandleFinal ==
  /\ Handling("final")
  /\ IF Current /\ sup.seen = "Listening"
     THEN /\ ReleaseListening
          /\ IF sup.ev.arg = "empty"
             THEN /\ CancelTurn
                  /\ state' = "Ready"
                  /\ UNCHANGED goVars
             ELSE /\ state' = "Processing"
                  /\ orch' = [orch EXCEPT ![sup.ev.gen] = "running"]
                  /\ pacer' = [pacer EXCEPT ![sup.ev.gen] = "waiting"]
                  /\ UNCHANGED <<live, turnCancel, asrReader>>
          /\ Goto("idle")
          /\ UNCHANGED <<mode, manualStop, generation, history, aborted, peerVars,
                         endVars, helloTimer, events>>
     ELSE Dismiss

(* AppendHistory: the oldest turns make room.                                 *)
AppendHistory(g) ==
  LET h == Append(history, g)
  IN  SubSeq(h, IF Len(h) > HistoryTurns THEN Len(h) - HistoryTurns + 1 ELSE 1, Len(h))

OnlySpeaking == sup.seen = "Speaking"       (* mutant: a silent answer is lost *)
Answering == sup.seen \in {"Processing", "Speaking"}

(* handleTurnFinishedEvent: a spoken answer is closed with tts.stop, which    *)
(* the writer may refuse, and only then committed.                            *)
HandleFinished ==
  /\ Handling("finished")
  /\ \/ /\ Current /\ Answering
        /\ history' = IF sup.seen = "Speaking" /\ sup.ev.arg = "full"
                      THEN AppendHistory(sup.ev.gen) ELSE history
        /\ CancelTurn /\ asr' = 0
        /\ state' = "Ready"
        /\ Goto("idle")
        /\ UNCHANGED <<mode, manualStop, generation, aborted, listenTimer, asrTimer,
                       goVars, peerVars, endVars, helloTimer, events>>
     \/ Current /\ sup.seen = "Speaking" /\ CloseFor("write failed")
     \/ ~(Current /\ Answering) /\ Dismiss

(* handleTimeoutEvent.                                                        *)
HandleTimeout ==
  /\ Handling("timeout")
  /\ IF \/ sup.ev.arg = "hello timeout" /\ sup.seen = "Connected"
        \/ sup.ev.arg # "hello timeout" /\ Current /\ sup.seen = "Listening"
     THEN CloseFor(sup.ev.arg)
     ELSE Dismiss

(* handleErrorEvent: every error posted by the session's goroutines is fatal. *)
HandleError ==
  /\ Handling("error")
  /\ IF sup.ev.gen = 0 \/ Current THEN CloseFor(sup.ev.arg) ELSE Dismiss

(* handleCloseEvent.                                                          *)
HandleClose == Handling("close") /\ CloseFor(sup.ev.arg)

------------------------------------------------------------------------------
(* closeWithReason.  Its body runs once; a second caller waits for the first. *)

(* The part under s.mu.                                                       *)
MarkClosed ==
  /\ state' = "Closed" /\ history' = << >>
  /\ helloTimer' = FALSE /\ listenTimer' = 0 /\ asrTimer' = 0

KeepBlocked(q) == q               (* mutant: blocked senders ignore the context *)

(* s.cancel cancels every turn and releases the goroutines blocked in         *)
(* postEvent.                                                                 *)
Released(q) == SubSeq(q, 1, IF Len(q) > EventCap THEN EventCap ELSE Len(q))

SupCloses ==
  /\ sup.pc = "closing" /\ closing = "no"
  /\ closing' = "done" /\ reason' = sup.why
  /\ MarkClosed
  /\ asr' = 0 /\ live' = {} /\ turnCancel' = 0
  /\ events' = Released(events)
  /\ Goto("done")
  /\ UNCHANGED <<mode, manualStop, generation, aborted, goVars, peerVars>>

SupExits ==
  /\ \/ sup.pc = "idle" /\ (state = "Closed" \/ CtxDone)
     \/ sup.pc = "closing" /\ CtxDone
  /\ Goto("done")
  /\ UNCHANGED <<coreVars, turnVars, goVars, peerVars, endVars, helloTimer, events>>

(* Close called by the registry, for an eviction or a shutdown, step by step. *)
EvictBegins ==
  /\ Evictable /\ closing = "no"
  /\ closing' = "begun" /\ reason' = "evicted"
  /\ asr' = 0
  /\ UNCHANGED <<coreVars, live, turnCancel, listenTimer, asrTimer, goVars,
                 peerVars, helloTimer, events, sup>>

EvictMarks ==
  /\ closing = "begun" /\ closing' = "marked"
  /\ MarkClosed
  /\ CancelTurn
  /\ UNCHANGED <<mode, manualStop, generation, aborted, asr, goVars, peerVars,
                 reason, events, sup>>

EvictEnds ==
  /\ closing = "marked" /\ closing' = "done"
  /\ live' = {}
  /\ events' = Released(events)
  /\ UNCHANGED <<coreVars, turnCancel, asr, listenTimer, asrTimer, goVars, peerVars,
                 reason, helloTimer, sup>>

------------------------------------------------------------------------------
(* The supervisor goroutine: it never stops between two events.               *)
Supervisor ==
  \/ Take \/ HandleHello \/ HelloDone \/ DuplicateHello
  \/ ListenStart \/ ArmListenTimer \/ DialOk \/ DialFails \/ PostReleased
  \/ ListenStop \/ Abort \/ IgnoreText \/ HandleAudio
  \/ HandleFinal \/ HandleFinished \/ HandleTimeout \/ HandleError \/ HandleClose
  \/ SupCloses \/ SupExits

Timers == HelloTimerFires \/ ListenTimerFires \/ AsrTimerFires

(* What each turn's goroutines do of their own accord.                        *)
Answer(g) ==
  \/ OrchFails(g) \/ DownlinkOverflows(g) \/ OrchFinishesInput(g) \/ OrchCancelled(g)

Pacer(g) == PacerStarts(g) \/ PacerFinishes(g) \/ PacerFails(g) \/ PacerStopped(g)

Evictor == EvictBegins \/ EvictMarks \/ EvictEnds

(* Every goroutine of the session has returned.                               *)
Quiet ==
  /\ sup.pc = "done" /\ readLoop = "gone"
  /\ \A g \in Turns : /\ asrReader[g] # "waiting"
                      /\ orch[g] \notin {"running", "overflowed"}
                      /\ pacer[g] \notin {"waiting", "started"}

Finished == Quiet /\ UNCHANGED vars

Next ==
  \/ \E m \in Msgs : Read(m)
  \/ ReadExit \/ Timers \/ Supervisor \/ Evictor
  \/ \E g \in Turns : AsrResult(g) \/ AsrCancelled(g) \/ Answer(g) \/ Pacer(g)
  \/ Finished

Spec == Init /\ [][Next]_vars

(* The code's scheduling: goroutines run.  A timer that is not stopped fires; *)
(* every call of the recogniser, the model and the synthesiser is bounded by  *)
(* a timeout or by the turn context, so an orchestrator ends, except that a   *)
(* recognition result may never come.  Nothing is assumed of the device.      *)
Fairness ==
  /\ WF_vars(Supervisor)
  /\ WF_vars(HelloTimerFires) /\ WF_vars(ListenTimerFires) /\ WF_vars(AsrTimerFires)
  /\ WF_vars(EvictMarks) /\ WF_vars(EvictEnds)
  /\ WF_vars(ReadExit /\ (CtxDone \/ readLoop = "leaving"))
  /\ \A g \in Turns : WF_vars(AsrCancelled(g)) /\ WF_vars(Answer(g)) /\ WF_vars(Pacer(g))

FairSpec == Spec /\ Fairness

------------------------------------------------------------------------------
(* Properties.                                                                *)

PCs == {"idle", "handle", "hello", "arm", "dial", "posting", "closing", "done"}

(* Types: in particular a timer, a recognition stream or a cancel function    *)
(* belongs to a generation that has begun.                                    *)
TypeOK ==
  /\ state \in States /\ mode \in {"auto", "manual"} /\ manualStop \in BOOLEAN
  /\ generation \in Nat /\ history \in Seq(Nat) /\ aborted \subseteq Nat
  /\ live \subseteq 1 .. generation /\ turnCancel \in 0 .. generation
  /\ asr \in 0 .. generation /\ helloTimer \in BOOLEAN
  /\ listenTimer \in 0 .. generation /\ asrTimer \in 0 .. generation
  /\ events \in Seq(Event)
  /\ sup \in [pc : PCs, ev : Event, seen : States, why : Reasons]
  /\ readLoop \in {"reading", "leaving", "gone"}
  /\ asrReader \in [Turns -> {"none", "waiting", "done"}]
  /\ orch \in [Turns -> {"none", "running", "overflowed", "finished", "failed"}]
  /\ pacer \in [Turns -> {"none", "waiting", "started", "gone"}]
  /\ closing \in {"no", "begun", "marked", "done"}
  /\ reason \in Reasons /\ helloSent \in BOOLEAN /\ msgs \in Nat

Active == state \in {"Listening", "Processing", "Speaking"}

(* At most one turn runs, it is the current generation, and the session can   *)
(* still cancel it: no sequence of listen.start, abort, results, errors and   *)
(* closes leaves a recognition, a model or a synthesis of an earlier turn     *)
(* running behind the current one.                                            *)
OneTurn == live \subseteq {generation} /\ live \subseteq {turnCancel}

(* Until something closes the session, exactly the active states have a live  *)
(* turn, and outside LISTENING the recognition stream and both its timers are *)
(* released.                                                                  *)
TurnMatchesState ==
  closing = "no" =>
    /\ Active => live = {generation}
    /\ ~Active => live = {} /\ turnCancel = 0
    /\ state # "Listening" => asr = 0 /\ listenTimer = 0 /\ asrTimer = 0

(* The events on their way to a handler, the one being handled included.      *)
InFlight == ToSet(events) \cup IF sup.pc = "handle" THEN {sup.ev} ELSE {}

(* A session that listens is always about to stop: the listening timer, or    *)
(* after listen.stop the result timer, of this very turn runs or has fired    *)
(* and its event is on its way.  A missed re-arming, or a timer stopped by    *)
(* the wrong turn, would let the session listen forever.                      *)
ListeningIsTimed ==
  closing = "no" /\ state = "Listening" /\ sup.pc \notin {"arm", "closing"} =>
    IF manualStop
    THEN asrTimer = generation \/ Ev("timeout", generation, "asr timeout") \in InFlight
    ELSE listenTimer = generation \/ Ev("timeout", generation, "listen timeout") \in InFlight

(* A turn that is being answered cannot be forgotten: its pacer still runs,   *)
(* or the event that ends the turn is on its way to the supervisor.           *)
AnswerIsPending ==
  closing = "no" /\ state \in {"Processing", "Speaking"} /\ sup.pc # "closing" =>
    \/ generation \in Turns /\ pacer[generation] \in {"waiting", "started"}
    \/ \E e \in InFlight : e.gen = generation /\ e.kind \in {"finished", "error"}

(* Neither is ever forgotten, whatever arrives in between.                    *)
NothingForgotten == ListeningIsTimed /\ AnswerIsPending

(* The history the language model will see holds each completed turn once,    *)
(* in order, and never one that an abort interrupted or whose answer was      *)
(* not spoken, whatever late results arrive.                                  *)
HistoryIsSound ==
  /\ Len(history) <= HistoryTurns
  /\ \A i, j \in DOMAIN history : i < j => history[i] < history[j]
  /\ \A i \in DOMAIN history : /\ history[i] \in Turns \ aborted
                               /\ pacer[history[i]] = "gone"
                               /\ history[i] \notin live

(* The session, with all its goroutines, behaves as the one-turn              *)
(* conversation of module Conversation.                                       *)
C == INSTANCE Conversation WITH phase <- state, turn <- generation, committed <- history
Conversation == C!Spec

(* The session listens only for a bounded time, whatever the recogniser and   *)
(* the device do: the turn ends or the session is closed.                     *)
ListeningEnds ==
  \A g \in Turns : (state = "Listening" /\ generation = g)
                     ~> (closing = "done" \/ ~(state = "Listening" /\ generation = g))

(* Every answered turn leaves PROCESSING and SPEAKING, or the session is      *)
(* closed.                                                                    *)
AnsweringEnds ==
  \A g \in Turns :
    (state \in {"Processing", "Speaking"} /\ generation = g)
      ~> (closing = "done" \/ ~(state \in {"Processing", "Speaking"} /\ generation = g))

(* No turn lasts forever.                                                     *)
TurnsEnd == ListeningEnds /\ AnsweringEnds

(* "ASR 或 LLM 在 tts.start 前失败：记录一次错误并关闭设备连接"               *)
(* (requirements-and-architecture.md:339): an error of the current turn, once *)
(* posted, closes the session unless an abort makes it stale first.           *)
ErrorsClose ==
  \A g \in Turns : (Ev("error", g, "error") \in ToSet(events) /\ generation = g)
                     ~> (closing = "done" \/ generation # g)

(* A closed session leaves no goroutine behind: not one blocked in postEvent, *)
(* not one waiting for a recognition, and not the supervisor.                 *)
CloseEndsAll == (closing = "done") ~> Quiet

==============================================================================
