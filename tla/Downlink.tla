------------------------------ MODULE Downlink ------------------------------
(***************************************************************************)
(* What a session says to the device, at the granularity of the code's     *)
(* locks and channel operations: the supervisor's abort, end-of-turn and   *)
(* error handlers (session.go), the orchestrator and the PCM consumer of   *)
(* every turn (orchestration.go), its pacer (pacer.go) and the writer they *)
(* all share (writer.go).  Recognition is left to module Session: here a   *)
(* turn begins when its answer does.                                       *)
(***************************************************************************)
EXTENDS Naturals, Sequences, SequencesExt, FiniteSets

CONSTANTS
  MaxGen,        (* bound: generations, that is turns and aborts               *)
  Sentences,     (* bound: sentences of an answer                              *)
  Packets,       (* bound: Opus packets of a sentence                          *)
  PacerCap,      (* capacity of DownlinkPacer.packetQueue                      *)
  WriterCap,     (* capacity of Writer.queue                                   *)
  MayFail        (* the model, the synthesiser and the socket may fail         *)

ASSUME DownlinkAssumption ==
  /\ {MaxGen, Sentences, Packets, PacerCap, WriterCap} \subseteq Nat \ {0}
  /\ MayFail \in BOOLEAN

VARIABLES
  state, generation, history,    (* as in module Session                       *)
  live,          (* generations whose turn context is not cancelled            *)
  sPacer,        (* s.pacer: the generation of the pacer it refers to, or 0    *)
  sup,           (* program counter and locals of the supervisor               *)
  posts,         (* the turn-finished and error events in s.events             *)
  orch,          (* orchestrator of each turn: program counter, next sentence  *)
  fed,           (* sentences the synthesis stream of each turn has accepted   *)
  cons,          (* PCM consumer of each turn: program counter, packets read   *)
  pacer,         (* pacer of each turn: program counter, packet in hand        *)
  packets,       (* packetQueue of each pacer                                  *)
  hasSentStart, stopped, cancelled, inputDone,   (* fields of each pacer       *)
  queue, wClosed,                (* Writer.queue and Writer.closed             *)
  device,        (* the messages the device has received                       *)
  late,          (* history variable: messages queued for a superseded turn,   *)
                 (* by goroutine                                               *)
  spoke, stops   (* history variables: turns that were in SPEAKING, and how    *)
                 (* often their tts.stop was sent                              *)

supVars   == <<state, generation, history, live, sPacer, sup>>
turnVars  == <<orch, fed, cons>>
pacerVars == <<pacer, packets, hasSentStart, stopped, cancelled, inputDone>>
outVars   == <<queue, wClosed, device>>
auxVars   == <<late, spoke, stops>>
vars == <<supVars, posts, turnVars, pacerVars, outVars, auxVars>>

Gens == 1 .. MaxGen
AllPackets == 1 .. Sentences * Packets
SentenceOf(p) == ((p - 1) \div Packets) + 1

(* A message; gen is not part of the wire format, it says whose it is.        *)
Msg(k, g, n) == [kind |-> k, gen |-> g, n |-> n]
Event(k, g) == [kind |-> k, gen |-> g]

Init ==
  /\ state = "Ready" /\ generation = 0 /\ history = << >> /\ live = {} /\ sPacer = 0
  /\ sup = [pc |-> "idle", gen |-> 0, was |-> FALSE, p |-> 0]
  /\ posts = << >>
  /\ orch = [g \in Gens |-> [pc |-> "none", n |-> 1]]
  /\ fed = [g \in Gens |-> 0]
  /\ cons = [g \in Gens |-> [pc |-> "none", n |-> 0]]
  /\ pacer = [g \in Gens |-> [pc |-> "none", p |-> 0]]
  /\ packets = [g \in Gens |-> << >>]
  /\ hasSentStart = [g \in Gens |-> FALSE]
  /\ stopped = [g \in Gens |-> FALSE]
  /\ cancelled = [g \in Gens |-> FALSE]
  /\ inputDone = [g \in Gens |-> FALSE]
  /\ queue = << >> /\ wClosed = FALSE /\ device = {}
  /\ late = [g \in Gens |-> [orch |-> 0, pacer |-> 0]]
  /\ spoke = {} /\ stops = [g \in Gens |-> 0]

------------------------------------------------------------------------------
(* The writer.                                                                *)

AlwaysRoom == TRUE                (* mutant of HasRoom: the queue is unbounded *)
HasRoom == Len(queue) < WriterCap

Accepts == ~wClosed /\ HasRoom
Enqueue(m) == Accepts /\ queue' = Append(queue, m) /\ UNCHANGED <<wClosed, device>>
Refuse == ~Accepts /\ UNCHANGED outVars

(* writeLoop hands the oldest message to the socket; a closed writer still    *)
(* drains its queue.                                                          *)
Write ==
  /\ queue # << >>
  /\ queue' = Tail(queue) /\ device' = device \cup {Head(queue)}
  /\ UNCHANGED <<supVars, posts, turnVars, pacerVars, wClosed, auxVars>>

(* The socket fails, or the 300 ms a closed writer is given are over.         *)
WriteFails ==
  /\ MayFail \/ wClosed
  /\ ~wClosed \/ queue # << >>
  /\ queue' = << >> /\ wClosed' = TRUE
  /\ UNCHANGED <<supVars, posts, turnVars, pacerVars, device, auxVars>>

(* A message of turn g is queued by goroutine who after g was superseded.     *)
CountLate(g, who) ==
  late' = IF generation > g THEN [late EXCEPT ![g][who] = @ + 1] ELSE late

------------------------------------------------------------------------------
(* The orchestrator of turn g.                                                *)

(* The tests of every stage: "s.Generation() > gen", and, where the turn's    *)
(* context is at hand, "ctx.Err() != nil" before it.                          *)
Superseded(g) == generation > g

(* Mutant of TurnIsOver: the stage goes on whatever has happened.             *)
NeverOver(g) == FALSE
TurnIsOver(g) == g \notin live \/ Superseded(g)

Post(e) == posts' = IF state = "Closed" THEN posts ELSE Append(posts, e)

OrchAt(g, pc) == orch[g].pc = pc
OrchGoto(g, pc) == orch' = [orch EXCEPT ![g].pc = pc]

(* DownlinkPacer.Stop sets its flag under p.mu ...                            *)
MarkStopped(g) ==
  /\ stopped' = [stopped EXCEPT ![g] = TRUE]
  /\ UNCHANGED <<pacer, packets, hasSentStart, cancelled, inputDone>>

(* ... and cancels p.ctx only after giving the lock back, and empties the     *)
(* queue.                                                                     *)
CancelPacer(g) ==
  /\ cancelled' = [cancelled EXCEPT ![g] = TRUE]
  /\ packets' = [packets EXCEPT ![g] = << >>]
  /\ UNCHANGED <<pacer, hasSentStart, stopped, inputDone>>

(* It stores its streams in the session, whoever's turn it is by now, and     *)
(* starts the pacer and the consumer.                                         *)
OrchCreate(g) ==
  /\ OrchAt(g, "create")
  /\ sPacer' = g
  /\ OrchGoto(g, "check")
  /\ cons' = [cons EXCEPT ![g].pc = "next"]
  /\ pacer' = [pacer EXCEPT ![g].pc = "idle"]
  /\ UNCHANGED <<state, generation, history, live, sup, posts, fed, packets,
                 hasSentStart, stopped, cancelled, inputDone, outVars, auxVars>>

(* The context was cancelled before or while the synthesis stream is created, *)
(* or the stream cannot be opened.                                            *)
OrchCreateFails(g) ==
  /\ OrchAt(g, "create")
  /\ \/ g \notin live /\ UNCHANGED posts
     \/ g \in live /\ MayFail /\ Post(Event("error", g))
  /\ OrchGoto(g, "done")
  /\ UNCHANGED <<supVars, fed, cons, pacerVars, outVars, auxVars>>

(* The next sentence, or the end of the answer, has come from the model.      *)
OrchCheck(g) ==
  /\ OrchAt(g, "check")
  /\ ~TurnIsOver(g)
  /\ \/ orch[g].n <= Sentences /\ OrchGoto(g, "send")
     \/ OrchGoto(g, "finish")
  /\ UNCHANGED <<supVars, posts, fed, cons, pacerVars, outVars, auxVars>>

(* The turn is over for this goroutine: it returns silently when it notices   *)
(* the cancellation, or posts the failure of a stage.                         *)
OrchGivesUp(g) ==
  /\ orch[g].pc \in {"check", "speak", "finish", "await"}
  /\ \/ TurnIsOver(g) /\ UNCHANGED posts
     \/ ~TurnIsOver(g) /\ MayFail /\ orch[g].pc # "await"
        /\ Post(Event("error", g))
  /\ OrchGoto(g, "stop")
  /\ UNCHANGED <<supVars, fed, cons, pacerVars, outVars, auxVars>>

(* sendSentence: tts.sentence_start goes to the writer ...                    *)
OrchSend(g) ==
  /\ OrchAt(g, "send")
  /\ \/ /\ Enqueue(Msg("sentence", g, orch[g].n))
        /\ CountLate(g, "orch")
        /\ OrchGoto(g, "speak") /\ UNCHANGED posts
     \/ /\ Refuse
        /\ IF TurnIsOver(g) THEN UNCHANGED posts ELSE Post(Event("error", g))
        /\ OrchGoto(g, "stop") /\ UNCHANGED late
  /\ UNCHANGED <<supVars, fed, cons, pacerVars, spoke, stops>>

(* ... before the sentence goes to the synthesiser.                           *)
OrchSpeak(g) ==
  /\ OrchAt(g, "speak") /\ ~TurnIsOver(g)
  /\ fed' = [fed EXCEPT ![g] = orch[g].n]
  /\ orch' = [orch EXCEPT ![g] = [pc |-> "check", n |-> @.n + 1]]
  /\ UNCHANGED <<supVars, posts, cons, pacerVars, outVars, auxVars>>

(* ttsStream.Finish.                                                          *)
OrchFinish(g) ==
  /\ OrchAt(g, "finish") /\ ~TurnIsOver(g)
  /\ OrchGoto(g, "await")
  /\ UNCHANGED <<supVars, posts, fed, cons, pacerVars, outVars, auxVars>>

(* The consumer reported the end of the PCM without an error: FinishInput.    *)
OrchFinishInput(g) ==
  /\ OrchAt(g, "await") /\ cons[g].pc = "done" /\ ~Superseded(g)
  /\ inputDone' = [inputDone EXCEPT ![g] = TRUE]
  /\ OrchGoto(g, "done")
  /\ UNCHANGED <<supVars, posts, fed, cons, pacer, packets, hasSentStart, stopped,
                 cancelled, outVars, auxVars>>

(* The consumer reported an error, which it has posted itself.                *)
OrchHearsError(g) ==
  /\ OrchAt(g, "await") /\ cons[g].pc = "failed"
  /\ OrchGoto(g, "stop")
  /\ UNCHANGED <<supVars, posts, fed, cons, pacerVars, outVars, auxVars>>

(* The deferred pacer.Stop() of an orchestrator that gives up.                *)
OrchStops(g) ==
  /\ OrchAt(g, "stop") /\ MarkStopped(g)
  /\ OrchGoto(g, "cancel")
  /\ UNCHANGED <<supVars, posts, fed, cons, outVars, auxVars>>

OrchCancels(g) ==
  /\ OrchAt(g, "cancel") /\ CancelPacer(g)
  /\ OrchGoto(g, "done")
  /\ UNCHANGED <<supVars, posts, fed, cons, outVars, auxVars>>

Orchestrator(g) ==
  \/ OrchCreate(g) \/ OrchCreateFails(g) \/ OrchCheck(g) \/ OrchGivesUp(g)
  \/ OrchSend(g) \/ OrchSpeak(g) \/ OrchFinish(g) \/ OrchFinishInput(g)
  \/ OrchHearsError(g) \/ OrchStops(g) \/ OrchCancels(g)

------------------------------------------------------------------------------
(* The PCM consumer of turn g.                                                *)

ConsGoto(g, pc) == cons' = [cons EXCEPT ![g].pc = pc]

(* p.ctx, the context of the pacer, is cancelled with the turn's, or by Stop. *)
PacerCancelled(g) == g \notin live \/ cancelled[g]

(* NextPCM returns the next packet of a sentence the synthesiser was given.   *)
ConsNext(g) ==
  /\ cons[g].pc = "next" /\ ~TurnIsOver(g)
  /\ cons[g].n < fed[g] * Packets
  /\ cons' = [cons EXCEPT ![g] = [pc |-> "put", n |-> @.n + 1]]
  /\ UNCHANGED <<supVars, posts, orch, fed, pacerVars, outVars, auxVars>>

(* NextPCM returns the end of the stream; or the turn is over; or the stream  *)
(* or the encoder fails.                                                      *)
ConsEnds(g) ==
  /\ cons[g].pc = "next"
  /\ \/ /\ orch[g].pc \in {"await", "done"} /\ cons[g].n = fed[g] * Packets
        /\ ConsGoto(g, "done") /\ UNCHANGED posts
     \/ TurnIsOver(g) /\ ConsGoto(g, "done") /\ UNCHANGED posts
     \/ MayFail /\ ~TurnIsOver(g) /\ ConsGoto(g, "failed") /\ Post(Event("error", g))
  /\ UNCHANGED <<supVars, orch, fed, pacerVars, outVars, auxVars>>

(* Mutant of Overflow: the packet is dropped without a word.                  *)
DropPacket(g) == UNCHANGED posts
Overflow(g) == Post(Event("error", g))

(* DownlinkPacer.Enqueue looks at the flag and the generation, gives the lock *)
(* back ...                                                                   *)
ConsPut(g) ==
  /\ cons[g].pc = "put"
  /\ ConsGoto(g, IF stopped[g] \/ Superseded(g) THEN "done" ELSE "push")
  /\ UNCHANGED <<supVars, posts, orch, fed, pacerVars, outVars, auxVars>>

(* ... and never waits: a full queue is a fatal error, and the consumer stops *)
(* without reporting one to the orchestrator.                                 *)
ConsPush(g) ==
  /\ cons[g].pc = "push"
  /\ \/ /\ PacerCancelled(g)
        /\ ConsGoto(g, "done") /\ UNCHANGED <<packets, posts>>
     \/ /\ Len(packets[g]) < PacerCap
        /\ packets' = [packets EXCEPT ![g] = Append(@, cons[g].n)]
        /\ ConsGoto(g, "next") /\ UNCHANGED posts
     \/ /\ ~PacerCancelled(g) /\ Len(packets[g]) >= PacerCap
        /\ Overflow(g)
        /\ ConsGoto(g, "done") /\ UNCHANGED packets
  /\ UNCHANGED <<supVars, orch, fed, pacer, hasSentStart, stopped, cancelled, inputDone,
                 outVars, auxVars>>

Consumer(g) == ConsNext(g) \/ ConsEnds(g) \/ ConsPut(g) \/ ConsPush(g)

------------------------------------------------------------------------------
(* The pacer of turn g.                                                       *)

PacerAt(g, pc) == pacer[g].pc = pc
PacerGoto(g, pc) == pacer' = [pacer EXCEPT ![g].pc = pc]

(* A select with several ready cases takes any of them: a cancelled pacer may *)
(* still take a packet.                                                       *)
PacerTakes(g) ==
  /\ PacerAt(g, "idle") /\ packets[g] # << >>
  /\ pacer' = [pacer EXCEPT ![g] = [pc |-> "check", p |-> Head(packets[g])]]
  /\ packets' = [packets EXCEPT ![g] = Tail(@)]
  /\ UNCHANGED <<supVars, posts, turnVars, hasSentStart, stopped, cancelled,
                 inputDone, outVars, auxVars>>

PacerExits(g) ==
  /\ pacer[g].pc \in {"idle", "tick", "send", "push"} /\ PacerCancelled(g)
  /\ PacerGoto(g, "gone")
  /\ packets' = [packets EXCEPT ![g] = << >>]
  /\ UNCHANGED <<supVars, posts, turnVars, hasSentStart, stopped, cancelled,
                 inputDone, outVars, auxVars>>

(* Mutant of NeedsStart: tts.start is never sent.                             *)
NeedsNoStart(g) == FALSE
NeedsStart(g) == ~hasSentStart[g]

(* sendPacket up to the choice whether tts.start must go first.               *)
PacerChecks(g) ==
  /\ PacerAt(g, "check")
  /\ PacerGoto(g, IF Superseded(g) THEN "tick"
                  ELSE IF NeedsStart(g) THEN "start" ELSE "send")
  /\ UNCHANGED <<supVars, posts, turnVars, packets, hasSentStart, stopped,
                 cancelled, inputDone, outVars, auxVars>>

(* sendTTSStart: the flag is set before the message is sent ...               *)
PacerClaimsStart(g) ==
  /\ PacerAt(g, "start")
  /\ hasSentStart' = [hasSentStart EXCEPT ![g] = ~stopped[g]]
  /\ PacerGoto(g, IF stopped[g] \/ Superseded(g) THEN "recheck" ELSE "startsend")
  /\ UNCHANGED <<supVars, posts, turnVars, packets, stopped, cancelled,
                 inputDone, outVars, auxVars>>

(* ... with the session's context, so cancelling the turn does not stop it.   *)
PacerSendsStart(g) ==
  /\ PacerAt(g, "startsend")
  /\ \/ /\ Enqueue(Msg("start", g, 0))
        /\ CountLate(g, "pacer") /\ PacerGoto(g, "speak") /\ UNCHANGED posts
     \/ /\ Refuse
        /\ Post(Event("error", g)) /\ PacerGoto(g, "gone") /\ UNCHANGED late
  /\ UNCHANGED <<supVars, turnVars, packets, hasSentStart, stopped, cancelled,
                 inputDone, spoke, stops>>

(* Mutant of Announces: the generation is not compared.                       *)
AnnouncesAny(g) == state = "Processing"
Announces(g) == generation = g /\ state = "Processing"

TransitionToSpeaking(g) ==
  /\ PacerAt(g, "speak")
  /\ IF Announces(g)
       THEN state' = "Speaking" /\ spoke' = spoke \cup {generation}
       ELSE UNCHANGED <<state, spoke>>
  /\ PacerGoto(g, "recheck")
  /\ UNCHANGED <<generation, history, live, sPacer, sup, posts, turnVars, packets,
                 hasSentStart, stopped, cancelled, inputDone, outVars, late, stops>>

PacerRechecks(g) ==
  /\ PacerAt(g, "recheck")
  /\ PacerGoto(g, IF Superseded(g) THEN "tick" ELSE "send")
  /\ UNCHANGED <<supVars, posts, turnVars, packets, hasSentStart, stopped,
                 cancelled, inputDone, outVars, auxVars>>

(* SendBinary looks at the context before it takes the writer's lock ...      *)
PacerSends(g) ==
  /\ PacerAt(g, "send") /\ ~PacerCancelled(g)
  /\ PacerGoto(g, "push")
  /\ UNCHANGED <<supVars, posts, turnVars, packets, hasSentStart, stopped,
                 cancelled, inputDone, outVars, auxVars>>

(* ... and again, in one select with the send.                                *)
PacerPushes(g) ==
  /\ PacerAt(g, "push")
  /\ \/ /\ Enqueue(Msg("audio", g, pacer[g].p))
        /\ CountLate(g, "pacer") /\ PacerGoto(g, "tick") /\ UNCHANGED posts
     \/ /\ Refuse /\ ~PacerCancelled(g)
        /\ Post(Event("error", g)) /\ PacerGoto(g, "gone") /\ UNCHANGED late
  /\ UNCHANGED <<supVars, turnVars, packets, hasSentStart, stopped, cancelled,
                 inputDone, spoke, stops>>

PacerTicks(g) ==
  /\ PacerAt(g, "tick")
  /\ PacerGoto(g, "idle")
  /\ UNCHANGED <<supVars, posts, turnVars, packets, hasSentStart, stopped,
                 cancelled, inputDone, outVars, auxVars>>

(* Mutant of Drained: an answer without sound is not finished.                *)
DrainedAloud(g) == inputDone[g] /\ packets[g] = << >> /\ hasSentStart[g]
Drained(g) == inputDone[g] /\ packets[g] = << >>

(* finishTurn, a select and a lock later, when the turn may be over.          *)
PacerFinishes(g) ==
  /\ \/ PacerAt(g, "idle") /\ Drained(g) /\ ~PacerCancelled(g)
        /\ PacerGoto(g, "finish") /\ UNCHANGED posts
     \/ PacerAt(g, "finish") /\ PacerGoto(g, "gone")
        /\ IF stopped[g] THEN UNCHANGED posts ELSE Post(Event("finished", g))
  /\ UNCHANGED <<supVars, turnVars, packets, hasSentStart, stopped, cancelled,
                 inputDone, outVars, auxVars>>

Pacer(g) ==
  \/ PacerTakes(g) \/ PacerExits(g) \/ PacerChecks(g) \/ PacerClaimsStart(g)
  \/ PacerSendsStart(g) \/ TransitionToSpeaking(g) \/ PacerRechecks(g)
  \/ PacerSends(g) \/ PacerPushes(g) \/ PacerTicks(g) \/ PacerFinishes(g)

------------------------------------------------------------------------------
(* The supervisor.                                                            *)

Idle == sup.pc = "idle"
SupGoto(pc) == sup' = [sup EXCEPT !.pc = pc]

(* stopPacer, of whichever pacer the session refers to, and what the handler  *)
(* does after it: the supervisor sets the flag ...                            *)
StopSessionPacer(pc) ==
  /\ sup' = [sup EXCEPT !.pc = pc, !.p = sPacer] /\ sPacer' = 0
  /\ IF sPacer = 0 THEN UNCHANGED pacerVars ELSE MarkStopped(sPacer)

(* ... and comes back from Stop when the context is cancelled, too.           *)
SupCancels ==
  /\ sup.p # 0 /\ CancelPacer(sup.p) /\ sup' = [sup EXCEPT !.p = 0]
  /\ UNCHANGED <<state, generation, history, live, sPacer, posts, turnVars, outVars, auxVars>>

SupAt(pc) == sup.pc = pc /\ sup.p = 0

(* At the end of a turn the two are one: the pacer that reported the end has  *)
(* returned, and any other is of a turn whose context is cancelled already.   *)
DismissPacer ==
  /\ sPacer' = 0
  /\ IF sPacer = 0 THEN UNCHANGED <<stopped, cancelled, packets>>
     ELSE /\ stopped' = [stopped EXCEPT ![sPacer] = TRUE]
          /\ cancelled' = [cancelled EXCEPT ![sPacer] = TRUE]
          /\ packets' = [packets EXCEPT ![sPacer] = << >>]
  /\ UNCHANGED <<pacer, hasSentStart, inputDone>>

(* closeWithReason begins with stopPacer; then the turn is cancelled with the *)
(* state, and the queue is left to the writer.                                *)
CloseSession ==
  /\ SupAt("close") /\ SupGoto("idle")
  /\ state' = "Closed" /\ history' = << >> /\ live' = {} /\ wClosed' = TRUE
  /\ UNCHANGED <<generation, sPacer, posts, turnVars, pacerVars, queue, device, auxVars>>

(* listen.start and the final text that ends the listening, as one step: the  *)
(* next generation begins and its text goes to the device, if it can.         *)
NewTurn ==
  /\ Idle /\ state = "Ready" /\ generation < MaxGen
  /\ generation' = generation + 1 /\ live' = {generation'} /\ state' = "Processing"
  /\ orch' = [orch EXCEPT ![generation'].pc = "create"]
  /\ Enqueue(Msg("stt", generation', 0)) \/ Refuse
  /\ UNCHANGED <<history, sPacer, sup, posts, fed, cons, pacerVars, auxVars>>

(* Mutant of MustTell: the state is read after it was reset.                  *)
NothingToTell(s) == FALSE
MustTell(s) == s = "Speaking"

(* Abort, in the order of the code: the turn is cancelled under the lock ...  *)
AbortCancels ==
  /\ Idle /\ state # "Closed" /\ generation < MaxGen
  /\ generation' = generation + 1 /\ live' = {} /\ state' = "Ready"
  /\ sup' = [pc |-> "stop", gen |-> generation, was |-> MustTell(state), p |-> 0]
  /\ UNCHANGED <<history, sPacer, posts, turnVars, pacerVars, outVars, auxVars>>

(* ... its pacer is stopped ...                                               *)
AbortStopsPacer ==
  /\ SupAt("stop") /\ StopSessionPacer("drain")
  /\ UNCHANGED <<state, generation, history, live, posts, turnVars, outVars, auxVars>>

(* ... whatever waits in the writer is discarded ...                          *)
AbortDrains ==
  /\ SupAt("drain")
  /\ queue' = << >> /\ SupGoto(IF sup.was THEN "tell" ELSE "idle")
  /\ UNCHANGED <<state, generation, history, live, sPacer, posts, turnVars,
                 pacerVars, wClosed, device, auxVars>>

(* ... and a device that was being spoken to is told, if the writer takes it. *)
AbortTells ==
  /\ SupAt("tell") /\ SupGoto("idle")
  /\ \/ /\ Enqueue(Msg("stop", sup.gen, 0))
        /\ stops' = [stops EXCEPT ![sup.gen] = @ + 1]
     \/ Refuse /\ UNCHANGED stops
  /\ UNCHANGED <<state, generation, history, live, sPacer, posts, turnVars,
                 pacerVars, late, spoke>>

(* The next event concerns a turn that is over.                               *)
DropStale ==
  /\ Idle /\ posts # << >>
  /\ \/ Head(posts).gen # generation
     \/ Head(posts).kind = "finished" /\ state \notin {"Processing", "Speaking"}
  /\ posts' = Tail(posts)
  /\ UNCHANGED <<supVars, turnVars, pacerVars, outVars, auxVars>>

Pending(k) ==
  /\ Idle /\ posts # << >>
  /\ Head(posts) = Event(k, generation) /\ posts' = Tail(posts)

(* TurnFinished of a turn that never spoke: nothing is said or remembered.    *)
FinishSilently ==
  /\ Pending("finished") /\ state = "Processing"
  /\ state' = "Ready" /\ live' = {} /\ DismissPacer
  /\ UNCHANGED <<generation, history, sup, turnVars, outVars, auxVars>>

(* TurnFinished of a spoken turn: tts.stop, and only if the writer takes it   *)
(* the turn is committed to the history; otherwise the session closes.        *)
FinishSpeaking ==
  /\ Pending("finished") /\ state = "Speaking"
  /\ \/ /\ Enqueue(Msg("stop", generation, 0))
        /\ stops' = [stops EXCEPT ![generation] = @ + 1]
        /\ history' = Append(history, generation)
        /\ state' = "Ready" /\ live' = {} /\ DismissPacer /\ UNCHANGED sup
     \/ /\ Refuse /\ StopSessionPacer("close")
        /\ UNCHANGED <<state, history, live, stops>>
  /\ UNCHANGED <<generation, turnVars, late, spoke>>

(* A fatal error: the pacer is stopped before the state is read ...           *)
ErrorStopsPacer ==
  /\ Pending("error") /\ StopSessionPacer("fail")
  /\ UNCHANGED <<state, generation, history, live, turnVars, outVars, auxVars>>

(* ... and the session closes, with a last tts.stop if it was speaking.       *)
ErrorTells ==
  /\ SupAt("fail") /\ StopSessionPacer("close")
  /\ IF state = "Speaking" /\ Accepts
       THEN /\ queue' = Append(queue, Msg("stop", generation, 0))
            /\ stops' = [stops EXCEPT ![generation] = @ + 1]
       ELSE UNCHANGED <<queue, stops>>
  /\ UNCHANGED <<state, generation, history, live, posts, turnVars, wClosed, device,
                 late, spoke>>

(* The connection is closed for a reason outside this module.                 *)
PeerCloses ==
  /\ Idle /\ state # "Closed" /\ MayFail /\ StopSessionPacer("close")
  /\ UNCHANGED <<state, generation, history, live, posts, turnVars, outVars, auxVars>>

Supervisor ==
  \/ SupCancels \/ AbortStopsPacer \/ AbortDrains \/ AbortTells \/ DropStale
  \/ FinishSilently \/ FinishSpeaking \/ ErrorStopsPacer \/ ErrorTells \/ CloseSession

Next ==
  \/ NewTurn \/ AbortCancels \/ PeerCloses \/ Supervisor
  \/ Write \/ WriteFails
  \/ \E g \in Gens : Orchestrator(g) \/ Consumer(g) \/ Pacer(g)

(* Goroutines and events that nothing holds back.  Nothing is assumed of the  *)
(* socket: a write has no deadline and may never complete.                    *)
Fairness ==
  /\ WF_vars(Supervisor)
  /\ \A g \in Gens : WF_vars(Orchestrator(g)) /\ WF_vars(Consumer(g)) /\ WF_vars(Pacer(g))

Spec == Init /\ [][Next]_vars
FairSpec == Spec /\ Fairness

------------------------------------------------------------------------------
(* Safety.                                                                    *)

Messages ==
  {Msg(k, g, 0) : k \in {"stt", "start", "stop"}, g \in Gens}
    \cup {Msg("sentence", g, n) : g \in Gens, n \in 1 .. Sentences}
    \cup {Msg("audio", g, p) : g \in Gens, p \in AllPackets}

(* Every variable keeps its type and every channel its capacity.              *)
TypeOK ==
  /\ state \in {"Ready", "Processing", "Speaking", "Closed"}
  /\ generation \in 0 .. MaxGen /\ live \subseteq {generation} /\ sPacer \in 0 .. MaxGen
  /\ history \in Seq(Gens)
  /\ sup \in [pc : {"idle", "stop", "drain", "tell", "fail", "close"}, gen : 0 .. MaxGen,
              was : BOOLEAN, p : 0 .. MaxGen]
  /\ posts \in Seq({Event(k, g) : k \in {"finished", "error"}, g \in Gens})
  /\ orch \in [Gens -> [pc : {"none", "create", "check", "send", "speak", "finish",
                              "await", "stop", "cancel", "done"}, n : 1 .. Sentences + 1]]
  /\ fed \in [Gens -> 0 .. Sentences]
  /\ cons \in [Gens -> [pc : {"none", "next", "put", "push", "done", "failed"},
                        n : 0 .. Sentences * Packets]]
  /\ pacer \in [Gens -> [pc : {"none", "idle", "check", "start", "startsend", "speak",
                               "recheck", "send", "push", "tick", "finish", "gone"},
                         p : 0 .. Sentences * Packets]]
  /\ packets \in [Gens -> Seq(AllPackets)] /\ \A g \in Gens : Len(packets[g]) <= PacerCap
  /\ {hasSentStart, stopped, cancelled, inputDone} \subseteq [Gens -> BOOLEAN]
  /\ queue \in Seq(Messages) /\ Len(queue) <= WriterCap /\ wClosed \in BOOLEAN
  /\ device \subseteq Messages
  /\ late \in [Gens -> [orch : Nat, pacer : Nat]]
  /\ spoke \subseteq Gens /\ stops \in [Gens -> Nat]

(* Whatever the interleaving with an abort, the orchestrator and the pacer of *)
(* the turn it cut off each queue at most one more message: the check and the *)
(* send are not atomic, but every send is followed by a check                 *)
(* (orchestration.go sendSentence, pacer.go sendPacket).                      *)
LateBound == \A g \in Gens : late[g].orch <= 1 /\ late[g].pacer <= 1

Sent == device \cup ToSet(queue)

(* The session is SPEAKING only for a turn whose own tts.start is on its way: *)
(* a pacer that an abort and a new turn overtook cannot make the new turn     *)
(* speak (session.go transitionToSpeaking).                                   *)
SpeakingIsAnnounced ==
  state = "Speaking" /\ ~wClosed => Msg("start", generation, 0) \in Sent

WholeAnswer(g) ==
  {Msg("start", g, 0), Msg("stop", g, 0)}
    \cup {Msg("sentence", g, n) : n \in 1 .. fed[g]}
    \cup {Msg("audio", g, p) : p \in 1 .. fed[g] * Packets}

(* The history holds only answers that were handed to the writer completely,  *)
(* from tts.start to tts.stop, while none of it could be discarded: a packet  *)
(* the pacer's queue refused costs the turn, it does not truncate it          *)
(* (pacer.go Enqueue, session.go handleTurnFinishedEvent).                    *)
CommittedIsSent ==
  \A g \in ToSet(history) : g = generation /\ ~wClosed => WholeAnswer(g) \subseteq Sent

(* A pacer stopped before it claimed its tts.start never sends one.           *)
Unannounced(g) == stopped[g] /\ ~hasSentStart[g]

MustFollow(m) ==
  IF m.kind = "audio"
    THEN (IF Unannounced(m.gen) THEN {} ELSE {Msg("start", m.gen, 0)})
           \cup {Msg("sentence", m.gen, SentenceOf(m.n))}
           \cup {Msg("audio", m.gen, p) : p \in 1 .. m.n - 1}
    ELSE IF m.kind = "sentence" THEN {Msg("sentence", m.gen, n) : n \in 1 .. m.n - 1}
                                ELSE {}

(* Four goroutines write one answer, yet the device hears it in order: the    *)
(* text of a sentence before its sound, the packets in sequence, and          *)
(* tts.start before any audio, except for the pacer of an answer that failed  *)
(* or was cut off before its first sound: between the flag and the            *)
(* cancellation of Stop it sends sound without tts.start (the doc's downlink  *)
(* ordering, lines 317-319; pacer.go Stop, sendTTSStart, sendPacket).         *)
AnswerIsInOrder ==
  \A i \in DOMAIN queue : queue[i].gen = generation =>
    MustFollow(queue[i]) \subseteq device \cup ToSet(SubSeq(queue, 1, i - 1))

(* A turn that was SPEAKING is ended by exactly one tts.stop, whether it      *)
(* finishes or is aborted, and whichever event is handled first.              *)
OneStop ==
  \A g \in Gens :
    /\ stops[g] <= 1
    /\ g \in spoke /\ Idle /\ state # "Closed" /\ ~wClosed
         => (stops[g] = 1 <=> ~(generation = g /\ state = "Speaking"))

(* SPEAKING is opened by one tts.start and closed by one tts.stop of the turn *)
(* it belongs to, for every interleaving of an abort, a late pacer and a new  *)
(* turn.                                                                      *)
SpeechIsBracketed == SpeakingIsAnnounced /\ OneStop

------------------------------------------------------------------------------
(* Liveness.                                                                  *)

Ended(g) ==
  /\ orch[g].pc \in {"none", "done"}
  /\ cons[g].pc \in {"none", "done", "failed"}
  /\ pacer[g].pc \in {"none", "gone"}

(* An answer is finished, aborted or fails: no turn keeps the session from    *)
(* the next one.  And no goroutine outlives it: the orchestrator, the         *)
(* consumer and the pacer return, for good.  The generations being bounded,   *)
(* this says of each of them that it ends, and of the last that it leaves the *)
(* session READY.                                                             *)
AnswersEnd ==
  <>[](\A g \in Gens : generation >= g =>
         Ended(g) /\ (generation = g => state \in {"Ready", "Closed"}))

------------------------------------------------------------------------------
(* A claim of the documentation that the code does not keep.                  *)

(* "若设备网络缓慢或断开导致下行队列积压满 100 包，判定下行通道严重阻塞"      *)
(* (requirements-and-architecture.md:391): a device that has taken everything *)
(* is not cut off.                                                            *)
OnlyBlockedIsCut ==
  [][\A g \in Gens : cons[g].pc = "push" /\ posts' # posts /\ cons'[g] # cons[g]
                       => queue # << >>]_vars
=============================================================================
