# TLA+ models of the Xiaozhi server

Specifications of `xiaozhi-esp32-golang-server`: a Go server that accepts a
WebSocket from a voice device, recognises what its user says, asks a language
model for an answer, and plays the synthesised answer back, sentence by
sentence. The specifications model the code under `src/`; where the documents
(`docs/agents/requirements-and-architecture.md`, "the document" below) or a comment disagree
with the code, the model follows the code and a run shows the disagreement.

`PROJECT.json` lists the components, the runs, the lines each definition
models, the hazards and the theorems; this file explains them.

## 1. Inventory

### Components

| Component | Code (`src/internal/...`) | State it keeps | Operations | Module |
|---|---|---|---|---|
| Session supervisor | `session/session.go`, `state.go` | `state`, `mode`, `manualStop`, `generation`, `history`, `turnCancel`, streams, three timers, `events` | eight event handlers, timers, read loop, recognition readers, `closeWithReason` | `Session`, abstractly `Conversation` |
| Answer orchestrator | `session/orchestration.go` | per turn: next sentence, the synthesis stream, the tool calls of a round | create, send a sentence, feed the synthesiser, finish, await the consumer, run tool calls | `Downlink`, `Mcp`, `TtsStream`; coarsely `Session` |
| Downlink pacer | `session/pacer.go` | `packetQueue`, `hasSentStart`, `stopped`, its context, `inputDone` | `Enqueue`, `FinishInput`, `Stop`, `Run` | `Downlink` |
| Serial writer | `session/writer.go` | bounded `queue`, `closed`, `closeOnce`, its context | `SendText`, `SendBinary`, `DrainPending`, `Close`, `Stop`, write loop | `Writer`, abstractly `Outbox`; coarsely `Downlink` |
| Registry, limiter, upgrade | `session/registry.go`, `limiter.go`, `handler.go` | `closed`, `sessions`, `byDevice`, `wg`, `active` | `Acquire`, `TryAcquire`, `Register`, cleanup, `Shutdown` | `Registry` |
| MCP tools | `session/mcp.go` | `mcpSeq`, `pendingMCP`, `mcpTools` | discovery over pages, request, response, timeout, tool call | `Mcp` |
| Recognition queue | `audio/queue.go` | bounded PCM channel, `finished`, `closed` | `Push`, `Finish`, `Close`, worker | `Recognition` |
| Recognition stream | `ai/bailian/asr.go` | connection, `finishCalled`, `err`, two signal channels, texts | `WritePCM`, `Finish`, `Result`, `Close`, read loop | `Recognition` |
| Synthesis stream | `ai/bailian/tts.go` | connection, `pcmCh`, two timers, `err`, `closed` | `SendSentence`, `Finish`, `NextPCM`, `Close`, read loop, timer handlers | `TtsStream` |
| Sentence splitter | `session/splitter.go` | text buffer | `Feed`, `Flush` | `Splitter` |
| Message parsing | `session/hello.go`, `message.go`, `server_message.go` | none | parse, validate | abstracted to message kinds in `Session` |
| Model client | `ai/bailian/llm.go` | a line scanner | read an event | its results in `Downlink`, `Mcp` |
| Opus codecs | `audio/encoder.go`, `decoder.go` | frame remainder | encode, decode | not modelled |
| Upgrade authentication | `session/auth.go` | none | header rules | not modelled; `Registry` takes the device key from it |
| Device database | `database/*.go` | tables | upserts, queries | not modelled |
| HTTP server, main | `server/server.go`, `cmd/server/main.go` | listener | serve, signal, shutdown | not modelled, but for `Registry.Shutdown` |
| OTA routes, configuration, logger, AI interfaces | `router/`, `config/`, `logger/`, `ai/*.go` | none that lasts | stateless handlers, loading, formatting | not modelled |

### How they interact

Each accepted connection runs `ServeHTTP` in a goroutine of its own:
`Acquire`, a limiter slot, the WebSocket upgrade, `NewSession`, `Register`
(which closes the previous session of the device, outside the registry's
lock), then `Session.Run` until the session has closed, then the cleanup.

Inside a session one supervisor goroutine takes events from the bounded channel
`s.events`. The read loop, the timers, the readers of recognition results, the
orchestrator of each turn, its PCM consumer and its pacer post to that channel
with `postEvent`, which blocks while it is full and gives up when the session's
context is cancelled. Two things bypass the channel: the pacer calls
`transitionToSpeaking`, and the registry calls `Close`, each from a goroutine
of its own under `s.mu`. A turn is identified by its *generation*;
`listen.start` and `abort` raise it, and every result carries the generation it
belongs to, so that a late one is recognised and dropped.

The orchestrator, the pacer and the supervisor of a session all write to the
device through one bounded `Writer` queue that refuses rather than waits. So do
the callers of MCP requests: the discovery goroutine, started when the hello
has been answered, and the orchestrator of a turn whose model asks for a tool.
The response of the device comes in through the read loop and the supervisor,
which looks up the channel of the waiting caller under a lock and sends to it
after giving the lock back.

The voice goes from the supervisor through `ASRAudioQueue` to a worker that
writes it to the recogniser; another goroutine waits for the result and posts
it. The text of the model goes through the splitter to the synthesis stream, whose
read loop hands the sound to the PCM consumer of the turn, which encodes it and
hands it to the pacer.

### Which behaviours are hard

* a handler reads the state, releases the lock and acts on what it read;
* results, timeouts and errors of an earlier generation arrive in every state;
* an abort overtakes an orchestrator and a pacer between their check and their
  send, and must both discard and announce what the device heard;
* the event channel, the pacer's queue and the writer's queue fill up;
* timers race with the messages that stop them;
* three connections of one device register while the registry shuts down;
* `Close`, its 300 ms fallback `Stop`, the write loop and any number of senders
  meet at one channel that is closed under a lock and drained without it;
* a response to a tool call comes late, twice, or to a caller that has left;
* `Push` sends after it has given the lock back, while another goroutine
  finishes or closes the queue;
* `Result` decides once which signal to wait for, while four goroutines call the
  stream;
* two timers of the synthesiser race with the first audio, the end of the task
  and a `Close`, and `NextPCM` must tell those ends apart;
* goroutines must all end when a turn or a session does.

`PROJECT.json` lists them under "hazards", each at its line with the
properties that would notice it going wrong.

### What makes each component correct

* **Session**: one turn at a time, and it can be cancelled; nothing of an
  earlier turn changes the conversation; listening and answering always end;
  the history holds completed turns only; a close ends every goroutine.
* **Downlink**: an answer is heard in order; a superseded turn goes quiet; a
  turn that spoke is stopped exactly once; only complete answers are remembered.
* **Registry**: slots and the wait group balance; a replaced session is closed;
  a shutdown that returns nil has waited for everybody.
* **Writer**: what is accepted is written in order, once, or discarded on
  purpose; closing never panics, never hangs and strands nothing.
* **Mcp**: a caller gets the answer to its own request or an error, and the
  model is told of each of its calls.
* **Recognition**: the recogniser hears every frame in order; the text posted is
  that of the utterance; `stopASR` ends everything it started.
* **TtsStream**: `io.EOF` means the whole answer; nobody is kept by a service
  that falls silent.
* **Splitter**: what is spoken is what the model wrote.

## 2. Modules

| Module | What it is |
|---|---|
| `Conversation` | what a session promises: an abstract one-turn conversation over phase, turn and committed history |
| `Session` | the supervisor and the goroutines that talk to it; implements `Conversation` |
| `Downlink` | supervisor handlers, orchestrator, consumer, pacer and writer at the granularity of locks and channel operations |
| `Registry`, `MCRegistry` | admission, registration, eviction and shutdown, and its instances |
| `Outbox` | what a writer promises: an ordered, bounded queue that is closed once |
| `Writer` | the serial writer, lock by lock; implements `Outbox` |
| `Mcp` | requests, responses, discovery and tool rounds |
| `Recognition` | the audio queue, the recognition stream and the goroutine that awaits the result |
| `TtsStream` | the synthesis stream, its timers, its writer and its reader |
| `Splitter` | the splitter as a function, fed in chunks |
| `SessionProofs`, `DownlinkProofs`, `RegistryProofs`, `WriterProofs`, `McpProofs`, `RecognitionProofs`, `TtsStreamProofs`, `SplitterProofs` | theorems |

The modules meet at the contracts they take from each other: `Session` takes
from `Recognition` that a result, an error or silence comes back; `Downlink`
takes from `TtsStream` that the consumer gets packets in order and then an end
or an error, and from `Writer` that the queue is a bounded FIFO that refuses;
`Mcp` takes from `Writer` that a request may be refused or discarded. Each
contract is what the other module's properties establish.

### Session and the code

The variables are named after the fields of `Session`. Actions are named after
what happens: `HandleX` is `handleXEvent`; `Take` is the receive in
`supervisorLoop` together with the read of `s.state` at the head of the
handler. That the state read (`sup.seen`) and the state acted on may differ is
the point of the model: between them a pacer may move to SPEAKING and a `Close`
may move to CLOSED. Handlers in which something else can come in between are
split where the code releases the lock or blocks: the hello (sent, then
READY), `listen.start` (state, timer, dial), and the registry's `Close`
(streams, state, context).

* `events` holds the buffered events and then the blocked senders, in order:
  `Post` appends, and a goroutine is blocked while its event lies beyond
  `EventCap`. A cancelled context removes those (`Released`). A Go channel
  serves its blocked senders first in, first out, so this is exact. A
  goroutine that posts its last event is not modelled after it, so only the
  read loop (`ReadBlocked`) and the supervisor itself (`posting`) need a
  program counter for the wait.
* A message is its kind. In CONNECTED every message counts as the hello, as in
  `readLoop`. With `Conforming` the device says hello once, waits for the
  answer and sends only well-formed messages; without it, it sends anything.
* Recognition, language model and synthesis are nondeterministic: a text, an
  empty text, an error, or (recognition) nothing at all.
* `closeWithReason` from the supervisor is one step; from the registry it is
  three (`EvictBegins`, `EvictMarks`, `EvictEnds`), enabled by `Evictable`.
* The rest of an answer is what `Session` needs of it: it may fail, overflow,
  finish, begin to speak. `Downlink` has the detail.

### Downlink and the code

A turn begins with its answer (`NewTurn` folds `listen.start` and the final
text of the recognition into one step, because recognition writes nothing to the
device before it). Orchestrator, consumer and pacer have the program counters
of their loops; an abort is five steps, in the order of `handleAbortEvent`:
cancel under the lock, set the pacer's flag, cancel the pacer, drain the writer,
tell the device. The state under `s.mu` is read and written in one step, since
the lock is held. The generation check and the send that follows it are two
steps in the orchestrator and in the pacer.

* `Stop` of the pacer is two steps, `MarkStopped` and `CancelPacer`, because it
  gives `p.mu` back before it cancels `p.ctx` (`pacer.go:183-190`), and the pacer can
  send in between. The orchestrator's deferred `Stop` is `OrchStops` and
  `OrchCancels`; the supervisor's is `StopSessionPacer`, which each handler
  takes at its place, and `SupCancels`, before which it does nothing else.
  The cancellation and the drain of the queue are one step: a pacer that takes
  a packet between them is stopped and cancelled already and says nothing more.
  At the end of a turn all of `Stop` is part of the handler (`DismissPacer`):
  the pacer that reported the end has returned, and a late orchestrator's, which
  the session may refer to instead, has had its context cancelled with its turn.
* `Enqueue` is two steps: `ConsPut` looks at `stopped`, under the lock, and at
  the generation, after it; `ConsPush` is the channel operation, with the look at
  the context. Neither test changes anything, and a turn that is superseded
  between them is cancelled, which `ConsPush` may see.
* `closeWithReason` is a step for `stopPacer`, one for its cancellation and one
  for the rest (`CloseSession`); its other interleavings are in `Session`.
* `AbortDrains` keeps `DrainPending` atomic although it receives message by
  message; `Writer` has it message by message.

Answers may be empty. Sound is a packet number; a sentence has `Packets` packets.

### Writer and the code

A step is one operation on the channel, the context or the lock. `Enter`,
`RLock`, `Push` and `Refuse` are `enqueue`; the lock is a set of readers, and
`CloseWaits` is Go's rule that a waiting writer keeps new readers out.
`closeOnce.Do` is a process of three steps (`DoOnce`, `CloseChannel`,
`OnceDone`) that the write loop, `Close` and `Stop` all run. A message is its
number in the order of acceptance, so that order and loss can be read off the
wire. `StopBegins` is the fallback of `closeWithReason` after 300 ms.

### Mcp and the code

`Register`, `Submit`, `Receive`, `Timeout` and `Abandon` are `sendMCPRequest`,
the deferred delete being part of every way out (`Forget`). `Lookup` and
`Deliver` are the two halves of `handleIncomingMCP`. Discovery counts pages, 0
being `initialize`; a tool is the page it was on. A tool round is
`NextCall`, `CallEnds`, `RoundEnds`. Discovery and turns use one id counter and
one map. A request carries what it is about so that a wrong answer would be
seen; the code matches by id alone, and so do the actions.

### Recognition and the code

The processes are the supervisor (`Push`, `listen.stop`), the queue's worker
(with `WritePCM` and `Finish`), `readLoop`, the goroutine in `Result`, and
`stopASR`, which may run in another goroutine. `Push` is two steps, before and
after the unlock; `recordError` is one. In auto mode the result is awaited from
the start, in manual mode from `listen.stop` on, as `startASRStream` and
`finishASR` have it.

### TtsStream and the code

`Call`, `Written`, `ArmFirst`, `Rearm` are `SendSentence` and `Finish`; the
timers are a set of armed ones and a handler each, which runs after the timer
expired, so that stopping it comes too late. `Cause` is the precedence that
`recordError` and `NextPCM` give to timeouts. What happens between the looks at
the context and at the stream could as well happen before or after, so `Call`
is one step.

### Splitter and the code

`SplitEnd` is `splitEnd` over seven classes of characters: the code looks at
nothing else of a character. `SplitStep` is an iteration of the loop of `split`,
and `Split` the loop, a function of the number of iterations: each but the last takes
a character off the buffer, so the length of the buffer is enough of them, and a step
behind the last one changes nothing. A sentence carries its place in the text
(`from`, `to`), so that what was said can be compared with what was written;
`cuts` remembers where the cuts were, for the property about decimals. Neither is
in the code.

### Registry and the code

One action per critical section of `ServeHTTP`, `Register`, its cleanup and
`Shutdown`. A session is the progress of its `Close`: open, closing, closed;
the wait in `oldSession.Close()` is a guard on that (`OldClosed`).
Authentication is reduced to `KeyOf`, the device key, possibly empty.

## 3. Runs

| Run | Asks | Properties |
|---|---|---|
| `session_safety` | any device, four messages in any order | `TypeOK` `OneTurn` `TurnMatchesState` `NothingForgotten` `HistoryIsSound`, refinement `Conversation` |
| `session_live` | a conforming device, the registry calling `Close` anywhere; deadlock | `TurnsEnd` `ErrorsClose` `CloseEndsAll` |
| `downlink_answer` | two turns, two sentences, small queues, everything may fail | `TypeOK` `LateBound` `CommittedIsSent` `AnswerIsInOrder` `AnswersEnd` |
| `downlink_abort` | turn, abort, turn, arbitrarily late goroutines | `SpeechIsBracketed` |
| `registry` | three connections of a device and an anonymous one, three slots, a shutdown | `TypeOK` `Accounting` `IndexIsSound` `ShutdownIsComplete` `ShutdownForgetsNobody` `EvictionEnds` `ShutdownDrains` |
| `writer` | two senders, `Close`, `Stop`, a drain, hanging and failing writes | `TypeOK` `ClosesCleanly` `ClosingReturns`, refinement `Outbox` |
| `mcp` | two pages and two tool calls, answers late, double, wrong, never | `TypeOK` `Correlated` `ToolsAreSound` `NobodyIsKept` |
| `recognition` | both modes, three frames through a queue of two, `stopASR` anywhere | `TypeOK` `HeardInOrder` `ResultIsTrue` `StopEndsAll` |
| `tts_stream` | a sentence, two chunks through a channel of one, both timers, `Close` | `TypeOK` `EOFIsComplete` `StreamEnds` `CloseEnds` |
| `splitter` | every text of up to six characters, cut every way | `TypeOK` `SpokenAsWritten` |
| `session_dial_stuck` | a claim of the document (section 4), violated | `ErrorsClose` |
| `downlink_healthy_cut` | a claim of the document (section 4), violated | `OnlyBlockedIsCut` |

The passing runs show that every property holds on every reachable state and
behaviour of their instance; what the properties say is written above each of them
in its module.

### Bounds, and why they are enough

* `MaxMsgs = 4` lets a device say hello, start, stop or abort, and start again:
  two generations with late results of the first, in every order. `EventCap` is
  1 or 2 instead of the code's buffer, so that a full channel and blocked
  senders are the normal case. `HistoryTurns = 1` makes the history overflow
  with the second turn.
* `MaxGen` counts turns and aborts: 2 gives one turn overtaken by one abort or
  followed by another; 3 gives a turn, an abort and a turn, the shortest story in which a
  late pacer meets a new turn in PROCESSING. `PacerCap = 1` and a `WriterCap` of 1
  (`downlink_answer`), so that every refusal happens, or 3 (`downlink_abort`), so
  that an abort finds a place for its `tts.stop`, replace 100. Two sentences
  of one packet are the least in which the order of texts and of sounds means
  something, and in which a late orchestrator could send twice.
* Three connections of one device are the least in which a session can be
  replaced while it is still evicting another; the fourth, without a device
  key, exercises the full limiter (`MaxSessions = 3`).
* Two senders are the least that can both hold the read lock when a close asks
  for the write lock; three messages fill a queue of two and one `conn.Write`.
* `MaxPages = 2` with two calls reaches the page limit and a second call after a
  failed one; four answers are enough to answer one request late and twice
  while others wait. One turn, because `TurnBegins` lets two run together only
  when one is cancelled, and a cancelled turn differs from discovery only in
  where it goes next; the proofs are for any set of turns.
* Three frames overflow a queue of two; two results give a partial text and a
  sentence, or two sentences.
* Two chunks of audio and a channel of one make the read loop wait for the
  consumer; one sentence, since a second only re-arms a timer that the first
  has armed.
* Six characters with `maxSentenceRunes = 4` reach a forced cut with something
  behind it, a decimal point on a chunk's border, and marks behind a full
  sentence.

### Fairness, and why the code justifies it

Go schedules every runnable goroutine, so the supervisor, the registered
goroutines and every step of an answer are weakly fair. A timer that is not
stopped fires. A `Close` ends because the writer is given 300 ms and the close
handshake is bounded. Nothing is assumed of the device: it need not send, nor disconnect, and
in `Downlink` nobody need speak or abort. Nothing is assumed of
the recogniser either: `AsrResult` has no fairness, and `TurnsEnd` rests
on the timers. The language model and the synthesiser are bounded by timeouts
or by the turn's context, so `Answer(g)` is fair. `Write` of `Downlink` is not: a
write to the socket has no deadline, and answers must end even if it never completes,
because the queue in front of it refuses instead of waiting. In
`Registry` the deadline of `Shutdown` may be arbitrarily far.

* `Writer`: a write ends only once its context is cancelled; `ClosingReturns`
  therefore rests on `Stop`.
* `Mcp`: the ten-second timers are *not* fair and the device never has to
  answer: `NobodyIsKept` shows that a close releases every caller by itself.
* `Recognition`: a read or a write may hang until its context ends or the
  connection is gone; the recogniser owes nothing.
* `TtsStream`: the service, the network and the orchestrator owe nothing; the
  timers expire.

### Deadlock

`session_live` checks for deadlock: the only state in which a session may stop
is the one in which all its goroutines have returned (`Finished`). The other
runs do not, because there the system may really stop: in `session_safety` a failed dial
can block the supervisor for good (see below), a downlink rests when the device
has sent all the messages it will, a registry rests when every connection
is gone, and a writer, an exchange of tool calls, a recognition, a synthesis and a
text rest when they are over.

## 4. Where the code and its documents disagree

Each of these is a run that TLC finds violated.

| Run | The claim | What the code does |
|---|---|---|
| `session_dial_stuck` | a failed recognition closes the connection (document, line 339) | the supervisor posts the dial error to its own channel; when that is full it blocks, and nothing but an eviction or a shutdown frees it |
| `downlink_healthy_cut` | a full downlink queue means a blocked device (document, line 391) | the queue in front of the pacing fills when the synthesiser is faster than real time, and the session of a healthy device is closed |

Seen while modelling; the models do what the code does:

* A `Close` by the registry sets CLOSED while a handler is under way, which then
  writes READY, LISTENING or PROCESSING over it (`session.go:73` has all changes
  serialised by the supervisor; the close at 604 is not). The session ends
  nevertheless: `CloseEndsAll` in `session_live`.
* The server's hello is sent before the state is READY (`session.go:592`); the
  device's next message may be read in CONNECTED, is taken for a second hello, and
  closes the session.
* `tts.start` is sent before the transition to SPEAKING (`pacer.go:316`); an
  abort in between sees PROCESSING and sends no `tts.stop`, although the
  document (line 332) has it sent if `tts.start` was.
* `Stop` of the pacer sets its flag before it cancels the context
  (`pacer.go:183-190`). A pacer that holds its first packet and finds the flag set
  in between skips `tts.start` (298) and still sends the sound, in the turn
  that is failing, although the document (line 317) and the comment at
  `pacer.go:331` have `tts.start` sent before the first sound. `AnswerIsInOrder`
  makes an exception of exactly these pacers (`Unannounced`).
* Two sessions of one device are both served until the eviction of the first
  arrives (`registry.go:86`, `119`).
* A listening timer that fired before `listen.stop` is handled still closes the
  session (`session.go:1050` compares only generation and state), although the
  document (line 397) has `listen.stop` end that timeout.
* One sentence and one packet of an aborted turn may reach the device after the
  abort drained the queue (document, line 560, rules that out). `LateBound`
  shows that it is never more than one of each.
* An abort's `DrainPending` also discards queued MCP requests. Discovery then
  waits out its ten seconds, keeps the pages it has, and is never tried again.
* With tool calls, the sentences spoken before the tools were called are not in
  the history (`assistantText.Reset`, `orchestration.go:369`), and what the
  splitter still holds of them is spoken in front of the second answer.
* `Finish` of the synthesis stream re-arms the sentence timer after the read loop
  has seen `task-finished` (`tts.go:616`; the comment at 621 describes another
  order), and then `NextPCM` can report a timeout instead of the end. The timer
  also runs while the model pauses between sentences (document, line 369).
* A read loop of the synthesis held by a full channel waits until the context
  ends; the document (lines 360, 388) has it cancelled after five seconds.
  Likewise the recognition queue, when full, closes the session at once, where
  the document (line 359) allows five seconds.
* `closeWithReason` stops the recognition before it cancels the turn, so
  `Result` may return a text that is empty or incomplete without an error
  (`asr.go:524` promises the final, non-empty text). The event finds the
  session closed; `ResultIsTrue` is about recognitions nobody was ending.
* A sentence may exceed `maxSentenceRunes` by the marks that follow it, and
  whether a closing quote belongs to it depends on the chunking.
* `TTSStream.Cancel`, the field `finished` of the recognition stream and the
  upserts of the database have no users in the server.

## 5. Proofs

TLAPS checks the theorems of eight modules, from the named assumptions on the
constants and, where a theorem has one, the hypothesis it states, for any capacity and any number of turns, senders,
calls, frames or sentences. TLC agrees with each on the instances above; where
a theorem states a property of a run, PROJECT.json names it.

### SessionProofs

* `SessionTypes`: `Spec => []TypeOK`. `Types` splits the type invariant by the
  groups of variables that actions leave alone together, one lemma per group. It adds
  the bound on the history, without which the type of the history does
  not follow: `AppendHistory` cuts with `SubSeq`, and lemma
  `AppendHistoryEffect` shows that this is "forget the oldest".
* `AtMostOneTurn`: `Spec => []OneTurn`. `OneTurn` is not inductive:
  `listen.start` adds a turn to whatever is live. `TurnInv` adds that nothing is
  live in CONNECTED and READY, *and* that this is still so when the supervisor
  acts on having read such a state (`sup.seen`), and between the server's hello and
  READY. It holds with evictions at any moment, because they only cancel.
* `SessionIsConversation`: `~Evictable => (Spec => Conversation)`. `StateInv`
  says what the supervisor's reading is still worth when it acts: it is the
  state, except that PROCESSING may have become SPEAKING. Each handler then
  maps to an action of `Conversation` or to a stutter. The hypothesis is
  needed: when the registry calls `Close`, a handler may overwrite CLOSED, which
  `Conversation` does not allow.
* `ConversesUntilClosed`: `Spec => [][closing = "no" => C!Next]_StateVars`. This
  is what is left of the refinement when the registry may evict: up to the moment
  when somebody begins to close, every step is one of `Conversation` or none.
* `TurnsMatchTheState`: `MatchInv` adds to `TurnMatchesState` what a reading of
  the state is worth until the handler acts (`ReadingHolds`).
* `NothingIsForgotten`: `WaitInv` says of each waiting state what will wake it, a
  timer, a goroutine or an event under way, and, half-way through a handler, who
  is about to arm it. It rests on `PacersInv` (whose pacer runs when) and on
  `FailureIsTold`: a turn that failed has its error posted.
* `HistoryStaysSound`: `CommitInv` adds that what is committed is of the past and over, so that a
  late result cannot commit a turn twice; `EventsInv` (`Truthful`) that an event in the channel
  tells the truth about its generation.
* `CloseReleasesAll`: once the context is cancelled no turn is live and nobody is
  blocked on the event channel (`NothingHoldsOn`), which is the safety part of
  `CloseEndsAll`. It is inductive because a closed session starts no turn
  and every later `post` gives up instead of waiting.

Except for `SessionIsConversation`, all of these hold with the registry calling
`Close` at any moment.

### DownlinkProofs

* `DownlinkTypes`: types by groups, and what they rest on: only a turn that has
  begun speaks or is stopped, and the locals of a goroutine are in range only
  where they are used.
* `LateMessagesAreBounded`: `LateInv` says where the orchestrator and the pacer
  of a superseded turn are once their one late message is out: at or behind the
  check that follows every send, and they do not get past it.
* `AnswersAreInOrder`, `SpeechIsAnnounced`: `ShapeInv` says that the packet the
  pacer took last, its queue and the packet in the consumer's hand are
  consecutive and of sentences the synthesiser has, and that a pacer gets to the
  sound only past its `tts.start` or stopped. A pacer that was stopped without
  having claimed its `tts.start` never will claim it (`Mute`), so the exception
  in `AnswerIsInOrder` is for good, and what is queued under it stays so. `SentInv` adds that what the current turn has got
  past, it has sent; `Ordered` then carries the order through `Append` and
  `Tail`, and `QueueInv` (nothing is queued for a turn to come) through a new turn.
  The goroutines of a turn are never in step, so what one of them needs of the
  others is in `Said`, one conjunct per goroutine, and each step disturbs one.
* `HistoryIsWhatWasSent`: `OwedInv` is the heart. While a turn is answered, either
  an error of it is reported or being handled, or nothing of it is missing where its
  consumer and pacer stand (`Complete`). `EventsInv` makes a "finished" event tell
  the truth at its place in the channel: all sound was sent, or an error stands
  before it, and then the supervisor closes the session before it reads the other.
  `Closing` (who may close the input and be stopped) and `PastInv` (a committed turn is
  over) make it inductive.
* `StopIsNotRepeated`: a turn is told to stop at most once, and only if it
  spoke; `OnceInv` counts the stops of each turn against
  what the abort under way still means to do. `OverInv` says that the goroutines of a
  turn that was cut off never run beside those of the turn in the next generation:
  an abort takes a generation of its own, and a turn that ends by itself leaves
  none behind.
* `SpeechIsEndedWithRoom`: a turn that spoke is also told to stop (`ToldInv`), in
  a session of any length, *if* the writer cannot be filled between the drain of an abort
  and its `tts.stop`. `Room` says so: at the drain, fewer messages of the turns
  cut off are still to come (`Laggards`: at most one of each orchestrator and one of
  each pacer, by `LateInv`) than the writer has places; `RoomInv` carries it to the
  send. The hypothesis is tight: with two places and one turn cut off TLC
  finds the abort whose `tts.stop` is refused.
* `SpeechIsEnded`: every second generation at most can have laggards, so
  `WriterCap > 2 * (MaxGen \div 2)` gives `Room`, and the property without a
  condition on the behaviour. For the code's default of 100
  places (`writer.go:15`) that means fewer than fifty aborted answers whose
  goroutines have not returned.

### RegistryProofs

* `RegistryTypes`, `NothingLeaks`: `Counted` is the types, the limit and
  `Accounting`; `Accounting` is what shows that no counter goes below zero, so
  the two are proved together. Lemma `CountMoves` says how a step of one
  connection changes the number at given program locations.
* `IndexStaysSound`: `Owned` adds `Tracked` (a registered
  session's goroutine is between `Register` and cleanup; otherwise its `Close`
  could be undone by a later `Accept`) and `HasVictim`.
* `ShutdownDrainedAll`: `Drained` says that shutdown
  closed the registry first and that `nil` means that nobody is enrolled. It is
  inductive only because `Register` tests `closed` under the lock again.
* `NobodyIsForgotten`: `Told` adds to `ShutdownForgetsNobody` why the snapshot
  of `Shutdown` is complete: a session in `Run` or before it is in `sessions`
  (`RunsTracked`), and behind `Run` it is closed (`RunEndsClosed`).

### WriterProofs

* `WriterTypes`; `WriterNeverPanics`: the channel is closed exactly when `closed`
  is set, by the one process that runs `closeOnce`, and never under a reader.
* `WriterClosesCleanly`: when the loop is done nobody can be about to send, and
  if nothing cut the close short, what is in the queue, in flight and on the wire is
  everything that was issued.
* `WriterIsOutbox`: every step maps to a step of `Outbox` or to a stutter.

### McpProofs

* `McpTypes`; `AnswersAreCorrelated`: `FlyInv` follows a request and its
  responses through the queue, the device, the inbound events, the supervisor and the
  channels: its id was given out, and if a caller still waits for that id, the
  message is about what this caller asks. `PendInv` ties the map to the callers,
  no two of which wait for the same id.
* `ToolRoundsAreSound`: `ListInv` for the pages found so far, `TellInv` for
  the tool messages, half-way through a call too.

### RecognitionProofs

* `RecognitionTypes`; `FramesAreHeardInOrder`: `GateInv` says where the
  supervisor can be when the channel is closed (so that no send panics);
  `WireInv` that wire, the frame held and the queue are together the frames
  pushed.
* `PostedTextIsTheResult`: `SignalInv` says who may have closed the two signal
  channels while nobody ends the recognition, `ResultInv` what that means for
  the text.

### TtsStreamProofs

* `TtsTypes`; `EndOfAudioIsTrue`: `PlaceInv` says where the read loop and the
  consumer are once the channel is closed and the task is over, `SoundInv` that played, queued and held
  chunks are those heard, in order, and that a chunk is given up only behind a
  cancellation, which `NextPCM` looks at last.

### SplitterProofs

* `SplitterTypes`, `SplitterSpeaksTheText`: `SplitterInv` is `Whole`, the
  sentences are pieces of the text up to the buffer and the buffer is the rest of
  it, and `Ready`, nothing in the buffer can be cut off any more. `Whole` holds after
  every iteration of the loop (`StepIsWhole`), `Ready` only after the last.
* `SplitEndFacts` says of a cut what the two need: it lies in the buffer, it
  is not at a decimal point unless at full length, and there is none only if the
  buffer is short of a full sentence.
* The loop is a recursive function over the iterations. `LoopExists` shows that such a
  function exists, `LoopUnfolds` that it does what its equation says, and
  `SplitIsWhole` that the length of the buffer bounds the iterations. The induction
  schemes of the library take an operator, so these lemmas use the least element of a
  set of numbers instead (`Least`, `AllNumbers`).

### Only model-checked

Liveness (`TurnsEnd`, `ErrorsClose`, `CloseEndsAll`, `AnswersEnd`,
`EvictionEnds`, `ShutdownDrains`, `ClosingReturns`, `NobodyIsKept`,
`StopEndsAll`, `StreamEnds`, `CloseEnds`), which the prover does not handle
under fairness. Every invariant and every refinement of the passing runs is
also a theorem.

## 6. Not modelled

Audio content, log lines, metrics and the exact durations of timers, and

* the device database: the upserts query and then write, but nothing in the server calls
  them (`device_access_token.go:184`, `device_activation.go:213`), only tests
  do; the rest is single SQL statements;
* upgrade authentication, hello and message validation: stateless functions of
  one request or message, abstracted to their outcome;
* the HTTP server and `main`: set-up, then one sequential shutdown of which
  `Registry.Shutdown` is the part with interleavings, and that is modelled;
* OTA routes, configuration, logger: stateless handlers, values loaded once,
  formatting;
* `llm.go`: a line scanner read by one goroutine; `Downlink` and `Mcp` take from
  it that a text, a tool call, an end or an error comes back;
* the Opus codecs, a C library, and the framing of `StreamEncoder`, which is private
  to one goroutine;
* `TTSStream.Cancel`, which has no caller.

## 7. What is left

A finer composition of `Writer` and `Downlink`, with the lock of the one under
the goroutines of the other, would check the contract between them instead of
stating it. Of the liveness properties, only `CloseEndsAll` has its safety part
proved; the others could follow. Three hazards have no property, because
the code lets them happen (section 4): the server's hello before READY
(`session.go:592`), the listening timer that outruns `listen.stop`
(`session.go:1050`) and the abort between `tts.start` and SPEAKING
(`pacer.go:316`). The models contain all three, and what follows from them is
covered by the other properties.
