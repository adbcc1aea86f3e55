---------------------------- MODULE SessionProofs ----------------------------
(***************************************************************************)
(* Proofs about Session, for any number of messages, any capacity of the   *)
(* event channel, any history limit and a Close from the registry at any   *)
(* moment: the types; that at most one turn runs, which the session can    *)
(* still cancel; that a session closed by nobody else implements           *)
(* Conversation; that the turn and its resources match the state, that no  *)
(* state that ends by an event is ever without that event or its sender,   *)
(* and that the history holds completed turns only.                        *)
(***************************************************************************)
EXTENDS Session, SequenceTheorems, TLAPS

(* What an event may carry depends on its kind.                              *)
LEMMA EvType ==
  ASSUME NEW g \in Nat
  PROVE  /\ \A k \in {"hello", "text", "audio", "final", "finished"}, a \in Words :
              Ev(k, g, a) \in Event
         /\ \A k \in {"timeout", "error", "close"}, a \in Reasons : Ev(k, g, a) \in Event
  BY DEF Ev, Event

LEMMA EventFields ==
  ASSUME NEW e \in Event
  PROVE  /\ e.gen \in Nat
         /\ e.kind \in {"timeout", "error", "close"} => e.arg \in Reasons
  BY DEF Event

(* Posting an event keeps a sequence of events, blocked or not.              *)
LEMMA PostType ==
  ASSUME events \in Seq(Event), NEW e \in Event, Post(e)
  PROVE  events' \in Seq(Event)
  BY DEF Post

LEMMA ReleasedType ==
  ASSUME SessionAssumption, NEW q \in Seq(Event)
  PROVE  Released(q) \in Seq(Event)
<1>1. EventCap \in Nat /\ Len(q) \in Nat
  BY DEF SessionAssumption
<1>2. \A i \in 1 .. (IF Len(q) > EventCap THEN EventCap ELSE Len(q)) : i \in 1 .. Len(q)
  BY <1>1
<1> QED
  BY <1>1, <1>2, SubSeqProperties DEF Released

(* AppendHistory forgets the oldest turn once the history is full.           *)
LEMMA AppendHistoryEffect ==
  ASSUME SessionAssumption, history \in Seq(Nat), Len(history) <= HistoryTurns, NEW g \in Nat
  PROVE  AppendHistory(g) = IF Len(history) < HistoryTurns THEN Append(history, g)
                            ELSE Append(Tail(history), g)
<1> DEFINE h == Append(history, g)
           m == IF Len(h) > HistoryTurns THEN Len(h) - HistoryTurns + 1 ELSE 1
<1>1. h \in Seq(Nat) /\ h # << >> /\ Len(h) = Len(history) + 1
  BY AppendProperties
<1>2. HistoryTurns \in Nat \ {0} /\ Len(history) \in Nat
  BY LenProperties DEF SessionAssumption
<1>3. AppendHistory(g) = SubSeq(h, m, Len(h))
  BY Zenon DEF AppendHistory
<1>4. CASE Len(history) < HistoryTurns
  <2>1. m = 1
    BY <1>1, <1>2, <1>4
  <2>2. SubSeq(h, 1, Len(h)) = h
    BY <1>1, SubSeqFull
  <2>3. AppendHistory(g) = h
    BY <1>3, <2>1, <2>2, Zenon
  <2> QED
    BY <1>4, <2>3, Zenon
<1>5. CASE ~(Len(history) < HistoryTurns)
  <2>1. m = 2
    BY <1>1, <1>2, <1>5
  <2>2. SubSeq(h, 2, Len(h)) = Tail(h)
    BY <1>1, TailIsSubSeq
  <2>3. history # << >>
    BY <1>2, <1>5
  <2>4. Tail(h) = Append(Tail(history), g)
    BY <1>1, <2>3, HeadTailAppend
  <2>5. AppendHistory(g) = Append(Tail(history), g)
    BY <1>3, <2>1, <2>2, <2>4, Zenon
  <2> QED
    BY <1>5, <2>5, Zenon
<1> QED
  BY <1>4, <1>5

(* The history stays a sequence of turns no longer than its limit.           *)
LEMMA AppendHistoryType ==
  ASSUME SessionAssumption, history \in Seq(Nat), Len(history) <= HistoryTurns, NEW g \in Nat
  PROVE  /\ AppendHistory(g) \in Seq(Nat)
         /\ Len(AppendHistory(g)) <= HistoryTurns
<1>1. HistoryTurns \in Nat \ {0} /\ Len(history) \in Nat
  BY LenProperties DEF SessionAssumption
<1>2. CASE Len(history) < HistoryTurns
  <2>1. AppendHistory(g) = Append(history, g)
    BY <1>2, AppendHistoryEffect
  <2>2. Append(history, g) \in Seq(Nat) /\ Len(Append(history, g)) = Len(history) + 1
    BY AppendProperties
  <2> QED
    BY <1>1, <1>2, <2>1, <2>2
<1>3. CASE ~(Len(history) < HistoryTurns)
  <2>1. AppendHistory(g) = Append(Tail(history), g)
    BY <1>3, AppendHistoryEffect
  <2>2. history # << >>
    BY <1>1, <1>3
  <2>3. Tail(history) \in Seq(Nat) /\ Len(Tail(history)) = Len(history) - 1
    BY <2>2, HeadTailProperties
  <2>4. /\ Append(Tail(history), g) \in Seq(Nat)
        /\ Len(Append(Tail(history), g)) = Len(Tail(history)) + 1
    BY <2>3, AppendProperties
  <2> QED
    BY <1>1, <2>1, <2>3, <2>4
<1> QED
  BY <1>2, <1>3

------------------------------------------------------------------------------
(* The types, by the groups of variables the actions leave alone together,   *)
(* and the length of the history, on which its type rests.                   *)

CoreType ==
  /\ state \in States /\ mode \in {"auto", "manual"} /\ manualStop \in BOOLEAN
  /\ history \in Seq(Nat) /\ Len(history) <= HistoryTurns /\ aborted \subseteq Nat
TurnType ==
  /\ generation \in Nat
  /\ live \subseteq 1 .. generation /\ turnCancel \in 0 .. generation
  /\ asr \in 0 .. generation
  /\ listenTimer \in 0 .. generation /\ asrTimer \in 0 .. generation
GoType ==
  /\ asrReader \in [Turns -> {"none", "waiting", "done"}]
  /\ orch \in [Turns -> {"none", "running", "overflowed", "finished", "failed"}]
  /\ pacer \in [Turns -> {"none", "waiting", "started", "gone"}]
EventsType == events \in Seq(Event)
SupType == sup \in [pc : PCs, ev : Event, seen : States, why : Reasons]
RestType ==
  /\ helloTimer \in BOOLEAN /\ readLoop \in {"reading", "leaving", "gone"}
  /\ closing \in {"no", "begun", "marked", "done"}
  /\ reason \in Reasons /\ helloSent \in BOOLEAN /\ msgs \in Nat

Types == CoreType /\ TurnType /\ GoType /\ EventsType /\ SupType /\ RestType

LEMMA NoHistory == << >> \in Seq(Nat) /\ Len(<< >>) <= HistoryTurns
<1>1. << >> \in Seq(Nat) /\ Len(<< >>) = 0
  BY EmptySeq
<1> QED
  BY <1>1, SessionAssumption DEF SessionAssumption

LEMMA TypesImplyTypeOK == Types => TypeOK
  BY DEF Types, CoreType, TurnType, GoType, EventsType, SupType, RestType, TypeOK

LEMMA TypesInit == Init => Types
<1> SUFFICES ASSUME Init PROVE Types
  OBVIOUS
<1>1. CoreType
  BY NoHistory DEF Init, CoreType, States
<1>2. TurnType
  BY DEF Init, TurnType
<1>3. GoType
  BY DEF Init, GoType
<1>4. EventsType
  BY DEF Init, EventsType
<1>5. NoEvent \in Event
  BY EvType DEF NoEvent, Reasons
<1>6. SupType
  BY <1>5 DEF Init, SupType, PCs, States, Reasons
<1>7. RestType
  BY DEF Init, RestType, Reasons
<1> QED
  BY <1>1, <1>2, <1>3, <1>4, <1>6, <1>7 DEF Types

(* What the supervisor does in one step.                                     *)
Handlers ==
  \/ Take \/ HandleHello \/ HelloDone \/ DuplicateHello
  \/ ListenStart \/ ArmListenTimer \/ DialOk \/ DialFails \/ PostReleased
  \/ ListenStop \/ Abort \/ IgnoreText \/ HandleAudio
  \/ HandleFinal \/ HandleFinished \/ HandleTimeout \/ HandleError \/ HandleClose

Closers == SupCloses \/ SupExits \/ Evictor

OfTurn(g) == AsrResult(g) \/ AsrCancelled(g) \/ Answer(g) \/ Pacer(g)

LEMMA NextCases ==
  ASSUME [Next]_vars
  PROVE  \/ Handlers \/ Closers \/ ReadExit \/ Timers \/ UNCHANGED vars
         \/ \E m \in Msgs : Read(m)
         \/ \E g \in Turns : OfTurn(g)
  BY DEF Next, Handlers, Closers, OfTurn, Supervisor, Finished

LEMMA CoreTypeStep == Types /\ [Next]_vars => CoreType'
<1> SUFFICES ASSUME Types, [Next]_vars PROVE CoreType'
  OBVIOUS
<1> USE DEF CoreType, coreVars
<1>a. CoreType /\ sup.ev \in Event /\ turnCancel \in Nat
  BY DEF Types, SupType, TurnType
<1>1. CASE Handlers
  <2>1. CASE \/ Take \/ HandleHello \/ DuplicateHello \/ ArmListenTimer \/ DialOk \/ DialFails
             \/ PostReleased \/ IgnoreText \/ HandleAudio \/ HandleTimeout \/ HandleError
             \/ HandleClose
    BY <1>a, <2>1 DEF Take, HandleHello, DuplicateHello, ArmListenTimer, DialOk, DialFails,
       PostReleased, IgnoreText, HandleAudio, HandleTimeout, HandleError, HandleClose,
       CloseFor, Dismiss
  <2>2. CASE HelloDone \/ ListenStart \/ ListenStop \/ Abort \/ HandleFinal
    BY <1>a, <2>2 DEF HelloDone, ListenStart, ListenStop, Abort, HandleFinal, Dismiss, States
  <2>3. CASE HandleFinished
    <3>1. sup.ev.gen \in Nat
      BY <1>a, EventFields
    <3>2. AppendHistory(sup.ev.gen) \in Seq(Nat) /\ Len(AppendHistory(sup.ev.gen)) <= HistoryTurns
      BY <1>a, <3>1, SessionAssumption, AppendHistoryType
    <3> QED
      BY <1>a, <2>3, <3>2 DEF HandleFinished, CloseFor, Dismiss, States
  <2> QED
    BY <1>1, <2>1, <2>2, <2>3 DEF Handlers
<1>2. CASE Closers
  <2>1. CASE SupExits \/ EvictBegins \/ EvictEnds
    BY <1>a, <2>1 DEF SupExits, EvictBegins, EvictEnds
  <2>2. CASE SupCloses \/ EvictMarks
    BY <1>a, <2>2, NoHistory DEF SupCloses, EvictMarks, MarkClosed, States
  <2> QED
    BY <1>2, <2>1, <2>2 DEF Closers, Evictor
<1>3. CASE ReadExit \/ Timers \/ UNCHANGED vars
  BY <1>a, <1>3 DEF ReadExit, Timers, HelloTimerFires, ListenTimerFires, AsrTimerFires, vars
<1>4. ASSUME NEW m \in Msgs, Read(m) PROVE CoreType'
  BY <1>a, <1>4 DEF Read
<1>5. ASSUME NEW g \in Turns, OfTurn(g) PROVE CoreType'
  BY <1>a, <1>5 DEF OfTurn, AsrResult, AsrCancelled, Answer, OrchFails, DownlinkOverflows,
     OrchFinishesInput, OrchCancelled, Pacer, PacerStarts, TransitionToSpeaking, PacerFinishes,
     PacerFails, PacerStopped, States
<1> QED
  BY <1>1, <1>2, <1>3, <1>4, <1>5, NextCases

LEMMA TurnTypeStep == Types /\ [Next]_vars => TurnType'
<1> SUFFICES ASSUME Types, [Next]_vars PROVE TurnType'
  OBVIOUS
<1> USE DEF TurnType, turnVars, coreVars
<1>a. TurnType
  BY DEF Types
<1>b. /\ 0 \in 0 .. generation /\ generation \in 0 .. generation
      /\ generation + 1 \in Nat /\ 0 \in 0 .. generation + 1
      /\ generation + 1 \in 0 .. generation + 1 /\ generation + 1 \in 1 .. generation + 1
      /\ \A x \in 0 .. generation : x \in 0 .. generation + 1
      /\ \A x \in 1 .. generation : x \in 1 .. generation + 1
  BY <1>a
<1>1. CASE Handlers
  <2>1. CASE \/ Take \/ HandleHello \/ DuplicateHello \/ HelloDone \/ DialFails
             \/ PostReleased \/ IgnoreText \/ HandleAudio \/ HandleTimeout \/ HandleError
             \/ HandleClose
    BY <1>a, <2>1 DEF Take, HandleHello, DuplicateHello, HelloDone, DialFails,
       PostReleased, IgnoreText, HandleAudio, HandleTimeout, HandleError, HandleClose,
       CloseFor, Dismiss
  <2>2. CASE ListenStart
    BY <1>a, <1>b, <2>2 DEF ListenStart
  <2>3. CASE ArmListenTimer \/ ListenStop
    BY <1>a, <1>b, <2>3 DEF ArmListenTimer, ListenStop, Armed
  <2>7. CASE DialOk
    BY <1>a, <1>b, <2>7 DEF DialOk
  <2>4. CASE Abort
    BY <1>a, <1>b, <2>4 DEF Abort, CancelTurn, ReleaseListening
  <2>5. CASE HandleFinal
    BY <1>a, <1>b, <2>5 DEF HandleFinal, CancelTurn, ReleaseListening, Dismiss
  <2>6. CASE HandleFinished
    BY <1>a, <1>b, <2>6 DEF HandleFinished, CancelTurn, CloseFor, Dismiss
  <2> QED
    BY <1>1, <2>1, <2>2, <2>3, <2>4, <2>5, <2>6, <2>7 DEF Handlers
<1>2. CASE Closers
  <2>1. CASE SupCloses
    BY <1>a, <1>b, <2>1 DEF SupCloses, MarkClosed
  <2>2. CASE SupExits
    BY <1>a, <2>2 DEF SupExits
  <2>3. CASE EvictBegins
    BY <1>a, <1>b, <2>3 DEF EvictBegins
  <2>4. CASE EvictMarks
    BY <1>a, <1>b, <2>4 DEF EvictMarks, MarkClosed, CancelTurn
  <2>5. CASE EvictEnds
    BY <1>a, <1>b, <2>5 DEF EvictEnds
  <2> QED
    BY <1>2, <2>1, <2>2, <2>3, <2>4, <2>5 DEF Closers, Evictor
<1>3. CASE ReadExit \/ Timers \/ UNCHANGED vars
  <2>1. CASE ReadExit \/ HelloTimerFires \/ UNCHANGED vars
    BY <1>a, <2>1 DEF ReadExit, HelloTimerFires, vars
  <2>2. CASE ListenTimerFires
    BY <1>a, <1>b, <2>2 DEF ListenTimerFires
  <2>3. CASE AsrTimerFires
    BY <1>a, <1>b, <2>3 DEF AsrTimerFires
  <2> QED
    BY <1>3, <2>1, <2>2, <2>3 DEF Timers
<1>4. ASSUME NEW m \in Msgs, Read(m) PROVE TurnType'
  BY <1>a, <1>4 DEF Read
<1>5. ASSUME NEW g \in Turns, OfTurn(g) PROVE TurnType'
  BY <1>a, <1>5 DEF OfTurn, AsrResult, AsrCancelled, Answer, OrchFails, DownlinkOverflows,
     OrchFinishesInput, OrchCancelled, Pacer, PacerStarts, PacerFinishes, PacerFails, PacerStopped
<1> QED
  BY <1>1, <1>2, <1>3, <1>4, <1>5, NextCases

LEMMA GoTypeStep == Types /\ [Next]_vars => GoType'
<1> SUFFICES ASSUME Types, [Next]_vars PROVE GoType'
  OBVIOUS
<1> USE DEF GoType, goVars
<1>a. GoType
  BY DEF Types
<1>1. CASE Handlers
  <2>1. CASE \/ Take \/ HandleHello \/ DuplicateHello \/ HelloDone \/ ListenStart \/ ArmListenTimer
             \/ DialFails \/ PostReleased \/ Abort \/ IgnoreText \/ HandleAudio
             \/ HandleFinished \/ HandleTimeout \/ HandleError \/ HandleClose
    BY <1>a, <2>1 DEF Take, HandleHello, DuplicateHello, HelloDone, ListenStart, ArmListenTimer,
       DialFails, PostReleased, Abort, IgnoreText, HandleAudio, HandleFinished, HandleTimeout,
       HandleError, HandleClose, CloseFor, Dismiss
  <2>2. CASE DialOk \/ ListenStop
    BY <1>a, <2>2 DEF DialOk, ListenStop
  <2>3. CASE HandleFinal
    BY <1>a, <2>3 DEF HandleFinal, Dismiss
  <2> QED
    BY <1>1, <2>1, <2>2, <2>3 DEF Handlers
<1>2. CASE Closers
  BY <1>a, <1>2 DEF Closers, SupCloses, SupExits, Evictor, EvictBegins, EvictMarks, EvictEnds
<1>3. CASE ReadExit \/ Timers \/ UNCHANGED vars
  BY <1>a, <1>3 DEF ReadExit, Timers, HelloTimerFires, ListenTimerFires, AsrTimerFires, vars
<1>4. ASSUME NEW m \in Msgs, Read(m) PROVE GoType'
  BY <1>a, <1>4 DEF Read
<1>5. ASSUME NEW g \in Turns, OfTurn(g) PROVE GoType'
  <2>1. CASE AsrResult(g) \/ AsrCancelled(g)
    BY <1>a, <2>1 DEF AsrResult, AsrCancelled
  <2>2. CASE Answer(g)
    BY <1>a, <2>2 DEF Answer, OrchFails, DownlinkOverflows, OrchFinishesInput, OrchCancelled
  <2>3. CASE Pacer(g)
    BY <1>a, <2>3 DEF Pacer, PacerStarts, PacerFinishes, PacerFails, PacerStopped
  <2> QED
    BY <1>5, <2>1, <2>2, <2>3 DEF OfTurn
<1> QED
  BY <1>1, <1>2, <1>3, <1>4, <1>5, NextCases

LEMMA EventsTypeStep == Types /\ [Next]_vars => EventsType'
<1> SUFFICES ASSUME Types, [Next]_vars PROVE EventsType'
  OBVIOUS
<1> USE DEF EventsType
<1>a. EventsType /\ generation \in Nat /\ listenTimer \in Nat /\ asrTimer \in Nat
  BY DEF Types, TurnType
<1>1. CASE Handlers
  <2>1. CASE Take
    BY <1>a, <2>1, HeadTailProperties DEF Take
  <2>2. CASE DialFails
    <3>1. Ev("error", generation, "error") \in Event
      BY <1>a, EvType DEF Reasons
    <3> QED
      BY <1>a, <2>2, <3>1, PostType DEF DialFails
  <2>3. CASE Handlers /\ ~Take /\ ~DialFails
    BY <1>a, <2>3 DEF Handlers, HandleHello, DuplicateHello, HelloDone, ListenStart,
       ArmListenTimer, DialOk, PostReleased, ListenStop, Abort, IgnoreText, HandleAudio,
       HandleFinal, HandleFinished, HandleTimeout, HandleError, HandleClose, CloseFor, Dismiss
  <2> QED
    BY <1>1, <2>1, <2>2, <2>3
<1>2. CASE Closers
  <2>1. Released(events) \in Seq(Event)
    BY <1>a, SessionAssumption, ReleasedType
  <2> QED
    BY <1>a, <1>2, <2>1 DEF Closers, SupCloses, SupExits, Evictor, EvictBegins, EvictMarks,
       EvictEnds
<1>3. CASE ReadExit \/ Timers \/ UNCHANGED vars
  <2>1. CASE ReadExit
    <3>1. Ev("close", 0, "disconnected") \in Event
      BY EvType DEF Reasons
    <3> QED
      BY <1>a, <2>1, <3>1, PostType DEF ReadExit
  <2>2. CASE Timers
    <3>1. /\ Ev("timeout", 0, "hello timeout") \in Event
          /\ Ev("timeout", listenTimer, "listen timeout") \in Event
          /\ Ev("timeout", asrTimer, "asr timeout") \in Event
      BY <1>a, EvType DEF Reasons
    <3> QED
      BY <1>a, <2>2, <3>1, PostType DEF Timers, HelloTimerFires, ListenTimerFires, AsrTimerFires
  <2> QED
    BY <1>a, <1>3, <2>1, <2>2 DEF vars
<1>4. ASSUME NEW m \in Msgs, Read(m) PROVE EventsType'
  <2>1. Tagged(m) \in Event
    BY EvType DEF Tagged, Msgs, Words, Reasons
  <2> QED
    BY <1>a, <1>4, <2>1, PostType DEF Read
<1>5. ASSUME NEW g \in Turns, OfTurn(g) PROVE EventsType'
  <2>1. g \in Nat
    BY SessionAssumption DEF SessionAssumption, Turns
  <2>2. /\ Ev("final", g, "text") \in Event /\ Ev("final", g, "empty") \in Event
        /\ Ev("error", g, "error") \in Event
        /\ Ev("finished", g, "full") \in Event /\ Ev("finished", g, "partial") \in Event
    BY <2>1, EvType DEF Words, Reasons
  <2>3. CASE AsrResult(g) \/ AsrCancelled(g)
    BY <1>a, <2>2, <2>3, PostType DEF AsrResult, AsrCancelled
  <2>4. CASE Answer(g)
    BY <1>a, <2>2, <2>4, PostType DEF Answer, OrchFails, DownlinkOverflows, OrchFinishesInput,
       OrchCancelled
  <2>5. CASE Pacer(g)
    BY <1>a, <2>2, <2>5, PostType DEF Pacer, PacerStarts, PacerFinishes, PacerFails, PacerStopped
  <2> QED
    BY <1>5, <2>3, <2>4, <2>5 DEF OfTurn
<1> QED
  BY <1>1, <1>2, <1>3, <1>4, <1>5, NextCases

LEMMA SupMoves ==
  ASSUME SupType
  PROVE  /\ \A l \in PCs : Goto(l) => SupType' /\ sup'.pc = l /\ sup'.seen = sup.seen /\ sup'.ev = sup.ev
         /\ \A r \in Reasons : GiveUp(r) => SupType' /\ sup'.pc = "closing"
  BY DEF SupType, Goto, GiveUp, PCs

LEMMA SupTypeStep == Types /\ [Next]_vars => SupType'
<1> SUFFICES ASSUME Types, [Next]_vars PROVE SupType'
  OBVIOUS
<1>a. SupType /\ sup.ev \in Event /\ state \in States /\ EventsType
  BY DEF Types, SupType, CoreType
<1>b. {"idle", "handle", "hello", "arm", "dial", "posting", "closing", "done"} = PCs
  BY DEF PCs
<1>c. /\ sup.ev.kind \in {"timeout", "error", "close"} => sup.ev.arg \in Reasons
      /\ {"duplicate hello", "bad hello", "bad audio", "write failed"} \subseteq Reasons
      /\ "none" \in Reasons
  BY <1>a, EventFields DEF Reasons
<1>1. CASE Handlers
  <2>1. CASE Take
    <3>1. Head(events) \in Event
      BY <1>a, <2>1, HeadTailProperties DEF Take, EventsType
    <3> QED
      BY <1>a, <1>b, <1>c, <2>1, <3>1 DEF Take, SupType
  <2>2. CASE \/ HelloDone \/ ListenStart \/ ArmListenTimer \/ DialOk \/ DialFails \/ PostReleased
             \/ ListenStop \/ Abort \/ IgnoreText \/ HandleFinal
    BY <1>a, <1>b, <2>2, SupMoves DEF HelloDone, ListenStart, ArmListenTimer, DialOk, DialFails,
       PostReleased, ListenStop, Abort, IgnoreText, HandleFinal, Dismiss
  <2>3. CASE \/ HandleHello \/ DuplicateHello \/ HandleAudio \/ HandleFinished
    BY <1>a, <1>b, <1>c, <2>3, SupMoves DEF HandleHello, DuplicateHello, HandleAudio,
       HandleFinished, CloseFor, Dismiss
  <2>4. CASE HandleTimeout \/ HandleError \/ HandleClose
    BY <1>a, <1>b, <1>c, <2>4, SupMoves DEF HandleTimeout, HandleError, HandleClose, Handling,
       CloseFor, Dismiss
  <2> QED
    BY <1>1, <2>1, <2>2, <2>3, <2>4 DEF Handlers
<1>2. CASE Closers
  BY <1>a, <1>b, <1>2, SupMoves DEF Closers, SupCloses, SupExits, Evictor, EvictBegins,
     EvictMarks, EvictEnds, SupType
<1>3. CASE ReadExit \/ Timers \/ UNCHANGED vars
  BY <1>a, <1>3 DEF ReadExit, Timers, HelloTimerFires, ListenTimerFires, AsrTimerFires, vars, SupType
<1>4. ASSUME NEW m \in Msgs, Read(m) PROVE SupType'
  BY <1>a, <1>4 DEF Read, SupType
<1>5. ASSUME NEW g \in Turns, OfTurn(g) PROVE SupType'
  BY <1>a, <1>5 DEF OfTurn, AsrResult, AsrCancelled, Answer, OrchFails, DownlinkOverflows,
     OrchFinishesInput, OrchCancelled, Pacer, PacerStarts, PacerFinishes, PacerFails,
     PacerStopped, SupType
<1> QED
  BY <1>1, <1>2, <1>3, <1>4, <1>5, NextCases

LEMMA RestTypeStep == Types /\ [Next]_vars => RestType'
<1> SUFFICES ASSUME Types, [Next]_vars PROVE RestType'
  OBVIOUS
<1> USE DEF RestType, peerVars, endVars
<1>a. RestType /\ sup.why \in Reasons
  BY DEF Types, SupType
<1>1. CASE Handlers
  BY <1>a, <1>1 DEF Handlers, Take, HandleHello, DuplicateHello, HelloDone, ListenStart,
     ArmListenTimer, DialOk, DialFails, PostReleased, ListenStop, Abort, IgnoreText, HandleAudio,
     HandleFinal, HandleFinished, HandleTimeout, HandleError, HandleClose, CloseFor, Dismiss
<1>2. CASE Closers
  BY <1>a, <1>2 DEF Closers, SupCloses, SupExits, Evictor, EvictBegins, EvictMarks, EvictEnds,
     MarkClosed, Reasons
<1>3. CASE ReadExit \/ Timers \/ UNCHANGED vars
  BY <1>a, <1>3 DEF ReadExit, Timers, HelloTimerFires, ListenTimerFires, AsrTimerFires, vars
<1>4. ASSUME NEW m \in Msgs, Read(m) PROVE RestType'
  BY <1>a, <1>4 DEF Read
<1>5. ASSUME NEW g \in Turns, OfTurn(g) PROVE RestType'
  BY <1>a, <1>5 DEF OfTurn, AsrResult, AsrCancelled, Answer, OrchFails, DownlinkOverflows,
     OrchFinishesInput, OrchCancelled, Pacer, PacerStarts, PacerFinishes, PacerFails, PacerStopped
<1> QED
  BY <1>1, <1>2, <1>3, <1>4, <1>5, NextCases

LEMMA TypesStep == Types /\ [Next]_vars => Types'
  BY CoreTypeStep, TurnTypeStep, GoTypeStep, EventsTypeStep, SupTypeStep, RestTypeStep DEF Types

LEMMA AlwaysTyped == Spec => []Types
  BY TypesInit, TypesStep, PTL DEF Spec

(* The variables of a session have their types: in particular no timer, no    *)
(* recognition stream and no cancel function belongs to a turn to come, for   *)
(* any number of messages and any channel capacity.                           *)
THEOREM SessionTypes == Spec => []TypeOK
  BY AlwaysTyped, TypesImplyTypeOK, PTL

------------------------------------------------------------------------------
(* At most one turn.  Before the first turn and between turns nothing runs,   *)
(* and that is still so when the supervisor acts on having read so: only the  *)
(* supervisor starts turns.                                                   *)

Resting == {"Connected", "Ready"}

TurnInv ==
  /\ OneTurn
  /\ state \in Resting => live = {}
  /\ sup.pc = "handle" /\ sup.seen \in Resting => live = {}
  /\ sup.pc = "hello" => live = {}

(* Whatever cancels the session's turn cancels all that runs.                 *)
LEMMA CancelTurnEffect == OneTurn /\ CancelTurn => live' = {}
  BY DEF OneTurn, CancelTurn

LEMMA TurnInvHandlers == Types /\ TurnInv /\ Handlers => TurnInv'
<1> SUFFICES ASSUME Types, TurnInv, Handlers PROVE TurnInv'
  OBVIOUS
<1> USE DEF TurnInv, OneTurn, Resting
<1>a. SupType
  BY DEF Types
<1>b. {"idle", "handle", "hello", "arm", "dial", "posting", "closing", "done"} = PCs
  BY DEF PCs
<1>1. CASE Take
  BY <1>1 DEF Take, coreVars, turnVars
<1>2. CASE HandleHello
  BY <1>a, <1>b, <1>2, SupMoves DEF HandleHello, Handling, CloseFor, GiveUp, SupType, coreVars,
     turnVars
<1>3. CASE HelloDone
  BY <1>a, <1>b, <1>3, SupMoves DEF HelloDone, turnVars
<1>4. CASE ListenStart
  BY <1>a, <1>b, <1>4, SupMoves DEF ListenStart, Text, Handling
<1>5. CASE Abort
  BY <1>a, <1>b, <1>5, SupMoves, CancelTurnEffect DEF Abort
<1>6. CASE HandleFinal
  BY <1>a, <1>b, <1>6, SupMoves, CancelTurnEffect DEF HandleFinal, Dismiss, coreVars, turnVars
<1>7. CASE HandleFinished
  <2>1. CASE Dismiss
    BY <1>a, <1>b, <2>1, SupMoves DEF Dismiss, coreVars, turnVars
  <2>2. CASE CloseFor("write failed")
    BY <1>a, <2>2 DEF CloseFor, GiveUp, SupType, coreVars, turnVars
  <2>3. CASE CancelTurn /\ Goto("idle")
    BY <1>a, <1>b, <2>3, SupMoves, CancelTurnEffect
  <2> QED
    BY <1>7, <2>1, <2>2, <2>3 DEF HandleFinished
<1>8. CASE ArmListenTimer \/ DialOk \/ DialFails \/ PostReleased \/ ListenStop \/ IgnoreText
  BY <1>a, <1>b, <1>8, SupMoves DEF ArmListenTimer, DialOk, DialFails, PostReleased, ListenStop,
     IgnoreText, Dismiss, coreVars, turnVars
<1>9. CASE DuplicateHello \/ HandleAudio \/ HandleTimeout \/ HandleError \/ HandleClose
  <2>1. CASE Dismiss
    BY <1>a, <1>b, <2>1, SupMoves DEF Dismiss, coreVars, turnVars
  <2>2. ASSUME NEW r, CloseFor(r) PROVE TurnInv'
    BY <1>a, <2>2 DEF CloseFor, GiveUp, SupType, coreVars, turnVars
  <2> QED
    BY <1>9, <2>1, <2>2 DEF DuplicateHello, HandleAudio, HandleTimeout, HandleError, HandleClose
<1> QED
  BY <1>1, <1>2, <1>3, <1>4, <1>5, <1>6, <1>7, <1>8, <1>9 DEF Handlers

LEMMA TurnInvStep == Types /\ TurnInv /\ [Next]_vars => TurnInv'
<1> SUFFICES ASSUME Types, TurnInv, [Next]_vars PROVE TurnInv'
  OBVIOUS
<1> USE DEF TurnInv, OneTurn, Resting
<1>a. SupType
  BY DEF Types
<1>1. CASE Handlers
  BY <1>1, TurnInvHandlers
<1>2. CASE Closers
  <2>1. CASE SupCloses \/ EvictMarks \/ EvictEnds
    BY <1>a, <2>1, CancelTurnEffect DEF SupCloses, EvictMarks, EvictEnds, MarkClosed
  <2>2. CASE SupExits \/ EvictBegins
    BY <1>a, <2>2 DEF SupExits, EvictBegins, Goto, SupType, coreVars, turnVars
  <2> QED
    BY <1>2, <2>1, <2>2 DEF Closers, Evictor
<1>3. CASE ReadExit \/ Timers \/ UNCHANGED vars
  BY <1>3 DEF ReadExit, Timers, HelloTimerFires, ListenTimerFires, AsrTimerFires, vars,
     coreVars, turnVars
<1>4. ASSUME NEW m \in Msgs, Read(m) PROVE TurnInv'
  BY <1>4 DEF Read, coreVars, turnVars
<1>5. ASSUME NEW g \in Turns, OfTurn(g) PROVE TurnInv'
  BY <1>5 DEF OfTurn, AsrResult, AsrCancelled, Answer, OrchFails, DownlinkOverflows,
     OrchFinishesInput, OrchCancelled, Pacer, PacerStarts, TransitionToSpeaking, PacerFinishes,
     PacerFails, PacerStopped, coreVars, turnVars
<1> QED
  BY <1>1, <1>2, <1>3, <1>4, <1>5, NextCases

(* At most one turn is running in a session, it is the current generation,    *)
(* and the session still holds the function that cancels it, for any number   *)
(* of messages, with aborts, late results and a Close at any moment.          *)
THEOREM AtMostOneTurn == Spec => []OneTurn
<1>1. Init => TurnInv
  BY DEF Init, TurnInv, OneTurn, Resting
<1>2. TurnInv => OneTurn
  BY DEF TurnInv
<1> QED
  BY <1>1, <1>2, AlwaysTyped, TurnInvStep, PTL DEF Spec

------------------------------------------------------------------------------
(* The conversation.  When nobody else calls Close, only the supervisor and   *)
(* the pacer write the state: what the supervisor read still holds when it    *)
(* acts, except that the pacer may have begun to speak.                       *)

StateInv ==
  /\ closing \in {"no", "done"}
  /\ closing = "done" <=> state = "Closed"
  /\ sup.pc = "handle" => /\ state # "Closed"
                          /\ sup.seen = state \/ (sup.seen = "Processing" /\ state = "Speaking")
  /\ sup.pc = "hello" => state = "Connected"

StateVars == <<state, generation, history>>

LEMMA HandlerRefines ==
  ASSUME Types, StateInv, Handlers
  PROVE  StateInv' /\ (C!Next \/ UNCHANGED StateVars)
<1> USE DEF StateInv, StateVars
<1>a. SupType /\ history \in Seq(Nat) /\ Len(history) <= HistoryTurns /\ generation \in Nat
  BY DEF Types, CoreType, TurnType
<1>b. {"idle", "handle", "hello", "arm", "dial", "posting", "closing", "done"} = PCs
  BY DEF PCs
<1>c. ASSUME Dismiss \/ (\E r : CloseFor(r)) PROVE StateInv' /\ UNCHANGED StateVars
  BY <1>a, <1>b, <1>c, SupMoves DEF Dismiss, CloseFor, GiveUp, SupType, coreVars, endVars
<1>1. CASE Take
  BY <1>1 DEF Take, coreVars, endVars
<1>2. CASE HandleHello
  <2>1. CASE \E r : CloseFor(r)
    BY <1>c, <2>1
  <2>2. CASE sup.seen = "Connected" /\ (Goto("hello") \/ GiveUp("write failed")) /\ UNCHANGED <<coreVars, endVars>>
    BY <1>2, <1>a, <1>b, <2>2, SupMoves DEF HandleHello, Handling, GiveUp, SupType, coreVars, endVars
  <2> QED
    BY <1>2, <2>1, <2>2 DEF HandleHello
<1>3. CASE HelloDone
  <2>1. C!Hello
    BY <1>3 DEF HelloDone, C!Hello
  <2> QED
    BY <1>a, <1>b, <1>3, <2>1, SupMoves DEF HelloDone, endVars, C!Next
<1>4. CASE ListenStart
  <2>1. C!Begin
    BY <1>4 DEF ListenStart, Text, Handling, C!Begin
  <2> QED
    BY <1>a, <1>b, <1>4, <2>1, SupMoves DEF ListenStart, Text, Handling, endVars, C!Next
<1>5. CASE Abort
  <2>1. C!Abort
    BY <1>5 DEF Abort, Text, Handling, C!Abort
  <2> QED
    BY <1>a, <1>b, <1>5, <2>1, SupMoves DEF Abort, Text, Handling, endVars, C!Next
<1>6. CASE HandleFinal
  <2>1. CASE Dismiss
    BY <1>c, <2>1
  <2>2. CASE Current /\ sup.seen = "Listening"
    <3>1. C!Hear
      BY <1>6, <2>2 DEF HandleFinal, Handling, C!Hear
    <3> QED
      BY <1>a, <1>b, <1>6, <2>2, <3>1, SupMoves DEF HandleFinal, Handling, endVars, C!Next, C!Hear
  <2> QED
    BY <1>6, <2>1, <2>2 DEF HandleFinal
<1>7. CASE HandleFinished
  <2>1. CASE Dismiss \/ CloseFor("write failed")
    BY <1>c, <2>1
  <2>2. CASE /\ Current /\ Answering
             /\ history' = IF sup.seen = "Speaking" /\ sup.ev.arg = "full"
                           THEN AppendHistory(sup.ev.gen) ELSE history
             /\ state' = "Ready" /\ generation' = generation
             /\ Goto("idle") /\ UNCHANGED endVars
    <3>1. sup.pc = "handle"
      BY <1>7 DEF HandleFinished, Handling
    <3>2. AppendHistory(generation) = IF Len(history) < HistoryTurns THEN Append(history, generation)
                                      ELSE Append(Tail(history), generation)
      BY <1>a, SessionAssumption, AppendHistoryEffect
    <3>3. C!Complete
      BY <2>2, <3>1, <3>2 DEF Current, Answering, C!Complete
    <3> QED
      BY <1>a, <1>b, <2>2, <3>1, <3>3, SupMoves DEF Answering, endVars, C!Next
  <2> QED
    BY <1>7, <2>1, <2>2 DEF HandleFinished
<1>8. CASE ArmListenTimer \/ DialOk \/ DialFails \/ PostReleased \/ ListenStop
  BY <1>a, <1>b, <1>8, SupMoves DEF ArmListenTimer, DialOk, DialFails, PostReleased, ListenStop,
     coreVars, endVars
<1>9. CASE \/ DuplicateHello \/ IgnoreText \/ HandleAudio \/ HandleTimeout \/ HandleError
           \/ HandleClose
  BY <1>c, <1>9 DEF DuplicateHello, IgnoreText, HandleAudio, HandleTimeout, HandleError, HandleClose
<1> QED
  BY <1>1, <1>2, <1>3, <1>4, <1>5, <1>6, <1>7, <1>8, <1>9 DEF Handlers

LEMMA StepRefines ==
  ASSUME ~Evictable \/ closing = "no", Types, StateInv, [Next]_vars
  PROVE  (~Evictable => StateInv') /\ (C!Next \/ UNCHANGED StateVars)
<1> USE DEF StateInv, StateVars
<1>a. SupType
  BY DEF Types
<1>1. CASE Handlers
  BY <1>1, HandlerRefines
<1>2. CASE Closers
  <2>1. CASE SupCloses
    <3>1. C!Close
      BY <2>1 DEF SupCloses, MarkClosed, C!Close
    <3> QED
      BY <1>a, <2>1, <3>1, SupMoves DEF SupCloses, MarkClosed, PCs, C!Next
  <2>2. CASE SupExits
    BY <1>a, <2>2, SupMoves DEF SupExits, PCs, coreVars, endVars
  <2>3. CASE Evictor
    BY <2>3 DEF Evictor, EvictBegins, EvictMarks, EvictEnds, coreVars
  <2> QED
    BY <1>2, <2>1, <2>2, <2>3 DEF Closers
<1>3. CASE ReadExit \/ Timers \/ UNCHANGED vars
  BY <1>3 DEF ReadExit, Timers, HelloTimerFires, ListenTimerFires, AsrTimerFires, vars,
     coreVars, endVars
<1>4. ASSUME NEW m \in Msgs, Read(m) PROVE StateInv' /\ UNCHANGED StateVars
  BY <1>4 DEF Read, coreVars, endVars
<1>5. ASSUME NEW g \in Turns, OfTurn(g) PROVE StateInv' /\ (C!Next \/ UNCHANGED StateVars)
  <2>1. CASE PacerStarts(g)
    BY <2>1 DEF PacerStarts, TransitionToSpeaking, endVars, C!Next, C!Speak
  <2>2. CASE OfTurn(g) /\ ~PacerStarts(g)
    BY <2>2 DEF OfTurn, AsrResult, AsrCancelled, Answer, OrchFails, DownlinkOverflows,
       OrchFinishesInput, OrchCancelled, Pacer, PacerFinishes, PacerFails, PacerStopped,
       coreVars, endVars
  <2> QED
    BY <1>5, <2>1, <2>2
<1> QED
  BY <1>1, <1>2, <1>3, <1>4, <1>5, NextCases

(* A session that only its own supervisor closes is a one-turn conversation:  *)
(* its state, generation and history change only as those of Conversation do. *)
THEOREM SessionIsConversation == ~Evictable => (Spec => Conversation)
<1> SUFFICES ASSUME ~Evictable PROVE Spec => Conversation
  OBVIOUS
<1>1. Init => StateInv /\ C!Init
  BY DEF Init, StateInv, C!Init
<1>2. Types /\ StateInv /\ [Next]_vars => StateInv' /\ [C!Next]_(C!vars)
  BY StepRefines DEF StateVars, C!vars
<1> QED
  BY <1>1, <1>2, AlwaysTyped, PTL DEF Spec, Conversation, C!Spec

------------------------------------------------------------------------------
(* The turn, its resources, its events and its history.                       *)

(* What the supervisor read is still worth something when it acts, until      *)
(* somebody else begins to close the session.                                 *)
ReadingHolds ==
  closing = "no" =>
    /\ state # "Closed"
    /\ sup.pc = "handle" => sup.seen = state \/ (sup.seen = "Processing" /\ state = "Speaking")
    /\ sup.pc = "hello" => state = "Connected"
    /\ sup.pc \in {"arm", "dial"} => state = "Listening"
    /\ sup.pc = "arm" => ~manualStop

MatchInv == ReadingHolds /\ TurnMatchesState

(* Pacers begin with the final text of their turn, so that a turn that        *)
(* listens, and one to come, has none.                                        *)
PacersInv ==
  /\ \A g \in Turns : g > generation => pacer[g] = "none"
  /\ state = "Listening" \/ (sup.pc = "handle" /\ sup.seen = "Listening") =>
       (generation \in Turns => pacer[generation] = "none")

(* An event names a turn that has gone as far as the event says.              *)
Truthful(e) ==
  /\ e.kind \in {"final", "finished"} => e.gen \in Turns
  /\ e.kind = "finished" => pacer[e.gen] = "gone"

EventsInv ==
  /\ \A e \in ToSet(events) : Truthful(e)
  /\ sup.pc = "handle" => Truthful(sup.ev)

(* Committed turns are of the past: not to be cancelled, hence not aborted.   *)
CommittedPast ==
  /\ \A i \in DOMAIN history : history[i] \in 1 .. generation /\ history[i] # turnCancel
  /\ \A a \in aborted : a < generation

(* The turn just committed is over for the supervisor too.                    *)
InTurn(s) == s \in {"Listening", "Processing", "Speaking"}
CommittedIsOver ==
  (\E i \in DOMAIN history : history[i] = generation) =>
    ~InTurn(state) /\ (sup.pc = "handle" => ~InTurn(sup.seen))

CommitInv == CommittedPast /\ CommittedIsOver /\ HistoryIsSound

(* The event that ends the turn being answered is under way; and an           *)
(* orchestrator that failed while its turn is answered has posted it.         *)
EndIsPosted == \E e \in InFlight : e.gen = generation /\ e.kind \in {"finished", "error"}

InAnswer(s) == s \in {"Processing", "Speaking"}
FailureIsTold ==
  closing = "no" /\ InAnswer(state) /\ sup.pc # "closing" =>
    (generation \in Turns /\ orch[generation] = "failed" => EndIsPosted)

------------------------------------------------------------------------------
(* The turn and its resources.                                                *)

(* CancelTurn leaves nothing running when the turn is the only one.           *)
LEMMA CancelClears == OneTurn /\ CancelTurn => live' = {} /\ turnCancel' = 0
  BY DEF OneTurn, CancelTurn

LEMMA MatchHandlers == Types /\ OneTurn /\ MatchInv /\ closing = "no" /\ Handlers => MatchInv'
<1> SUFFICES ASSUME Types, OneTurn, MatchInv, closing = "no", Handlers PROVE MatchInv'
  OBVIOUS
<1> USE DEF MatchInv, ReadingHolds, TurnMatchesState, Active
<1>a. SupType /\ state \in States /\ generation \in Nat
  BY DEF Types, CoreType, TurnType
<1>b. {"idle", "handle", "hello", "arm", "dial", "posting", "closing", "done"} = PCs
  BY DEF PCs
<1>c. ASSUME Dismiss \/ (\E r : CloseFor(r)) PROVE MatchInv'
  BY <1>a, <1>b, <1>c, SupMoves DEF Dismiss, CloseFor, GiveUp, SupType, coreVars, turnVars,
     endVars
<1>1. CASE Take
  BY <1>1 DEF Take, coreVars, turnVars, endVars
<1>2. CASE HandleHello
  <2>1. CASE \E r : CloseFor(r)
    BY <1>c, <2>1
  <2>2. CASE /\ sup.seen = "Connected" /\ (Goto("hello") \/ GiveUp("write failed"))
             /\ UNCHANGED <<coreVars, turnVars, endVars>>
    BY <1>2, <1>a, <1>b, <2>2, SupMoves DEF HandleHello, Handling, GiveUp, SupType, coreVars,
       turnVars, endVars
  <2> QED
    BY <1>2, <2>1, <2>2 DEF HandleHello
<1>3. CASE HelloDone
  BY <1>a, <1>b, <1>3, SupMoves DEF HelloDone, turnVars, endVars
<1>4. CASE ListenStart
  BY <1>a, <1>b, <1>4, SupMoves DEF ListenStart, Text, Handling, CtxDone, endVars
<1>5. CASE Abort
  BY <1>a, <1>b, <1>5, SupMoves, CancelClears DEF Abort, ReleaseListening, endVars
<1>6. CASE HandleFinal
  <2>1. CASE Dismiss
    BY <1>c, <2>1
  <2>2. CASE /\ sup.pc = "handle" /\ sup.seen = "Listening" /\ ReleaseListening /\ Goto("idle")
             /\ UNCHANGED <<mode, manualStop, generation, endVars>>
             /\ \/ CancelTurn /\ state' = "Ready"
                \/ state' = "Processing" /\ UNCHANGED <<live, turnCancel>>
    BY <1>a, <1>b, <2>2, SupMoves, CancelClears DEF ReleaseListening, endVars
  <2> QED
    BY <1>6, <2>1, <2>2 DEF HandleFinal, Handling
<1>7. CASE HandleFinished
  <2>1. CASE Dismiss \/ CloseFor("write failed")
    BY <1>c, <2>1
  <2>2. CASE /\ sup.pc = "handle" /\ Answering /\ CancelTurn /\ asr' = 0 /\ state' = "Ready"
             /\ Goto("idle")
             /\ UNCHANGED <<manualStop, generation, listenTimer, asrTimer, endVars>>
    BY <1>a, <1>b, <2>2, SupMoves, CancelClears DEF Answering, endVars
  <2> QED
    BY <1>7, <2>1, <2>2 DEF HandleFinished, Handling
<1>8. CASE ArmListenTimer \/ DialOk \/ DialFails \/ PostReleased
  BY <1>a, <1>b, <1>8, SupMoves DEF ArmListenTimer, DialOk, DialFails, PostReleased, coreVars,
     turnVars, endVars
<1>9. CASE ListenStop
  BY <1>a, <1>b, <1>9, SupMoves DEF ListenStop, Text, Handling, endVars
<1>10. CASE \/ DuplicateHello \/ IgnoreText \/ HandleAudio \/ HandleTimeout \/ HandleError
            \/ HandleClose
  BY <1>c, <1>10 DEF DuplicateHello, IgnoreText, HandleAudio, HandleTimeout, HandleError, HandleClose
<1> QED
  BY <1>1, <1>2, <1>3, <1>4, <1>5, <1>6, <1>7, <1>8, <1>9, <1>10 DEF Handlers

(* A session once closing is never open again.                                *)
LEMMA StillOpen == ASSUME [Next]_vars, closing' = "no" PROVE closing = "no"
<1>1. CASE Handlers
  BY <1>1 DEF Handlers, Take, HandleHello, HelloDone, DuplicateHello, ListenStart,
     ArmListenTimer, DialOk, DialFails, PostReleased, ListenStop, Abort, IgnoreText,
     HandleAudio, HandleFinal, HandleFinished, HandleTimeout, HandleError, HandleClose,
     Dismiss, CloseFor, endVars
<1>2. CASE Closers
  BY <1>2 DEF Closers, SupCloses, SupExits, Evictor, EvictBegins, EvictMarks, EvictEnds, endVars
<1>3. CASE ReadExit \/ Timers \/ UNCHANGED vars
  BY <1>3 DEF ReadExit, Timers, HelloTimerFires, ListenTimerFires, AsrTimerFires, vars, endVars
<1>4. ASSUME NEW m \in Msgs, Read(m) PROVE closing = "no"
  BY <1>4 DEF Read, endVars
<1>5. ASSUME NEW g \in Turns, OfTurn(g) PROVE closing = "no"
  BY <1>5 DEF OfTurn, AsrResult, AsrCancelled, Answer, OrchFails, DownlinkOverflows,
     OrchFinishesInput, OrchCancelled, Pacer, PacerStarts, PacerFinishes, PacerFails,
     PacerStopped, endVars
<1> QED
  BY <1>1, <1>2, <1>3, <1>4, <1>5, NextCases

LEMMA MatchStep == Types /\ OneTurn /\ MatchInv /\ [Next]_vars => MatchInv'
<1> SUFFICES ASSUME Types, OneTurn, MatchInv, [Next]_vars, closing' = "no" PROVE MatchInv'
  BY DEF MatchInv, ReadingHolds, TurnMatchesState
<1>a. closing = "no"
  BY StillOpen
<1> USE DEF MatchInv, ReadingHolds, TurnMatchesState, Active
<1>b. SupType
  BY DEF Types
<1>1. CASE Handlers
  BY <1>1, <1>a, MatchHandlers
<1>2. CASE Closers
  <2>1. CASE SupExits
    BY <1>a, <1>b, <2>1, SupMoves DEF SupExits, PCs, coreVars, turnVars, endVars
  <2>2. CASE ~SupExits
    BY <1>2, <1>a, <2>2 DEF Closers, SupCloses, Evictor, EvictBegins, EvictMarks, EvictEnds
  <2> QED
    BY <2>1, <2>2
<1>3. CASE ReadExit \/ Timers \/ UNCHANGED vars
  <2>1. /\ UNCHANGED <<state, manualStop, generation, live, turnCancel, asr, sup>>
        /\ listenTimer' = listenTimer \/ listenTimer' = 0
        /\ asrTimer' = asrTimer \/ asrTimer' = 0
    BY <1>3 DEF ReadExit, Timers, HelloTimerFires, ListenTimerFires, AsrTimerFires, vars,
       coreVars, turnVars
  <2> QED
    BY <1>a, <2>1
<1>4. ASSUME NEW m \in Msgs, Read(m) PROVE MatchInv'
  BY <1>a, <1>4 DEF Read, coreVars, turnVars, endVars
<1>5. ASSUME NEW g \in Turns, OfTurn(g) PROVE MatchInv'
  <2>1. CASE PacerStarts(g)
    BY <1>a, <2>1 DEF PacerStarts, TransitionToSpeaking, turnVars, endVars
  <2>2. CASE OfTurn(g) /\ ~PacerStarts(g)
    BY <1>a, <2>2 DEF OfTurn, AsrResult, AsrCancelled, Answer, OrchFails, DownlinkOverflows,
       OrchFinishesInput, OrchCancelled, Pacer, PacerFinishes, PacerFails, PacerStopped,
       coreVars, turnVars, endVars
  <2> QED
    BY <1>5, <2>1, <2>2
<1> QED
  BY <1>1, <1>2, <1>3, <1>4, <1>5, NextCases

LEMMA AlwaysOneTurn == Spec => [](Types /\ OneTurn)
  BY AtMostOneTurn, AlwaysTyped, PTL

LEMMA AlwaysMatched == Spec => []MatchInv
<1>1. Init => MatchInv
  BY DEF Init, MatchInv, ReadingHolds, TurnMatchesState, Active
<1> QED
  BY <1>1, AlwaysOneTurn, MatchStep, PTL DEF Spec

(* Until somebody closes the session, exactly the states of a turn have a     *)
(* live turn, and outside LISTENING the recognition stream and both its       *)
(* timers are released (TurnMatchesState).                                    *)
THEOREM TurnsMatchTheState == Spec => []TurnMatchesState
<1>1. MatchInv => TurnMatchesState
  BY DEF MatchInv
<1> QED
  BY <1>1, AlwaysMatched, PTL

(* Even if the registry may close the session at any moment, it is a one-turn *)
(* conversation until somebody begins to: up to there every step of the       *)
(* supervisor, which acts on a state it has read before, and of the pacers is *)
(* a step of Conversation or none (supervisorLoop, transitionToSpeaking).     *)
THEOREM ConversesUntilClosed == Spec => [][closing = "no" => C!Next]_StateVars
<1>1. Types /\ MatchInv /\ [Next]_vars => [closing = "no" => C!Next]_StateVars
  <2> SUFFICES ASSUME Types, MatchInv, [Next]_vars, closing = "no"
               PROVE  C!Next \/ UNCHANGED StateVars
    OBVIOUS
  <2>1. StateInv
    BY DEF MatchInv, ReadingHolds, StateInv
  <2> QED
    BY <2>1, StepRefines
<1> QED
  BY <1>1, AlwaysTyped, AlwaysMatched, PTL DEF Spec

------------------------------------------------------------------------------
(* The events under way, as a set.                                            *)

LEMMA PostedSet ==
  ASSUME events \in Seq(Event), NEW e \in Event, Post(e)
  PROVE  /\ ToSet(events') \subseteq ToSet(events) \cup {e}
         /\ ~CtxDone => ToSet(events') = ToSet(events) \cup {e}
<1>1. CASE CtxDone
  BY <1>1 DEF Post
<1>2. CASE ~CtxDone
  <2>1. events' = Append(events, e)
    BY <1>2 DEF Post
  <2>2. /\ DOMAIN events = 1 .. Len(events) /\ Len(events) \in Nat
        /\ DOMAIN events' = 1 .. Len(events) + 1 /\ events'[Len(events) + 1] = e
        /\ \A i \in 1 .. Len(events) : events'[i] = events[i]
    BY <2>1, AppendProperties, LenProperties
  <2>3. ToSet(events') \subseteq ToSet(events) \cup {e}
    BY <2>2 DEF ToSet
  <2>4. ToSet(events) \cup {e} \subseteq ToSet(events')
    BY <2>2 DEF ToSet
  <2> QED
    BY <2>3, <2>4
<1> QED
  BY <1>1, <1>2

LEMMA TakenSet ==
  ASSUME events \in Seq(Event), events # << >>
  PROVE  ToSet(events) = {Head(events)} \cup ToSet(Tail(events))
<1>1. /\ DOMAIN events = 1 .. Len(events) /\ Len(events) \in Nat /\ Len(events) >= 1
      /\ Head(events) = events[1]
  BY EmptySeq, LenProperties
<1>2. /\ DOMAIN Tail(events) = 1 .. Len(events) - 1
      /\ \A i \in 1 .. Len(events) - 1 : Tail(events)[i] = events[i + 1]
  BY <1>1, HeadTailProperties, LenProperties
<1>3. ToSet(events) \subseteq {Head(events)} \cup ToSet(Tail(events))
  <2> SUFFICES ASSUME NEW i \in 1 .. Len(events), i # 1
               PROVE  \E j \in DOMAIN Tail(events) : events[i] = Tail(events)[j]
    BY <1>1 DEF ToSet
  <2>1. i - 1 \in DOMAIN Tail(events) /\ Tail(events)[i - 1] = events[i]
    BY <1>1, <1>2
  <2> QED
    BY <2>1
<1>4. {Head(events)} \cup ToSet(Tail(events)) \subseteq ToSet(events)
  <2>1. 1 \in DOMAIN events /\ \A i \in DOMAIN Tail(events) : i + 1 \in DOMAIN events
    BY <1>1, <1>2
  <2> QED
    BY <1>1, <1>2, <2>1 DEF ToSet
<1> QED
  BY <1>3, <1>4

LEMMA ReleasedSet ==
  ASSUME NEW q \in Seq(Event)
  PROVE  ToSet(Released(q)) \subseteq ToSet(q)
<1> DEFINE n == IF Len(q) > EventCap THEN EventCap ELSE Len(q)
<1>1. EventCap \in Nat /\ Len(q) \in Nat /\ DOMAIN q = 1 .. Len(q)
  BY SessionAssumption, LenProperties DEF SessionAssumption
<1>2. n \in Nat /\ n <= Len(q) /\ \A i \in 1 .. n : i \in 1 .. Len(q)
  BY <1>1
<1>3. /\ DOMAIN SubSeq(q, 1, n) = 1 .. n
      /\ \A i \in 1 .. n : SubSeq(q, 1, n)[i] = q[i]
  BY <1>1, <1>2, SubSeqProperties
<1> HIDE DEF n
<1>4. ToSet(SubSeq(q, 1, n)) \subseteq ToSet(q)
  BY <1>1, <1>2, <1>3 DEF ToSet
<1> QED
  BY <1>4 DEF Released, n

------------------------------------------------------------------------------
(* Pacers and the events of their turns.                                      *)

LEMMA PacersStep == Types /\ PacersInv /\ EventsInv /\ [Next]_vars => PacersInv'
<1> SUFFICES ASSUME Types, PacersInv, EventsInv, [Next]_vars PROVE PacersInv'
  OBVIOUS
<1> USE DEF PacersInv
<1>a. SupType /\ generation \in Nat /\ Turns \subseteq Nat
      /\ pacer \in [Turns -> {"none", "waiting", "started", "gone"}]
  BY DEF Types, TurnType, GoType, Turns
<1>b. {"idle", "handle", "hello", "arm", "dial", "posting", "closing", "done"} = PCs
  BY DEF PCs
<1>c. ASSUME Dismiss \/ (\E r : CloseFor(r)) PROVE PacersInv'
  BY <1>a, <1>b, <1>c, SupMoves DEF Dismiss, CloseFor, GiveUp, SupType, coreVars, goVars
<1>1. CASE Take
  BY <1>1 DEF Take, coreVars, goVars
<1>2. CASE ListenStart
  BY <1>a, <1>b, <1>2, SupMoves DEF ListenStart, goVars
<1>3. CASE Abort
  <2>1. generation' = generation + 1 /\ pacer' = pacer /\ state' = "Ready" /\ Goto("idle")
    BY <1>3 DEF Abort, goVars
  <2>2. sup'.pc = "idle"
    BY <1>a, <1>b, <2>1, SupMoves
  <2>3. \A g \in Turns : g > generation' => g > generation
    BY <1>a, <2>1
  <2> QED
    BY <2>1, <2>2, <2>3
<1>4. CASE HandleFinal
  <2>1. CASE Dismiss
    BY <1>c, <2>1
  <2>2. CASE /\ sup.pc = "handle" /\ sup.ev.gen = generation
             /\ state' # "Listening" /\ Goto("idle") /\ generation' = generation
             /\ pacer' = pacer \/ pacer' = [pacer EXCEPT ![sup.ev.gen] = "waiting"]
    BY <1>a, <1>b, <2>2, SupMoves
  <2> QED
    BY <1>4, <2>1, <2>2 DEF HandleFinal, Handling, Current, goVars
<1>5. CASE \/ HandleHello \/ HelloDone \/ DuplicateHello \/ ArmListenTimer \/ DialOk \/ DialFails
           \/ PostReleased \/ ListenStop \/ IgnoreText \/ HandleAudio \/ HandleFinished
           \/ HandleTimeout \/ HandleError \/ HandleClose
  <2>1. CASE Dismiss \/ (\E r : CloseFor(r))
    BY <1>c, <2>1
  <2>2. CASE /\ ~Dismiss /\ ~(\E r : CloseFor(r))
    <3>1. pacer' = pacer /\ generation' = generation
      BY <1>5, <2>2 DEF HandleHello, HelloDone, DuplicateHello, ArmListenTimer, DialOk, DialFails,
         PostReleased, ListenStop, IgnoreText, HandleAudio, HandleFinished, HandleTimeout,
         HandleError, HandleClose, coreVars, goVars
    <3>2. state' \in {state, "Ready"}
      BY <1>5, <2>2 DEF HandleHello, HelloDone, DuplicateHello, ArmListenTimer, DialOk, DialFails,
         PostReleased, ListenStop, IgnoreText, HandleAudio, HandleFinished, HandleTimeout,
         HandleError, HandleClose, coreVars
    <3>3. GiveUp("write failed") \/ \E l \in {"idle", "hello", "dial", "posting"} : Goto(l)
      BY <1>5, <2>2 DEF HandleHello, HelloDone, DuplicateHello, ArmListenTimer, DialOk,
         DialFails, PostReleased, ListenStop, IgnoreText, HandleAudio, HandleFinished,
         HandleTimeout, HandleError, HandleClose
    <3>4. sup'.pc # "handle"
      BY <1>a, <1>b, <3>3, SupMoves DEF GiveUp, SupType
    <3> QED
      BY <3>1, <3>2, <3>4
  <2> QED
    BY <2>1, <2>2
<1>6. CASE Closers
  <2>1. pacer' = pacer /\ generation' = generation /\ state' \in {state, "Closed"}
    BY <1>6 DEF Closers, SupCloses, SupExits, Evictor, EvictBegins, EvictMarks, EvictEnds,
       MarkClosed, coreVars, goVars
  <2>2. sup' = sup \/ Goto("done")
    BY <1>6 DEF Closers, SupCloses, SupExits, Evictor, EvictBegins, EvictMarks, EvictEnds
  <2>3. sup' = sup \/ sup'.pc # "handle"
    BY <1>a, <1>b, <2>2, SupMoves
  <2> QED
    BY <2>1, <2>3
<1>7. CASE ReadExit \/ Timers \/ UNCHANGED vars
  BY <1>7 DEF ReadExit, Timers, HelloTimerFires, ListenTimerFires, AsrTimerFires, vars,
     coreVars, goVars
<1>8. ASSUME NEW m \in Msgs, Read(m) PROVE PacersInv'
  BY <1>8 DEF Read, coreVars, goVars
<1>9. ASSUME NEW g \in Turns, OfTurn(g) PROVE PacersInv'
  <2>1. /\ generation' = generation /\ sup' = sup
        /\ state' = state \/ state' = "Speaking"
    BY <1>9 DEF OfTurn, AsrResult, AsrCancelled, Answer, OrchFails, DownlinkOverflows,
       OrchFinishesInput, OrchCancelled, Pacer, PacerStarts, TransitionToSpeaking, PacerFinishes,
       PacerFails, PacerStopped, coreVars
  <2>2. \/ pacer' = pacer
        \/ pacer[g] # "none" /\ \E p \in {"started", "gone"} : pacer' = [pacer EXCEPT ![g] = p]
    BY <1>9 DEF OfTurn, AsrResult, AsrCancelled, Answer, OrchFails, DownlinkOverflows,
       OrchFinishesInput, OrchCancelled, Pacer, PacerStarts, TransitionToSpeaking, PacerFinishes,
       PacerFails, PacerStopped
  <2>3. \A h \in Turns : pacer[h] = "none" => pacer'[h] = "none"
    BY <1>a, <2>2
  <2> QED
    BY <2>1, <2>3
<1> QED
  BY <1>1, <1>2, <1>3, <1>4, <1>5, <1>6, <1>7, <1>8, <1>9, NextCases DEF Handlers

(* A pacer that is gone stays so: a turn is answered once.                    *)
LEMMA GoneForGood ==
  ASSUME Types, PacersInv, [Next]_vars, NEW g \in Turns, pacer[g] = "gone"
  PROVE  pacer'[g] = "gone"
<1>a. pacer \in [Turns -> {"none", "waiting", "started", "gone"}]
  BY DEF Types, GoType
<1>1. CASE HandleFinal
  <2>1. CASE UNCHANGED pacer
    BY <2>1
  <2>2. CASE /\ sup.pc = "handle" /\ sup.seen = "Listening" /\ sup.ev.gen = generation
             /\ pacer' = [pacer EXCEPT ![sup.ev.gen] = "waiting"]
    <3>1. g # generation
      BY <2>2 DEF PacersInv
    <3> QED
      BY <1>a, <2>2, <3>1
  <2> QED
    BY <1>1, <2>1, <2>2 DEF HandleFinal, Handling, Current, Dismiss, goVars
<1>2. CASE Handlers /\ ~HandleFinal
  BY <1>2 DEF Handlers, Take, HandleHello, HelloDone, DuplicateHello, ListenStart, ArmListenTimer,
     DialOk, DialFails, PostReleased, ListenStop, Abort, IgnoreText, HandleAudio, HandleFinished,
     HandleTimeout, HandleError, HandleClose, Dismiss, CloseFor, goVars
<1>3. CASE Closers
  BY <1>3 DEF Closers, SupCloses, SupExits, Evictor, EvictBegins, EvictMarks, EvictEnds, goVars
<1>4. CASE ReadExit \/ Timers \/ UNCHANGED vars
  BY <1>4 DEF ReadExit, Timers, HelloTimerFires, ListenTimerFires, AsrTimerFires, vars, goVars
<1>5. ASSUME NEW m \in Msgs, Read(m) PROVE pacer'[g] = "gone"
  BY <1>5 DEF Read, goVars
<1>6. ASSUME NEW h \in Turns, OfTurn(h) PROVE pacer'[g] = "gone"
  <2>1. \/ pacer' = pacer
        \/ pacer[h] # "gone" /\ \E p \in {"started", "gone"} : pacer' = [pacer EXCEPT ![h] = p]
    BY <1>6 DEF OfTurn, AsrResult, AsrCancelled, Answer, OrchFails, DownlinkOverflows,
       OrchFinishesInput, OrchCancelled, Pacer, PacerStarts, TransitionToSpeaking, PacerFinishes,
       PacerFails, PacerStopped
  <2> QED
    BY <1>a, <2>1
<1> QED
  BY <1>1, <1>2, <1>3, <1>4, <1>5, <1>6, NextCases

(* Every event posted is truthful, and stays so under way.                    *)
LEMMA EventsStep == Types /\ PacersInv /\ EventsInv /\ [Next]_vars => EventsInv'
<1> SUFFICES ASSUME Types, PacersInv, EventsInv, [Next]_vars PROVE EventsInv'
  OBVIOUS
<1>a. SupType /\ events \in Seq(Event) /\ generation \in Nat /\ Turns \subseteq Nat
      /\ pacer \in [Turns -> {"none", "waiting", "started", "gone"}]
      /\ listenTimer \in Nat /\ asrTimer \in Nat /\ msgs \in Nat
  BY DEF Types, TurnType, GoType, EventsType, RestType, Turns
<1>b. {"idle", "handle", "hello", "arm", "dial", "posting", "closing", "done"} = PCs
  BY DEF PCs
<1>c. \A e : Truthful(e) => Truthful(e)'
  BY GoneForGood DEF Truthful
<1>d. SUFFICES /\ \A e \in ToSet(events') : Truthful(e) \/ Truthful(e)'
               /\ sup'.pc = "handle" => Truthful(sup'.ev)
  BY <1>c DEF EventsInv
<1>e. ASSUME NEW e \in Event, Post(e), e.kind \notin {"final", "finished"}
      PROVE  \A f \in ToSet(events') : Truthful(f)
  BY <1>a, <1>e, PostedSet DEF EventsInv, Truthful
<1>1. CASE Take
  <2>1. ToSet(events) = {Head(events)} \cup ToSet(Tail(events))
    BY <1>a, <1>1, TakenSet DEF Take
  <2>2. events' = Tail(events) /\ sup'.ev = Head(events)
    BY <1>1 DEF Take
  <2> QED
    BY <2>1, <2>2 DEF EventsInv
<1>2. CASE DialFails
  <2>1. Ev("error", generation, "error") \in Event /\ Ev("error", generation, "error").kind = "error"
    BY <1>a, EvType DEF Ev, Reasons
  <2>2. sup'.pc # "handle"
    BY <1>a, <1>b, <1>2, SupMoves DEF DialFails
  <2> QED
    BY <1>2, <1>e, <2>1, <2>2 DEF DialFails
<1>3. CASE Handlers /\ ~Take /\ ~DialFails
  <2>1. events' = events
    BY <1>3 DEF Handlers, HandleHello, HelloDone, DuplicateHello, ListenStart, ArmListenTimer,
       DialOk, PostReleased, ListenStop, Abort, IgnoreText, HandleAudio, HandleFinal,
       HandleFinished, HandleTimeout, HandleError, HandleClose, Dismiss, CloseFor
  <2>2. (\E l \in PCs \ {"handle"} : Goto(l)) \/ (\E r : GiveUp(r))
    BY <1>b, <1>3 DEF Handlers, HandleHello, HelloDone, DuplicateHello, ListenStart, ArmListenTimer,
       DialOk, PostReleased, ListenStop, Abort, IgnoreText, HandleAudio, HandleFinal,
       HandleFinished, HandleTimeout, HandleError, HandleClose, Dismiss, CloseFor
  <2>3. sup'.pc # "handle"
    BY <1>a, <2>2, SupMoves DEF GiveUp, SupType
  <2> QED
    BY <2>1, <2>3 DEF EventsInv
<1>4. CASE Closers
  <2>1. events' = events \/ events' = Released(events)
    BY <1>4 DEF Closers, SupCloses, SupExits, Evictor, EvictBegins, EvictMarks, EvictEnds
  <2>2. ToSet(events') \subseteq ToSet(events)
    BY <1>a, <2>1, ReleasedSet
  <2>3. sup' = sup \/ Goto("done")
    BY <1>4 DEF Closers, SupCloses, SupExits, Evictor, EvictBegins, EvictMarks, EvictEnds
  <2>4. sup' = sup \/ sup'.pc # "handle"
    BY <1>a, <1>b, <2>3, SupMoves
  <2> QED
    BY <2>2, <2>4 DEF EventsInv
<1>5. CASE ReadExit \/ Timers \/ UNCHANGED vars
  <2>1. sup' = sup
    BY <1>5 DEF ReadExit, Timers, HelloTimerFires, ListenTimerFires, AsrTimerFires, vars
  <2>2. \/ events' = events
        \/ Post(Ev("close", 0, "disconnected")) \/ Post(Ev("timeout", 0, "hello timeout"))
        \/ Post(Ev("timeout", listenTimer, "listen timeout"))
        \/ Post(Ev("timeout", asrTimer, "asr timeout"))
    BY <1>5 DEF ReadExit, Timers, HelloTimerFires, ListenTimerFires, AsrTimerFires, vars
  <2>3. \A k \in {"close", "timeout"}, g \in Nat,
           a \in {"disconnected", "hello timeout", "listen timeout", "asr timeout"} :
          Ev(k, g, a) \in Event /\ Ev(k, g, a).kind = k
    BY EvType DEF Ev, Reasons
  <2> QED
    BY <1>a, <1>e, <2>1, <2>2, <2>3 DEF EventsInv
<1>6. ASSUME NEW m \in Msgs, Read(m)
      PROVE  /\ \A e \in ToSet(events') : Truthful(e) \/ Truthful(e)'
             /\ sup'.pc = "handle" => Truthful(sup'.ev)
  <2>1. Tagged(m) \in Event /\ Tagged(m).kind \notin {"final", "finished"}
    BY EvType DEF Tagged, Ev, Msgs, Words, Reasons
  <2>2. Post(Tagged(m)) /\ sup' = sup
    BY <1>6 DEF Read
  <2> QED
    BY <1>e, <2>1, <2>2 DEF EventsInv
<1>7. ASSUME NEW g \in Turns, OfTurn(g)
      PROVE  /\ \A e \in ToSet(events') : Truthful(e) \/ Truthful(e)'
             /\ sup'.pc = "handle" => Truthful(sup'.ev)
  <2>a. sup' = sup /\ g \in Nat
    BY <1>a, <1>7 DEF OfTurn, AsrResult, AsrCancelled, Answer, OrchFails, DownlinkOverflows,
       OrchFinishesInput, OrchCancelled, Pacer, PacerStarts, PacerFinishes, PacerFails, PacerStopped
  <2>b. /\ \A a \in {"text", "empty"} : Ev("final", g, a) \in Event
        /\ \A a \in {"full", "partial"} : Ev("finished", g, a) \in Event
        /\ Ev("error", g, "error") \in Event
    BY <2>a, EvType DEF Words, Reasons
  <2>1. CASE PacerFinishes(g)
    <3>1. PICK a \in {"full", "partial"} : Post(Ev("finished", g, a))
      BY <2>1 DEF PacerFinishes
    <3>2. pacer'[g] = "gone"
      BY <1>a, <2>1 DEF PacerFinishes
    <3>3. Truthful(Ev("finished", g, a))'
      BY <3>2 DEF Truthful, Ev
    <3> QED
      BY <1>a, <2>a, <2>b, <3>1, <3>3, PostedSet DEF EventsInv
  <2>2. CASE AsrResult(g)
    <3>1. PICK e \in {Ev("final", g, "text"), Ev("final", g, "empty"), Ev("error", g, "error")} :
            Post(e)
      BY <2>2 DEF AsrResult
    <3>2. e \in Event /\ Truthful(e)
      BY <2>b DEF Truthful, Ev
    <3> QED
      BY <1>a, <2>a, <3>1, <3>2, PostedSet DEF EventsInv
  <2>3. CASE OrchFails(g) \/ DownlinkOverflows(g) \/ PacerFails(g)
    <3>1. Post(Ev("error", g, "error")) /\ Ev("error", g, "error").kind = "error"
      BY <2>3 DEF OrchFails, DownlinkOverflows, PacerFails, Ev
    <3> QED
      BY <1>e, <2>a, <2>b, <3>1 DEF EventsInv
  <2>4. CASE \/ AsrCancelled(g) \/ OrchFinishesInput(g) \/ OrchCancelled(g) \/ PacerStarts(g)
             \/ PacerStopped(g)
    <3>1. events' = events
      BY <2>4 DEF AsrCancelled, OrchFinishesInput, OrchCancelled, PacerStarts, PacerStopped
    <3> QED
      BY <2>a, <3>1 DEF EventsInv
  <2> QED
    BY <1>7, <2>1, <2>2, <2>3, <2>4 DEF OfTurn, Answer, Pacer
<1> QED
  BY <1>1, <1>2, <1>3, <1>4, <1>5, <1>6, <1>7, NextCases

------------------------------------------------------------------------------
(* The history.                                                               *)

(* AppendHistory drops none or one turn at the front and appends one.         *)
LEMMA AppendHistoryItems ==
  ASSUME history \in Seq(Nat), Len(history) <= HistoryTurns, NEW g \in Nat
  PROVE  \E k \in {0, 1}, n \in Nat :
           /\ DOMAIN AppendHistory(g) = 1 .. n + 1
           /\ AppendHistory(g)[n + 1] = g
           /\ \A i \in 1 .. n : i + k \in DOMAIN history /\ AppendHistory(g)[i] = history[i + k]
<1>1. HistoryTurns \in Nat \ {0} /\ Len(history) \in Nat /\ DOMAIN history = 1 .. Len(history)
  BY LenProperties, SessionAssumption DEF SessionAssumption
<1>2. CASE Len(history) < HistoryTurns
  <2>1. AppendHistory(g) = Append(history, g)
    BY <1>2, SessionAssumption, AppendHistoryEffect
  <2>2. /\ DOMAIN Append(history, g) = 1 .. Len(history) + 1
        /\ Append(history, g)[Len(history) + 1] = g
        /\ \A i \in 1 .. Len(history) : i + 0 \in DOMAIN history
                                        /\ Append(history, g)[i] = history[i + 0]
    BY <1>1, AppendProperties
  <2> QED
    BY <1>1, <2>1, <2>2
<1>3. CASE ~(Len(history) < HistoryTurns)
  <2>1. AppendHistory(g) = Append(Tail(history), g) /\ history # << >>
    BY <1>1, <1>3, SessionAssumption, AppendHistoryEffect
  <2>2. /\ Tail(history) \in Seq(Nat) /\ Len(Tail(history)) = Len(history) - 1
        /\ \A i \in 1 .. Len(history) - 1 : Tail(history)[i] = history[i + 1]
    BY <2>1, HeadTailProperties
  <2> DEFINE n == Len(history) - 1
  <2>3. n \in Nat /\ \A i \in 1 .. n : i + 1 \in DOMAIN history
    BY <1>1, <1>3
  <2>4. /\ DOMAIN Append(Tail(history), g) = 1 .. n + 1
        /\ Append(Tail(history), g)[n + 1] = g
        /\ \A i \in 1 .. n : Append(Tail(history), g)[i] = Tail(history)[i]
    BY <2>2, <2>3, AppendProperties
  <2> QED
    BY <2>1, <2>2, <2>3, <2>4
<1> QED
  BY <1>2, <1>3

Kept ==
  /\ history' = history /\ generation' = generation /\ aborted' = aborted
  /\ turnCancel' \in {turnCancel, 0} /\ live' \subseteq live

Renewed ==
  /\ history' = history /\ generation' = generation + 1
  /\ aborted' \subseteq aborted \cup {turnCancel}
  /\ turnCancel' \in {0, generation + 1} /\ live' \subseteq live \cup {generation + 1}

Cleared == history' = << >> /\ generation' = generation /\ aborted' = aborted

Committed ==
  /\ sup.pc = "handle" /\ sup.ev.kind = "finished" /\ sup.ev.gen = generation
  /\ sup.seen = "Speaking" /\ sup'.pc = "idle" /\ state' = "Ready"
  /\ history' = AppendHistory(generation)
  /\ generation' = generation /\ aborted' = aborted
  /\ live' = {} /\ turnCancel' = 0

LEMMA HistoryMoves ==
  ASSUME Types, OneTurn, [Next]_vars
  PROVE  Kept \/ Renewed \/ Cleared \/ Committed
<1> USE DEF Kept, Renewed, Cleared
<1>a. SupType
  BY DEF Types
<1>b. {"idle", "handle", "hello", "arm", "dial", "posting", "closing", "done"} = PCs
  BY DEF PCs
<1>1. CASE ListenStart
  BY <1>1 DEF ListenStart
<1>2. CASE Abort
  BY <1>2 DEF Abort, CancelTurn
<1>3. CASE HandleFinal
  BY <1>3 DEF HandleFinal, CancelTurn, Dismiss, coreVars, turnVars
<1>4. CASE HandleFinished
  <2>1. CASE Dismiss \/ CloseFor("write failed")
    BY <2>1 DEF Dismiss, CloseFor, coreVars, turnVars
  <2>2. CASE /\ Current /\ Answering
             /\ history' = IF sup.seen = "Speaking" /\ sup.ev.arg = "full"
                           THEN AppendHistory(sup.ev.gen) ELSE history
             /\ CancelTurn /\ state' = "Ready" /\ Goto("idle")
             /\ UNCHANGED <<generation, aborted>>
    <3>1. CASE history' = history
      BY <2>2, <3>1 DEF CancelTurn
    <3>2. CASE sup.seen = "Speaking" /\ history' = AppendHistory(sup.ev.gen)
      BY <1>4, <1>a, <1>b, <2>2, <3>2, SupMoves, CancelClears
         DEF HandleFinished, Handling, Current, Committed
    <3> QED
      BY <2>2, <3>1, <3>2
  <2> QED
    BY <1>4, <2>1, <2>2 DEF HandleFinished
<1>5. CASE Handlers /\ ~ListenStart /\ ~Abort /\ ~HandleFinal /\ ~HandleFinished
  BY <1>5 DEF Handlers, Take, HandleHello, HelloDone, DuplicateHello, ArmListenTimer, DialOk,
     DialFails, PostReleased, ListenStop, IgnoreText, HandleAudio, HandleTimeout, HandleError,
     HandleClose, Dismiss, CloseFor, coreVars, turnVars
<1>6. CASE Closers
  BY <1>6 DEF Closers, SupCloses, SupExits, Evictor, EvictBegins, EvictMarks, EvictEnds,
     MarkClosed, CancelTurn, coreVars, turnVars
<1>7. CASE ReadExit \/ Timers \/ UNCHANGED vars
  BY <1>7 DEF ReadExit, Timers, HelloTimerFires, ListenTimerFires, AsrTimerFires, vars,
     coreVars, turnVars
<1>8. ASSUME NEW m \in Msgs, Read(m) PROVE Kept
  BY <1>8 DEF Read, coreVars, turnVars
<1>9. ASSUME NEW g \in Turns, OfTurn(g) PROVE Kept
  BY <1>9 DEF OfTurn, AsrResult, AsrCancelled, Answer, OrchFails, DownlinkOverflows,
     OrchFinishesInput, OrchCancelled, Pacer, PacerStarts, PacerFinishes, PacerFails,
     PacerStopped, coreVars, turnVars
<1> QED
  BY <1>1, <1>2, <1>3, <1>4, <1>5, <1>6, <1>7, <1>8, <1>9, NextCases DEF Handlers

(* Only the final text of the current turn, heard while LISTENING, moves on   *)
(* from a state outside a turn without beginning a new one: never.            *)
LEMMA NoReturn ==
  ASSUME Types, [Next]_vars, generation' = generation,
         ~InTurn(state), sup.pc = "handle" => ~InTurn(sup.seen)
  PROVE  ~InTurn(state') /\ (sup'.pc = "handle" => ~InTurn(sup'.seen))
<1> USE DEF InTurn
<1>a. SupType /\ generation \in Nat
  BY DEF Types, TurnType
<1>b. {"idle", "handle", "hello", "arm", "dial", "posting", "closing", "done"} = PCs
  BY DEF PCs
<1>1. CASE Take
  BY <1>1 DEF Take, coreVars
<1>2. CASE Handlers /\ ~Take
  <2>1. ~ListenStart
    BY <1>a DEF ListenStart
  <2>a. ~InTurn(state')
    <3>1. CASE HandleFinal
      BY <3>1 DEF HandleFinal, Handling, Dismiss, coreVars
    <3>2. CASE HandleFinished \/ Abort \/ HelloDone
      BY <3>2 DEF HandleFinished, Abort, HelloDone, Dismiss, CloseFor, coreVars
    <3>3. CASE ~HandleFinal /\ ~HandleFinished /\ ~Abort /\ ~HelloDone
      BY <1>2, <2>1, <3>3 DEF Handlers, HandleHello, DuplicateHello, ArmListenTimer, DialOk,
         DialFails, PostReleased, ListenStop, IgnoreText, HandleAudio, HandleTimeout,
         HandleError, HandleClose, Dismiss, CloseFor, coreVars
    <3> QED
      BY <3>1, <3>2, <3>3
  <2>2. (\E r : GiveUp(r)) \/ \E l \in {"idle", "hello", "arm", "dial", "posting"} : Goto(l)
    BY <1>2 DEF Handlers, HandleHello, HelloDone, DuplicateHello, ListenStart, ArmListenTimer,
       DialOk, DialFails, PostReleased, ListenStop, Abort, IgnoreText, HandleAudio, HandleFinal,
       HandleFinished, HandleTimeout, HandleError, HandleClose, Dismiss, CloseFor
  <2>3. sup'.pc # "handle"
    BY <1>a, <1>b, <2>2, SupMoves DEF GiveUp, SupType
  <2> QED
    BY <2>a, <2>3
<1>3. CASE Closers
  <2>1. state' \in {state, "Closed"} /\ (sup' = sup \/ Goto("done"))
    BY <1>3 DEF Closers, SupCloses, SupExits, Evictor, EvictBegins, EvictMarks, EvictEnds,
       MarkClosed, coreVars
  <2>2. sup' = sup \/ sup'.pc # "handle"
    BY <1>a, <1>b, <2>1, SupMoves
  <2> QED
    BY <2>1, <2>2
<1>4. CASE ReadExit \/ Timers \/ UNCHANGED vars
  BY <1>4 DEF ReadExit, Timers, HelloTimerFires, ListenTimerFires, AsrTimerFires, vars, coreVars
<1>5. ASSUME NEW m \in Msgs, Read(m) PROVE state' = state /\ sup' = sup
  BY <1>5 DEF Read, coreVars
<1>6. ASSUME NEW g \in Turns, OfTurn(g) PROVE state' = state /\ sup' = sup
  BY <1>6 DEF OfTurn, AsrResult, AsrCancelled, Answer, OrchFails, DownlinkOverflows,
     OrchFinishesInput, OrchCancelled, Pacer, PacerStarts, TransitionToSpeaking, PacerFinishes,
     PacerFails, PacerStopped, coreVars
<1> QED
  BY <1>1, <1>2, <1>3, <1>4, <1>5, <1>6, NextCases

LEMMA CommitStep ==
  Types /\ OneTurn /\ PacersInv /\ EventsInv /\ CommitInv /\ Types' /\ [Next]_vars => CommitInv'
<1> SUFFICES ASSUME Types, OneTurn, PacersInv, EventsInv, CommitInv, Types', [Next]_vars
             PROVE  CommitInv'
  OBVIOUS
<1> USE DEF CommitInv, CommittedPast, HistoryIsSound
<1>a. /\ generation \in Nat /\ turnCancel \in 0 .. generation /\ live \subseteq 1 .. generation
      /\ history \in Seq(Nat) /\ Len(history) <= HistoryTurns /\ Turns \subseteq Nat
      /\ Len(history') <= HistoryTurns /\ aborted \subseteq Nat
  BY DEF Types, CoreType, TurnType, Turns
<1>b. \A g \in Turns : pacer[g] = "gone" => pacer'[g] = "gone"
  BY GoneForGood
<1>1. CASE Kept
  <2>1. CommittedPast'
    BY <1>a, <1>1 DEF Kept
  <2>2. HistoryIsSound'
    BY <1>a, <1>b, <1>1 DEF Kept
  <2>3. CommittedIsOver'
    BY <1>1, NoReturn DEF Kept, CommittedIsOver
  <2> QED
    BY <2>1, <2>2, <2>3
<1>2. CASE Renewed
  <2>1. \A i \in DOMAIN history : history[i] # generation + 1
    BY <1>a
  <2>2. CommittedPast'
    BY <1>a, <1>2, <2>1 DEF Renewed
  <2>3. HistoryIsSound'
    BY <1>a, <1>b, <1>2, <2>1 DEF Renewed
  <2>4. CommittedIsOver'
    BY <1>2, <2>1 DEF Renewed, CommittedIsOver
  <2> QED
    BY <2>2, <2>3, <2>4
<1>3. CASE Cleared
  <2>1. DOMAIN history' = {}
    BY <1>3, EmptySeq DEF Cleared
  <2> QED
    BY <1>a, <1>3, <2>1 DEF Cleared, CommittedIsOver
<1>4. CASE Committed
  <2>1. generation \in Turns /\ pacer[generation] = "gone"
    BY <1>4 DEF Committed, EventsInv, Truthful
  <2>2. \A i \in DOMAIN history : history[i] < generation
    BY <1>a, <1>4 DEF Committed, CommittedIsOver, InTurn
  <2>3. PICK k \in {0, 1}, n \in Nat :
          /\ DOMAIN history' = 1 .. n + 1
          /\ history'[n + 1] = generation
          /\ \A i \in 1 .. n : i + k \in DOMAIN history /\ history'[i] = history[i + k]
    <3>1. history' = AppendHistory(generation)
      BY <1>4 DEF Committed
    <3>2. \E k \in {0, 1}, n \in Nat :
            /\ DOMAIN AppendHistory(generation) = 1 .. n + 1
            /\ AppendHistory(generation)[n + 1] = generation
            /\ \A i \in 1 .. n : i + k \in DOMAIN history
                                 /\ AppendHistory(generation)[i] = history[i + k]
      BY <1>a, AppendHistoryItems
    <3> QED
      BY <3>1, <3>2, Zenon
  <2>4. \A i \in DOMAIN history' : i = n + 1 \/ i \in 1 .. n
    BY <2>3
  <2>5. DOMAIN history = 1 .. Len(history) /\ Len(history) \in Nat
    BY <1>a, LenProperties
  <2>6. CommittedPast'
    <3>1. \A i \in DOMAIN history' : history'[i] \in 1 .. generation /\ history'[i] # 0
      <4> SUFFICES ASSUME NEW i \in DOMAIN history'
                   PROVE  history'[i] \in 1 .. generation /\ history'[i] # 0
        OBVIOUS
      <4>1. CASE i = n + 1
        BY <1>a, <2>1, <2>3, <4>1 DEF Turns
      <4>2. CASE i \in 1 .. n
        BY <1>a, <2>3, <4>2
      <4> QED
        BY <2>4, <4>1, <4>2
    <3> QED
      BY <1>4, <3>1 DEF Committed
  <2>7. \A i, j \in DOMAIN history' : i < j => history'[i] < history'[j]
    <3> SUFFICES ASSUME NEW i \in DOMAIN history', NEW j \in DOMAIN history', i < j
                 PROVE  history'[i] < history'[j]
      OBVIOUS
    <3>a. i \in Nat /\ j \in Nat /\ k \in Nat
      BY <2>3
    <3>1. i \in 1 .. n /\ i + k \in DOMAIN history
      BY <2>3, <2>4
    <3>2. CASE j = n + 1
      BY <2>2, <2>3, <3>1, <3>2
    <3>3. CASE j \in 1 .. n
      <4>1. j + k \in DOMAIN history
        BY <2>3, <3>3
      <4>2. i + k < j + k
        BY <3>a
      <4> QED
        BY <2>3, <3>1, <3>3, <4>1, <4>2
    <3> QED
      BY <2>4, <3>2, <3>3
  <2>8. HistoryIsSound'
    <3> SUFFICES ASSUME NEW i \in DOMAIN history'
                 PROVE  /\ history'[i] \in Turns \ aborted'
                        /\ pacer'[history'[i]] = "gone"
                        /\ history'[i] \notin live'
      BY <1>a, <2>7
    <3>1. CASE i = n + 1
      BY <1>a, <1>b, <1>4, <2>1, <2>3, <3>1 DEF Committed
    <3>2. CASE i \in 1 .. n
      BY <1>b, <1>4, <2>3, <3>2 DEF Committed
    <3> QED
      BY <2>4, <3>1, <3>2
  <2>9. CommittedIsOver'
    BY <1>4 DEF Committed, CommittedIsOver, InTurn
  <2> QED
    BY <2>6, <2>8, <2>9
<1> QED
  BY <1>1, <1>2, <1>3, <1>4, HistoryMoves

TurnsInv == PacersInv /\ EventsInv /\ CommitInv

LEMMA AlwaysCommitted == Spec => []TurnsInv
<1>1. Init => TurnsInv
  <2> SUFFICES ASSUME Init PROVE TurnsInv
    OBVIOUS
  <2>1. DOMAIN history = {} /\ Len(history) <= HistoryTurns /\ ToSet(events) = {}
    BY NoHistory, EmptySeq DEF Init, ToSet
  <2>2. PacersInv
    BY DEF Init, PacersInv
  <2>3. EventsInv
    BY <2>1 DEF Init, EventsInv
  <2>4. CommitInv
    BY <2>1 DEF Init, CommitInv, CommittedPast, CommittedIsOver, HistoryIsSound
  <2> QED
    BY <2>2, <2>3, <2>4 DEF TurnsInv
<1>2. Types /\ OneTurn /\ TurnsInv /\ Types' /\ [Next]_vars => TurnsInv'
  BY PacersStep, EventsStep, CommitStep DEF TurnsInv
<1> QED
  BY <1>1, <1>2, AlwaysOneTurn, AlwaysTyped, PTL DEF Spec

(* The history holds each completed turn once and in order, and never a turn  *)
(* that an abort interrupted or that is still being answered, for any history *)
(* limit and with late results in every state (HistoryIsSound).               *)
THEOREM HistoryStaysSound == Spec => []HistoryIsSound
<1>1. TurnsInv => HistoryIsSound
  BY DEF TurnsInv, CommitInv
<1> QED
  BY <1>1, AlwaysCommitted, PTL

------------------------------------------------------------------------------
(* What a state waits for.  An event is lost only by being handled.           *)

LEMMA FlightKept ==
  ASSUME Types, [Next]_vars, closing' = "no", NEW e \in InFlight
  PROVE  e \in InFlight' \/ (Handlers /\ sup.pc = "handle" /\ e = sup.ev /\ sup'.pc # "handle")
<1>a. SupType /\ events \in Seq(Event) /\ generation \in Nat /\ Turns \subseteq Nat
      /\ listenTimer \in Nat /\ asrTimer \in Nat
  BY DEF Types, TurnType, EventsType, Turns
<1>b. {"idle", "handle", "hello", "arm", "dial", "posting", "closing", "done"} = PCs
  BY DEF PCs
<1>c. ASSUME NEW x \in Event, Post(x) PROVE ToSet(events) \subseteq ToSet(events')
  <2>1. closing = "no"
    BY StillOpen
  <2> QED
    BY <1>a, <1>c, <2>1, PostedSet DEF CtxDone
<1>d. ASSUME sup' = sup, ToSet(events) \subseteq ToSet(events') PROVE e \in InFlight'
  BY <1>d DEF InFlight
<1>1. CASE Take
  BY <1>a, <1>1, TakenSet DEF Take, InFlight
<1>2. CASE Handlers /\ ~Take
  <2>1. ToSet(events) \subseteq ToSet(events')
    <3>1. CASE DialFails
      BY <1>a, <1>c, <3>1, EvType DEF DialFails, Reasons
    <3>2. CASE ~DialFails
      <4>1. events' = events
        BY <1>2, <3>2 DEF Handlers, HandleHello, HelloDone, DuplicateHello, ListenStart,
           ArmListenTimer, DialOk, PostReleased, ListenStop, Abort, IgnoreText, HandleAudio,
           HandleFinal, HandleFinished, HandleTimeout, HandleError, HandleClose, Dismiss, CloseFor
      <4> QED
        BY <4>1
    <3> QED
      BY <3>1, <3>2
  <2>2. (\E r : GiveUp(r)) \/ \E l \in {"idle", "hello", "arm", "dial", "posting"} : Goto(l)
    BY <1>2 DEF Handlers, HandleHello, HelloDone, DuplicateHello, ListenStart, ArmListenTimer,
       DialOk, DialFails, PostReleased, ListenStop, Abort, IgnoreText, HandleAudio, HandleFinal,
       HandleFinished, HandleTimeout, HandleError, HandleClose, Dismiss, CloseFor
  <2>3. sup'.pc # "handle"
    BY <1>a, <1>b, <2>2, SupMoves DEF GiveUp, SupType
  <2> QED
    BY <1>2, <2>1, <2>3 DEF InFlight
<1>3. CASE Closers
  <2>1. SupExits \/ (events' = events /\ sup' = sup)
    BY <1>3 DEF Closers, SupCloses, Evictor, EvictBegins, EvictMarks, EvictEnds
  <2>2. SupExits => e \in InFlight'
    BY <1>a, <1>b, SupMoves DEF SupExits, InFlight
  <2> QED
    BY <2>1, <2>2, <1>d
<1>4. CASE ReadExit \/ Timers \/ UNCHANGED vars
  <2>1. sup' = sup
    BY <1>4 DEF ReadExit, Timers, HelloTimerFires, ListenTimerFires, AsrTimerFires, vars
  <2>2. \/ events' = events
        \/ Post(Ev("close", 0, "disconnected")) \/ Post(Ev("timeout", 0, "hello timeout"))
        \/ Post(Ev("timeout", listenTimer, "listen timeout"))
        \/ Post(Ev("timeout", asrTimer, "asr timeout"))
    BY <1>4 DEF ReadExit, Timers, HelloTimerFires, ListenTimerFires, AsrTimerFires, vars
  <2>3. \A k \in {"close", "timeout"}, g \in Nat,
           a \in {"disconnected", "hello timeout", "listen timeout", "asr timeout"} :
          Ev(k, g, a) \in Event
    BY EvType DEF Reasons
  <2> QED
    BY <1>a, <1>c, <1>d, <2>1, <2>2, <2>3
<1>5. ASSUME NEW m \in Msgs, Read(m) PROVE e \in InFlight'
  <2>1. Tagged(m) \in Event
    BY EvType DEF Tagged, Msgs, Words, Reasons
  <2>2. Post(Tagged(m)) /\ sup' = sup
    BY <1>5 DEF Read
  <2> QED
    BY <1>c, <1>d, <2>1, <2>2
<1>6. ASSUME NEW g \in Turns, OfTurn(g) PROVE e \in InFlight'
  <2>1. sup' = sup /\ g \in Nat
    BY <1>a, <1>6 DEF OfTurn, AsrResult, AsrCancelled, Answer, OrchFails, DownlinkOverflows,
       OrchFinishesInput, OrchCancelled, Pacer, PacerStarts, PacerFinishes, PacerFails, PacerStopped
  <2>2. /\ \A a \in {"text", "empty"} : Ev("final", g, a) \in Event
        /\ \A a \in {"full", "partial"} : Ev("finished", g, a) \in Event
        /\ Ev("error", g, "error") \in Event
    BY <2>1, EvType DEF Words, Reasons
  <2>3. \/ events' = events \/ Post(Ev("error", g, "error"))
        \/ Post(Ev("final", g, "text")) \/ Post(Ev("final", g, "empty"))
        \/ Post(Ev("finished", g, "full")) \/ Post(Ev("finished", g, "partial"))
    BY <1>6 DEF OfTurn, AsrResult, AsrCancelled, Answer, OrchFails, DownlinkOverflows,
       OrchFinishesInput, OrchCancelled, Pacer, PacerStarts, PacerFinishes, PacerFails, PacerStopped
  <2> QED
    BY <1>c, <1>d, <2>1, <2>2, <2>3
<1> QED
  BY <1>1, <1>2, <1>3, <1>4, <1>5, <1>6, NextCases DEF Handlers

LEMMA FlightPosted ==
  ASSUME Types, closing = "no", NEW e \in Event, Post(e)
  PROVE  e \in InFlight'
<1>1. events \in Seq(Event) /\ ~CtxDone
  BY DEF Types, EventsType, CtxDone
<1> QED
  BY <1>1, PostedSet DEF InFlight

LEMMA TimedStep == Types /\ MatchInv /\ ListeningIsTimed /\ [Next]_vars => ListeningIsTimed'
<1> SUFFICES ASSUME Types, MatchInv, ListeningIsTimed, [Next]_vars, closing' = "no",
                    state' = "Listening", sup'.pc \notin {"arm", "closing"}
             PROVE  IF manualStop'
                    THEN \/ asrTimer' = generation'
                         \/ Ev("timeout", generation', "asr timeout") \in InFlight'
                    ELSE \/ listenTimer' = generation'
                         \/ Ev("timeout", generation', "listen timeout") \in InFlight'
  BY DEF ListeningIsTimed
<1> DEFINE Timed == IF manualStop'
                    THEN \/ asrTimer' = generation'
                         \/ Ev("timeout", generation', "asr timeout") \in InFlight'
                    ELSE \/ listenTimer' = generation'
                         \/ Ev("timeout", generation', "listen timeout") \in InFlight'
<1>a. SupType /\ generation \in Nat /\ listenTimer \in Nat /\ asrTimer \in Nat
  BY DEF Types, TurnType
<1>b. {"idle", "handle", "hello", "arm", "dial", "posting", "closing", "done"} = PCs
  BY DEF PCs
<1>c. closing = "no"
  BY StillOpen
<1>d. ASSUME UNCHANGED <<state, manualStop, generation>>, sup.pc \notin {"arm", "closing"},
             listenTimer' = listenTimer
               \/ (listenTimer # 0 /\ Post(Ev("timeout", listenTimer, "listen timeout"))),
             asrTimer' = asrTimer
               \/ (asrTimer # 0 /\ Post(Ev("timeout", asrTimer, "asr timeout"))),
             sup.pc = "handle" /\ Handlers => sup.ev.kind # "timeout" \/ sup'.pc = "handle"
      PROVE  Timed
  <2>1. \A a \in {"asr timeout", "listen timeout"} :
          Ev("timeout", generation, a) \in InFlight => Ev("timeout", generation, a) \in InFlight'
    <3> SUFFICES ASSUME NEW a \in {"asr timeout", "listen timeout"},
                        Ev("timeout", generation, a) \in InFlight
                 PROVE  Ev("timeout", generation, a) \in InFlight'
      OBVIOUS
    <3>1. Ev("timeout", generation, a).kind = "timeout"
      BY DEF Ev
    <3>2. CASE Ev("timeout", generation, a) \in InFlight'
      BY <3>2
    <3>3. CASE Handlers /\ sup.pc = "handle" /\ Ev("timeout", generation, a) = sup.ev
               /\ sup'.pc # "handle"
      BY <1>d, <3>1, <3>3
    <3> QED
      BY <3>2, <3>3, FlightKept
  <2>2. \A a \in {"asr timeout", "listen timeout"} : Ev("timeout", generation, a) \in Event
    BY <1>a, EvType DEF Reasons
  <2>3. IF manualStop
        THEN asrTimer = generation \/ Ev("timeout", generation, "asr timeout") \in InFlight
        ELSE listenTimer = generation \/ Ev("timeout", generation, "listen timeout") \in InFlight
    BY <1>c, <1>d DEF ListeningIsTimed
  <2>4. asrTimer = generation => asrTimer' = generation
                                 \/ Ev("timeout", generation, "asr timeout") \in InFlight'
    BY <1>c, <1>d, <2>2, FlightPosted
  <2>5. listenTimer = generation => listenTimer' = generation
                                    \/ Ev("timeout", generation, "listen timeout") \in InFlight'
    BY <1>c, <1>d, <2>2, FlightPosted
  <2> QED
    BY <1>d, <2>1, <2>3, <2>4, <2>5
<1>1. CASE Take
  <2>1. /\ UNCHANGED <<state, manualStop, generation, listenTimer, asrTimer>>
        /\ sup.pc = "idle" /\ sup'.pc = "handle"
    BY <1>1 DEF Take, coreVars, turnVars
  <2> QED
    BY <1>d, <2>1
<1>2. CASE ArmListenTimer
  <2>1. ~manualStop' /\ listenTimer' = generation /\ generation' = generation
    BY <1>2, <1>c DEF ArmListenTimer, Armed, MatchInv, ReadingHolds, coreVars
  <2> QED
    BY <2>1
<1>3. CASE ListenStop
  <2>1. manualStop' /\ asrTimer' = generation /\ generation' = generation
    BY <1>3, <1>c DEF ListenStop, Armed, MatchInv, ReadingHolds
  <2> QED
    BY <2>1
<1>4. CASE HelloDone \/ ListenStart \/ Abort
  BY <1>a, <1>b, <1>4, SupMoves DEF HelloDone, ListenStart, Abort
<1>5. CASE DialOk \/ DialFails \/ PostReleased
  <2>1. /\ UNCHANGED <<state, manualStop, generation, listenTimer, asrTimer>>
        /\ sup.pc \in {"dial", "posting"}
    BY <1>5 DEF DialOk, DialFails, PostReleased, coreVars, turnVars
  <2> QED
    BY <1>d, <2>1
<1>6. CASE HandleTimeout
  <2>1. CASE \E r : CloseFor(r)
    BY <1>a, <2>1 DEF CloseFor, GiveUp, SupType
  <2>2. CASE Dismiss /\ ~(sup.ev.arg # "hello timeout" /\ Current /\ sup.seen = "Listening")
    <3>1. /\ UNCHANGED <<state, manualStop, generation, listenTimer, asrTimer>>
          /\ sup.pc = "handle"
      BY <1>6, <2>2 DEF HandleTimeout, Handling, Dismiss, coreVars, turnVars
    <3>2. sup.seen = "Listening"
      BY <1>c, <3>1 DEF MatchInv, ReadingHolds
    <3>3. \A a \in {"asr timeout", "listen timeout"} : Ev("timeout", generation, a) # sup.ev
      <4> SUFFICES ASSUME NEW a \in {"asr timeout", "listen timeout"},
                          Ev("timeout", generation, a) = sup.ev
                   PROVE  FALSE
        OBVIOUS
      <4>a. /\ Ev("timeout", generation, a).gen = generation
            /\ Ev("timeout", generation, a).arg = a
        BY DEF Ev
      <4>1. sup.ev.gen = generation /\ sup.ev.arg = a
        BY <4>a, Zenon
      <4> QED
        BY <2>2, <3>2, <4>1 DEF Current
    <3>4. \A a \in {"asr timeout", "listen timeout"} :
            Ev("timeout", generation, a) \in InFlight => Ev("timeout", generation, a) \in InFlight'
      BY <3>3, FlightKept
    <3>5. IF manualStop
          THEN asrTimer = generation \/ Ev("timeout", generation, "asr timeout") \in InFlight
          ELSE listenTimer = generation \/ Ev("timeout", generation, "listen timeout") \in InFlight
      BY <1>c, <3>1 DEF ListeningIsTimed
    <3> QED
      BY <3>1, <3>4, <3>5
  <2> QED
    BY <1>6, <2>1, <2>2 DEF HandleTimeout
<1>7. CASE \/ HandleHello \/ DuplicateHello \/ IgnoreText \/ HandleAudio \/ HandleFinal
           \/ HandleFinished \/ HandleError \/ HandleClose
  <2>1. sup.pc = "handle" /\ sup.ev.kind # "timeout"
    BY <1>7 DEF HandleHello, DuplicateHello, IgnoreText, HandleAudio, HandleFinal,
       HandleFinished, HandleError, HandleClose, Handling, Text
  <2>2. CASE Dismiss \/ (\E r : CloseFor(r))
    <3>1. UNCHANGED <<state, manualStop, generation, listenTimer, asrTimer>>
      BY <2>2 DEF Dismiss, CloseFor, coreVars, turnVars
    <3> QED
      BY <1>d, <2>1, <3>1
  <2>3. CASE ~Dismiss /\ ~(\E r : CloseFor(r))
    <3>1. UNCHANGED <<state, manualStop, generation, listenTimer, asrTimer>>
      BY <1>7, <2>3 DEF HandleHello, DuplicateHello, IgnoreText, HandleAudio, HandleFinal,
         HandleFinished, HandleError, HandleClose, coreVars, turnVars
    <3> QED
      BY <1>d, <2>1, <3>1
  <2> QED
    BY <2>2, <2>3
<1>8. CASE Closers
  <2>1. SupExits
    BY <1>c, <1>8 DEF Closers, SupCloses, Evictor, EvictBegins, EvictMarks, EvictEnds
  <2> QED
    BY <1>c, <2>1 DEF SupExits, CtxDone, MatchInv, ReadingHolds
<1>9. CASE ReadExit \/ Timers \/ UNCHANGED vars
  <2>1. UNCHANGED <<state, manualStop, generation, sup>>
    BY <1>9 DEF ReadExit, Timers, HelloTimerFires, ListenTimerFires, AsrTimerFires, vars, coreVars
  <2>2. /\ \/ listenTimer' = listenTimer
           \/ listenTimer # 0 /\ Post(Ev("timeout", listenTimer, "listen timeout"))
        /\ \/ asrTimer' = asrTimer
           \/ asrTimer # 0 /\ Post(Ev("timeout", asrTimer, "asr timeout"))
    BY <1>9 DEF ReadExit, Timers, HelloTimerFires, ListenTimerFires, AsrTimerFires, vars, turnVars
  <2> QED
    BY <1>d, <2>1, <2>2
<1>10. ASSUME NEW m \in Msgs, Read(m) PROVE Timed
  <2>1. UNCHANGED <<state, manualStop, generation, listenTimer, asrTimer, sup>>
    BY <1>10 DEF Read, coreVars, turnVars
  <2> QED
    BY <1>d, <2>1
<1>11. ASSUME NEW g \in Turns, OfTurn(g) PROVE Timed
  <2>1. UNCHANGED <<state, manualStop, generation, listenTimer, asrTimer, sup>>
    BY <1>11 DEF OfTurn, AsrResult, AsrCancelled, Answer, OrchFails, DownlinkOverflows,
       OrchFinishesInput, OrchCancelled, Pacer, PacerStarts, TransitionToSpeaking, PacerFinishes,
       PacerFails, PacerStopped, coreVars, turnVars
  <2> QED
    BY <1>d, <2>1
<1> QED
  BY <1>1, <1>2, <1>3, <1>4, <1>5, <1>6, <1>7, <1>8, <1>9, <1>10, <1>11, NextCases DEF Handlers

LEMMA EndStaysPosted ==
  ASSUME Types, MatchInv, [Next]_vars, closing' = "no", InAnswer(state), InAnswer(state'),
         sup'.pc # "closing", generation' = generation, EndIsPosted
  PROVE  EndIsPosted'
<1>1. PICK e \in InFlight : e.gen = generation /\ e.kind \in {"finished", "error"}
  BY DEF EndIsPosted
<1>2. CASE e \in InFlight'
  BY <1>1, <1>2 DEF EndIsPosted
<1>3. CASE Handlers /\ sup.pc = "handle" /\ e = sup.ev /\ sup'.pc # "handle"
  <2>1. sup.ev.gen = generation /\ sup.ev.kind \in {"finished", "error"}
    BY <1>1, <1>3
  <2>2. InAnswer(sup.seen)
    BY <1>3, StillOpen DEF MatchInv, ReadingHolds, InAnswer
  <2>3. HandleFinished \/ HandleError
    BY <1>3, <2>1 DEF Handlers, Take, HandleHello, HelloDone, DuplicateHello, ListenStart,
       ArmListenTimer, DialOk, DialFails, PostReleased, ListenStop, Abort, IgnoreText, HandleAudio,
       HandleFinal, HandleTimeout, HandleClose, Handling, Text
  <2>4. \A r : ~CloseFor(r)
    BY DEF CloseFor, GiveUp, Types, SupType
  <2>5. ~HandleError
    BY <2>1, <2>4 DEF HandleError, Current
  <2>6. ~HandleFinished
    BY <2>1, <2>2, <2>4 DEF HandleFinished, Current, Answering, InAnswer
  <2> QED
    BY <2>3, <2>5, <2>6
<1> QED
  BY <1>2, <1>3, FlightKept

(* How a session comes to answer, or goes on answering, while it is open.     *)
Begun ==
  /\ generation \in Turns /\ orch'[generation] = "running" /\ pacer'[generation] = "waiting"

LEMMA AnswerMoves ==
  ASSUME Types, MatchInv, EventsInv, [Next]_vars, closing' = "no", InAnswer(state'),
         sup'.pc # "closing"
  PROVE  /\ generation' = generation
         /\ \/ Begun
            \/ /\ InAnswer(state) /\ sup.pc # "closing"
               /\ UNCHANGED <<orch, pacer>> \/ \E g \in Turns : OfTurn(g)
<1> USE DEF InAnswer
<1>a. SupType /\ generation \in Nat /\ orch \in [Turns -> {"none", "running", "overflowed", "finished", "failed"}]
      /\ pacer \in [Turns -> {"none", "waiting", "started", "gone"}]
  BY DEF Types, TurnType, GoType
<1>c. closing = "no"
  BY StillOpen
<1>d. \A r : ~CloseFor(r)
  BY <1>a DEF CloseFor, GiveUp, SupType
<1>1. CASE Take \/ ArmListenTimer \/ DialOk \/ DialFails \/ PostReleased
  BY <1>1 DEF Take, ArmListenTimer, DialOk, DialFails, PostReleased, coreVars, goVars
<1>2. CASE HelloDone \/ ListenStart \/ Abort
  BY <1>2 DEF HelloDone, ListenStart, Abort
<1>3. CASE HandleHello
  <2>1. sup.seen = "Connected" /\ sup.pc = "handle" /\ state' = state
    BY <1>3, <1>d DEF HandleHello, Handling, coreVars
  <2> QED
    BY <1>c, <2>1 DEF MatchInv, ReadingHolds
<1>4. CASE ListenStop
  BY <1>4 DEF ListenStop, Text, Handling, goVars
<1>5. CASE HandleFinal
  <2>1. CASE Dismiss
    BY <1>5, <2>1 DEF Dismiss, HandleFinal, Handling, coreVars, goVars
  <2>2. CASE ~Dismiss
    <3>1. /\ sup.pc = "handle" /\ sup.ev.kind = "final" /\ sup.ev.gen = generation
          /\ generation' = generation
          /\ orch' = [orch EXCEPT ![sup.ev.gen] = "running"]
          /\ pacer' = [pacer EXCEPT ![sup.ev.gen] = "waiting"]
      BY <1>5, <2>2 DEF HandleFinal, Handling, Current
    <3>2. generation \in Turns
      BY <3>1 DEF EventsInv, Truthful
    <3> QED
      BY <1>a, <3>1, <3>2 DEF Begun
  <2> QED
    BY <2>1, <2>2
<1>6. CASE HandleFinished
  BY <1>6, <1>d DEF HandleFinished, Dismiss, Handling, coreVars, goVars
<1>7. CASE DuplicateHello \/ IgnoreText \/ HandleAudio \/ HandleTimeout \/ HandleError \/ HandleClose
  <2>1. Dismiss /\ sup.pc = "handle"
    BY <1>7, <1>d DEF DuplicateHello, IgnoreText, HandleAudio, HandleTimeout, HandleError,
       HandleClose, Handling, Text
  <2> QED
    BY <2>1 DEF Dismiss, coreVars, goVars
<1>8. CASE Closers
  <2>1. SupExits
    BY <1>c, <1>8 DEF Closers, SupCloses, Evictor, EvictBegins, EvictMarks, EvictEnds
  <2> QED
    BY <1>c, <2>1 DEF SupExits, CtxDone, MatchInv, ReadingHolds
<1>9. CASE ReadExit \/ Timers \/ UNCHANGED vars
  BY <1>9 DEF ReadExit, Timers, HelloTimerFires, ListenTimerFires, AsrTimerFires, vars,
     coreVars, goVars
<1>10. CASE \E m \in Msgs : Read(m)
  BY <1>10 DEF Read, coreVars, goVars
<1>11. ASSUME NEW g \in Turns, OfTurn(g)
       PROVE  generation' = generation /\ InAnswer(state) /\ sup' = sup
  BY <1>11 DEF OfTurn, AsrResult, AsrCancelled, Answer, OrchFails, DownlinkOverflows,
     OrchFinishesInput, OrchCancelled, Pacer, PacerStarts, TransitionToSpeaking, PacerFinishes,
     PacerFails, PacerStopped, coreVars
<1> QED
  BY <1>1, <1>2, <1>3, <1>4, <1>5, <1>6, <1>7, <1>8, <1>9, <1>10, <1>11, NextCases DEF Handlers

LEMMA PendingStep ==
  Types /\ MatchInv /\ EventsInv /\ FailureIsTold /\ AnswerIsPending /\ [Next]_vars
    => FailureIsTold' /\ AnswerIsPending'
<1> SUFFICES ASSUME Types, MatchInv, EventsInv, FailureIsTold, AnswerIsPending, [Next]_vars,
                    closing' = "no", InAnswer(state'), sup'.pc # "closing"
             PROVE  /\ generation' \in Turns /\ orch'[generation'] = "failed" => EndIsPosted'
                    /\ \/ generation' \in Turns /\ pacer'[generation'] \in {"waiting", "started"}
                       \/ EndIsPosted'
  BY DEF FailureIsTold, AnswerIsPending, InAnswer, EndIsPosted
<1>a. /\ generation \in Nat /\ Turns \subseteq Nat
      /\ orch \in [Turns -> {"none", "running", "overflowed", "finished", "failed"}]
      /\ pacer \in [Turns -> {"none", "waiting", "started", "gone"}]
  BY DEF Types, TurnType, GoType, Turns
<1>b. closing = "no"
  BY StillOpen
<1>c. generation' = generation
  BY AnswerMoves
<1>1. CASE Begun
  BY <1>c, <1>1 DEF Begun
<1>2. CASE InAnswer(state) /\ sup.pc # "closing"
  <2>1. EndIsPosted => EndIsPosted'
    BY <1>c, <1>2, EndStaysPosted
  <2>2. generation \in Turns /\ orch[generation] = "failed" => EndIsPosted
    BY <1>b, <1>2 DEF FailureIsTold
  <2>3. (generation \in Turns /\ pacer[generation] \in {"waiting", "started"}) \/ EndIsPosted
    BY <1>b, <1>2 DEF AnswerIsPending, InAnswer, EndIsPosted
  <2>4. CASE UNCHANGED <<orch, pacer>>
    BY <1>c, <2>1, <2>2, <2>3, <2>4
  <2>5. ASSUME NEW g \in Turns, OfTurn(g)
        PROVE  /\ generation' \in Turns /\ orch'[generation'] = "failed" => EndIsPosted'
               /\ \/ generation' \in Turns /\ pacer'[generation'] \in {"waiting", "started"}
                  \/ EndIsPosted'
    <3>a. g \in Nat /\ Ev("error", g, "error") \in Event
          /\ \A a \in {"full", "partial"} : Ev("finished", g, a) \in Event
      BY <1>a, EvType DEF Words, Reasons
    <3>b. ASSUME g = generation, NEW e \in Event, Post(e), e.gen = g, e.kind \in {"finished", "error"}
          PROVE  EndIsPosted'
      BY <1>b, <1>c, <3>b, FlightPosted DEF EndIsPosted
    <3>c. Active => live = {generation}
      BY <1>b DEF MatchInv, TurnMatchesState
    <3>d. live = {generation}
      BY <1>2, <3>c DEF Active, InAnswer
    <3>e. /\ Ev("error", g, "error").gen = g /\ Ev("error", g, "error").kind = "error"
          /\ \A a \in {"full", "partial"} : Ev("finished", g, a).gen = g
                                            /\ Ev("finished", g, a).kind = "finished"
      BY DEF Ev
    <3>1. CASE g # generation
      <4>1. /\ \A h \in Turns : h # g => orch'[h] = orch[h] /\ pacer'[h] = pacer[h]
        BY <1>a, <2>5 DEF OfTurn, AsrResult, AsrCancelled, Answer, OrchFails, DownlinkOverflows,
           OrchFinishesInput, OrchCancelled, Pacer, PacerStarts, PacerFinishes, PacerFails,
           PacerStopped
      <4> QED
        BY <1>c, <2>1, <2>2, <2>3, <3>1, <4>1
    <3>2. CASE g = generation /\ (AsrResult(g) \/ AsrCancelled(g))
      BY <1>c, <2>1, <2>2, <2>3, <3>2 DEF AsrResult, AsrCancelled
    <3>3. CASE g = generation /\ (OrchFails(g) \/ DownlinkOverflows(g) \/ PacerFails(g))
      <4>1. Post(Ev("error", g, "error"))
        BY <3>3 DEF OrchFails, DownlinkOverflows, PacerFails
      <4> QED
        BY <3>a, <3>b, <3>e, <3>3, <4>1
    <3>4. CASE g = generation /\ PacerFinishes(g)
      <4>1. PICK a \in {"full", "partial"} : Post(Ev("finished", g, a))
        BY <3>4 DEF PacerFinishes
      <4> QED
        BY <3>a, <3>b, <3>e, <3>4, <4>1
    <3>5. CASE g = generation /\ OrchCancelled(g)
      BY <3>d, <3>5 DEF OrchCancelled
    <3>6. CASE g = generation /\ OrchFinishesInput(g)
      <4>1. pacer' = pacer /\ orch'[g] = "finished"
        BY <1>a, <3>6 DEF OrchFinishesInput
      <4> QED
        BY <1>c, <2>1, <2>3, <3>6, <4>1
    <3>7. CASE g = generation /\ PacerStarts(g)
      <4>1. orch' = orch /\ pacer'[g] = "started"
        BY <1>a, <3>7 DEF PacerStarts
      <4> QED
        BY <1>c, <2>1, <2>2, <3>7, <4>1
    <3>8. CASE g = generation /\ PacerStopped(g)
      <4>1. orch[g] = "failed"
        BY <3>d, <3>8 DEF PacerStopped
      <4> QED
        BY <1>c, <2>1, <2>2, <3>8, <4>1
    <3> QED
      BY <2>5, <3>1, <3>2, <3>3, <3>4, <3>5, <3>6, <3>7, <3>8 DEF OfTurn, Answer, Pacer
  <2> QED
    BY <1>2, <2>4, <2>5, AnswerMoves, <1>1
<1> QED
  BY <1>1, <1>2, AnswerMoves

WaitInv == ListeningIsTimed /\ FailureIsTold /\ AnswerIsPending

(* Until somebody closes the session, LISTENING always has its timer running  *)
(* or that timer's event under way, and PROCESSING and SPEAKING have their    *)
(* pacer or the event that ends the turn, whatever arrives in between         *)
(* (NothingForgotten).                                                        *)
THEOREM NothingIsForgotten == Spec => []NothingForgotten
<1>1. Init => WaitInv
  BY DEF Init, WaitInv, ListeningIsTimed, FailureIsTold, AnswerIsPending, InAnswer
<1>2. Types /\ MatchInv /\ TurnsInv /\ WaitInv /\ [Next]_vars => WaitInv'
  BY TimedStep, PendingStep DEF WaitInv, TurnsInv
<1>3. WaitInv => NothingForgotten
  BY DEF WaitInv, NothingForgotten
<1> QED
  BY <1>1, <1>2, <1>3, AlwaysTyped, AlwaysMatched, AlwaysCommitted, PTL DEF Spec

------------------------------------------------------------------------------
(* What a close leaves behind.                                                *)

LEMMA ReleasedIsShort ==
  ASSUME events \in Seq(Event)
  PROVE  Len(Released(events)) <= EventCap
<1> DEFINE n == IF Len(events) > EventCap THEN EventCap ELSE Len(events)
<1>1. n \in Nat /\ n <= EventCap /\ n <= Len(events)
  BY SessionAssumption DEF SessionAssumption
<1>2. Len(SubSeq(events, 1, n)) = n
  <2>1. \A i \in 1 .. n : events[i] \in Event
    BY <1>1
  <2> QED
    BY <1>1, <2>1, SubSeqProperties
<1> QED
  BY <1>1, <1>2 DEF Released

(* Once the session's context is cancelled no turn is live and nobody is      *)
(* blocked in postEvent, neither then nor later: a handler that the close     *)
(* overtook may still open a turn, but opens it cancelled (closeWithReason,   *)
(* postEvent, handleClientTextEvent).                                         *)
NothingHoldsOn == CtxDone => live = {} /\ Len(events) <= EventCap

LEMMA HoldsOnStep == Types /\ NothingHoldsOn /\ [Next]_vars => NothingHoldsOn'
<1> SUFFICES ASSUME Types, NothingHoldsOn, [Next]_vars, closing' = "done"
             PROVE  live' = {} /\ Len(events') <= EventCap
  BY DEF NothingHoldsOn, CtxDone
<1>a. events \in Seq(Event) /\ EventCap \in Nat
  BY SessionAssumption DEF Types, EventsType, SessionAssumption
<1> USE DEF CtxDone
<1>1. CASE SupCloses \/ EvictEnds
  BY <1>1, <1>a, ReleasedIsShort DEF SupCloses, EvictEnds
<1>2. ASSUME ~SupCloses, ~EvictEnds
      PROVE  /\ closing = "done"
             /\ live' \subseteq live
             /\ events' = events \/ (events # << >> /\ events' = Tail(events))
  <2>1. CASE Handlers
    <3>1. closing = "done"
      BY <2>1 DEF Handlers, Take, HandleHello, HelloDone, DuplicateHello, ListenStart,
         ArmListenTimer, DialOk, DialFails, PostReleased, ListenStop, Abort, IgnoreText,
         HandleAudio, HandleFinal, HandleFinished, HandleTimeout, HandleError, HandleClose,
         Dismiss, CloseFor, endVars
    <3> QED
      BY <2>1, <3>1 DEF Handlers, Take, HandleHello, HelloDone, DuplicateHello, ListenStart,
         ArmListenTimer, DialOk, DialFails, PostReleased, ListenStop, Abort, IgnoreText,
         HandleAudio, HandleFinal, HandleFinished, HandleTimeout, HandleError, HandleClose,
         Dismiss, CloseFor, turnVars, CancelTurn, Post
  <2>2. CASE SupExits \/ EvictBegins \/ EvictMarks \/ ReadExit \/ Timers \/ UNCHANGED vars
    BY <2>2 DEF SupExits, EvictBegins, EvictMarks, ReadExit, Timers, HelloTimerFires,
       ListenTimerFires, AsrTimerFires, vars, turnVars, endVars, Post
  <2>3. ASSUME NEW m \in Msgs, Read(m)
        PROVE  closing = "done" /\ live' = live /\ events' = events
    BY <2>3 DEF Read, turnVars, endVars, Post
  <2>4. ASSUME NEW g \in Turns, OfTurn(g)
        PROVE  closing = "done" /\ live' = live /\ events' = events
    BY <2>4 DEF OfTurn, AsrResult, AsrCancelled, Answer, OrchFails, DownlinkOverflows,
       OrchFinishesInput, OrchCancelled, Pacer, PacerStarts, PacerFinishes, PacerFails,
       PacerStopped, turnVars, endVars, Post
  <2> QED
    BY <1>2, <2>1, <2>2, <2>3, <2>4, NextCases DEF Closers, Evictor
<1>3. CASE ~SupCloses /\ ~EvictEnds
  <2>1. live = {} /\ Len(events) <= EventCap
    BY <1>2, <1>3 DEF NothingHoldsOn
  <2>2. events # << >> /\ events' = Tail(events) => Len(events') = Len(events) - 1
    BY <1>a
  <2> QED
    BY <1>2, <1>3, <1>a, <2>1, <2>2
<1> QED
  BY <1>1, <1>3

(* So every goroutine of a closed session finds its way out: a reader of      *)
(* results, an orchestrator and a pacer see their turn cancelled, the read    *)
(* loop is not blocked, and the supervisor can leave its own post.            *)
THEOREM CloseReleasesAll == Spec => []NothingHoldsOn
<1>1. Init => NothingHoldsOn
  BY DEF Init, NothingHoldsOn, CtxDone
<1> QED
  BY <1>1, HoldsOnStep, AlwaysTyped, PTL DEF Spec
=============================================================================
