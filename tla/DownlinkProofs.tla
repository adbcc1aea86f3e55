--------------------------- MODULE DownlinkProofs ---------------------------
(***************************************************************************)
(* Proofs about Downlink, for any number of turns, sentences and packets   *)
(* and any capacity of the queues: the types, the bound on what a          *)
(* superseded turn still says, the order of an answer, that what is        *)
(* committed was sent, and that SPEAKING is announced and ended once.      *)
(***************************************************************************)
EXTENDS Downlink, SequenceTheorems, FiniteSetTheorems, TLAPS

(* The variables in groups that actions leave alone together, with what the   *)
(* types rest on: only a turn that has begun speaks or is stopped.            *)
ControlType ==
  /\ state \in {"Ready", "Processing", "Speaking", "Closed"}
  /\ generation \in 0 .. MaxGen /\ live \subseteq {generation} /\ sPacer \in 0 .. MaxGen
  /\ state \in {"Processing", "Speaking"} => generation \in Gens
  /\ sup \in [pc : {"idle", "stop", "drain", "tell", "fail", "close"}, gen : 0 .. MaxGen,
              was : BOOLEAN, p : 0 .. MaxGen]
  /\ sup.was => sup.gen \in Gens
  /\ sup.pc = "tell" => sup.was
  /\ sup.p # 0 => sup.pc \in {"drain", "fail", "close"}

PostType == posts \in Seq({Event(k, g) : k \in {"finished", "error"}, g \in Gens})

OrchType ==
  /\ orch \in [Gens -> [pc : {"none", "create", "check", "send", "speak", "finish",
                              "await", "stop", "cancel", "done"}, n : 1 .. Sentences + 1]]
  /\ fed \in [Gens -> 0 .. Sentences]
  /\ \A g \in Gens : orch[g].pc \in {"send", "speak"} => orch[g].n <= Sentences

ConsType ==
  /\ cons \in [Gens -> [pc : {"none", "next", "put", "push", "done", "failed"},
                        n : 0 .. Sentences * Packets]]
  /\ \A g \in Gens : cons[g].pc \in {"put", "push"} => cons[g].n # 0

InHand == {"check", "start", "startsend", "speak", "recheck", "send", "push"}

PacerType ==
  /\ pacer \in [Gens -> [pc : {"none", "idle", "check", "start", "startsend", "speak",
                               "recheck", "send", "push", "tick", "finish", "gone"},
                         p : 0 .. Sentences * Packets]]
  /\ \A g \in Gens : pacer[g].pc \in InHand => pacer[g].p \in AllPackets

PacketsType ==
  packets \in [Gens -> Seq(AllPackets)] /\ \A g \in Gens : Len(packets[g]) <= PacerCap

FlagType == {hasSentStart, stopped, cancelled, inputDone} \subseteq [Gens -> BOOLEAN]

OutType ==
  /\ queue \in Seq(Messages) /\ Len(queue) <= WriterCap /\ wClosed \in BOOLEAN
  /\ device \subseteq Messages

HistoryType == history \in Seq(Gens)

AuxType ==
  /\ late \in [Gens -> [orch : Nat, pacer : Nat]]
  /\ spoke \subseteq Gens /\ stops \in [Gens -> Nat]

Types ==
  /\ ControlType /\ PostType /\ OrchType /\ ConsType /\ PacerType /\ PacketsType
  /\ FlagType /\ OutType /\ HistoryType /\ AuxType

LEMMA Numbers ==
  /\ MaxGen \in Nat \ {0} /\ Sentences \in Nat \ {0} /\ Packets \in Nat \ {0}
  /\ PacerCap \in Nat \ {0} /\ WriterCap \in Nat \ {0}
  BY DownlinkAssumption DEF DownlinkAssumption

LEMMA NextCases ==
  ASSUME [Next]_vars
  PROVE  \/ NewTurn \/ AbortCancels \/ PeerCloses \/ Supervisor \/ Write \/ WriteFails
         \/ UNCHANGED vars
         \/ \E g \in Gens : Orchestrator(g) \/ Consumer(g) \/ Pacer(g)
  BY DEF Next

LEMMA TypesInit == Init => Types
<1> SUFFICES ASSUME Init PROVE Types
  OBVIOUS
<1> USE Numbers DEF Init
<1>1. << >> \in Seq(Gens) /\ << >> \in Seq(AllPackets) /\ << >> \in Seq(Messages)
      /\ << >> \in Seq({Event(k, g) : k \in {"finished", "error"}, g \in Gens})
      /\ Len(<< >>) = 0
  BY EmptySeq
<1>2. ControlType
  BY DEF ControlType
<1>3. Sentences * Packets \in Nat
  OBVIOUS
<1>4. OrchType
  BY DEF OrchType
<1>5. ConsType
  BY <1>3 DEF ConsType
<1>6. PacerType
  BY <1>3 DEF PacerType, InHand
<1>7. PacketsType
  BY <1>1 DEF PacketsType
<1>8. FlagType /\ AuxType
  BY DEF FlagType, AuxType
<1>9. PostType /\ HistoryType
  BY <1>1 DEF PostType, HistoryType
<1>10. OutType
  <2>a. queue = << >>
    OBVIOUS
  <2>1. queue \in Seq(Messages) /\ Len(queue) = 0
    BY ONLY <1>1, <2>a
  <2>2. Len(queue) <= WriterCap
    BY <2>1
  <2>3. wClosed \in BOOLEAN /\ device \subseteq Messages
    OBVIOUS
  <2> QED
    BY <2>1, <2>2, <2>3 DEF OutType
<1> QED
  BY <1>10, <1>2, <1>4, <1>5, <1>6, <1>7, <1>8, <1>9 DEF Types

LEMMA ControlStep == ControlType /\ [Next]_vars => ControlType'
<1> SUFFICES ASSUME ControlType, [Next]_vars PROVE ControlType'
  OBVIOUS
<1> USE Numbers DEF ControlType, Gens
<1>a. ASSUME NEW pc \in {"drain", "fail", "close"}, StopSessionPacer(pc),
             UNCHANGED <<state, generation, live>>, pc = "drain" => sup.pc # "tell"
      PROVE  ControlType'
  <2>1. sPacer' = 0 /\ sup' = [sup EXCEPT !.pc = pc, !.p = sPacer]
    BY <1>a DEF StopSessionPacer
  <2>2. sup' = [pc |-> pc, gen |-> sup.gen, was |-> sup.was, p |-> sPacer]
    BY <2>1
  <2> QED
    BY <1>a, <2>1, <2>2
<1>1. CASE NewTurn
  BY <1>1 DEF NewTurn
<1>2. CASE AbortCancels
  <2>1. /\ generation' = generation + 1 /\ generation < MaxGen /\ live' = {} /\ state' = "Ready"
        /\ sPacer' = sPacer
        /\ sup' = [pc |-> "stop", gen |-> generation, was |-> MustTell(state), p |-> 0]
    BY <1>2 DEF AbortCancels
  <2>2. MustTell(state) \in BOOLEAN /\ (MustTell(state) => generation \in Gens)
    BY DEF MustTell
  <2> QED
    BY <2>1, <2>2
<1>3. CASE PeerCloses
  BY <1>3, <1>a DEF PeerCloses
<1>4. CASE AbortStopsPacer
  BY <1>4, <1>a DEF AbortStopsPacer, SupAt
<1>5. CASE AbortDrains \/ AbortTells
  BY <1>5 DEF AbortDrains, AbortTells, SupGoto, SupAt
<1>6. CASE FinishSilently
  BY <1>6 DEF FinishSilently, DismissPacer
<1>7. CASE FinishSpeaking
  <2>1. CASE StopSessionPacer("close") /\ UNCHANGED <<state, generation, live>>
    BY <1>a, <2>1
  <2>2. CASE ~(StopSessionPacer("close") /\ UNCHANGED <<state, generation, live>>)
    BY <1>7, <2>2 DEF FinishSpeaking, DismissPacer
  <2> QED
    BY <2>1, <2>2
<1>8. CASE ErrorStopsPacer \/ ErrorTells \/ CloseSession \/ SupCancels
  <2>1. CASE ErrorStopsPacer \/ ErrorTells
    BY <1>a, <2>1 DEF ErrorStopsPacer, ErrorTells
  <2>2. CASE CloseSession
    BY <2>2 DEF CloseSession, SupAt, SupGoto
  <2>3. CASE SupCancels
    BY <2>3 DEF SupCancels
  <2> QED
    BY <1>8, <2>1, <2>2, <2>3
<1>9. CASE DropStale \/ Write \/ WriteFails \/ UNCHANGED vars
  BY <1>9 DEF DropStale, Write, WriteFails, vars, supVars
<1>10. ASSUME NEW g \in Gens, Orchestrator(g) \/ Consumer(g) PROVE ControlType'
  BY <1>10 DEF Orchestrator, OrchCreate, OrchCreateFails, OrchCheck, OrchGivesUp, OrchSend,
     OrchSpeak, OrchFinish, OrchFinishInput, OrchHearsError, OrchStops, OrchCancels, Consumer,
     ConsNext, ConsEnds, ConsPut, ConsPush, supVars
<1>11. ASSUME NEW g \in Gens, Pacer(g) PROVE ControlType'
  BY <1>11 DEF Pacer, PacerTakes, PacerExits, PacerChecks, PacerClaimsStart, PacerSendsStart,
     TransitionToSpeaking, Announces, PacerRechecks, PacerSends, PacerPushes, PacerTicks,
     PacerFinishes, supVars
<1> QED
  BY <1>1, <1>2, <1>3, <1>4, <1>5, <1>6, <1>7, <1>8, <1>9, <1>10, <1>11, NextCases DEF Supervisor

LEMMA PostStep == PostType /\ ControlType /\ [Next]_vars => PostType'
<1> DEFINE E == {Event(k, g) : k \in {"finished", "error"}, g \in Gens}
<1> SUFFICES ASSUME posts \in Seq(E), ControlType, [Next]_vars PROVE posts' \in Seq(E)
  BY DEF PostType
<1>a. ASSUME NEW k \in {"finished", "error"}, NEW g \in Gens, Post(Event(k, g))
      PROVE  posts' \in Seq(E)
  <2>1. Event(k, g) \in E
    OBVIOUS
  <2> HIDE DEF E
  <2> QED
    BY <1>a, <2>1 DEF Post
<1>b. ASSUME posts # << >>, posts' = Tail(posts) PROVE posts' \in Seq(E)
  <2> HIDE DEF E
  <2> QED
    BY <1>b
<1> HIDE DEF E
<1>1. CASE NewTurn \/ AbortCancels \/ PeerCloses \/ Write \/ WriteFails \/ UNCHANGED vars
  BY <1>1 DEF NewTurn, AbortCancels, PeerCloses, Write, WriteFails, vars
<1>2. CASE Supervisor
  BY <1>2, <1>b DEF Supervisor, AbortStopsPacer, AbortDrains, AbortTells, DropStale, FinishSilently,
     FinishSpeaking, ErrorStopsPacer, ErrorTells, CloseSession, SupCancels, Pending
<1>3. ASSUME NEW g \in Gens, Orchestrator(g) PROVE posts' \in Seq(E)
  BY <1>3, <1>a DEF Orchestrator, OrchCreate, OrchCreateFails, OrchCheck, OrchGivesUp, OrchSend,
     OrchSpeak, OrchFinish, OrchFinishInput, OrchHearsError, OrchStops, OrchCancels
<1>4. ASSUME NEW g \in Gens, Consumer(g) PROVE posts' \in Seq(E)
  BY <1>4, <1>a DEF Consumer, ConsNext, ConsEnds, ConsPut, ConsPush, Overflow
<1>5. ASSUME NEW g \in Gens, Pacer(g) PROVE posts' \in Seq(E)
  BY <1>5, <1>a DEF Pacer, PacerTakes, PacerExits, PacerChecks, PacerClaimsStart, PacerSendsStart,
     TransitionToSpeaking, PacerRechecks, PacerSends, PacerPushes, PacerTicks, PacerFinishes
<1> QED
  BY <1>1, <1>2, <1>3, <1>4, <1>5, NextCases

(* What the supervisor and the writer leave to the goroutines of the turns.   *)
LEMMA OthersTouch ==
  ASSUME NewTurn \/ AbortCancels \/ PeerCloses \/ Supervisor \/ Write \/ WriteFails
         \/ UNCHANGED vars
  PROVE  /\ UNCHANGED <<fed, cons, pacer, hasSentStart, inputDone>>
         /\ orch' = orch \/ (generation' = generation + 1 /\ generation < MaxGen
                               /\ orch' = [orch EXCEPT ![generation'].pc = "create"])
         /\ stopped' = stopped \/ stopped' = [stopped EXCEPT ![sPacer] = TRUE]
         /\ \/ UNCHANGED <<cancelled, packets>>
            \/ \E g \in {sPacer, sup.p} : /\ cancelled' = [cancelled EXCEPT ![g] = TRUE]
                                         /\ packets' = [packets EXCEPT ![g] = << >>]
  BY DEF NewTurn, AbortCancels, PeerCloses, Supervisor, Write, WriteFails, vars, AbortStopsPacer,
     AbortDrains, AbortTells, DropStale, FinishSilently, FinishSpeaking, ErrorStopsPacer,
     ErrorTells, CloseSession, SupCancels, StopSessionPacer, MarkStopped, DismissPacer, CancelPacer,
     turnVars, pacerVars, SupAt

LEMMA OrchStep == OrchType /\ ControlType /\ [Next]_vars => OrchType'
<1> SUFFICES ASSUME OrchType, ControlType, [Next]_vars PROVE OrchType'
  OBVIOUS
<1> USE Numbers DEF OrchType
<1>1. CASE NewTurn \/ AbortCancels \/ PeerCloses \/ Supervisor \/ Write \/ WriteFails
           \/ UNCHANGED vars
  <2>1. fed' = fed
    BY <1>1, OthersTouch
  <2>2. CASE orch' = orch
    BY <2>1, <2>2
  <2>3. CASE /\ generation' = generation + 1 /\ generation < MaxGen
             /\ orch' = [orch EXCEPT ![generation'].pc = "create"]
    <3>1. generation' \in Gens
      BY <2>3 DEF ControlType, Gens
    <3> QED
      BY <2>1, <2>3, <3>1
  <2> QED
    BY <1>1, <2>2, <2>3, OthersTouch
<1>2. ASSUME NEW g \in Gens, Consumer(g) \/ Pacer(g) PROVE OrchType'
  BY <1>2 DEF Consumer, ConsNext, ConsEnds, ConsPut, ConsPush, Pacer, PacerTakes, PacerExits,
     PacerChecks, PacerClaimsStart, PacerSendsStart, TransitionToSpeaking, PacerRechecks,
     PacerSends, PacerPushes, PacerTicks, PacerFinishes, turnVars
<1>3. ASSUME NEW g \in Gens, Orchestrator(g) PROVE OrchType'
  <2>1. CASE OrchSpeak(g)
    <3>1. orch[g].n \in 1 .. Sentences
      BY <2>1 DEF OrchSpeak, OrchAt
    <3> QED
      BY <2>1, <3>1 DEF OrchSpeak, OrchAt
  <2>2. CASE OrchCheck(g)
    BY <2>2 DEF OrchCheck, OrchAt, OrchGoto
  <2>3. CASE OrchSend(g)
    BY <2>3 DEF OrchSend, OrchAt, OrchGoto
  <2>4. CASE \/ OrchCreate(g) \/ OrchCreateFails(g) \/ OrchGivesUp(g) \/ OrchFinish(g)
             \/ OrchFinishInput(g) \/ OrchHearsError(g) \/ OrchStops(g) \/ OrchCancels(g)
    <3>1. fed' = fed /\ \E l \in {"check", "stop", "cancel", "done", "await"} : OrchGoto(g, l)
      BY <2>4 DEF OrchCreate, OrchCreateFails, OrchGivesUp, OrchFinish, OrchFinishInput,
         OrchHearsError, OrchStops, OrchCancels
    <3> QED
      BY <3>1 DEF OrchGoto
  <2> QED
    BY <1>3, <2>1, <2>2, <2>3, <2>4 DEF Orchestrator
<1> QED
  BY <1>1, <1>2, <1>3, NextCases

LEMMA Product ==
  ASSUME NEW f \in 0 .. Sentences
  PROVE  f * Packets \in Nat /\ f * Packets <= Sentences * Packets
<1>1. Sentences - f \in Nat /\ Packets \in Nat
  BY Numbers
<1>2. (Sentences - f) * Packets \in Nat
  BY <1>1
<1>3. (Sentences - f) * Packets = Sentences * Packets - f * Packets
  BY Numbers
<1> QED
  BY <1>1, <1>2, <1>3, Numbers

LEMMA ConsStep == ConsType /\ OrchType /\ [Next]_vars => ConsType'
<1> SUFFICES ASSUME ConsType, OrchType, [Next]_vars PROVE ConsType'
  OBVIOUS
<1>a. Sentences * Packets \in Nat
  BY Numbers
<1> USE <1>a DEF ConsType
<1>1. CASE NewTurn \/ AbortCancels \/ PeerCloses \/ Supervisor \/ Write \/ WriteFails
           \/ UNCHANGED vars
  BY <1>1, OthersTouch
<1>2. ASSUME NEW g \in Gens, Pacer(g) PROVE ConsType'
  BY <1>2 DEF Pacer, PacerTakes, PacerExits, PacerChecks, PacerClaimsStart, PacerSendsStart,
     TransitionToSpeaking, PacerRechecks, PacerSends, PacerPushes, PacerTicks, PacerFinishes,
     turnVars
<1>3. ASSUME NEW g \in Gens, Orchestrator(g) PROVE ConsType'
  <2>1. CASE OrchCreate(g)
    BY <2>1 DEF OrchCreate
  <2>2. CASE ~OrchCreate(g)
    BY <1>3, <2>2 DEF Orchestrator, OrchCreateFails, OrchCheck, OrchGivesUp, OrchSend, OrchSpeak,
       OrchFinish, OrchFinishInput, OrchHearsError, OrchStops, OrchCancels
  <2> QED
    BY <2>1, <2>2
<1>4. ASSUME NEW g \in Gens, Consumer(g) PROVE ConsType'
  <2>1. CASE ConsNext(g)
    <3>1. fed[g] \in 0 .. Sentences
      BY DEF OrchType
    <3>2. fed[g] * Packets \in Nat /\ fed[g] * Packets <= Sentences * Packets
      BY <3>1, Product
    <3> DEFINE m == fed[g] * Packets
               M == Sentences * Packets
    <3>3. cons[g].n \in 0 .. M /\ cons[g].n < m /\ m \in Nat /\ m <= M /\ M \in Nat
      BY <2>1, <3>2 DEF ConsNext
    <3>4. cons[g].n + 1 \in 0 .. M /\ cons[g].n + 1 # 0
      <4> HIDE DEF m, M
      <4> QED
        BY <3>3
    <3>5. cons' = [cons EXCEPT ![g] = [pc |-> "put", n |-> cons[g].n + 1]]
      BY <2>1 DEF ConsNext
    <3> QED
      BY <3>4, <3>5
  <2>2. CASE ConsEnds(g) \/ ConsPush(g)
    <3>1. \E l \in {"done", "failed", "next"} : ConsGoto(g, l)
      BY <2>2 DEF ConsEnds, ConsPush
    <3> QED
      BY <3>1 DEF ConsGoto
  <2>3. CASE ConsPut(g)
    BY <2>3 DEF ConsPut, ConsGoto
  <2> QED
    BY <1>4, <2>1, <2>2, <2>3 DEF Consumer
<1> QED
  BY <1>1, <1>2, <1>3, <1>4, NextCases

LEMMA PacketsStep == PacketsType /\ ConsType /\ ControlType /\ [Next]_vars => PacketsType'
<1> SUFFICES ASSUME PacketsType, ConsType, ControlType, [Next]_vars PROVE PacketsType'
  OBVIOUS
<1>a. << >> \in Seq(AllPackets) /\ Len(<< >>) = 0 /\ PacerCap \in Nat
  BY EmptySeq, Numbers
<1> USE DEF PacketsType
<1>b. ASSUME NEW h, packets' = [packets EXCEPT ![h] = << >>] PROVE PacketsType'
  <2>1. \A g \in Gens : packets'[g] = packets[g] \/ packets'[g] = << >>
    BY <1>b
  <2>2. ASSUME NEW g \in Gens
        PROVE  packets'[g] \in Seq(AllPackets) /\ Len(packets'[g]) <= PacerCap
    <3>1. CASE packets'[g] = packets[g]
      BY <3>1
    <3>2. CASE packets'[g] = << >>
      <4>1. Len(packets'[g]) = 0 /\ packets'[g] \in Seq(AllPackets)
        BY ONLY <1>a, <3>2
      <4> QED
        BY <1>a, <4>1
    <3> QED
      BY <2>1, <3>1, <3>2
  <2>3. packets' \in [Gens -> Seq(AllPackets)]
    BY <1>a, <1>b
  <2> QED
    BY <2>2, <2>3
<1>1. CASE NewTurn \/ AbortCancels \/ PeerCloses \/ Supervisor \/ Write \/ WriteFails
           \/ UNCHANGED vars
  BY <1>1, <1>b, OthersTouch
<1>2. ASSUME NEW g \in Gens, Orchestrator(g) PROVE PacketsType'
  BY <1>2, <1>b DEF Orchestrator, OrchCreate, OrchCreateFails, OrchCheck, OrchGivesUp, OrchSend,
     OrchSpeak, OrchFinish, OrchFinishInput, OrchHearsError, OrchStops, OrchCancels, MarkStopped,
     CancelPacer, pacerVars
<1>3. ASSUME NEW g \in Gens, Consumer(g) PROVE PacketsType'
  <2>1. CASE packets' = packets
    BY <2>1
  <2>2. CASE packets' # packets
    <3>1. /\ packets' = [packets EXCEPT ![g] = Append(@, cons[g].n)]
          /\ Len(packets[g]) < PacerCap /\ cons[g].pc = "push"
      BY <1>3, <2>2 DEF Consumer, ConsNext, ConsEnds, ConsPut, ConsPush, pacerVars
    <3>2. cons[g].n \in AllPackets
      BY <3>1, Numbers DEF ConsType, AllPackets
    <3>3. /\ Append(packets[g], cons[g].n) \in Seq(AllPackets)
          /\ Len(Append(packets[g], cons[g].n)) = Len(packets[g]) + 1
      BY <3>2, AppendProperties
    <3>4. Len(packets[g]) + 1 <= PacerCap
      BY <1>a, <3>1, LenProperties
    <3>5. \A h \in Gens : packets'[h] = IF h = g THEN Append(packets[g], cons[g].n) ELSE packets[h]
      BY <3>1
    <3>6. packets' \in [Gens -> Seq(AllPackets)]
      BY <3>1, <3>3
    <3> QED
      BY <3>3, <3>4, <3>5, <3>6
  <2> QED
    BY <2>1, <2>2
<1>4. ASSUME NEW g \in Gens, Pacer(g) PROVE PacketsType'
  <2>1. CASE PacerTakes(g)
    <3>1. packets' = [packets EXCEPT ![g] = Tail(@)] /\ packets[g] # << >>
      BY <2>1 DEF PacerTakes
    <3>2. Tail(packets[g]) \in Seq(AllPackets) /\ Len(Tail(packets[g])) = Len(packets[g]) - 1
      BY <3>1, HeadTailProperties
    <3>3. Len(packets[g]) - 1 <= PacerCap
      BY <1>a, LenProperties
    <3>5. \A h \in Gens : packets'[h] = IF h = g THEN Tail(packets[g]) ELSE packets[h]
      BY <3>1
    <3>6. packets' \in [Gens -> Seq(AllPackets)]
      BY <3>1, <3>2
    <3> QED
      BY <3>2, <3>3, <3>5, <3>6
  <2>2. CASE ~PacerTakes(g)
    BY <1>4, <1>b, <2>2 DEF Pacer, PacerExits, PacerChecks, PacerClaimsStart, PacerSendsStart,
       TransitionToSpeaking, PacerRechecks, PacerSends, PacerPushes, PacerTicks, PacerFinishes
  <2> QED
    BY <2>1, <2>2
<1> QED
  BY <1>1, <1>2, <1>3, <1>4, NextCases

LEMMA PacerStep == PacerType /\ PacketsType /\ [Next]_vars => PacerType'
<1> SUFFICES ASSUME PacerType, PacketsType, [Next]_vars PROVE PacerType'
  OBVIOUS
<1>a. Sentences * Packets \in Nat
  BY Numbers
<1> USE <1>a DEF PacerType, InHand
<1>1. CASE NewTurn \/ AbortCancels \/ PeerCloses \/ Supervisor \/ Write \/ WriteFails
           \/ UNCHANGED vars
  BY <1>1, OthersTouch
<1>2. ASSUME NEW g \in Gens, Consumer(g) PROVE PacerType'
  BY <1>2 DEF Consumer, ConsNext, ConsEnds, ConsPut, ConsPush, pacerVars
<1>3. ASSUME NEW g \in Gens, Orchestrator(g) PROVE PacerType'
  <2>1. pacer' = pacer \/ pacer' = [pacer EXCEPT ![g].pc = "idle"]
    BY <1>3 DEF Orchestrator, OrchCreate, OrchCreateFails, OrchCheck, OrchGivesUp, OrchSend,
       OrchSpeak, OrchFinish, OrchFinishInput, OrchHearsError, OrchStops, OrchCancels, MarkStopped,
       CancelPacer, pacerVars
  <2> QED
    BY <2>1
<1>4. ASSUME NEW g \in Gens, Pacer(g) PROVE PacerType'
  <2>1. CASE PacerTakes(g)
    <3>1. packets[g] \in Seq(AllPackets) /\ packets[g] # << >>
          /\ pacer' = [pacer EXCEPT ![g] = [pc |-> "check", p |-> Head(packets[g])]]
      BY <2>1 DEF PacerTakes, PacketsType
    <3>2. Head(packets[g]) \in AllPackets
      BY <3>1, HeadTailProperties
    <3>3. Head(packets[g]) \in 0 .. Sentences * Packets
      BY <3>2 DEF AllPackets
    <3> QED
      BY <3>1, <3>2, <3>3
  <2>2. CASE ~PacerTakes(g)
    <3>1. \/ \E l \in {"idle", "tick", "finish", "gone"} : PacerGoto(g, l)
          \/ /\ pacer[g].pc \in InHand
             /\ \E l \in {"start", "startsend", "speak", "recheck", "send", "push"} : PacerGoto(g, l)
      BY <1>4, <2>2 DEF Pacer, PacerExits, PacerChecks, PacerClaimsStart, PacerSendsStart,
         TransitionToSpeaking, PacerRechecks, PacerSends, PacerPushes, PacerTicks, PacerFinishes,
         PacerAt
    <3> QED
      BY <3>1 DEF PacerGoto
  <2> QED
    BY <2>1, <2>2
<1> QED
  BY <1>1, <1>2, <1>3, <1>4, NextCases

LEMMA FlagStep == FlagType /\ [Next]_vars => FlagType'
<1> SUFFICES ASSUME FlagType, [Next]_vars PROVE FlagType'
  OBVIOUS
<1>a. /\ hasSentStart \in [Gens -> BOOLEAN] /\ stopped \in [Gens -> BOOLEAN]
      /\ cancelled \in [Gens -> BOOLEAN] /\ inputDone \in [Gens -> BOOLEAN]
  BY DEF FlagType
<1>b. SUFFICES /\ hasSentStart' \in [Gens -> BOOLEAN] /\ stopped' \in [Gens -> BOOLEAN]
               /\ cancelled' \in [Gens -> BOOLEAN] /\ inputDone' \in [Gens -> BOOLEAN]
  BY DEF FlagType
<1>1. CASE NewTurn \/ AbortCancels \/ PeerCloses \/ Supervisor \/ Write \/ WriteFails
           \/ UNCHANGED vars
  BY <1>a, <1>1, OthersTouch
<1>2. ASSUME NEW g \in Gens, Consumer(g)
      PROVE  UNCHANGED <<hasSentStart, stopped, cancelled, inputDone>>
  BY <1>2 DEF Consumer, ConsNext, ConsEnds, ConsPut, ConsPush, pacerVars
<1>3. ASSUME NEW g \in Gens, Orchestrator(g)
      PROVE  /\ hasSentStart' = hasSentStart
             /\ stopped' = stopped \/ stopped' = [stopped EXCEPT ![g] = TRUE]
             /\ cancelled' = cancelled \/ cancelled' = [cancelled EXCEPT ![g] = TRUE]
             /\ inputDone' = inputDone \/ inputDone' = [inputDone EXCEPT ![g] = TRUE]
  BY <1>3 DEF Orchestrator, OrchCreate, OrchCreateFails, OrchCheck, OrchGivesUp, OrchSend,
     OrchSpeak, OrchFinish, OrchFinishInput, OrchHearsError, OrchStops, OrchCancels, MarkStopped,
     CancelPacer, pacerVars
<1>4. ASSUME NEW g \in Gens, Pacer(g)
      PROVE  /\ UNCHANGED <<stopped, cancelled, inputDone>>
             /\ \/ hasSentStart' = hasSentStart
                \/ hasSentStart' = [hasSentStart EXCEPT ![g] = ~stopped[g]]
  BY <1>4 DEF Pacer, PacerTakes, PacerExits, PacerChecks, PacerClaimsStart, PacerSendsStart,
     TransitionToSpeaking, PacerRechecks, PacerSends, PacerPushes, PacerTicks, PacerFinishes
<1>5. \A g \in Gens : (~stopped[g]) \in BOOLEAN
  BY Zenon
<1> QED
  BY <1>a, <1>1, <1>2, <1>3, <1>4, <1>5, NextCases

LEMMA EnqueueType ==
  ASSUME OutType, NEW m \in Messages, Accepts, queue' = Append(queue, m),
         wClosed' \in BOOLEAN, device' = device
  PROVE  OutType'
<1>1. Len(queue) \in Nat /\ Len(queue) < WriterCap
  BY LenProperties DEF OutType, Accepts, HasRoom
<1>2. Append(queue, m) \in Seq(Messages) /\ Len(Append(queue, m)) = Len(queue) + 1
  BY AppendProperties DEF OutType
<1>3. Len(queue') <= WriterCap
  BY <1>1, <1>2, Numbers
<1> QED
  BY <1>2, <1>3 DEF OutType

LEMMA DrainType == OutType /\ queue' = << >> /\ wClosed' \in BOOLEAN /\ device' = device => OutType'
<1> SUFFICES ASSUME OutType, queue' = << >>, wClosed' \in BOOLEAN, device' = device PROVE OutType'
  OBVIOUS
<1>1. << >> \in Seq(Messages) /\ Len(<< >>) = 0
  BY EmptySeq
<1>2. queue' \in Seq(Messages) /\ Len(queue') = 0
  BY <1>1
<1> QED
  BY <1>2, Numbers DEF OutType

LEMMA MessageTypes ==
  /\ \A k \in {"stt", "start", "stop"}, g \in Gens : Msg(k, g, 0) \in Messages
  /\ \A g \in Gens, n \in 1 .. Sentences : Msg("sentence", g, n) \in Messages
  /\ \A g \in Gens, p \in AllPackets : Msg("audio", g, p) \in Messages
  BY DEF Messages

LEMMA OutStep == Types /\ [Next]_vars => OutType'
<1> SUFFICES ASSUME Types, [Next]_vars PROVE OutType'
  OBVIOUS
<1>a. OutType /\ ControlType /\ OrchType /\ PacerType /\ wClosed \in BOOLEAN
  BY DEF Types, OutType
<1>b. ASSUME NEW m \in Messages, Enqueue(m) PROVE OutType'
  BY <1>a, <1>b, EnqueueType DEF Enqueue
<1>c. ASSUME queue' = queue, device' = device, wClosed' \in BOOLEAN PROVE OutType'
  BY <1>a, <1>c DEF OutType
<1>1. CASE NewTurn
  <2>1. generation' \in Gens
    BY <1>a, <1>1, Numbers DEF NewTurn, ControlType, Gens
  <2>2. Enqueue(Msg("stt", generation', 0)) \/ Refuse
    BY <1>1 DEF NewTurn
  <2>3. Refuse => OutType'
    BY <1>a, <1>c DEF Refuse, outVars
  <2> DEFINE m == Msg("stt", generation', 0)
  <2>4. m \in Messages
    BY <2>1, MessageTypes
  <2>5. Enqueue(m) => OutType'
    <3> SUFFICES ASSUME Enqueue(m) PROVE OutType'
      OBVIOUS
    <3>1. Accepts /\ queue' = Append(queue, m) /\ wClosed' \in BOOLEAN /\ device' = device
      BY <1>a DEF Enqueue
    <3>2. PICK x \in Messages : x = m
      BY <2>4
    <3>3. queue' = Append(queue, x)
      BY <3>1, <3>2
    <3> HIDE DEF m
    <3> QED
      BY <1>a, <3>1, <3>3, EnqueueType
  <2> QED
    BY <2>2, <2>3, <2>5
<1>2. CASE Write
  <2>1. queue # << >> /\ queue' = Tail(queue) /\ device' = device \cup {Head(queue)}
        /\ wClosed' = wClosed
    BY <1>2 DEF Write
  <2>2. /\ Head(queue) \in Messages /\ Tail(queue) \in Seq(Messages)
        /\ Len(Tail(queue)) = Len(queue) - 1 /\ Len(queue) \in Nat
    BY <1>a, <2>1, HeadTailProperties, LenProperties DEF OutType
  <2>3. Len(queue') <= WriterCap
    BY <1>a, <2>1, <2>2, Numbers DEF OutType
  <2> QED
    BY <1>a, <2>1, <2>2, <2>3 DEF OutType
<1>3. CASE WriteFails
  BY <1>a, <1>3, DrainType DEF WriteFails
<1>4. CASE AbortDrains
  BY <1>a, <1>4, DrainType DEF AbortDrains
<1>5. CASE AbortTells
  <2>1. sup.gen \in Gens
    BY <1>a, <1>5 DEF AbortTells, ControlType, SupAt
  <2>2. CASE Enqueue(Msg("stop", sup.gen, 0))
    BY <1>b, <2>1, <2>2, MessageTypes
  <2>3. CASE Refuse
    BY <1>a, <1>c, <2>3 DEF Refuse, outVars
  <2> QED
    BY <1>5, <2>2, <2>3 DEF AbortTells
<1>6. CASE FinishSpeaking
  <2>1. generation \in Gens
    BY <1>a, <1>6 DEF FinishSpeaking, ControlType
  <2>2. CASE Enqueue(Msg("stop", generation, 0))
    BY <1>b, <2>1, <2>2, MessageTypes
  <2>3. CASE Refuse
    BY <1>a, <1>c, <2>3 DEF Refuse, outVars
  <2> QED
    BY <1>6, <2>2, <2>3 DEF FinishSpeaking
<1>7. CASE ErrorTells
  <2>1. wClosed' = wClosed /\ device' = device
    BY <1>7 DEF ErrorTells
  <2>2. CASE queue' = queue
    BY <1>a, <1>c, <2>1, <2>2
  <2>3. CASE state = "Speaking" /\ Accepts /\ queue' = Append(queue, Msg("stop", generation, 0))
    <3>1. Msg("stop", generation, 0) \in Messages
      BY <1>a, <2>3, MessageTypes DEF ControlType
    <3> QED
      BY <1>a, <2>1, <2>3, <3>1, EnqueueType
  <2> QED
    BY <1>7, <2>2, <2>3 DEF ErrorTells
<1>8. CASE \/ AbortCancels \/ PeerCloses \/ AbortStopsPacer \/ SupCancels \/ DropStale
           \/ FinishSilently \/ ErrorStopsPacer \/ CloseSession \/ UNCHANGED vars
  BY <1>a, <1>8, <1>c DEF AbortCancels, PeerCloses, AbortStopsPacer, SupCancels, DropStale,
     FinishSilently, ErrorStopsPacer, CloseSession, vars, outVars
<1>9. ASSUME NEW g \in Gens, Consumer(g) PROVE OutType'
  BY <1>a, <1>9, <1>c DEF Consumer, ConsNext, ConsEnds, ConsPut, ConsPush, outVars
<1>10. ASSUME NEW g \in Gens, Orchestrator(g) PROVE OutType'
  <2>1. CASE OrchSend(g)
    <3>1. orch[g].n \in 1 .. Sentences
      BY <1>a, <2>1, Numbers DEF OrchSend, OrchAt, OrchType
    <3>2. Msg("sentence", g, orch[g].n) \in Messages
      BY <3>1, MessageTypes
    <3>3. Enqueue(Msg("sentence", g, orch[g].n)) \/ Refuse
      BY <2>1 DEF OrchSend
    <3>4. Refuse => OutType'
      BY <1>a, <1>c DEF Refuse, outVars
    <3> QED
      BY <1>b, <3>2, <3>3, <3>4
  <2>2. CASE ~OrchSend(g)
    BY <1>a, <1>10, <1>c, <2>2 DEF Orchestrator, OrchCreate, OrchCreateFails, OrchCheck,
       OrchGivesUp, OrchSpeak, OrchFinish, OrchFinishInput, OrchHearsError, OrchStops, OrchCancels,
       outVars
  <2> QED
    BY <2>1, <2>2
<1>11. ASSUME NEW g \in Gens, Pacer(g) PROVE OutType'
  <2>1. CASE PacerSendsStart(g)
    <3>1. Enqueue(Msg("start", g, 0)) \/ Refuse
      BY <2>1 DEF PacerSendsStart
    <3>2. Refuse => OutType'
      BY <1>a, <1>c DEF Refuse, outVars
    <3> QED
      BY <1>b, <3>1, <3>2, MessageTypes
  <2>2. CASE PacerPushes(g)
    <3>1. pacer[g].p \in AllPackets
      BY <1>a, <2>2 DEF PacerPushes, PacerAt, PacerType, InHand
    <3>2. Msg("audio", g, pacer[g].p) \in Messages
      BY <3>1, MessageTypes
    <3>3. Enqueue(Msg("audio", g, pacer[g].p)) \/ Refuse
      BY <2>2 DEF PacerPushes
    <3>4. Refuse => OutType'
      BY <1>a, <1>c DEF Refuse, outVars
    <3> QED
      BY <1>b, <3>2, <3>3, <3>4
  <2>3. CASE ~PacerSendsStart(g) /\ ~PacerPushes(g)
    BY <1>a, <1>11, <1>c, <2>3 DEF Pacer, PacerTakes, PacerExits, PacerChecks, PacerClaimsStart,
       TransitionToSpeaking, PacerRechecks, PacerSends, PacerTicks, PacerFinishes, outVars
  <2> QED
    BY <2>1, <2>2, <2>3
<1> QED
  BY <1>1, <1>2, <1>3, <1>4, <1>5, <1>6, <1>7, <1>8, <1>9, <1>10, <1>11, NextCases DEF Supervisor

LEMMA HistoryTypeStep == HistoryType /\ ControlType /\ [Next]_vars => HistoryType'
<1> SUFFICES ASSUME HistoryType, ControlType, [Next]_vars PROVE HistoryType'
  OBVIOUS
<1> USE DEF HistoryType
<1>a. << >> \in Seq(Gens)
  BY EmptySeq
<1>1. CASE FinishSpeaking
  <2>1. generation \in Gens
    BY <1>1 DEF FinishSpeaking, ControlType
  <2>2. history' = Append(history, generation) \/ history' = history
    BY <1>1 DEF FinishSpeaking
  <2>3. ASSUME history' = Append(history, generation) PROVE HistoryType'
    BY ONLY HistoryType, <2>1, <2>3, AppendProperties DEF HistoryType
  <2>4. ASSUME history' = history PROVE HistoryType'
    BY <2>4
  <2> QED
    BY <2>2, <2>3, <2>4
<1>2. CASE \/ NewTurn \/ AbortCancels \/ PeerCloses \/ AbortStopsPacer \/ AbortDrains \/ AbortTells
           \/ SupCancels \/ DropStale \/ FinishSilently \/ ErrorStopsPacer \/ ErrorTells
           \/ CloseSession \/ Write \/ WriteFails \/ UNCHANGED vars
  BY <1>a, <1>2 DEF NewTurn, AbortCancels, PeerCloses, AbortStopsPacer, AbortDrains, AbortTells,
     DropStale, FinishSilently, ErrorStopsPacer, ErrorTells, CloseSession, SupCancels, Write,
     WriteFails, vars, supVars
<1>3. ASSUME NEW g \in Gens, Orchestrator(g) \/ Consumer(g) PROVE HistoryType'
  BY <1>3 DEF Orchestrator, OrchCreate, OrchCreateFails, OrchCheck, OrchGivesUp, OrchSend,
     OrchSpeak, OrchFinish, OrchFinishInput, OrchHearsError, OrchStops, OrchCancels, Consumer,
     ConsNext, ConsEnds, ConsPut, ConsPush, supVars
<1>4. ASSUME NEW g \in Gens, Pacer(g) PROVE HistoryType'
  BY <1>4 DEF Pacer, PacerTakes, PacerExits, PacerChecks, PacerClaimsStart, PacerSendsStart,
     TransitionToSpeaking, PacerRechecks, PacerSends, PacerPushes, PacerTicks, PacerFinishes,
     supVars
<1> QED
  BY <1>1, <1>2, <1>3, <1>4, NextCases DEF Supervisor

LEMMA AuxStep == AuxType /\ ControlType /\ [Next]_vars => AuxType'
<1> SUFFICES ASSUME AuxType, ControlType, [Next]_vars PROVE AuxType'
  OBVIOUS
<1> USE DEF AuxType
<1>a. ASSUME NEW g \in Gens, NEW who \in {"orch", "pacer"}, CountLate(g, who)
      PROVE  late' \in [Gens -> [orch : Nat, pacer : Nat]]
  BY <1>a DEF CountLate
<1>b. ASSUME NEW g \in Gens, stops' = [stops EXCEPT ![g] = @ + 1] PROVE stops' \in [Gens -> Nat]
  BY <1>b
<1>1. CASE FinishSpeaking \/ ErrorTells \/ AbortTells
  <2>1. UNCHANGED <<late, spoke>>
    BY <1>1 DEF FinishSpeaking, ErrorTells, AbortTells
  <2>2. stops' = stops \/ \E g \in Gens : stops' = [stops EXCEPT ![g] = @ + 1]
    BY <1>1 DEF FinishSpeaking, ErrorTells, AbortTells, ControlType
  <2> QED
    BY <1>b, <2>1, <2>2
<1>2. CASE \/ NewTurn \/ AbortCancels \/ PeerCloses \/ AbortStopsPacer \/ AbortDrains
           \/ SupCancels \/ DropStale \/ FinishSilently \/ ErrorStopsPacer \/ CloseSession
           \/ Write \/ WriteFails \/ UNCHANGED vars
  BY <1>2 DEF NewTurn, AbortCancels, PeerCloses, AbortStopsPacer, AbortDrains, SupCancels, DropStale,
     FinishSilently, ErrorStopsPacer, CloseSession, Write, WriteFails, vars, auxVars
<1>3. ASSUME NEW g \in Gens, Orchestrator(g) \/ Consumer(g) PROVE AuxType'
  <2>1. CASE OrchSend(g)
    BY <1>a, <2>1 DEF OrchSend
  <2>2. CASE ~OrchSend(g)
    BY <1>3, <2>2 DEF Orchestrator, OrchCreate, OrchCreateFails, OrchCheck, OrchGivesUp, OrchSpeak,
       OrchFinish, OrchFinishInput, OrchHearsError, OrchStops, OrchCancels, Consumer, ConsNext,
       ConsEnds, ConsPut, ConsPush, auxVars
  <2> QED
    BY <2>1, <2>2
<1>4. ASSUME NEW g \in Gens, Pacer(g) PROVE AuxType'
  <2>1. CASE PacerSendsStart(g) \/ PacerPushes(g)
    BY <1>a, <2>1 DEF PacerSendsStart, PacerPushes
  <2>2. CASE TransitionToSpeaking(g)
    BY <2>2 DEF TransitionToSpeaking, Announces, ControlType
  <2>3. CASE ~PacerSendsStart(g) /\ ~PacerPushes(g) /\ ~TransitionToSpeaking(g)
    BY <1>4, <2>3 DEF Pacer, PacerTakes, PacerExits, PacerChecks, PacerClaimsStart, PacerRechecks,
       PacerSends, PacerTicks, PacerFinishes, auxVars
  <2> QED
    BY <2>1, <2>2, <2>3
<1> QED
  BY <1>1, <1>2, <1>3, <1>4, NextCases DEF Supervisor

LEMMA AlwaysTyped == Spec => []Types
<1>1. Types /\ [Next]_vars => Types'
  BY ControlStep, PostStep, OrchStep, ConsStep, PacerStep, PacketsStep, FlagStep, OutStep,
     HistoryTypeStep, AuxStep DEF Types
<1> QED
  BY TypesInit, <1>1, PTL DEF Spec

(* Every variable keeps its type, the pacer's and the writer's queues their   *)
(* capacity, and only turns that have begun are written to (TypeOK).          *)
THEOREM DownlinkTypes == Spec => []TypeOK
<1>1. Types => TypeOK
  BY DEF Types, ControlType, PostType, OrchType, ConsType, PacerType, PacketsType, FlagType,
     OutType, HistoryType, AuxType, TypeOK
<1> QED
  BY <1>1, AlwaysTyped, PTL

------------------------------------------------------------------------------
(* What a superseded turn still says.  A goroutine that has queued a message  *)
(* after its turn was superseded never comes back to where it queues one.     *)

LateInv ==
  \A g \in Gens :
    /\ late[g].orch \in {0, 1} /\ late[g].pacer \in {0, 1}
    /\ late[g].orch = 1 => generation > g /\ orch[g].pc \in {"speak", "stop", "cancel", "done"}
    /\ late[g].pacer = 1 =>
         generation > g /\ pacer[g].pc \in {"speak", "recheck", "tick", "idle", "check",
                                            "finish", "gone"}

LEMMA LateStep == Types /\ LateInv /\ [Next]_vars => LateInv'
<1> SUFFICES ASSUME Types, LateInv, [Next]_vars PROVE LateInv'
  OBVIOUS
<1> USE DEF LateInv
<1>a. /\ late \in [Gens -> [orch : Nat, pacer : Nat]]
      /\ orch \in [Gens -> [pc : {"none", "create", "check", "send", "speak", "finish",
                              "await", "stop", "cancel", "done"}, n : 1 .. Sentences + 1]]
      /\ pacer \in [Gens -> [pc : {"none", "idle", "check", "start", "startsend", "speak",
                               "recheck", "send", "push", "tick", "finish", "gone"},
                         p : 0 .. Sentences * Packets]]
      /\ generation \in Nat /\ Gens \subseteq Nat
  BY DEF Types, AuxType, OrchType, PacerType, ControlType, Gens
<1>1. CASE NewTurn \/ AbortCancels \/ PeerCloses \/ Supervisor \/ Write \/ WriteFails
           \/ UNCHANGED vars
  <2>1. late' = late /\ pacer' = pacer /\ (generation' = generation \/ generation' = generation + 1)
    BY <1>1 DEF NewTurn, AbortCancels, PeerCloses, Supervisor, Write, WriteFails, vars,
       AbortStopsPacer, AbortDrains, AbortTells, DropStale, FinishSilently, FinishSpeaking,
       ErrorStopsPacer, ErrorTells, CloseSession, SupCancels, StopSessionPacer, MarkStopped,
       DismissPacer, CancelPacer, pacerVars, auxVars, supVars, SupAt
  <2>2. \A g \in Gens : generation > g => orch'[g] = orch[g]
    BY <1>a, <1>1, OthersTouch
  <2> QED
    BY <1>a, <2>1, <2>2
<1>2. ASSUME NEW g \in Gens, Consumer(g) PROVE LateInv'
  BY <1>2 DEF Consumer, ConsNext, ConsEnds, ConsPut, ConsPush, supVars, pacerVars, auxVars
<1>3. ASSUME NEW g \in Gens, Orchestrator(g) PROVE LateInv'
  <2>a. generation' = generation
    BY <1>3 DEF Orchestrator, OrchCreate, OrchCreateFails, OrchCheck, OrchGivesUp, OrchSend,
       OrchSpeak, OrchFinish, OrchFinishInput, OrchHearsError, OrchStops, OrchCancels, supVars
  <2>1. CASE OrchSend(g)
    <3>1. late[g].orch = 0 /\ pacer' = pacer
      BY <1>a, <2>1 DEF OrchSend, OrchAt, pacerVars
    <3>2. \E l \in {"speak", "stop"} : orch' = [orch EXCEPT ![g].pc = l]
      BY <2>1 DEF OrchSend, OrchGoto
    <3>3. \/ late' = late
          \/ generation > g /\ late' = [late EXCEPT ![g].orch = @ + 1]
      BY <2>1 DEF OrchSend, CountLate
    <3>4. \A h \in Gens : h # g => orch'[h] = orch[h] /\ late'[h] = late[h]
      BY <1>a, <3>2, <3>3
    <3>5. /\ orch'[g].pc \in {"speak", "stop"} /\ late'[g].pacer = late[g].pacer
          /\ late'[g].orch = 0 \/ (generation > g /\ late'[g].orch = 1)
      BY <1>a, <3>1, <3>2, <3>3
    <3> QED
      BY <2>a, <3>1, <3>4, <3>5
  <2>2. CASE ~OrchSend(g)
    <3>1. late' = late
      BY <1>3, <2>2 DEF Orchestrator, OrchCreate, OrchCreateFails, OrchCheck, OrchGivesUp,
         OrchSpeak, OrchFinish, OrchFinishInput, OrchHearsError, OrchStops, OrchCancels, auxVars
    <3>2. pacer' = pacer \/ pacer' = [pacer EXCEPT ![g].pc = "idle"]
      BY <1>3, <2>2 DEF Orchestrator, OrchCreate, OrchCreateFails, OrchCheck, OrchGivesUp,
         OrchSpeak, OrchFinish, OrchFinishInput, OrchHearsError, OrchStops, OrchCancels,
         MarkStopped, CancelPacer, pacerVars
    <3>3. \A h \in Gens : h # g => orch'[h] = orch[h]
      BY <1>a, <1>3, <2>2 DEF Orchestrator, OrchCreate, OrchCreateFails, OrchCheck, OrchGivesUp,
         OrchSpeak, OrchFinish, OrchFinishInput, OrchHearsError, OrchStops, OrchCancels, OrchGoto
    <3>4. generation > g => \/ orch'[g].pc \in {"stop", "cancel", "done"}
                            \/ orch[g].pc \notin {"speak", "stop", "cancel", "done"}
      BY <1>a, <1>3, <2>2 DEF Orchestrator, OrchCreate, OrchCreateFails, OrchCheck, OrchGivesUp,
         OrchSpeak, OrchFinish, OrchFinishInput, OrchHearsError, OrchStops, OrchCancels, OrchGoto,
         OrchAt, TurnIsOver, Superseded
    <3> QED
      BY <1>a, <2>a, <3>1, <3>2, <3>3, <3>4
  <2> QED
    BY <2>1, <2>2
<1>4. ASSUME NEW g \in Gens, Pacer(g) PROVE LateInv'
  <2>a. generation' = generation /\ orch' = orch
    BY <1>4 DEF Pacer, PacerTakes, PacerExits, PacerChecks, PacerClaimsStart, PacerSendsStart,
       TransitionToSpeaking, PacerRechecks, PacerSends, PacerPushes, PacerTicks, PacerFinishes,
       supVars, turnVars
  <2>1. CASE PacerSendsStart(g) \/ PacerPushes(g)
    <3>1. late[g].pacer = 0
      BY <1>a, <2>1 DEF PacerSendsStart, PacerPushes, PacerAt
    <3>2. \E l \in {"speak", "tick", "gone"} : pacer' = [pacer EXCEPT ![g].pc = l]
      BY <2>1 DEF PacerSendsStart, PacerPushes, PacerGoto
    <3>3. \/ late' = late
          \/ generation > g /\ late' = [late EXCEPT ![g].pacer = @ + 1]
      BY <2>1 DEF PacerSendsStart, PacerPushes, CountLate
    <3> QED
      BY <1>a, <2>a, <3>1, <3>2, <3>3
  <2>2. CASE ~PacerSendsStart(g) /\ ~PacerPushes(g)
    <3>1. late' = late
      BY <1>4, <2>2 DEF Pacer, PacerTakes, PacerExits, PacerChecks, PacerClaimsStart,
         TransitionToSpeaking, PacerRechecks, PacerSends, PacerTicks, PacerFinishes, auxVars
    <3>3. \A h \in Gens : h # g => pacer'[h] = pacer[h]
      BY <1>a, <1>4, <2>2 DEF Pacer, PacerTakes, PacerExits, PacerChecks, PacerClaimsStart,
         TransitionToSpeaking, PacerRechecks, PacerSends, PacerTicks, PacerFinishes, PacerGoto
    <3>4. generation > g =>
            \/ pacer'[g].pc \in {"speak", "recheck", "tick", "idle", "check", "finish", "gone"}
            \/ pacer[g].pc \notin {"speak", "recheck", "tick", "idle", "check", "finish", "gone"}
      BY <1>a, <1>4, <2>2 DEF Pacer, PacerTakes, PacerExits, PacerChecks, PacerClaimsStart,
         TransitionToSpeaking, PacerRechecks, PacerSends, PacerTicks, PacerFinishes, PacerGoto,
         PacerAt, Superseded
    <3> QED
      BY <1>a, <2>a, <3>1, <3>3, <3>4
  <2> QED
    BY <2>1, <2>2
<1> QED
  BY <1>1, <1>2, <1>3, <1>4, NextCases

(* However an abort interleaves with them, the orchestrator and the pacer of  *)
(* the turn it cut off each queue at most one more message, for any number of *)
(* turns (LateBound; sendSentence and sendPacket).                            *)
THEOREM LateMessagesAreBounded == Spec => []LateBound
<1>1. Init => LateInv
  BY DEF Init, LateInv
<1>2. LateInv => LateBound
  BY DEF LateInv, LateBound
<1> QED
  BY <1>1, <1>2, LateStep, AlwaysTyped, PTL DEF Spec

------------------------------------------------------------------------------
(* The shape of a turn.                                                       *)

(* Turns begin in the order of their generations, while an abort is under way *)
(* the one it opened has not begun, and a pacer is cancelled after its flag.  *)
Begun ==
  /\ sup.gen <= generation
  /\ \A g \in Gens : g > generation => orch[g].pc = "none"
  /\ sup.pc \in {"stop", "drain", "tell"} =>
       state = "Ready" /\ (generation \in Gens => orch[generation].pc = "none")
  /\ sup.p # 0 => stopped[sup.p] = TRUE

(* Before its orchestrator has created the streams, a turn has none.          *)
Fresh(g) == orch[g].pc \in {"none", "create"} =>
  /\ orch[g].n = 1
  /\ cons[g].pc = "none" /\ cons[g].n = 0 /\ pacer[g].pc = "none" /\ pacer[g].p = 0
  /\ packets[g] = << >> /\ hasSentStart[g] = FALSE

(* The packet the pacer took last, its queue and the packet of the consumer   *)
(* are consecutive, and of sentences the synthesiser was given.               *)
Consecutive(g) ==
  /\ \A i \in 1 .. Len(packets[g]) : packets[g][i] = pacer[g].p + i
  /\ cons[g].pc = "next" => cons[g].n = pacer[g].p + Len(packets[g])
  /\ cons[g].pc \in {"put", "push"} => cons[g].n = pacer[g].p + Len(packets[g]) + 1

Given(g) ==
  /\ fed[g] = orch[g].n - 1
  /\ \A p \in 1 .. cons[g].n : SentenceOf(p) <= fed[g]
  /\ pacer[g].p <= cons[g].n
  /\ \A i \in 1 .. Len(packets[g]) : packets[g][i] <= cons[g].n

Line(g) ==
  /\ cancelled[g] = TRUE \/ orch[g].pc = "cancel" => stopped[g] = TRUE
  /\ cancelled[g] = FALSE /\ pacer[g].pc # "gone" => Consecutive(g)

(* A pacer does not get to the sound without its tts.start, unless it was     *)
(* stopped before.                                                            *)
Started(g) ==
  /\ pacer[g].pc \in {"startsend", "speak"} => hasSentStart[g] = TRUE
  /\ pacer[g].pc \in {"recheck", "send", "push"} => hasSentStart[g] = TRUE \/ stopped[g] = TRUE

Shape(g) == Fresh(g) /\ Given(g) /\ Line(g) /\ Started(g)
ShapeInv == Begun /\ \A g \in Gens : Shape(g)

(* A step that is not of turn g leaves its variables alone, or stops its      *)
(* pacer.                                                                     *)
Same(g) ==
  /\ orch'[g] = orch[g] /\ fed'[g] = fed[g] /\ cons'[g] = cons[g] /\ pacer'[g] = pacer[g]
  /\ hasSentStart'[g] = hasSentStart[g] /\ inputDone'[g] = inputDone[g]
  /\ stopped'[g] \in {stopped[g], TRUE}
  /\ \/ packets'[g] = packets[g] /\ cancelled'[g] = cancelled[g]
     \/ packets'[g] = << >> /\ cancelled'[g] = TRUE /\ stopped'[g] = TRUE

LEMMA StopKeeps ==
  ASSUME Types, NEW g \in Gens, UNCHANGED turnVars,
         DismissPacer \/ \E pc \in {"drain", "fail", "close"} : StopSessionPacer(pc)
  PROVE  Same(g)
<1> USE DEF Same, turnVars, Types, PacketsType, FlagType
<1>1. CASE DismissPacer
  BY <1>1 DEF DismissPacer
<1>2. ASSUME NEW pc, StopSessionPacer(pc) PROVE Same(g)
  BY <1>2 DEF StopSessionPacer, MarkStopped, pacerVars
<1> QED
  BY <1>1, <1>2

LEMMA SupervisorKeeps ==
  ASSUME Types, ShapeInv, NEW g \in Gens,
         \/ AbortCancels \/ PeerCloses \/ Supervisor \/ Write \/ WriteFails \/ UNCHANGED vars
  PROVE  Same(g)
<1>1. CASE \/ AbortCancels \/ AbortDrains \/ AbortTells \/ DropStale \/ CloseSession \/ Write
           \/ WriteFails \/ UNCHANGED vars
  BY <1>1 DEF AbortCancels, AbortDrains, AbortTells, DropStale, CloseSession, Write, WriteFails,
     vars, turnVars, pacerVars, Same
<1>2. CASE SupCancels
  <2>1. stopped[sup.p] = TRUE
    BY <1>2 DEF SupCancels, ShapeInv, Begun
  <2> QED
    BY <1>2, <2>1 DEF SupCancels, CancelPacer, turnVars, Same, Types, PacketsType, FlagType
<1>3. CASE PeerCloses \/ AbortStopsPacer \/ FinishSilently \/ FinishSpeaking \/ ErrorStopsPacer
           \/ ErrorTells
  <2>1. UNCHANGED turnVars /\ (DismissPacer \/ \E pc \in {"drain", "fail", "close"} : StopSessionPacer(pc))
    BY <1>3 DEF PeerCloses, AbortStopsPacer, FinishSilently, FinishSpeaking, ErrorStopsPacer,
       ErrorTells
  <2> QED
    BY <2>1, StopKeeps
<1> QED
  BY <1>1, <1>2, <1>3 DEF Supervisor

LEMMA OrchestratorKeeps ==
  ASSUME Types, NEW g \in Gens, NEW h \in Gens, h # g, Orchestrator(g)
  PROVE  Same(h)
<1> USE DEF Same, Types, OrchType, ConsType, PacerType, PacketsType, FlagType
<1>1. CASE OrchCreate(g)
  BY <1>1 DEF OrchCreate, OrchGoto
<1>2. CASE OrchCreateFails(g) \/ OrchCheck(g) \/ OrchFinish(g)
  BY <1>2 DEF OrchCreateFails, OrchCheck, OrchFinish, OrchGoto, pacerVars
<1>3. CASE OrchGivesUp(g) \/ OrchHearsError(g) \/ OrchSend(g)
  BY <1>3 DEF OrchGivesUp, OrchHearsError, OrchSend, OrchGoto, pacerVars
<1>4. CASE OrchStops(g) \/ OrchCancels(g)
  BY <1>4 DEF OrchStops, OrchCancels, MarkStopped, CancelPacer, OrchGoto
<1>5. CASE OrchSpeak(g)
  BY <1>5 DEF OrchSpeak, pacerVars
<1>6. CASE OrchFinishInput(g)
  BY <1>6 DEF OrchFinishInput, OrchGoto
<1> QED
  BY <1>1, <1>2, <1>3, <1>4, <1>5, <1>6 DEF Orchestrator

LEMMA ConsumerKeeps ==
  ASSUME Types, NEW g \in Gens, NEW h \in Gens, h # g, Consumer(g)
  PROVE  Same(h)
  BY DEF Same, Types, ConsType, PacketsType, Consumer, ConsNext, ConsEnds, ConsPut, ConsPush,
     ConsGoto, pacerVars

LEMMA PacerKeeps ==
  ASSUME Types, NEW g \in Gens, NEW h \in Gens, h # g, Pacer(g)
  PROVE  Same(h)
<1> USE DEF Same, Types, PacerType, PacketsType, FlagType
<1>1. CASE PacerTakes(g) \/ PacerExits(g)
  BY <1>1 DEF PacerTakes, PacerExits, PacerGoto, turnVars
<1>2. CASE PacerChecks(g) \/ PacerClaimsStart(g) \/ PacerSendsStart(g) \/ TransitionToSpeaking(g)
           \/ PacerRechecks(g)
  BY <1>2 DEF PacerChecks, PacerClaimsStart, PacerSendsStart, TransitionToSpeaking, PacerRechecks,
     PacerGoto, turnVars
<1>3. CASE PacerSends(g) \/ PacerPushes(g) \/ PacerTicks(g) \/ PacerFinishes(g)
  BY <1>3 DEF PacerSends, PacerPushes, PacerTicks, PacerFinishes, PacerGoto, turnVars
<1> QED
  BY <1>1, <1>2, <1>3 DEF Pacer

LEMMA SameShape ==
  ASSUME NEW g \in Gens, Shape(g), Same(g)
  PROVE  Shape(g)'
<1>1. /\ orch'[g] = orch[g] /\ fed'[g] = fed[g] /\ cons'[g] = cons[g] /\ pacer'[g] = pacer[g]
      /\ hasSentStart'[g] = hasSentStart[g] /\ stopped'[g] \in {stopped[g], TRUE}
  BY DEF Same
<1>2. CASE packets'[g] = packets[g] /\ cancelled'[g] = cancelled[g]
  BY <1>1, <1>2 DEF Shape, Fresh, Given, Line, Consecutive, Started
<1>3. CASE packets'[g] = << >> /\ cancelled'[g] = TRUE /\ stopped'[g] = TRUE
  <2>1. Len(packets'[g]) = 0
    BY <1>3
  <2>2. Given(g)' /\ Line(g)'
    BY <1>1, <1>3, <2>1 DEF Shape, Given, Line
  <2> QED
    BY <1>1, <1>3, <2>2 DEF Shape, Fresh, Started
<1> QED
  BY <1>2, <1>3 DEF Same

LEMMA OrchestratorShape ==
  ASSUME Types, NEW g \in Gens, Shape(g), Orchestrator(g)
  PROVE  Shape(g)'
<1> USE DEF Types, OrchType, ConsType, PacerType, PacketsType, FlagType
<1>1. CASE OrchCreate(g)
  <2>1. /\ cons[g].pc = "none" /\ cons[g].n = 0 /\ pacer[g].pc = "none" /\ pacer[g].p = 0
        /\ packets[g] = << >> /\ hasSentStart[g] = FALSE
    BY <1>1 DEF OrchCreate, OrchAt, Shape, Fresh
  <2>2. /\ orch'[g].pc = "check" /\ orch'[g].n = orch[g].n /\ fed'[g] = fed[g]
        /\ cons'[g].pc = "next" /\ cons'[g].n = 0 /\ pacer'[g].pc = "idle" /\ pacer'[g].p = 0
        /\ packets'[g] = << >> /\ stopped'[g] = stopped[g] /\ cancelled'[g] = cancelled[g]
    BY <1>1, <2>1 DEF OrchCreate, OrchGoto
  <2>3. Len(packets'[g]) = 0
    BY <2>2
  <2>4. Given(g)'
    BY <2>1, <2>2, <2>3 DEF Shape, Given
  <2> QED
    BY <2>2, <2>3, <2>4 DEF Shape, Fresh, Line, Consecutive, Started
<1>2. CASE ~OrchCreate(g)
  <2>1. /\ cons'[g] = cons[g] /\ pacer'[g] = pacer[g] /\ hasSentStart'[g] = hasSentStart[g]
        /\ stopped'[g] \in {stopped[g], TRUE}
        /\ \/ /\ packets'[g] = packets[g] /\ cancelled'[g] = cancelled[g]
              /\ orch'[g].pc = "cancel" => stopped'[g] = TRUE
           \/ /\ packets'[g] = << >> /\ cancelled'[g] = TRUE /\ orch[g].pc = "cancel"
    <3>1. CASE OrchStops(g) \/ OrchCancels(g)
      BY <3>1 DEF OrchStops, OrchCancels, MarkStopped, CancelPacer, OrchAt
    <3>2. CASE ~OrchStops(g) /\ ~OrchCancels(g)
      <4>1. /\ UNCHANGED <<cons, pacer, hasSentStart, stopped, packets, cancelled>>
            /\ \/ \E l \in {"check", "send", "finish", "speak", "await", "stop", "done"} : OrchGoto(g, l)
               \/ orch' = [orch EXCEPT ![g] = [pc |-> "check", n |-> @.n + 1]]
        BY <1>2, <3>2 DEF Orchestrator, OrchCreateFails, OrchCheck, OrchGivesUp, OrchSend, OrchSpeak,
           OrchFinish, OrchFinishInput, OrchHearsError, pacerVars
      <4> QED
        BY <4>1 DEF OrchGoto
    <3> QED
      BY <3>1, <3>2
  <2>2. Line(g)' /\ Started(g)'
    BY <2>1 DEF Shape, Line, Consecutive, Started
  <2>3. CASE OrchSpeak(g)
    <3>1. /\ orch[g].pc = "speak" /\ orch'[g].pc = "check" /\ orch'[g].n = orch[g].n + 1
          /\ fed'[g] = orch[g].n
      BY <2>3 DEF OrchSpeak, OrchAt
    <3>2. fed'[g] = orch'[g].n - 1 /\ fed'[g] = fed[g] + 1
      BY <3>1 DEF Shape, Given
    <3>3. packets'[g] = packets[g]
      BY <2>3 DEF OrchSpeak, pacerVars
    <3>4. \A p \in 1 .. cons'[g].n : SentenceOf(p) <= fed'[g]
      <4> SUFFICES ASSUME NEW p \in 1 .. cons[g].n PROVE SentenceOf(p) <= fed[g] + 1
        BY <2>1, <3>2
      <4>1. SentenceOf(p) <= fed[g] /\ SentenceOf(p) \in Int
        BY Numbers DEF Shape, Given, SentenceOf
      <4> QED
        BY <4>1
    <3>5. Given(g)'
      BY <2>1, <3>2, <3>3, <3>4 DEF Shape, Given
    <3> QED
      BY <2>2, <3>1, <3>5 DEF Shape, Fresh
  <2>4. CASE ~OrchSpeak(g)
    <3>1. orch'[g].n = orch[g].n /\ fed'[g] = fed[g] /\ orch'[g].pc \notin {"none", "create"}
      BY <1>2, <2>4 DEF Orchestrator, OrchCreateFails, OrchCheck, OrchGivesUp, OrchSend, OrchFinish,
         OrchFinishInput, OrchHearsError, OrchStops, OrchCancels, OrchGoto
    <3>2. Given(g)'
      <4>1. CASE packets'[g] = packets[g]
        BY <2>1, <3>1, <4>1 DEF Shape, Given
      <4>2. CASE packets'[g] = << >>
        <5>1. Len(packets'[g]) = 0
          BY <4>2
        <5> QED
          BY <2>1, <3>1, <5>1 DEF Shape, Given
      <4> QED
        BY <2>1, <4>1, <4>2
    <3> QED
      BY <2>2, <3>1, <3>2 DEF Shape, Fresh
  <2> QED
    BY <2>3, <2>4
<1> QED
  BY <1>1, <1>2

(* What NextPCM returns belongs to a sentence the synthesiser was given.      *)
LEMMA InSentence ==
  ASSUME NEW n \in Nat, NEW f \in Nat, n < f * Packets
  PROVE  SentenceOf(n + 1) <= f
<1>1. Packets \in Nat \ {0}
  BY Numbers
<1>2. n \div Packets < f
  BY <1>1, Z3T(60)
<1> QED
  BY <1>1, <1>2 DEF SentenceOf

LEMMA ConsumerShape ==
  ASSUME Types, NEW g \in Gens, Shape(g), Consumer(g)
  PROVE  Shape(g)'
<1> USE DEF Types, OrchType, ConsType, PacerType, PacketsType, FlagType
<1>1. /\ orch' = orch /\ fed' = fed /\ pacer' = pacer /\ hasSentStart' = hasSentStart
      /\ stopped' = stopped /\ cancelled' = cancelled
  BY DEF Consumer, ConsNext, ConsEnds, ConsPut, ConsPush, pacerVars
<1>2. orch[g].pc \notin {"none", "create"}
  BY DEF Consumer, ConsNext, ConsEnds, ConsPut, ConsPush, Shape, Fresh
<1>3. CASE ConsNext(g)
  <2>1. /\ cons[g].pc = "next" /\ cons'[g].pc = "put" /\ cons'[g].n = cons[g].n + 1
        /\ cons[g].n < fed[g] * Packets /\ packets' = packets
    BY <1>3 DEF ConsNext, pacerVars
  <2>2. SentenceOf(cons'[g].n) <= fed[g]
    BY <2>1, Product, InSentence
  <2>a. cons[g].n \in Nat /\ cons'[g].n = cons[g].n + 1
    BY <2>1, Product
  <2>3. Given(g)'
    <3>1. \A p \in 1 .. cons'[g].n : p \in 1 .. cons[g].n \/ p = cons'[g].n
      BY <2>a
    <3>2. \A p \in 1 .. cons'[g].n : SentenceOf(p) <= fed[g]
      BY <2>2, <3>1 DEF Shape, Given
    <3>3. pacer[g].p <= cons'[g].n /\ \A i \in 1 .. Len(packets[g]) : packets[g][i] <= cons'[g].n
      <4>a. packets[g] \in Seq(AllPackets) /\ pacer[g].p \in Nat
        BY Product
      <4>1. pacer[g].p \in Int /\ \A i \in 1 .. Len(packets[g]) : packets[g][i] \in Int
        <5>1. \A i \in 1 .. Len(packets[g]) : packets[g][i] \in AllPackets
          BY ONLY <4>a, ElementOfSeq
        <5>2. \A p \in AllPackets : p \in Int
          BY DEF AllPackets
        <5> QED
          BY <4>a, <5>1, <5>2
      <4>2. pacer[g].p <= cons[g].n /\ \A i \in 1 .. Len(packets[g]) : packets[g][i] <= cons[g].n
        BY DEF Shape, Given
      <4> QED
        BY ONLY <2>a, <4>1, <4>2
    <3> QED
      BY <1>1, <2>1, <3>2, <3>3 DEF Shape, Given
  <2>4. Line(g)'
    BY <1>1, <2>1 DEF Shape, Line, Consecutive
  <2> QED
    BY <1>1, <1>2, <2>3, <2>4 DEF Shape, Fresh, Started
<1>4. CASE ConsEnds(g)
  <2>1. cons'[g].pc \in {"done", "failed"} /\ cons'[g].n = cons[g].n /\ packets' = packets
    BY <1>4 DEF ConsEnds, ConsGoto, pacerVars
  <2> QED
    BY <1>1, <1>2, <2>1 DEF Shape, Fresh, Given, Line, Consecutive, Started
<1>5. CASE ConsPut(g)
  <2>1. /\ cons[g].pc = "put" /\ cons'[g].pc \in {"push", "done"} /\ cons'[g].n = cons[g].n
        /\ packets' = packets
    BY <1>5 DEF ConsPut, ConsGoto, pacerVars
  <2> QED
    BY <1>1, <1>2, <2>1 DEF Shape, Fresh, Given, Line, Consecutive, Started
<1>6. CASE ConsPush(g)
  <2>1. cons[g].pc = "push" /\ cons'[g].n = cons[g].n
    BY <1>6 DEF ConsPush, ConsGoto
  <2>2. CASE cons'[g].pc = "done" /\ packets' = packets
    BY <1>1, <1>2, <2>1, <2>2 DEF Shape, Fresh, Given, Line, Consecutive, Started
  <2>3. CASE cons'[g].pc = "next" /\ packets'[g] = Append(packets[g], cons[g].n)
    <3>1. Len(packets'[g]) = Len(packets[g]) + 1
      BY <2>3
    <3>2. \A i \in 1 .. Len(packets[g]) + 1 :
            packets'[g][i] = IF i <= Len(packets[g]) THEN packets[g][i] ELSE cons[g].n
      BY <2>3
    <3>3. Given(g)'
      <4>1. cons[g].n \in Nat
        BY Product
      <4>2. \A i \in 1 .. Len(packets[g]) : packets[g][i] <= cons[g].n
        BY DEF Shape, Given
      <4>3. \A i \in 1 .. Len(packets'[g]) : packets'[g][i] <= cons[g].n
        BY ONLY <3>1, <3>2, <4>1, <4>2
      <4> QED
        BY <1>1, <2>1, <4>3 DEF Shape, Given
    <3>4. Line(g)'
      <4> SUFFICES ASSUME cancelled[g] = FALSE, pacer[g].pc # "gone" PROVE Consecutive(g)'
        BY <1>1 DEF Shape, Line
      <4>1. Consecutive(g)
        BY DEF Shape, Line
      <4>3. /\ \A i \in 1 .. Len(packets[g]) : packets[g][i] = pacer[g].p + i
            /\ cons[g].n = pacer[g].p + Len(packets[g]) + 1
        BY <2>1, <4>1 DEF Consecutive
      <4>4. pacer[g].p \in Int /\ Len(packets[g]) \in Nat
        BY Product
      <4>2. \A i \in 1 .. Len(packets'[g]) : packets'[g][i] = pacer[g].p + i
        <5> SUFFICES ASSUME NEW i \in 1 .. Len(packets[g]) + 1
                     PROVE  packets'[g][i] = pacer[g].p + i
          BY <3>1, <2>1
        <5>1. CASE i <= Len(packets[g])
          BY <3>2, <4>3, <4>4, <5>1
        <5>2. CASE ~(i <= Len(packets[g]))
          <6>1. i = Len(packets[g]) + 1
            BY <4>4, <5>2
          <6>2. packets'[g][i] = cons[g].n
            BY <3>2, <5>2
          <6> QED
            BY ONLY <4>3, <4>4, <6>1, <6>2
        <5> QED
          BY <5>1, <5>2
      <4> QED
        BY <1>1, <2>1, <2>3, <3>1, <4>1, <4>2 DEF Consecutive
    <3> QED
      BY <1>1, <1>2, <3>3, <3>4 DEF Shape, Fresh, Started
  <2> QED
    <3>1. \/ packets' = packets /\ cons' = [cons EXCEPT ![g].pc = "done"]
          \/ /\ cons' = [cons EXCEPT ![g].pc = "next"]
             /\ packets' = [packets EXCEPT ![g] = Append(@, cons[g].n)]
      BY <1>6 DEF ConsPush, ConsGoto
    <3>3. ASSUME packets' = packets, cons' = [cons EXCEPT ![g].pc = "done"] PROVE Shape(g)'
      BY <2>2, <3>3
    <3>4. ASSUME cons' = [cons EXCEPT ![g].pc = "next"],
                 packets' = [packets EXCEPT ![g] = Append(@, cons[g].n)]
          PROVE  Shape(g)'
      <4>1. cons'[g].pc = "next" /\ packets'[g] = Append(packets[g], cons[g].n)
        BY <3>4
      <4> QED
        BY <2>3, <4>1
    <3> QED
      BY <3>1, <3>3, <3>4
<1> QED
  BY <1>3, <1>4, <1>5, <1>6 DEF Consumer

LEMMA PacerShape ==
  ASSUME Types, NEW g \in Gens, Shape(g), Pacer(g)
  PROVE  Shape(g)'
<1> USE DEF Types, OrchType, ConsType, PacerType, PacketsType, FlagType
<1>1. orch' = orch /\ fed' = fed /\ cons' = cons /\ stopped' = stopped /\ cancelled' = cancelled
  BY DEF Pacer, PacerTakes, PacerExits, PacerChecks, PacerClaimsStart, PacerSendsStart,
     TransitionToSpeaking, PacerRechecks, PacerSends, PacerPushes, PacerTicks, PacerFinishes,
     turnVars
<1>2. orch[g].pc \notin {"none", "create"}
  BY DEF Pacer, PacerTakes, PacerExits, PacerChecks, PacerClaimsStart, PacerSendsStart,
     TransitionToSpeaking, PacerRechecks, PacerSends, PacerPushes, PacerTicks, PacerFinishes, Shape,
     Fresh, PacerAt
<1>3. CASE PacerTakes(g)
  <2>1. /\ pacer[g].pc = "idle" /\ pacer'[g].pc = "check" /\ pacer'[g].p = Head(packets[g])
        /\ packets[g] # << >> /\ packets'[g] = Tail(packets[g])
    BY <1>3 DEF PacerTakes, PacerAt
  <2>2. /\ Len(packets[g]) \in Nat /\ Len(packets[g]) > 0
        /\ Len(packets'[g]) = Len(packets[g]) - 1 /\ pacer'[g].p = packets[g][1]
        /\ \A i \in 1 .. Len(packets'[g]) : packets'[g][i] = packets[g][i + 1]
    BY <2>1
  <2>3. cancelled[g] = FALSE => Consecutive(g)
    BY <2>1 DEF Shape, Line
  <2>4. Given(g)'
    BY <1>1, <2>2 DEF Shape, Given
  <2>5. cancelled[g] = FALSE => pacer'[g].p = pacer[g].p + 1
    BY <2>2, <2>3 DEF Consecutive
  <2>6. ASSUME cancelled[g] = FALSE PROVE Consecutive(g)'
    <3>1. pacer[g].p \in Nat /\ cons[g].n \in Nat
      BY Product
    <3>2. \A i \in 1 .. Len(packets[g]) : packets[g][i] = pacer[g].p + i
      BY <2>3, <2>6 DEF Consecutive
    <3>3. \A i \in 1 .. Len(packets'[g]) : packets'[g][i] = pacer'[g].p + i
      <4> SUFFICES ASSUME NEW i \in 1 .. Len(packets'[g])
                   PROVE  packets'[g][i] = pacer'[g].p + i
        OBVIOUS
      <4>1. packets'[g][i] = packets[g][i + 1] /\ i + 1 \in 1 .. Len(packets[g]) /\ i \in Nat
        BY <2>2
      <4>2. packets[g][i + 1] = pacer[g].p + (i + 1)
        BY <3>2, <4>1
      <4>3. \A a, b \in Nat : a + (b + 1) = (a + 1) + b
        OBVIOUS
      <4>4. pacer[g].p + (i + 1) = (pacer[g].p + 1) + i
        BY ONLY <3>1, <4>1, <4>3
      <4> QED
        BY <2>5, <2>6, <4>1, <4>2, <4>4
    <3> QED
      BY <1>1, <2>2, <2>3, <2>5, <2>6, <3>1, <3>3 DEF Consecutive
  <2> QED
    BY <1>1, <1>2, <2>1, <2>4, <2>6 DEF Shape, Fresh, Line, Started
<1>4. CASE PacerExits(g)
  <2>1. pacer'[g].pc = "gone" /\ pacer'[g].p = pacer[g].p /\ packets'[g] = << >>
    BY <1>4 DEF PacerExits, PacerGoto
  <2>2. Len(packets'[g]) = 0
    BY <2>1
  <2> QED
    BY <1>1, <1>2, <2>1, <2>2 DEF Shape, Fresh, Given, Line, Started
<1>5. CASE ~PacerTakes(g) /\ ~PacerExits(g)
  <2>1. packets' = packets /\ pacer'[g].p = pacer[g].p
    BY <1>5 DEF Pacer, PacerChecks, PacerClaimsStart, PacerSendsStart, TransitionToSpeaking,
       PacerRechecks, PacerSends, PacerPushes, PacerTicks, PacerFinishes, PacerGoto
  <2>2. pacer[g].pc # "gone"
    BY <1>5 DEF Pacer, PacerChecks, PacerClaimsStart, PacerSendsStart, TransitionToSpeaking,
       PacerRechecks, PacerSends, PacerPushes, PacerTicks, PacerFinishes, PacerAt
  <2>3. Given(g)' /\ Line(g)'
    BY <1>1, <2>1, <2>2 DEF Shape, Given, Line, Consecutive
  <2>4. Started(g)'
    <3>1. CASE PacerClaimsStart(g)
      BY <1>1, <3>1 DEF PacerClaimsStart, PacerGoto, Started
    <3>2. CASE ~PacerClaimsStart(g)
      BY <1>1, <1>5, <3>2 DEF Pacer, PacerChecks, PacerSendsStart, TransitionToSpeaking,
         PacerRechecks, PacerSends, PacerPushes, PacerTicks, PacerFinishes, PacerGoto, PacerAt,
         Shape, Started, PacerCancelled, NeedsStart
    <3> QED
      BY <3>1, <3>2
  <2> QED
    BY <1>1, <1>2, <2>3, <2>4 DEF Shape, Fresh
<1> QED
  BY <1>3, <1>4, <1>5

LEMMA ShapeStep == Types /\ ShapeInv /\ [Next]_vars => ShapeInv'
<1> SUFFICES ASSUME Types, ShapeInv, [Next]_vars PROVE ShapeInv'
  OBVIOUS
<1>1. CASE NewTurn
  <2>1. generation' = generation + 1 /\ generation' \in Gens /\ sup' = sup /\ Idle
        /\ orch' = [orch EXCEPT ![generation'].pc = "create"]
        /\ UNCHANGED <<fed, cons, pacer, packets, hasSentStart, stopped, cancelled, inputDone>>
    BY <1>1, Numbers DEF NewTurn, Types, ControlType, pacerVars, Gens
  <2>2. \A h \in Gens : h # generation' => orch'[h] = orch[h]
    BY <2>1 DEF Types, OrchType
  <2>3. orch[generation'].pc = "none" /\ orch'[generation'].n = orch[generation'].n
    BY <2>1 DEF ShapeInv, Begun, Types, OrchType, ControlType
  <2>4. \A h \in Gens : Shape(h)'
    BY <2>1, <2>2, <2>3 DEF ShapeInv, Shape, Fresh, Given, Line, Consecutive, Started
  <2>5. Begun'
    BY <2>1, <2>2 DEF ShapeInv, Begun, Idle, Gens, Types, ControlType
  <2> QED
    BY <2>4, <2>5 DEF ShapeInv
<1>2. CASE \/ AbortCancels \/ PeerCloses \/ Supervisor \/ Write \/ WriteFails \/ UNCHANGED vars
  <2>1. \A h \in Gens : Same(h)
    BY <1>2, SupervisorKeeps
  <2>2. \A h \in Gens : Shape(h)'
    BY <2>1, SameShape DEF ShapeInv
  <2>3. \A h \in Gens : orch'[h].pc = orch[h].pc
    BY <2>1 DEF Same
  <2>4. CASE AbortCancels
    <3>1. /\ generation' = generation + 1 /\ state' = "Ready" /\ generation \in Nat
          /\ sup'.gen = generation /\ sup'.p = 0
      BY <2>4 DEF AbortCancels, Types, ControlType
    <3>2. \A h \in Gens : h > generation => orch[h].pc = "none"
      BY DEF ShapeInv, Begun
    <3>3. \A h \in Gens : h > generation => orch'[h].pc = "none"
      BY <2>3, <3>2
    <3> QED
      BY <2>2, <3>1, <3>3, Numbers DEF ShapeInv, Begun, Gens
  <2>5. CASE ~AbortCancels
    <3>1. generation' = generation
      BY <1>2, <2>5 DEF PeerCloses, Supervisor, AbortStopsPacer, AbortDrains, AbortTells, DropStale,
         FinishSilently, FinishSpeaking, ErrorStopsPacer, ErrorTells, CloseSession, SupCancels,
         Write, WriteFails, vars, supVars
    <3>2. /\ sup'.gen = sup.gen
          /\ sup'.pc \in {"stop", "drain", "tell"} =>
               sup.pc \in {"stop", "drain", "tell"} /\ state' = state
      BY <1>2, <2>5 DEF PeerCloses, Supervisor, AbortStopsPacer, AbortDrains, AbortTells, DropStale,
         FinishSilently, FinishSpeaking, ErrorStopsPacer, ErrorTells, CloseSession, SupCancels,
         Write, WriteFails, vars, supVars, SupGoto, Idle, Types, ControlType, Pending,
         StopSessionPacer, DismissPacer, SupAt
    <3>3. sup'.p # 0 => stopped'[sup'.p] = TRUE
      <4>1. CASE \E pc \in {"drain", "fail", "close"} : StopSessionPacer(pc)
        <5>1. sup'.p = sPacer
          BY <4>1 DEF StopSessionPacer, Types, ControlType
        <5> QED
          BY <4>1, <5>1, Numbers DEF StopSessionPacer, MarkStopped, Types, ControlType, FlagType, Gens
      <4>2. CASE sup'.p = 0
        BY <4>2
      <4>3. CASE sup'.p = sup.p /\ sup.p # 0
        <5>1. sup.p \in Gens /\ stopped[sup.p] = TRUE
          BY <4>3, Numbers DEF ShapeInv, Begun, Types, ControlType, Gens
        <5> QED
          BY <2>1, <4>3, <5>1 DEF Same
      <4>4. sup'.p = 0 \/ sup'.p = sup.p \/ \E pc \in {"drain", "fail", "close"} : StopSessionPacer(pc)
        BY <1>2, <2>5 DEF PeerCloses, Supervisor, AbortStopsPacer, AbortDrains, AbortTells, DropStale,
           FinishSilently, FinishSpeaking, ErrorStopsPacer, ErrorTells, CloseSession, SupCancels,
           Write, WriteFails, vars, supVars, SupGoto, Types, ControlType, Pending
      <4> QED
        BY <4>1, <4>2, <4>3, <4>4
    <3> QED
      BY <2>2, <2>3, <3>1, <3>2, <3>3 DEF ShapeInv, Begun
  <2> QED
    BY <2>2, <2>4, <2>5 DEF ShapeInv
<1>3. ASSUME NEW g \in Gens, Orchestrator(g) \/ Consumer(g) \/ Pacer(g) PROVE ShapeInv'
  <2>1. \A h \in Gens \ {g} : Same(h)
    BY <1>3, OrchestratorKeeps, ConsumerKeeps, PacerKeeps
  <2>2. \A h \in Gens \ {g} : Shape(h)'
    BY <2>1, SameShape DEF ShapeInv
  <2>3. Shape(g)'
    BY <1>3, OrchestratorShape, ConsumerShape, PacerShape DEF ShapeInv
  <2>4. generation' = generation /\ sup' = sup
    BY <1>3 DEF Orchestrator, OrchCreate, OrchCreateFails, OrchCheck, OrchGivesUp, OrchSend,
       OrchSpeak, OrchFinish, OrchFinishInput, OrchHearsError, OrchStops, OrchCancels, Consumer,
       ConsNext, ConsEnds, ConsPut, ConsPush, Pacer, PacerTakes, PacerExits, PacerChecks,
       PacerClaimsStart, PacerSendsStart, TransitionToSpeaking, PacerRechecks, PacerSends,
       PacerPushes, PacerTicks, PacerFinishes, supVars
  <2>5. orch[g].pc # "none"
    BY <1>3 DEF Orchestrator, OrchCreate, OrchCreateFails, OrchCheck, OrchGivesUp, OrchSend,
       OrchSpeak, OrchFinish, OrchFinishInput, OrchHearsError, OrchStops, OrchCancels, Consumer,
       ConsNext, ConsEnds, ConsPut, ConsPush, Pacer, PacerTakes, PacerExits, PacerChecks,
       PacerClaimsStart, PacerSendsStart, TransitionToSpeaking, PacerRechecks, PacerSends,
       PacerPushes, PacerTicks, PacerFinishes, ShapeInv, Shape, Fresh, OrchAt, PacerAt
  <2>6. state' = state \/ state = "Processing"
    BY <1>3 DEF Orchestrator, OrchCreate, OrchCreateFails, OrchCheck, OrchGivesUp, OrchSend,
       OrchSpeak, OrchFinish, OrchFinishInput, OrchHearsError, OrchStops, OrchCancels, Consumer,
       ConsNext, ConsEnds, ConsPut, ConsPush, Pacer, PacerTakes, PacerExits, PacerChecks,
       PacerClaimsStart, PacerSendsStart, TransitionToSpeaking, Announces, PacerRechecks,
       PacerSends, PacerPushes, PacerTicks, PacerFinishes, supVars
  <2>8. sup'.p # 0 => stopped'[sup'.p] = TRUE
    <3> SUFFICES ASSUME sup.p # 0 PROVE stopped'[sup.p] = TRUE
      BY <2>4
    <3>1. sup.p \in Gens /\ stopped[sup.p] = TRUE
      BY Numbers DEF ShapeInv, Begun, Types, ControlType, Gens
    <3>2. CASE sup.p # g
      BY <2>1, <3>1, <3>2 DEF Same
    <3>3. CASE sup.p = g
      BY <1>3, <3>1, <3>3 DEF Orchestrator, OrchCreate, OrchCreateFails, OrchCheck, OrchGivesUp,
         OrchSend, OrchSpeak, OrchFinish, OrchFinishInput, OrchHearsError, OrchStops, OrchCancels,
         MarkStopped, CancelPacer, Consumer, ConsNext, ConsEnds, ConsPut, ConsPush, Pacer,
         PacerTakes, PacerExits, PacerChecks, PacerClaimsStart, PacerSendsStart,
         TransitionToSpeaking, PacerRechecks, PacerSends, PacerPushes, PacerTicks, PacerFinishes,
         pacerVars, Types, FlagType
    <3> QED
      BY <3>2, <3>3
  <2>9. \A h \in Gens : orch[h].pc = "none" => orch'[h].pc = "none"
    BY <2>1, <2>5 DEF Same
  <2>7. Begun'
    BY <2>4, <2>6, <2>8, <2>9 DEF ShapeInv, Begun
  <2> QED
    BY <2>2, <2>3, <2>7 DEF ShapeInv
<1> QED
  BY <1>1, <1>2, <1>3, NextCases

LEMMA AlwaysShaped == Spec => [](Types /\ ShapeInv)
<1>1. Init => ShapeInv
  <2> SUFFICES ASSUME Init PROVE ShapeInv
    OBVIOUS
  <2>1. \A g \in Gens : /\ orch[g].pc = "none" /\ orch[g].n = 1 /\ fed[g] = 0 /\ cons[g].pc = "none"
                        /\ cons[g].n = 0 /\ pacer[g].pc = "none" /\ pacer[g].p = 0
                        /\ packets[g] = << >> /\ hasSentStart[g] = FALSE /\ cancelled[g] = FALSE
    BY DEF Init
  <2>2. Len(<< >>) = 0 /\ sup.pc = "idle" /\ sup.p = 0 /\ sup.gen <= generation
    BY DEF Init
  <2> QED
    BY <2>1, <2>2 DEF ShapeInv, Begun, Shape, Fresh, Given, Line, Consecutive, Started
<1> QED
  BY <1>1, ShapeStep, AlwaysTyped, PTL DEF Spec

------------------------------------------------------------------------------
(* The order of an answer.                                                    *)

(* What the current turn has got past, it has sent.                           *)
SentencesSent(g) == \A k \in 1 .. Sentences :
  k <= fed[g] \/ (k = orch[g].n /\ orch[g].pc = "speak") => Msg("sentence", g, k) \in Sent

SoundSent(g) == pacer[g].pc # "gone" /\ (cancelled[g] = FALSE \/ pacer[g].pc = "push") =>
  \A q \in 1 .. pacer[g].p :
    q < pacer[g].p \/ pacer[g].pc \notin InHand => Msg("audio", g, q) \in Sent

StartSent(g) ==
  pacer[g].pc \notin {"startsend", "gone"} /\ hasSentStart[g] = TRUE => Msg("start", g, 0) \in Sent

SentInv == wClosed = FALSE =>
  \A g \in Gens : g = generation => SentencesSent(g) /\ SoundSent(g) /\ StartSent(g)

(* Nothing is queued for a turn to come, and AnswerIsInOrder, place by place. *)
QueueInv == \A i \in 1 .. Len(queue) : queue[i].gen <= generation

Follows(m, unannounced) ==
  IF m.kind = "audio"
    THEN (IF unannounced THEN {} ELSE {Msg("start", m.gen, 0)})
           \cup {Msg("sentence", m.gen, SentenceOf(m.n))}
           \cup {Msg("audio", m.gen, p) : p \in 1 .. m.n - 1}
    ELSE IF m.kind = "sentence" THEN {Msg("sentence", m.gen, n) : n \in 1 .. m.n - 1}
                                ELSE {}

(* The current turn has a pacer that will never send its tts.start.           *)
Mute == generation \in Gens /\ stopped[generation] = TRUE /\ hasSentStart[generation] = FALSE

Before(m, i) == m \in device \/ \E j \in 1 .. i - 1 : queue[j] = m
Ordered == \A i \in 1 .. Len(queue) :
  queue[i].gen = generation => \A m \in Follows(queue[i], Mute) : Before(m, i)

OrderInv == SentInv /\ QueueInv /\ Ordered /\ SpeakingIsAnnounced

(* The ways in which the messages move.                                       *)
Stays == queue' = queue /\ device' = device
Grows(m) == queue' = Append(queue, m) /\ device' = device /\ wClosed = FALSE

LEMMA QueueFacts ==
  ASSUME Types
  PROVE  /\ queue \in Seq(Messages) /\ Len(queue) \in Nat /\ DOMAIN queue = 1 .. Len(queue)
         /\ Sent = device \cup {queue[i] : i \in 1 .. Len(queue)}
  BY DEF Types, OutType, Sent, ToSet

LEMMA AppendFacts ==
  ASSUME Types, NEW m, queue' = Append(queue, m), Len(queue') \in Nat
  PROVE  /\ Len(queue') = Len(queue) + 1
         /\ \A i \in 1 .. Len(queue) : queue'[i] = queue[i]
         /\ queue'[Len(queue) + 1] = m
  BY QueueFacts

LEMMA TailFacts ==
  ASSUME Types, queue # << >>, queue' = Tail(queue)
  PROVE  /\ Len(queue) \in Nat /\ Len(queue) > 0 /\ Len(queue') = Len(queue) - 1
         /\ Head(queue) = queue[1]
         /\ \A i \in 1 .. Len(queue') : queue'[i] = queue[i + 1]
  BY QueueFacts

LEMMA SentGrows ==
  ASSUME Types, Types', \/ Stays \/ Write \/ \E m : Grows(m)
  PROVE  Sent \subseteq Sent'
<1>1. CASE Stays
  BY <1>1 DEF Stays, Sent
<1>2. ASSUME NEW m, Grows(m) PROVE Sent \subseteq Sent'
  BY <1>2, AppendFacts, QueueFacts DEF Grows, Sent, ToSet, Types, OutType
<1>3. CASE Write
  <2>1. queue # << >> /\ queue' = Tail(queue) /\ device' = device \cup {queue[1]}
    BY <1>3, QueueFacts DEF Write
  <2> SUFFICES ASSUME NEW i \in 1 .. Len(queue), i # 1 PROVE queue[i] \in Sent'
    BY <2>1, QueueFacts DEF Sent, ToSet
  <2>2. i - 1 \in 1 .. Len(queue') /\ queue'[i - 1] = queue[(i - 1) + 1]
    BY <2>1, TailFacts
  <2>3. queue[i] = queue'[i - 1]
    BY <2>2
  <2>4. DOMAIN queue' = 1 .. Len(queue')
    BY DEF Types, OutType
  <2> QED
    BY <2>2, <2>3, <2>4 DEF Sent, ToSet
<1> QED
  BY <1>1, <1>2, <1>3

LEMMA GrownSent ==
  ASSUME Types, Types', NEW m, Grows(m)
  PROVE  m \in Sent'
<1>1. Len(queue) + 1 \in DOMAIN queue' /\ queue'[Len(queue) + 1] = m
  BY AppendFacts, QueueFacts DEF Grows, Types, OutType
<1> QED
  BY <1>1 DEF Sent, ToSet

LEMMA FollowsMust ==
  ASSUME Types, NEW m \in Messages, m.gen = generation
  PROVE  MustFollow(m) = Follows(m, Mute)
<1>1. generation \in Gens
  BY DEF Messages, Msg
<1>2. Mute <=> Unannounced(m.gen)
  BY <1>1 DEF Mute, Unannounced, Types, FlagType
<1> QED
  BY <1>2 DEF MustFollow, Follows

(* What an unannounced pacer need not follow it need not follow later either. *)
LEMMA FollowsLess ==
  ASSUME Mute => Mute', NEW m
  PROVE  Follows(m, Mute') \subseteq Follows(m, Mute)
  BY DEF Follows

(* Order survives the three moves.                                            *)
LEMMA StayOrdered ==
  ASSUME Types, QueueInv, Ordered, Stays, generation' = generation,
         Mute => Mute'
  PROVE  QueueInv' /\ Ordered'
<1>1. \A i \in 1 .. Len(queue) :
        Follows(queue[i], Mute') \subseteq Follows(queue[i], Mute)
  BY FollowsLess
<1>2. Ordered'
  <2> SUFFICES ASSUME NEW i \in 1 .. Len(queue), queue[i].gen = generation,
                      NEW f \in Follows(queue[i], Mute')
               PROVE  Before(f, i)'
    BY DEF Ordered, Stays
  <2> QED
    BY <1>1 DEF Ordered, Before, Stays
<1> QED
  BY <1>2 DEF Stays, QueueInv

LEMMA GrowOrdered ==
  ASSUME Types, Types', QueueInv, Ordered, NEW m, Grows(m), generation' = generation,
         Mute => Mute',
         m.gen <= generation, m.gen = generation => MustFollow(m) \subseteq Sent
  PROVE  QueueInv' /\ Ordered'
<1>1. /\ Len(queue') = Len(queue) + 1 /\ Len(queue) \in Nat
      /\ \A i \in 1 .. Len(queue) : queue'[i] = queue[i]
      /\ queue'[Len(queue) + 1] = m /\ device' = device
  BY AppendFacts, QueueFacts DEF Grows, Types, OutType
<1>2. QueueInv'
  BY <1>1 DEF QueueInv
<1>3. Ordered'
  <2> SUFFICES ASSUME NEW i \in 1 .. Len(queue'), queue'[i].gen = generation,
                      NEW f \in Follows(queue'[i], Mute')
               PROVE  Before(f, i)'
    BY DEF Ordered
  <2>0. f \in Follows(queue'[i], Mute)
    BY FollowsLess
  <2>a. queue'[i] \in Messages
    BY DEF Types, OutType
  <2>1. CASE i \in 1 .. Len(queue)
    BY <1>1, <2>0, <2>1 DEF Ordered, Before
  <2>2. CASE i = Len(queue) + 1
    <3>1. f \in Sent
      BY <1>1, <2>0, <2>2, <2>a, FollowsMust
    <3> QED
      BY <1>1, <2>2, <3>1, QueueFacts DEF Before
  <2> QED
    BY <1>1, <2>1, <2>2
<1> QED
  BY <1>2, <1>3

LEMMA WriteOrdered ==
  ASSUME Types, QueueInv, Ordered, Write, Mute => Mute'
  PROVE  QueueInv' /\ Ordered'
<1>1. /\ Len(queue) \in Nat /\ Len(queue) > 0 /\ Len(queue') = Len(queue) - 1
      /\ \A i \in 1 .. Len(queue') : queue'[i] = queue[i + 1]
      /\ device' = device \cup {queue[1]} /\ generation' = generation
  BY TailFacts DEF Write, supVars
<1>2. QueueInv'
  BY <1>1 DEF QueueInv
<1>3. Ordered'
  <2> SUFFICES ASSUME NEW i \in 1 .. Len(queue'), queue'[i].gen = generation,
                      NEW f \in Follows(queue'[i], Mute')
               PROVE  Before(f, i)'
    BY <1>1 DEF Ordered
  <2>0. f \in Follows(queue'[i], Mute)
    BY FollowsLess
  <2>1. i \in Nat /\ i + 1 \in 1 .. Len(queue) /\ queue'[i] = queue[i + 1]
    BY <1>1
  <2>2. f \in device \/ \E j \in 1 .. (i + 1) - 1 : queue[j] = f
    BY <2>0, <2>1 DEF Ordered, Before
  <2>3. ASSUME NEW j \in 1 .. i, queue[j] = f PROVE Before(f, i)'
    <3>1. CASE j = 1
      BY <1>1, <2>3, <3>1 DEF Before
    <3>2. CASE j # 1
      <4>1. j - 1 \in 1 .. i - 1 /\ j - 1 \in 1 .. Len(queue') /\ (j - 1) + 1 = j
        BY <1>1, <2>1, <3>2
      <4>2. queue'[j - 1] = f
        BY <1>1, <2>3, <4>1
      <4> QED
        BY <4>1, <4>2 DEF Before
    <3> QED
      BY <3>1, <3>2
  <2> QED
    BY <1>1, <2>1, <2>2, <2>3 DEF Before
<1> QED
  BY <1>2, <1>3

LEMMA ForgetOrdered ==
  ASSUME queue' = << >>
  PROVE  QueueInv' /\ Ordered'
<1>1. Len(queue') = 0
  OBVIOUS
<1> QED
  BY <1>1 DEF QueueInv, Ordered

(* Ordered is AnswerIsInOrder.                                                *)
LEMMA OrderedIsInOrder == Types /\ Ordered => AnswerIsInOrder
<1> SUFFICES ASSUME Types, Ordered, NEW i \in DOMAIN queue, queue[i].gen = generation,
                    NEW m \in MustFollow(queue[i])
             PROVE  m \in device \cup ToSet(SubSeq(queue, 1, i - 1))
  BY DEF AnswerIsInOrder
<1>1. i \in 1 .. Len(queue) /\ Len(queue) \in Nat /\ queue \in Seq(Messages)
  BY QueueFacts
<1>2. Before(m, i)
  <2>1. queue[i] \in Messages
    BY <1>1
  <2> QED
    BY <1>1, <2>1, FollowsMust DEF Ordered
<1>3. ASSUME NEW j \in 1 .. i - 1, queue[j] = m PROVE m \in ToSet(SubSeq(queue, 1, i - 1))
  <2>1. Len(SubSeq(queue, 1, i - 1)) = i - 1 /\ SubSeq(queue, 1, i - 1)[j] = queue[j]
        /\ DOMAIN SubSeq(queue, 1, i - 1) = 1 .. i - 1
    BY <1>1
  <2> QED
    BY <1>3, <2>1 DEF ToSet
<1> QED
  BY <1>2, <1>3 DEF Before

(* Turn g has said what it has got past.                                      *)
Said(g) == SentencesSent(g) /\ SoundSent(g) /\ StartSent(g)

(* A turn that has not created its streams has nothing to say.                *)
LEMMA FreshSaid ==
  ASSUME Types', NEW g \in Gens, Shape(g)', orch'[g].pc \in {"none", "create"}
  PROVE  Said(g)'
<1>1. orch'[g].n = 1 /\ pacer'[g].p = 0 /\ hasSentStart'[g] = FALSE /\ fed'[g] = 0
  BY DEF Shape, Fresh, Given
<1> QED
  BY <1>1 DEF Said, SentencesSent, SoundSent, StartSent

LEMMA SameSaid ==
  ASSUME NEW g \in Gens, Said(g), Same(g), Sent \subseteq Sent'
  PROVE  Said(g)'
  BY DEF Said, Same, SentencesSent, SoundSent, StartSent

LEMMA OrchestratorSaid ==
  ASSUME Types, Types', NEW g \in Gens, Shape(g), Said(g), Orchestrator(g), wClosed = FALSE,
         Sent \subseteq Sent'
  PROVE  Said(g)'
<1> USE DEF Types, OrchType, ConsType, PacerType, PacketsType, FlagType
<1>1. CASE OrchCreate(g)
  <2>1. pacer[g].p = 0 /\ hasSentStart[g] = FALSE
    BY <1>1 DEF OrchCreate, OrchAt, Shape, Fresh
  <2>2. /\ orch'[g].pc = "check" /\ orch'[g].n = orch[g].n /\ fed'[g] = fed[g]
        /\ pacer'[g].p = 0 /\ hasSentStart'[g] = FALSE
    BY <1>1, <2>1 DEF OrchCreate, OrchGoto
  <2>3. SentencesSent(g)'
    BY <2>2 DEF Said, SentencesSent
  <2> QED
    BY <2>2, <2>3 DEF Said, SoundSent, StartSent
<1>2. CASE ~OrchCreate(g)
  <2>1. pacer' = pacer /\ hasSentStart' = hasSentStart /\ cancelled'[g] \in {cancelled[g], TRUE}
    BY <1>2 DEF Orchestrator, OrchCreateFails, OrchCheck, OrchGivesUp, OrchSend, OrchSpeak,
       OrchFinish, OrchFinishInput, OrchHearsError, OrchStops, OrchCancels, MarkStopped,
       CancelPacer, pacerVars
  <2>2. SoundSent(g)' /\ StartSent(g)'
    BY <2>1 DEF Said, SoundSent, StartSent
  <2>3. CASE OrchSpeak(g)
    <3>1. /\ orch[g].pc = "speak" /\ orch'[g].pc = "check" /\ fed'[g] = orch[g].n
          /\ fed[g] = orch[g].n - 1
      BY <2>3 DEF OrchSpeak, OrchAt, Shape, Given
    <3>2. \A k \in 1 .. Sentences : k <= orch[g].n => k <= fed[g] \/ k = orch[g].n
      BY <3>1, Numbers
    <3> QED
      BY <2>2, <3>1, <3>2 DEF Said, SentencesSent
  <2>4. CASE OrchSend(g) /\ orch'[g].pc = "speak"
    <3>1. Grows(Msg("sentence", g, orch[g].n))
      BY <2>4 DEF OrchSend, OrchAt, OrchGoto, Enqueue, Accepts, Grows, OutType
    <3>2. Msg("sentence", g, orch[g].n) \in Sent'
      BY <3>1, GrownSent
    <3>3. orch'[g].n = orch[g].n /\ fed'[g] = fed[g]
      BY <2>4 DEF OrchSend, OrchGoto
    <3> QED
      BY <2>2, <3>2, <3>3 DEF Said, SentencesSent
  <2>5. CASE ~OrchSpeak(g) /\ ~(OrchSend(g) /\ orch'[g].pc = "speak")
    <3>1. orch'[g].n = orch[g].n /\ fed'[g] = fed[g] /\ orch'[g].pc # "speak"
      <4>1. CASE OrchSend(g)
        <5>1. fed' = fed /\ (OrchGoto(g, "speak") \/ OrchGoto(g, "stop"))
          BY <4>1 DEF OrchSend
        <5>2. orch'[g].pc # "speak"
          BY <2>5, <4>1
        <5> QED
          BY <5>1, <5>2 DEF OrchGoto
      <4>2. CASE ~OrchSend(g)
        <5>1. fed' = fed
          BY <1>2, <2>5, <4>2 DEF Orchestrator, OrchCreateFails, OrchCheck, OrchGivesUp, OrchFinish,
             OrchFinishInput, OrchHearsError, OrchStops, OrchCancels
        <5>2. \E l \in {"send", "finish", "await", "stop", "cancel", "done"} : OrchGoto(g, l)
          BY <1>2, <2>5, <4>2 DEF Orchestrator, OrchCreateFails, OrchCheck, OrchGivesUp, OrchFinish,
             OrchFinishInput, OrchHearsError, OrchStops, OrchCancels
        <5> QED
          BY <5>1, <5>2 DEF OrchGoto
      <4> QED
        BY <4>1, <4>2
    <3> QED
      BY <2>2, <3>1 DEF Said, SentencesSent
  <2> QED
    BY <2>3, <2>4, <2>5
<1> QED
  BY <1>1, <1>2

LEMMA ConsumerSaid ==
  ASSUME NEW g \in Gens, Said(g), Consumer(g), Sent \subseteq Sent'
  PROVE  Said(g)'
  BY DEF Said, SentencesSent, SoundSent, StartSent, Consumer, ConsNext, ConsEnds, ConsPut, ConsPush,
     pacerVars

LEMMA PacerSaid ==
  ASSUME Types, Types', NEW g \in Gens, Shape(g), Said(g), Pacer(g), wClosed = FALSE,
         g = generation, Sent \subseteq Sent'
  PROVE  Said(g)'
<1> USE DEF Types, OrchType, ConsType, PacerType, PacketsType, FlagType
<1>1. orch' = orch /\ fed' = fed /\ stopped' = stopped /\ cancelled' = cancelled /\ ~Superseded(g)
  BY DEF Pacer, PacerTakes, PacerExits, PacerChecks, PacerClaimsStart, PacerSendsStart,
     TransitionToSpeaking, PacerRechecks, PacerSends, PacerPushes, PacerTicks, PacerFinishes,
     turnVars, Superseded, ControlType
<1>2. SentencesSent(g)'
  BY <1>1 DEF Said, SentencesSent
<1>3. CASE PacerTakes(g)
  <2>1. /\ pacer[g].pc = "idle" /\ pacer'[g].pc = "check" /\ pacer'[g].p = Head(packets[g])
        /\ packets[g] # << >> /\ hasSentStart' = hasSentStart
    BY <1>3 DEF PacerTakes, PacerAt
  <2>2. cancelled[g] = FALSE => pacer'[g].p = pacer[g].p + 1
    <3> SUFFICES ASSUME cancelled[g] = FALSE PROVE pacer'[g].p = pacer[g].p + 1
      OBVIOUS
    <3>1. Consecutive(g) /\ Head(packets[g]) = packets[g][1] /\ 1 \in 1 .. Len(packets[g])
      BY <2>1 DEF Shape, Line
    <3> QED
      BY <2>1, <3>1 DEF Consecutive
  <2>3. pacer[g].p \in Nat
    BY Product
  <2>4. SoundSent(g)'
    BY <1>1, <2>1, <2>2, <2>3 DEF Said, SoundSent, InHand
  <2> QED
    BY <1>2, <2>1, <2>4 DEF Said, StartSent
<1>4. CASE PacerClaimsStart(g)
  <2>1. /\ pacer[g].pc = "start" /\ pacer'[g].p = pacer[g].p
        /\ hasSentStart'[g] = ~stopped[g]
        /\ pacer'[g].pc = IF stopped[g] THEN "recheck" ELSE "startsend"
    BY <1>1, <1>4 DEF PacerClaimsStart, PacerAt, PacerGoto
  <2> QED
    BY <1>1, <1>2, <2>1 DEF Said, SoundSent, StartSent, InHand
<1>5. CASE PacerSendsStart(g)
  <2>1. /\ pacer[g].pc = "startsend" /\ pacer'[g].p = pacer[g].p
        /\ pacer'[g].pc \in {"speak", "gone"} /\ hasSentStart' = hasSentStart
    BY <1>5 DEF PacerSendsStart, PacerAt, PacerGoto
  <2>2. pacer'[g].pc = "speak" => Grows(Msg("start", g, 0))
    BY <1>5 DEF PacerSendsStart, PacerGoto, Enqueue, Accepts, Grows, OutType
  <2>3. StartSent(g)'
    BY <2>1, <2>2, GrownSent DEF StartSent
  <2> QED
    BY <1>1, <1>2, <2>1, <2>3 DEF Said, SoundSent, InHand
<1>6. CASE PacerPushes(g)
  <2>1. /\ pacer[g].pc = "push" /\ pacer'[g].p = pacer[g].p
        /\ pacer'[g].pc \in {"tick", "gone"} /\ hasSentStart' = hasSentStart
    BY <1>6 DEF PacerPushes, PacerAt, PacerGoto
  <2>2. pacer'[g].pc = "tick" => Grows(Msg("audio", g, pacer[g].p))
    BY <1>6 DEF PacerPushes, PacerGoto, Enqueue, Accepts, Grows, OutType
  <2>3. pacer'[g].pc = "tick" => Msg("audio", g, pacer[g].p) \in Sent'
    BY <2>2, GrownSent
  <2>4. \A q \in 1 .. pacer[g].p : q < pacer[g].p \/ q = pacer[g].p
    BY Product
  <2>5. SoundSent(g)'
    BY <2>1, <2>3, <2>4 DEF Said, SoundSent
  <2> QED
    BY <1>2, <2>1, <2>5 DEF Said, StartSent
<1>7. CASE ~PacerTakes(g) /\ ~PacerClaimsStart(g) /\ ~PacerSendsStart(g) /\ ~PacerPushes(g)
  <2>1. /\ pacer'[g].p = pacer[g].p /\ hasSentStart' = hasSentStart
        /\ pacer'[g].pc = "gone" \/ (pacer[g].pc \notin {"startsend", "gone"}
                                     /\ (pacer[g].pc \in InHand <=> pacer'[g].pc \in InHand))
        /\ pacer'[g].pc = "push" => cancelled[g] = FALSE
    BY <1>1, <1>7 DEF Pacer, PacerExits, PacerChecks, TransitionToSpeaking, PacerRechecks,
       PacerSends, PacerTicks, PacerFinishes, PacerGoto, PacerAt, InHand,
       PacerCancelled
  <2> QED
    BY <1>1, <1>2, <2>1 DEF Said, SoundSent, StartSent
<1> QED
  BY <1>3, <1>4, <1>5, <1>6, <1>7

(* The generation changes only with a turn that has not begun.                *)
LEMMA GenerationKeeps ==
  ASSUME [Next]_vars, ~NewTurn, ~AbortCancels
  PROVE  generation' = generation
<1>1. CASE PeerCloses \/ Supervisor \/ Write \/ WriteFails \/ UNCHANGED vars
  BY <1>1 DEF PeerCloses, Supervisor, AbortStopsPacer, AbortDrains, AbortTells, DropStale,
     FinishSilently, FinishSpeaking, ErrorStopsPacer, ErrorTells, CloseSession, SupCancels, Write,
     WriteFails, vars, supVars
<1>2. ASSUME NEW g \in Gens, Orchestrator(g) \/ Consumer(g) \/ Pacer(g)
      PROVE  generation' = generation
  BY <1>2 DEF Orchestrator, OrchCreate, OrchCreateFails, OrchCheck, OrchGivesUp, OrchSend,
     OrchSpeak, OrchFinish, OrchFinishInput, OrchHearsError, OrchStops, OrchCancels, Consumer,
     ConsNext, ConsEnds, ConsPut, ConsPush, Pacer, PacerTakes, PacerExits, PacerChecks,
     PacerClaimsStart, PacerSendsStart, TransitionToSpeaking, PacerRechecks, PacerSends,
     PacerPushes, PacerTicks, PacerFinishes, supVars
<1> QED
  BY <1>1, <1>2, NextCases

(* What the orchestrator and the pacer send follows what is sent already.     *)
LEMMA SentenceFollows ==
  ASSUME Types, NEW g \in Gens, Said(g), Shape(g), OrchAt(g, "send")
  PROVE  MustFollow(Msg("sentence", g, orch[g].n)) \subseteq Sent
<1>1. orch[g].n \in 1 .. Sentences /\ fed[g] = orch[g].n - 1
  BY Numbers DEF Types, OrchType, OrchAt, Shape, Given
<1>2. \A k \in 1 .. orch[g].n - 1 : Msg("sentence", g, k) \in Sent
  BY <1>1, Numbers DEF Said, SentencesSent
<1> QED
  BY <1>2 DEF MustFollow, Msg

LEMMA SoundFollows ==
  ASSUME Types, NEW g \in Gens, Said(g), Shape(g), PacerAt(g, "push")
  PROVE  MustFollow(Msg("audio", g, pacer[g].p)) \subseteq Sent
<1> DEFINE p == pacer[g].p
<1>1. pacer[g].pc = "push" /\ p \in Nat /\ p >= 1 /\ p <= cons[g].n /\ cons[g].n \in Nat
  BY Product DEF Types, PacerType, ConsType, PacerAt, InHand, AllPackets, Shape, Given
<1>2. ~Unannounced(g) => Msg("start", g, 0) \in Sent
  BY <1>1 DEF Shape, Started, Said, StartSent, Unannounced, Types, FlagType
<1>3. Msg("sentence", g, SentenceOf(p)) \in Sent
  <2>1. SentenceOf(p) <= fed[g]
    BY <1>1 DEF Shape, Given
  <2>2. fed[g] \in 0 .. Sentences
    BY DEF Types, OrchType
  <2>3. SentenceOf(p) \in Nat /\ SentenceOf(p) >= 1
    BY <1>1, Numbers DEF SentenceOf
  <2> QED
    BY <2>1, <2>2, <2>3, Numbers DEF Said, SentencesSent
<1>4. \A q \in 1 .. p - 1 : Msg("audio", g, q) \in Sent
  BY <1>1 DEF Said, SoundSent
<1>5. MustFollow(Msg("audio", g, p)) =
        (IF Unannounced(g) THEN {} ELSE {Msg("start", g, 0)})
          \cup {Msg("sentence", g, SentenceOf(p))} \cup {Msg("audio", g, q) : q \in 1 .. p - 1}
  BY DEF MustFollow, Msg
<1> QED
  BY <1>2, <1>3, <1>4, <1>5

(* How the queue moves within a generation.                                   *)
LEMMA QueueMoves ==
  ASSUME Types, ShapeInv, SentInv, [Next]_vars, ~NewTurn, ~AbortCancels
  PROVE  \/ Stays \/ Write
         \/ queue' = << >> /\ device' = device /\ (WriteFails \/ AbortDrains)
         \/ \E m : /\ Grows(m) /\ m.gen <= generation
                   /\ m.gen = generation => MustFollow(m) \subseteq Sent
<1>1. CASE PeerCloses \/ Write \/ WriteFails \/ UNCHANGED vars \/ AbortStopsPacer \/ AbortDrains
           \/ DropStale \/ FinishSilently \/ ErrorStopsPacer \/ SupCancels \/ CloseSession
  BY <1>1 DEF PeerCloses, WriteFails, vars, outVars, AbortStopsPacer, AbortDrains, DropStale,
     FinishSilently, ErrorStopsPacer, SupCancels, CloseSession, Stays
<1>2. CASE AbortTells
  <2>1. Grows(Msg("stop", sup.gen, 0)) \/ Stays
    BY <1>2 DEF AbortTells, Enqueue, Accepts, Grows, Refuse, Stays, outVars, Types, OutType
  <2>2. sup.gen <= generation
    BY DEF ShapeInv, Begun
  <2> QED
    BY <2>1, <2>2 DEF Msg, MustFollow
<1>3. CASE FinishSpeaking \/ ErrorTells
  <2>1. Grows(Msg("stop", generation, 0)) \/ Stays
    BY <1>3 DEF FinishSpeaking, ErrorTells, Enqueue, Refuse, Accepts, Grows, Stays, outVars, Types,
       OutType
  <2> QED
    BY <2>1 DEF Msg, MustFollow, Types, ControlType
<1>4. ASSUME NEW g \in Gens, Orchestrator(g) \/ Consumer(g) \/ Pacer(g)
      PROVE  \/ Stays
             \/ \E m : /\ Grows(m) /\ m.gen <= generation
                       /\ m.gen = generation => MustFollow(m) \subseteq Sent
  <2>1. CASE OrchSend(g)
    <3>1. Grows(Msg("sentence", g, orch[g].n)) \/ Stays
      BY <2>1 DEF OrchSend, Enqueue, Accepts, Grows, Refuse, Stays, outVars, Types, OutType
    <3>2. g <= generation
      BY <2>1 DEF OrchSend, OrchAt, ShapeInv, Begun, Gens, Types, ControlType
    <3>3. wClosed = FALSE /\ g = generation => MustFollow(Msg("sentence", g, orch[g].n)) \subseteq Sent
      BY <2>1, SentenceFollows DEF OrchSend, SentInv, Said, ShapeInv
    <3> QED
      BY <3>1, <3>2, <3>3 DEF Msg, Grows
  <2>2. CASE PacerSendsStart(g) \/ PacerPushes(g)
    <3>1. g <= generation
      BY <2>2 DEF PacerSendsStart, PacerPushes, PacerAt, ShapeInv, Shape, Fresh, Begun, Gens, Types,
         ControlType
    <3>2. CASE PacerSendsStart(g)
      <4>1. Grows(Msg("start", g, 0)) \/ Stays
        BY <3>2 DEF PacerSendsStart, Enqueue, Accepts, Grows, Refuse, Stays, outVars, Types, OutType
      <4> QED
        BY <3>1, <4>1 DEF Msg, MustFollow
    <3>3. CASE PacerPushes(g)
      <4>1. Grows(Msg("audio", g, pacer[g].p)) \/ Stays
        BY <3>3 DEF PacerPushes, Enqueue, Accepts, Grows, Refuse, Stays, outVars, Types, OutType
      <4>2. wClosed = FALSE /\ g = generation =>
              MustFollow(Msg("audio", g, pacer[g].p)) \subseteq Sent
        BY <3>3, SoundFollows DEF PacerPushes, SentInv, Said, ShapeInv
      <4> QED
        BY <3>1, <4>1, <4>2 DEF Msg, Grows
    <3> QED
      BY <2>2, <3>2, <3>3
  <2>3. CASE ~OrchSend(g) /\ ~PacerSendsStart(g) /\ ~PacerPushes(g)
    BY <1>4, <2>3 DEF Orchestrator, OrchCreate, OrchCreateFails, OrchCheck, OrchGivesUp, OrchSpeak,
       OrchFinish, OrchFinishInput, OrchHearsError, OrchStops, OrchCancels, Consumer, ConsNext,
       ConsEnds, ConsPut, ConsPush, Pacer, PacerTakes, PacerExits, PacerChecks, PacerClaimsStart,
       TransitionToSpeaking, PacerRechecks, PacerSends, PacerTicks, PacerFinishes, outVars, Stays
  <2> QED
    BY <2>1, <2>2, <2>3
<1> QED
  BY <1>1, <1>2, <1>3, <1>4, NextCases DEF Supervisor

(* A pacer stopped before its tts.start stays one that never sends it.        *)
LEMMA MuteStays ==
  ASSUME Types, Types', ShapeInv, [Next]_vars, generation' = generation
  PROVE  Mute => Mute'
<1> DEFINE g == generation
<1> SUFFICES ASSUME g \in Gens, stopped[g] = TRUE, hasSentStart[g] = FALSE
             PROVE  stopped'[g] = TRUE /\ hasSentStart'[g] = FALSE
  BY DEF Mute
<1>2. CASE NewTurn
  BY <1>2 DEF NewTurn, Types, ControlType
<1>3. CASE \/ AbortCancels \/ PeerCloses \/ Supervisor \/ Write \/ WriteFails \/ UNCHANGED vars
  BY <1>3, SupervisorKeeps DEF Same
<1>4. ASSUME NEW h \in Gens, h # g, Orchestrator(h) \/ Consumer(h) \/ Pacer(h)
      PROVE  stopped'[g] = TRUE /\ hasSentStart'[g] = FALSE
  BY <1>4, OrchestratorKeeps, ConsumerKeeps, PacerKeeps DEF Same
<1>5. CASE Orchestrator(g) \/ Consumer(g) \/ Pacer(g)
  BY <1>5 DEF Orchestrator, OrchCreate, OrchCreateFails, OrchCheck, OrchGivesUp,
     OrchSend, OrchSpeak, OrchFinish, OrchFinishInput, OrchHearsError, OrchStops, OrchCancels,
     MarkStopped, CancelPacer, Consumer, ConsNext, ConsEnds, ConsPut, ConsPush, Pacer,
     PacerTakes, PacerExits, PacerChecks, PacerClaimsStart, PacerSendsStart,
     TransitionToSpeaking, PacerRechecks, PacerSends, PacerPushes, PacerTicks, PacerFinishes,
     pacerVars, Types, FlagType
<1> QED
  BY <1>2, <1>3, <1>4, <1>5, NextCases

(* The order survives every step ...                                          *)
LEMMA OrderedStep ==
  ASSUME Types, Types', ShapeInv, OrderInv, [Next]_vars
  PROVE  QueueInv' /\ Ordered'
<1> USE DEF OrderInv
<1>1. CASE NewTurn \/ AbortCancels
  <2>1. generation' = generation + 1 /\ generation \in Nat
    BY <1>1 DEF NewTurn, AbortCancels, Types, ControlType
  <2>a. \A i \in 1 .. Len(queue) : queue[i].gen <= generation /\ queue[i].gen \in Int
    <3>1. \A m \in Messages : m.gen \in Int
      BY DEF Messages, Msg, Gens
    <3>2. \A i \in 1 .. Len(queue) : queue[i] \in Messages
      BY QueueFacts, ElementOfSeq
    <3> QED
      BY <3>1, <3>2 DEF QueueInv
  <2>2. CASE Stays
    BY <2>1, <2>a, <2>2 DEF Stays, QueueInv, Ordered
  <2>3. CASE Grows(Msg("stt", generation', 0))
    <3>1. /\ Len(queue') = Len(queue) + 1 /\ Len(queue) \in Nat
          /\ \A i \in 1 .. Len(queue) : queue'[i] = queue[i]
          /\ queue'[Len(queue) + 1] = Msg("stt", generation', 0)
      BY <2>3, AppendFacts, QueueFacts DEF Grows, Types, OutType
    <3>3. \A i \in 1 .. Len(queue') : i \in 1 .. Len(queue) \/ i = Len(queue) + 1
      BY <3>1
    <3>4. /\ Msg("stt", generation', 0).gen = generation'
          /\ \A u : Follows(Msg("stt", generation', 0), u) = {}
      BY DEF Msg, Follows
    <3>5. QueueInv'
      BY <2>1, <2>a, <3>1, <3>3, <3>4 DEF QueueInv
    <3>6. Ordered'
      <4> SUFFICES ASSUME NEW i \in 1 .. Len(queue'), queue'[i].gen = generation'
                   PROVE  \A u : Follows(queue'[i], u) = {}
        BY DEF Ordered
      <4>1. i = Len(queue) + 1
        BY <2>1, <2>a, <3>1, <3>3
      <4> QED
        BY <3>1, <3>4, <4>1
    <3> QED
      BY <3>5, <3>6
  <2> QED
    BY <1>1, <2>2, <2>3 DEF NewTurn, AbortCancels, Enqueue, Accepts, Grows, Refuse, Stays, outVars,
       Types, OutType
<1>2. CASE ~NewTurn /\ ~AbortCancels
  <2>1. generation' = generation
    BY <1>2, GenerationKeeps
  <2>3. Mute => Mute'
    BY <2>1, MuteStays
  <2>2. ASSUME NEW m, Grows(m), m.gen <= generation,
               m.gen = generation => MustFollow(m) \subseteq Sent
        PROVE  QueueInv' /\ Ordered'
    BY <2>1, <2>2, <2>3, GrowOrdered
  <2> QED
    BY <1>2, <2>1, <2>2, <2>3, QueueMoves, StayOrdered, WriteOrdered, ForgetOrdered
<1> QED
  BY <1>1, <1>2

(* Sent only grows while an answer is under way, ...                          *)
LEMMA SentSurvives ==
  ASSUME Types, Types', ShapeInv, OrderInv, [Next]_vars, ~NewTurn, ~AbortCancels, ~AbortDrains,
         wClosed' = FALSE
  PROVE  wClosed = FALSE /\ Sent \subseteq Sent'
<1>1. wClosed = FALSE /\ ~WriteFails
  <2>1. ~WriteFails
    BY DEF WriteFails
  <2>2. CASE PeerCloses \/ Supervisor \/ Write \/ UNCHANGED vars
    <3>1. CASE PeerCloses \/ FinishSpeaking \/ ErrorTells \/ CloseSession \/ SupCancels \/ AbortTells
      BY <2>1, <3>1 DEF PeerCloses, FinishSpeaking, ErrorTells, CloseSession, SupCancels,
         AbortTells, Enqueue, Refuse, outVars
    <3>2. CASE \/ AbortStopsPacer \/ AbortDrains \/ DropStale \/ FinishSilently
               \/ ErrorStopsPacer \/ Write \/ UNCHANGED vars
      BY <2>1, <3>2 DEF AbortStopsPacer, AbortDrains, DropStale, FinishSilently, ErrorStopsPacer,
         Write, outVars, vars
    <3> QED
      BY <2>2, <3>1, <3>2 DEF Supervisor
  <2>3. ASSUME NEW h \in Gens, Orchestrator(h) \/ Consumer(h) \/ Pacer(h)
        PROVE  wClosed = FALSE
    BY <2>3 DEF Orchestrator, OrchCreate, OrchCreateFails, OrchCheck, OrchGivesUp, OrchSend,
       OrchSpeak, OrchFinish, OrchFinishInput, OrchHearsError, OrchStops, OrchCancels, Consumer,
       ConsNext, ConsEnds, ConsPut, ConsPush, Pacer, PacerTakes, PacerExits, PacerChecks,
       PacerClaimsStart, PacerSendsStart, TransitionToSpeaking, PacerRechecks, PacerSends,
       PacerPushes, PacerTicks, PacerFinishes, Enqueue, Refuse, outVars
  <2> QED
    BY <2>1, <2>2, <2>3, NextCases
<1>2. SentInv
  BY DEF OrderInv
<1> QED
  BY <1>1, <1>2, QueueMoves, SentGrows

(* ... so does what the turn has said ...                                     *)
LEMMA SentStep ==
  ASSUME Types, Types', ShapeInv, ShapeInv', OrderInv, [Next]_vars
  PROVE  SentInv'
<1> SUFFICES ASSUME NEW g \in Gens, g = generation', wClosed' = FALSE PROVE Said(g)'
  BY DEF SentInv, Said
<1>1. CASE NewTurn \/ AbortCancels \/ AbortDrains
  <2>1. orch'[g].pc \in {"none", "create"}
    <3>1. CASE NewTurn
      <4>1. orch' = [orch EXCEPT ![generation'].pc = "create"]
        BY <3>1 DEF NewTurn
      <4> QED
        BY <4>1 DEF Types, OrchType
    <3>2. CASE AbortCancels \/ AbortDrains
      <4>1. sup'.pc \in {"stop", "drain", "tell"} \/ (sup.pc = "drain" /\ orch' = orch /\ g = generation)
        BY <3>2 DEF AbortCancels, AbortDrains, turnVars, SupAt
      <4> QED
        BY <4>1 DEF ShapeInv, Begun
    <3> QED
      BY <1>1, <3>1, <3>2
  <2>2. Shape(g)'
    BY DEF ShapeInv
  <2> QED
    BY <2>1, <2>2, FreshSaid
<1>2. CASE ~NewTurn /\ ~AbortCancels /\ ~AbortDrains
  <2>1. g = generation
    BY <1>2, GenerationKeeps
  <2>2. wClosed = FALSE /\ Sent \subseteq Sent'
    BY <1>2, SentSurvives
  <2>3. SentInv
    BY DEF OrderInv
  <2>5. Said(g) /\ Shape(g)
    BY <2>1, <2>2, <2>3 DEF SentInv, Said, ShapeInv
  <2>6. CASE PeerCloses \/ Supervisor \/ Write \/ UNCHANGED vars
    BY <2>1, <2>2, <2>5, <2>6, SupervisorKeeps, SameSaid
  <2>7. ASSUME NEW h \in Gens, h # g, Orchestrator(h) \/ Consumer(h) \/ Pacer(h) PROVE Said(g)'
    BY <2>1, <2>2, <2>5, <2>7, OrchestratorKeeps, ConsumerKeeps, PacerKeeps, SameSaid
  <2>8. CASE Orchestrator(g) \/ Consumer(g) \/ Pacer(g)
    BY <2>1, <2>2, <2>5, <2>8, OrchestratorSaid, ConsumerSaid, PacerSaid
  <2>9. ~WriteFails
    BY DEF WriteFails
  <2> QED
    BY <1>2, <2>6, <2>7, <2>8, <2>9, NextCases
<1> QED
  BY <1>1, <1>2

(* ... and so does the announcement of SPEAKING.                              *)
LEMMA AnnouncedStep ==
  ASSUME Types, Types', ShapeInv, ShapeInv', OrderInv, SentInv', [Next]_vars
  PROVE  SpeakingIsAnnounced'
<1> SUFFICES ASSUME state' = "Speaking", wClosed' = FALSE
             PROVE  Msg("start", generation', 0) \in Sent'
  BY DEF SpeakingIsAnnounced, Types, OutType
<1>1. ~NewTurn /\ ~AbortCancels /\ ~AbortDrains
  BY DEF NewTurn, AbortCancels, AbortDrains, ShapeInv, Begun, SupAt
<1>2. generation' = generation
  BY <1>1, GenerationKeeps
<1>3. Sent \subseteq Sent' /\ wClosed = FALSE
  BY <1>1, SentSurvives
<1>4. CASE state = "Speaking"
  BY <1>2, <1>3, <1>4 DEF OrderInv, SpeakingIsAnnounced
<1>5. CASE state # "Speaking"
  <2>1. PICK g \in Gens : TransitionToSpeaking(g)
    <3>1. CASE PeerCloses \/ Supervisor \/ Write \/ WriteFails \/ UNCHANGED vars
      BY <1>1, <1>5, <3>1 DEF PeerCloses, FinishSpeaking, ErrorTells, CloseSession, SupCancels,
         AbortTells, AbortStopsPacer, DropStale, FinishSilently, ErrorStopsPacer, Write, WriteFails,
         supVars, vars, Supervisor
    <3>2. ASSUME NEW g \in Gens, Orchestrator(g) \/ Consumer(g) \/ Pacer(g)
          PROVE  TransitionToSpeaking(g)
      BY <1>5, <3>2 DEF Orchestrator, OrchCreate, OrchCreateFails, OrchCheck, OrchGivesUp, OrchSend,
         OrchSpeak, OrchFinish, OrchFinishInput, OrchHearsError, OrchStops, OrchCancels, Consumer,
         ConsNext, ConsEnds, ConsPut, ConsPush, Pacer, PacerTakes, PacerExits, PacerChecks,
         PacerClaimsStart, PacerSendsStart, PacerRechecks, PacerSends, PacerPushes, PacerTicks,
         PacerFinishes, supVars
    <3> QED
      BY <1>1, <3>1, <3>2, NextCases
  <2>2. pacer[g].pc = "speak" /\ g = generation
    BY <1>5, <2>1 DEF TransitionToSpeaking, PacerAt, Announces
  <2>3. Msg("start", g, 0) \in Sent
    BY <1>3, <2>2 DEF OrderInv, SentInv, StartSent, ShapeInv, Shape, Started
  <2> QED
    BY <1>2, <1>3, <2>2, <2>3
<1> QED
  BY <1>4, <1>5

LEMMA AlwaysOrdered == Spec => [](Types /\ ShapeInv /\ OrderInv)
<1>1. Init => OrderInv
  <2> SUFFICES ASSUME Init PROVE OrderInv
    OBVIOUS
  <2>1. generation = 0 /\ state = "Ready" /\ Len(queue) = 0
    BY DEF Init
  <2> QED
    BY <2>1 DEF OrderInv, SentInv, QueueInv, Ordered, SpeakingIsAnnounced, Gens
<1>2. Types /\ Types' /\ ShapeInv /\ ShapeInv' /\ OrderInv /\ [Next]_vars => OrderInv'
  BY OrderedStep, SentStep, AnnouncedStep DEF OrderInv
<1> QED
  BY <1>1, <1>2, AlwaysShaped, PTL DEF Spec

(* Whatever four goroutines put into the queue between each other's checks,   *)
(* the device hears the text of a sentence before its sound, the packets in   *)
(* sequence, and tts.start before the sound unless Stop came between: then a  *)
(* pacer that has not claimed its tts.start sends what it holds without one,  *)
(* for answers of any length and queues of any size (AnswerIsInOrder;         *)
(* pacer.go Stop, sendTTSStart, sendPacket).                                  *)
THEOREM AnswersAreInOrder == Spec => []AnswerIsInOrder
<1>1. Types /\ OrderInv => AnswerIsInOrder
  BY OrderedIsInOrder DEF OrderInv
<1> QED
  BY <1>1, AlwaysOrdered, PTL

(* The session is never SPEAKING without the tts.start of the turn it speaks  *)
(* for, however late the pacer of another one is (transitionToSpeaking).      *)
THEOREM SpeechIsAnnounced == Spec => []SpeakingIsAnnounced
<1>1. OrderInv => SpeakingIsAnnounced
  BY DEF OrderInv
<1> QED
  BY <1>1, AlwaysOrdered, PTL

------------------------------------------------------------------------------
(* What is committed.                                                         *)

Answering(g) == g = generation /\ state \in {"Processing", "Speaking"}

(* The first j events report an error of turn g, or the session is closing.   *)
ErrorWithin(g, j) == sup.pc \in {"fail", "close"} \/ \E i \in 1 .. j : posts[i] = Event("error", g)
Told(g) == ErrorWithin(g, Len(posts))

Heard(g) == wClosed = FALSE => \A q \in 1 .. fed[g] * Packets : Msg("audio", g, q) \in Sent

(* The input is closed by an orchestrator that has heard of the end of the    *)
(* sound, and only a turn that has its streams is stopped.                    *)
Closing(g) ==
  /\ inputDone[g] = TRUE => cons[g].pc = "done" /\ orch[g].pc = "done"
  /\ pacer[g].pc = "finish" => inputDone[g] = TRUE
  /\ orch[g].pc \in {"none", "create"} => stopped[g] = FALSE
  /\ sPacer = g => orch[g].pc \notin {"none", "create"}
ClosingInv == \A g \in Gens : Closing(g)

(* Nothing of the turn is missing where its consumer and its pacer stand.     *)
Complete(g) ==
  /\ stopped[g] = FALSE /\ cons[g].pc # "failed" /\ orch[g].pc \notin {"stop", "cancel"}
  /\ orch[g].pc = "done" => inputDone[g] = TRUE
  /\ cons[g].pc = "done" =>
       /\ orch[g].pc \in {"await", "done"} /\ cons[g].n = fed[g] * Packets
       /\ pacer[g].pc # "gone" => cons[g].n = pacer[g].p + Len(packets[g])
  /\ pacer[g].pc = "finish" => Len(packets[g]) = 0
OwedInv == \A g \in Gens : Answering(g) => g \in live /\ (Told(g) \/ Complete(g))

(* A turn that reports its end has queued all of its sound, or has reported   *)
(* an error before.                                                           *)
Truthful(j) ==
  /\ orch[posts[j].gen].pc \notin {"none", "create"}
  /\ posts[j].kind = "finished" => inputDone[posts[j].gen] = TRUE
  /\ posts[j].kind = "finished" /\ Answering(posts[j].gen) =>
       ErrorWithin(posts[j].gen, j) \/ Heard(posts[j].gen)
EventsInv == \A j \in 1 .. Len(posts) : Truthful(j)

PastInv == \A i \in 1 .. Len(history) : orch[history[i]].pc = "done"

LEMMA PostFacts ==
  ASSUME Types
  PROVE  /\ Len(posts) \in Nat
         /\ \A j \in 1 .. Len(posts) :
              posts[j].gen \in Gens /\ posts[j] = Event(posts[j].kind, posts[j].gen)
<1>1. Len(posts) \in Nat /\ \A j \in 1 .. Len(posts) :
        posts[j] \in {Event(k, g) : k \in {"finished", "error"}, g \in Gens}
  BY DEF Types, PostType
<1> QED
  BY <1>1 DEF Event

(* The goroutines of a turn.                                                  *)
Works(g) == Orchestrator(g) \/ Consumer(g) \/ Pacer(g)

LEMMA WorkKeeps ==
  ASSUME NEW h \in Gens, Works(h)
  PROVE  /\ UNCHANGED <<generation, live, sup, history>>
         /\ state' = state \/ (state = "Processing" /\ state' = "Speaking")
         /\ \/ posts' = posts
            \/ \E k \in {"finished", "error"} : posts' = Append(posts, Event(k, h))
<1> USE DEF Post, supVars
<1>1. CASE Orchestrator(h)
  BY <1>1 DEF Orchestrator, OrchCreate, OrchCreateFails, OrchCheck, OrchGivesUp, OrchSend,
     OrchSpeak, OrchFinish, OrchFinishInput, OrchHearsError, OrchStops, OrchCancels
<1>2. CASE Consumer(h)
  BY <1>2 DEF Consumer, ConsNext, ConsEnds, ConsPut, ConsPush, Overflow
<1>3. CASE Pacer(h)
  <2>1. CASE TransitionToSpeaking(h)
    BY <2>1 DEF TransitionToSpeaking, Announces
  <2>2. CASE ~TransitionToSpeaking(h)
    BY <1>3, <2>2 DEF Pacer, PacerTakes, PacerExits, PacerChecks, PacerClaimsStart, PacerSendsStart,
       PacerRechecks, PacerSends, PacerPushes, PacerTicks, PacerFinishes
  <2> QED
    BY <2>1, <2>2
<1> QED
  BY <1>1, <1>2, <1>3 DEF Works

LEMMA WorkOfAnother ==
  ASSUME Types, NEW g \in Gens, NEW h \in Gens, h # g, Works(h)
  PROVE  Same(g) /\ stopped'[g] = stopped[g] /\ packets'[g] = packets[g] /\ sPacer' \in {sPacer, h}
<1>1. Same(g)
  BY OrchestratorKeeps, ConsumerKeeps, PacerKeeps DEF Works
<1> USE DEF Types, FlagType, PacketsType, supVars, pacerVars
<1>2. CASE Orchestrator(h)
  BY <1>1, <1>2 DEF Orchestrator, OrchCreate, OrchCreateFails, OrchCheck, OrchGivesUp, OrchSend,
     OrchSpeak, OrchFinish, OrchFinishInput, OrchHearsError, OrchStops, OrchCancels, MarkStopped,
     CancelPacer
<1>3. CASE Consumer(h)
  BY <1>1, <1>3 DEF Consumer, ConsNext, ConsEnds, ConsPut, ConsPush
<1>4. CASE Pacer(h)
  BY <1>1, <1>4 DEF Pacer, PacerTakes, PacerExits, PacerChecks, PacerClaimsStart, PacerSendsStart,
     TransitionToSpeaking, PacerRechecks, PacerSends, PacerPushes, PacerTicks, PacerFinishes
<1> QED
  BY <1>1, <1>2, <1>3, <1>4 DEF Works

(* What the supervisor and the writer do to a turn that goes on.              *)
LEMMA SupervisionKeeps ==
  ASSUME Types, ShapeInv, NEW g \in Gens, Answering(g), Answering(g)',
         PeerCloses \/ Supervisor \/ Write \/ WriteFails \/ UNCHANGED vars
  PROVE  /\ live' = live
         /\ \/ sup'.pc \in {"fail", "close"}
            \/ /\ UNCHANGED <<turnVars, pacerVars, sup>>
               /\ \/ posts' = posts
                  \/ /\ posts # << >> /\ posts' = Tail(posts)
                     /\ Head(posts) # Event("error", g)
<1> USE DEF Answering
<1>1. CASE FinishSilently \/ CloseSession
  BY <1>1 DEF FinishSilently, CloseSession
<1>2. CASE AbortStopsPacer \/ AbortDrains \/ AbortTells
  BY <1>2 DEF AbortStopsPacer, AbortDrains, AbortTells, ShapeInv, Begun, SupAt
<1>3. CASE DropStale
  <2>1. Head(posts) # Event("error", g)
    BY <1>3 DEF DropStale, Event
  <2> QED
    BY <1>3, <2>1 DEF DropStale, supVars
<1>4. CASE PeerCloses \/ FinishSpeaking \/ ErrorStopsPacer \/ ErrorTells
  <2>1. live' = live /\ \E pc \in {"fail", "close"} : StopSessionPacer(pc)
    BY <1>4 DEF PeerCloses, FinishSpeaking, ErrorStopsPacer, ErrorTells
  <2>2. sup'.pc \in {"fail", "close"}
    BY <2>1 DEF StopSessionPacer, Types, ControlType
  <2> QED
    BY <2>1, <2>2
<1>6. CASE SupCancels
  <2>1. sup.pc \in {"fail", "close"}
    BY <1>6 DEF SupCancels, ShapeInv, Begun, Types, ControlType
  <2> QED
    BY <1>6, <2>1 DEF SupCancels, Types, ControlType
<1>5. CASE Write \/ WriteFails \/ UNCHANGED vars
  BY <1>5 DEF Write, WriteFails, vars, supVars
<1> QED
  BY <1>1, <1>2, <1>3, <1>4, <1>5, <1>6 DEF Supervisor

(* A turn that is answered after a step was answered before it, or begins.    *)
LEMMA AnsweredBefore ==
  ASSUME Types, ShapeInv, NEW g \in Gens, [Next]_vars, ~NewTurn, Answering(g)'
  PROVE  Answering(g) /\ ~AbortCancels /\ ~AbortDrains
<1>1. ~AbortCancels
  BY DEF AbortCancels, Answering
<1>2. g = generation
  BY <1>1, GenerationKeeps DEF Answering
<1>3. state \in {"Processing", "Speaking"}
  <2>1. CASE PeerCloses \/ Supervisor \/ Write \/ WriteFails \/ UNCHANGED vars
    BY <2>1 DEF PeerCloses, Supervisor, AbortStopsPacer, AbortDrains, AbortTells, DropStale,
       FinishSilently, FinishSpeaking, ErrorStopsPacer, ErrorTells, CloseSession, SupCancels, Write,
       WriteFails, vars, supVars, Answering
  <2>2. ASSUME NEW h \in Gens, Works(h) PROVE state \in {"Processing", "Speaking"}
    BY <2>2, WorkKeeps DEF Answering
  <2> QED
    BY <1>1, <2>1, <2>2, NextCases DEF Works
<1>4. ~AbortDrains
  BY <1>3 DEF AbortDrains, ShapeInv, Begun, SupAt
<1> QED
  BY <1>1, <1>2, <1>3, <1>4 DEF Answering

(* Only the pacer of the session is stopped by the supervisor.                *)
LEMMA SupervisorStops ==
  ASSUME Types, ShapeInv, NEW g \in Gens,
         AbortCancels \/ PeerCloses \/ Supervisor \/ Write \/ WriteFails \/ UNCHANGED vars
  PROVE  /\ Same(g) /\ sPacer' \in {0, sPacer}
         /\ stopped'[g] = stopped[g] \/ sPacer = g
<1>1. Same(g)
  BY SupervisorKeeps
<1>2. CASE \/ AbortCancels \/ AbortDrains \/ AbortTells \/ DropStale \/ CloseSession \/ SupCancels
           \/ Write \/ WriteFails \/ UNCHANGED vars
  BY <1>1, <1>2 DEF AbortCancels, AbortDrains, AbortTells, DropStale, CloseSession, SupCancels,
     CancelPacer, Write, WriteFails, vars, supVars, pacerVars
<1>3. CASE PeerCloses \/ AbortStopsPacer \/ FinishSilently \/ FinishSpeaking \/ ErrorStopsPacer
           \/ ErrorTells
  <2>1. DismissPacer \/ \E pc \in {"drain", "fail", "close"} : StopSessionPacer(pc)
    BY <1>3 DEF PeerCloses, AbortStopsPacer, FinishSilently, FinishSpeaking, ErrorStopsPacer,
       ErrorTells
  <2>2. CASE DismissPacer
    BY <1>1, <2>2 DEF DismissPacer, Types, FlagType
  <2>3. ASSUME NEW pc, StopSessionPacer(pc) PROVE sPacer' = 0 /\ (stopped'[g] = stopped[g] \/ sPacer = g)
    BY <2>3 DEF StopSessionPacer, MarkStopped, pacerVars, Types, FlagType
  <2> QED
    BY <1>1, <2>1, <2>2, <2>3
<1> QED
  BY <1>2, <1>3 DEF Supervisor

LEMMA ClosingStep ==
  ASSUME Types, Types', ShapeInv, ClosingInv, [Next]_vars
  PROVE  ClosingInv'
<1> SUFFICES ASSUME NEW g \in Gens PROVE Closing(g)'
  BY DEF ClosingInv
<1>a. Closing(g) /\ Shape(g)
  BY DEF ClosingInv, ShapeInv
<1>b. ASSUME NEW h \in Gens, Works(h), h # g PROVE Closing(g)'
  <2>1. /\ orch'[g] = orch[g] /\ cons'[g] = cons[g] /\ inputDone'[g] = inputDone[g]
        /\ pacer'[g] = pacer[g]
        /\ stopped'[g] = stopped[g] /\ (sPacer' = g => sPacer = g)
    BY <1>b, WorkOfAnother DEF Same
  <2> QED
    BY <1>a, <2>1 DEF Closing
<1> USE DEF Types, OrchType, ConsType, PacerType, FlagType
<1>1. CASE NewTurn
  <2>1. /\ generation' = generation + 1 /\ orch' = [orch EXCEPT ![generation'].pc = "create"]
        /\ UNCHANGED <<sPacer, cons, pacerVars>>
    BY <1>1 DEF NewTurn
  <2>2. CASE g = generation'
    <3>1. orch[g].pc = "none"
      BY <2>1, <2>2 DEF ShapeInv, Begun, ControlType, Gens
    <3>2. cons[g].pc = "none" /\ pacer[g].pc = "none"
      BY <1>a, <3>1 DEF Shape, Fresh
    <3> QED
      BY <1>a, <2>1, <3>1, <3>2 DEF Closing, pacerVars
  <2>3. CASE g # generation'
    BY <1>a, <2>1, <2>3 DEF Closing, pacerVars
  <2> QED
    BY <2>2, <2>3
<1>2. CASE AbortCancels \/ PeerCloses \/ Supervisor \/ Write \/ WriteFails \/ UNCHANGED vars
  <2>1. /\ Same(g) /\ sPacer' \in {0, sPacer} /\ (stopped'[g] = stopped[g] \/ sPacer = g)
    BY <1>2, SupervisorStops
  <2> QED
    BY <1>a, <2>1 DEF Closing, Same, Gens
<1>3. CASE Orchestrator(g)
  <2>1. CASE OrchFinishInput(g)
    BY <1>a, <2>1 DEF OrchFinishInput, OrchGoto, OrchAt, Closing
  <2>2. CASE OrchCreate(g)
    BY <1>a, <2>2 DEF OrchCreate, OrchGoto, OrchAt, Closing
  <2>3. CASE ~OrchFinishInput(g) /\ ~OrchCreate(g)
    <3>1. /\ UNCHANGED <<cons, inputDone, pacer>> /\ orch[g].pc # "done" /\ orch[g].pc # "none"
          /\ orch'[g].pc \in {"check", "send", "speak", "finish", "await", "stop", "cancel", "done"}
      BY <1>3, <2>3 DEF Orchestrator, OrchCreateFails, OrchCheck, OrchGivesUp, OrchSend, OrchSpeak,
         OrchFinish, OrchHearsError, OrchStops, OrchCancels, MarkStopped, CancelPacer, pacerVars,
         OrchGoto, OrchAt
    <3> QED
      BY <1>a, <3>1 DEF Closing
  <2> QED
    BY <2>1, <2>2, <2>3
<1>4. CASE Consumer(g)
  <2>1. cons[g].pc \in {"next", "put", "push"} /\ UNCHANGED <<orch, pacer, inputDone, stopped, sPacer>>
    BY <1>4 DEF Consumer, ConsNext, ConsEnds, ConsPut, ConsPush, supVars, pacerVars
  <2> QED
    BY <1>a, <2>1 DEF Closing
<1>5. CASE Pacer(g)
  <2>1. /\ UNCHANGED <<cons, orch, inputDone, stopped, sPacer>>
        /\ pacer'[g].pc = "finish" => inputDone[g] = TRUE
    BY <1>5 DEF Pacer, PacerTakes, PacerExits, PacerChecks, PacerClaimsStart, PacerSendsStart,
       TransitionToSpeaking, PacerRechecks, PacerSends, PacerPushes, PacerTicks, PacerFinishes,
       PacerGoto, Drained, supVars, turnVars
  <2> QED
    BY <1>a, <2>1 DEF Closing
<1> QED
  BY <1>b, <1>1, <1>2, <1>3, <1>4, <1>5, NextCases DEF Works

(* What was reported stays reported while more is.                            *)
LEMMA AppendKeepsErrors ==
  ASSUME Types, NEW g \in Gens, NEW e, sup' = sup, posts' = Append(posts, e)
  PROVE  /\ Len(posts') = Len(posts) + 1 /\ posts'[Len(posts) + 1] = e
         /\ \A j \in 1 .. Len(posts) : posts'[j] = posts[j]
         /\ \A j \in 1 .. Len(posts) : ErrorWithin(g, j) => ErrorWithin(g, j)'
         /\ Told(g) => Told(g)' /\ \A j \in Nat : j = Len(posts) + 1 => ErrorWithin(g, j)'
         /\ e = Event("error", g) => Told(g)'
<1>1. /\ Len(posts) \in Nat /\ Len(posts') = Len(posts) + 1 /\ posts'[Len(posts) + 1] = e
      /\ \A j \in 1 .. Len(posts) : posts'[j] = posts[j]
  BY DEF Types, PostType
<1>2. \A j \in 1 .. Len(posts) : ErrorWithin(g, j) => ErrorWithin(g, j)'
  BY <1>1 DEF ErrorWithin
<1>3. Told(g) \/ e = Event("error", g) =>
        \A j \in Nat : j = Len(posts) + 1 => ErrorWithin(g, j)'
  BY <1>1 DEF ErrorWithin, Told
<1>4. Told(g) \/ e = Event("error", g) => Told(g)'
  BY <1>1 DEF ErrorWithin, Told
<1> QED
  BY <1>1, <1>2, <1>3, <1>4

LEMMA TailKeepsErrors ==
  ASSUME Types, NEW g \in Gens, sup' = sup, posts # << >>, posts' = Tail(posts),
         Head(posts) # Event("error", g)
  PROVE  /\ Len(posts') = Len(posts) - 1 /\ Len(posts) \in Nat
         /\ \A j \in 1 .. Len(posts') : posts'[j] = posts[j + 1]
         /\ \A j \in 1 .. Len(posts') : ErrorWithin(g, j + 1) => ErrorWithin(g, j)'
         /\ Told(g) => Told(g)'
<1>1. /\ Len(posts) \in Nat /\ Len(posts) > 0 /\ Len(posts') = Len(posts) - 1
      /\ Head(posts) = posts[1] /\ \A j \in 1 .. Len(posts') : posts'[j] = posts[j + 1]
  BY DEF Types, PostType
<1>2. ASSUME NEW j \in 0 .. Len(posts'), ErrorWithin(g, j + 1) PROVE ErrorWithin(g, j)'
  <2>1. CASE sup.pc \in {"fail", "close"}
    BY <2>1 DEF ErrorWithin
  <2>2. ASSUME NEW i \in 1 .. j + 1, posts[i] = Event("error", g) PROVE ErrorWithin(g, j)'
    <3>1. i # 1 /\ i - 1 \in 1 .. j /\ i - 1 \in 1 .. Len(posts')
      BY <1>1, <1>2, <2>2
    <3>2. posts'[i - 1] = posts[i]
      BY <1>1, <1>2, <3>1
    <3> QED
      BY <2>2, <3>1, <3>2 DEF ErrorWithin
  <2> QED
    BY <1>2, <2>1, <2>2 DEF ErrorWithin
<1>3. Told(g) => Told(g)'
  BY <1>1, <1>2 DEF Told
<1> QED
  BY <1>1, <1>2, <1>3

LEMMA OrchestratorCompletes ==
  ASSUME Types, NEW g \in Gens, Shape(g), Answering(g), g \in live, Complete(g), Orchestrator(g)
  PROVE  Told(g)' \/ Complete(g)'
<1>a. ~TurnIsOver(g) /\ state # "Closed"
  BY DEF TurnIsOver, Superseded, Answering, Types, ControlType
<1>b. sup' = sup
  BY WorkKeeps DEF Works
<1> USE DEF Types, OrchType, ConsType, PacerType, FlagType
<1>1. CASE OrchCreate(g)
  <2>1. cons[g].pc = "none" /\ pacer[g].pc = "none"
    BY <1>1 DEF OrchCreate, OrchAt, Shape, Fresh
  <2>2. /\ orch'[g].pc = "check" /\ cons'[g].pc = "next" /\ pacer'[g].pc = "idle"
        /\ stopped' = stopped
    BY <1>1 DEF OrchCreate, OrchGoto
  <2> QED
    BY <2>1, <2>2 DEF Complete
<1>2. CASE posts' = Append(posts, Event("error", g))
  BY <1>b, <1>2, AppendKeepsErrors
<1>3. CASE OrchFinishInput(g)
  <2>1. /\ orch'[g].pc = "done" /\ orch[g].pc = "await" /\ inputDone'[g] = TRUE
        /\ UNCHANGED <<cons, pacer, fed, packets, stopped>>
    BY <1>3 DEF OrchFinishInput, OrchGoto, OrchAt
  <2> QED
    BY <2>1 DEF Complete
<1>4. CASE OrchCheck(g) \/ OrchFinish(g) \/ OrchSpeak(g) \/ (OrchSend(g) /\ posts' = posts)
  <2>1. /\ orch[g].pc \in {"check", "finish", "speak", "send"}
        /\ orch'[g].pc \in {"check", "send", "finish", "await", "speak"}
        /\ UNCHANGED <<cons, pacerVars>>
    <3>1. CASE OrchCheck(g) \/ OrchFinish(g) \/ OrchSpeak(g)
      BY <3>1 DEF OrchCheck, OrchFinish, OrchSpeak, OrchAt, OrchGoto
    <3>2. CASE OrchSend(g) /\ posts' = posts
      <4>1. posts # Append(posts, Event("error", g))
        BY DEF PostType
      <4> QED
        BY <1>a, <3>2, <4>1 DEF OrchSend, OrchAt, OrchGoto, Post
    <3> QED
      BY <1>4, <3>1, <3>2
  <2> QED
    BY <2>1 DEF Complete, pacerVars
<1>5. \/ OrchCreate(g) \/ posts' = Append(posts, Event("error", g)) \/ OrchFinishInput(g)
      \/ OrchCheck(g) \/ OrchFinish(g) \/ OrchSpeak(g) \/ (OrchSend(g) /\ posts' = posts)
  BY <1>a DEF Orchestrator, OrchCreateFails, OrchGivesUp, OrchSend, OrchHearsError, OrchStops,
     OrchCancels, OrchAt, Post, Complete
<1> QED
  BY <1>1, <1>2, <1>3, <1>4, <1>5

LEMMA ConsumerCompletes ==
  ASSUME Types, NEW g \in Gens, Shape(g), Closing(g), Answering(g), g \in live, Complete(g),
         Consumer(g)
  PROVE  Told(g)' \/ Complete(g)'
<1>a. /\ ~TurnIsOver(g) /\ ~Superseded(g) /\ state # "Closed"
      /\ stopped[g] = FALSE /\ cancelled[g] = FALSE /\ ~PacerCancelled(g)
  BY DEF TurnIsOver, Superseded, Answering, Types, ControlType, FlagType, Complete, Shape, Line,
     PacerCancelled
<1>b. sup' = sup
  BY WorkKeeps DEF Works
<1>c. UNCHANGED <<orch, fed, pacer, stopped, inputDone>>
  BY DEF Consumer, ConsNext, ConsEnds, ConsPut, ConsPush, pacerVars
<1> USE DEF Types, OrchType, ConsType, PacerType, FlagType
<1>1. CASE posts' = Append(posts, Event("error", g))
  BY <1>b, <1>1, AppendKeepsErrors
<1>2. CASE ConsNext(g)
  <2>1. cons'[g].pc = "put" /\ packets' = packets
    BY <1>2 DEF ConsNext, pacerVars
  <2> QED
    BY <1>c, <2>1 DEF Complete
<1>3. CASE ConsEnds(g) /\ posts' # Append(posts, Event("error", g))
  <2>1. /\ cons[g].pc = "next" /\ cons' = [cons EXCEPT ![g].pc = "done"] /\ packets' = packets
        /\ orch[g].pc \in {"await", "done"} /\ cons[g].n = fed[g] * Packets
    BY <1>a, <1>3 DEF ConsEnds, ConsGoto, Post, pacerVars
  <2>2. pacer[g].pc # "gone" => cons[g].n = pacer[g].p + Len(packets[g])
    BY <1>a, <2>1 DEF Shape, Line, Consecutive
  <2>3. cons'[g].pc = "done" /\ cons'[g].n = cons[g].n
    BY <2>1
  <2> QED
    BY <1>c, <2>1, <2>2, <2>3 DEF Complete
<1>4. CASE ConsPut(g)
  <2>1. cons'[g].pc = "push" /\ packets' = packets
    BY <1>a, <1>4 DEF ConsPut, ConsGoto, pacerVars
  <2> QED
    BY <1>c, <2>1 DEF Complete
<1>5. CASE ConsPush(g) /\ posts' # Append(posts, Event("error", g))
  <2>1. cons[g].pc = "push" /\ cons'[g].pc = "next"
    BY <1>a, <1>5 DEF ConsPush, ConsGoto, Overflow, Post
  <2>2. pacer[g].pc # "finish"
    BY <2>1 DEF Complete, Closing
  <2> QED
    BY <1>c, <2>1, <2>2 DEF Complete
<1> QED
  BY <1>1, <1>2, <1>3, <1>4, <1>5 DEF Consumer

LEMMA PacerCompletes ==
  ASSUME Types, NEW g \in Gens, Shape(g), g \in live, Complete(g), Pacer(g)
  PROVE  Complete(g)'
<1>a. ~PacerCancelled(g) /\ stopped[g] = FALSE /\ cancelled[g] = FALSE
  BY DEF PacerCancelled, Complete, Shape, Line, Types, FlagType
<1>b. UNCHANGED <<orch, fed, cons, stopped, inputDone>>
  BY DEF Pacer, PacerTakes, PacerExits, PacerChecks, PacerClaimsStart, PacerSendsStart,
     TransitionToSpeaking, PacerRechecks, PacerSends, PacerPushes, PacerTicks, PacerFinishes,
     turnVars
<1> USE DEF Types, PacerType, PacketsType, FlagType
<1>1. CASE PacerTakes(g)
  <2>1. /\ pacer[g].pc = "idle" /\ pacer'[g].pc = "check" /\ pacer'[g].p = Head(packets[g])
        /\ packets[g] # << >> /\ packets'[g] = Tail(packets[g])
    BY <1>1 DEF PacerTakes, PacerAt
  <2>2. /\ Len(packets[g]) \in Nat /\ 1 \in 1 .. Len(packets[g]) /\ Head(packets[g]) = packets[g][1]
        /\ Len(packets'[g]) = Len(packets[g]) - 1
    BY <2>1
  <2>3. pacer'[g].p = pacer[g].p + 1 /\ pacer[g].p \in Nat
    BY <1>a, <2>1, <2>2, Product DEF Shape, Line, Consecutive
  <2>4. pacer'[g].p + Len(packets'[g]) = pacer[g].p + Len(packets[g])
    BY <2>2, <2>3
  <2> QED
    BY <1>b, <2>1, <2>4 DEF Complete
<1>2. CASE ~PacerTakes(g)
  <2>1. /\ packets' = packets /\ pacer'[g].p = pacer[g].p /\ pacer[g].pc # "gone"
        /\ pacer'[g].pc = "finish" => packets[g] = << >>
    BY <1>a, <1>2 DEF Pacer, PacerExits, PacerChecks, PacerClaimsStart, PacerSendsStart,
       TransitionToSpeaking, PacerRechecks, PacerSends, PacerPushes, PacerTicks, PacerFinishes,
       PacerGoto, PacerAt, Drained
  <2> QED
    BY <1>b, <2>1 DEF Complete
<1> QED
  BY <1>1, <1>2

LEMMA OwedStep ==
  ASSUME Types, Types', ShapeInv, ShapeInv', ClosingInv, ClosingInv', OwedInv, [Next]_vars
  PROVE  OwedInv'
<1> SUFFICES ASSUME NEW g \in Gens, Answering(g)' PROVE g \in live' /\ (Told(g)' \/ Complete(g)')
  BY DEF OwedInv
<1>1. CASE NewTurn
  <2>1. g = generation' /\ live' = {g}
    BY <1>1 DEF NewTurn, Answering
  <2>2. orch'[g].pc = "create"
    BY <1>1, <2>1 DEF NewTurn, Types, OrchType
  <2>3. cons'[g].pc = "none" /\ pacer'[g].pc = "none" /\ stopped'[g] = FALSE
    BY <2>2 DEF ShapeInv, Shape, Fresh, ClosingInv, Closing
  <2> QED
    BY <2>1, <2>2, <2>3 DEF Complete
<1>2. CASE ~NewTurn
  <2>1. Answering(g) /\ ~AbortCancels
    BY <1>2, AnsweredBefore
  <2>2. g \in live /\ (Told(g) \/ Complete(g)) /\ Shape(g) /\ Closing(g)
    BY <2>1 DEF OwedInv, ShapeInv, ClosingInv
  <2>3. CASE PeerCloses \/ Supervisor \/ Write \/ WriteFails \/ UNCHANGED vars
    <3>1. CASE sup'.pc \in {"fail", "close"}
      BY <2>1, <2>2, <2>3, <3>1, SupervisionKeeps DEF Told, ErrorWithin
    <3>2. CASE sup'.pc \notin {"fail", "close"}
      <4>1. /\ live' = live /\ UNCHANGED <<turnVars, pacerVars, sup>>
            /\ \/ posts' = posts
               \/ posts # << >> /\ posts' = Tail(posts) /\ Head(posts) # Event("error", g)
        BY <2>1, <2>3, <3>2, SupervisionKeeps
      <4>2. Told(g) => Told(g)'
        BY <4>1, TailKeepsErrors DEF Told, ErrorWithin
      <4>3. Complete(g) => Complete(g)'
        BY <4>1 DEF Complete, turnVars, pacerVars
      <4> QED
        BY <2>2, <4>1, <4>2, <4>3
    <3> QED
      BY <3>1, <3>2
  <2>4. ASSUME NEW h \in Gens, Works(h) PROVE g \in live' /\ (Told(g)' \/ Complete(g)')
    <3>1. live' = live /\ sup' = sup /\ (posts' = posts \/ \E e : posts' = Append(posts, e))
      BY <2>4, WorkKeeps
    <3>2. Told(g) => Told(g)'
      BY <3>1, AppendKeepsErrors DEF Told, ErrorWithin
    <3>3. CASE h # g
      <4>1. Complete(g) => Complete(g)'
        BY <2>4, <3>3, WorkOfAnother DEF Complete, Same
      <4> QED
        BY <2>2, <3>1, <3>2, <4>1
    <3>4. CASE h = g /\ Complete(g)
      BY <2>1, <2>2, <2>4, <3>1, <3>4, OrchestratorCompletes, ConsumerCompletes, PacerCompletes DEF Works
    <3> QED
      BY <2>2, <3>1, <3>2, <3>3, <3>4
  <2> QED
    BY <1>2, <2>1, <2>3, <2>4, NextCases DEF Works
<1> QED
  BY <1>1, <1>2

(* A turn goes one way: what it has finished stays as it is.                  *)
LEMMA TurnAdvances ==
  ASSUME Types, ShapeInv, NEW g \in Gens, [Next]_vars
  PROVE  /\ orch[g].pc \notin {"none", "create"} => orch'[g].pc \notin {"none", "create"}
         /\ orch[g].pc = "done" => orch'[g].pc = "done" /\ fed'[g] = fed[g]
         /\ inputDone[g] = TRUE => inputDone'[g] = TRUE
<1>1. CASE NewTurn
  <2>1. generation' \in Gens => orch[generation'].pc = "none"
    BY <1>1 DEF NewTurn, ShapeInv, Begun, Types, ControlType
  <2> QED
    BY <1>1, <2>1 DEF NewTurn, pacerVars, Types, OrchType
<1>2. CASE AbortCancels \/ PeerCloses \/ Supervisor \/ Write \/ WriteFails \/ UNCHANGED vars
  BY <1>2, SupervisorKeeps DEF Same
<1>3. ASSUME NEW h \in Gens, Works(h), h # g
      PROVE  orch'[g] = orch[g] /\ fed'[g] = fed[g] /\ inputDone'[g] = inputDone[g]
  BY <1>3, WorkOfAnother DEF Same
<1>4. CASE Orchestrator(g)
  <2>1. orch[g].pc # "done" /\ orch'[g].pc \notin {"none", "create"}
    BY <1>4 DEF Orchestrator, OrchCreate, OrchCreateFails, OrchCheck, OrchGivesUp, OrchSend,
       OrchSpeak, OrchFinish, OrchFinishInput, OrchHearsError, OrchStops, OrchCancels, OrchAt,
       OrchGoto, Types, OrchType
  <2>2. inputDone[g] = TRUE => inputDone'[g] = TRUE
    BY <1>4 DEF Orchestrator, OrchCreate, OrchCreateFails, OrchCheck, OrchGivesUp, OrchSend,
       OrchSpeak, OrchFinish, OrchFinishInput, OrchHearsError, OrchStops, OrchCancels, MarkStopped,
       CancelPacer, pacerVars, Types, FlagType
  <2> QED
    BY <2>1, <2>2
<1>5. CASE Consumer(g) \/ Pacer(g)
  BY <1>5 DEF Consumer, ConsNext, ConsEnds, ConsPut, ConsPush, Pacer, PacerTakes, PacerExits,
     PacerChecks, PacerClaimsStart, PacerSendsStart, TransitionToSpeaking, PacerRechecks,
     PacerSends, PacerPushes, PacerTicks, PacerFinishes, turnVars, pacerVars
<1> QED
  BY <1>1, <1>2, <1>3, <1>4, <1>5, NextCases DEF Works

LEMMA HeardStays ==
  ASSUME Types, Types', ShapeInv, OrderInv, NEW g \in Gens, [Next]_vars, ~NewTurn, ~AbortCancels,
         ~AbortDrains, orch[g].pc = "done", Heard(g)
  PROVE  Heard(g)'
<1>1. fed'[g] = fed[g]
  BY TurnAdvances
<1>2. wClosed' = FALSE => wClosed = FALSE /\ Sent \subseteq Sent'
  BY SentSurvives
<1> QED
  BY <1>1, <1>2 DEF Heard

LEMMA EventSurvives ==
  ASSUME Types, Types', ShapeInv, ClosingInv, OrderInv, [Next]_vars,
         NEW i \in 1 .. Len(posts), NEW j \in Nat, NEW g \in Gens, posts[i].gen = g, Truthful(i),
         posts'[j] = posts[i],
         Answering(g) /\ Answering(g)' /\ ErrorWithin(g, i) => ErrorWithin(g, j)'
  PROVE  Truthful(j)'
<1>1. posts'[j].gen = g /\ posts'[j].kind = posts[i].kind
  OBVIOUS
<1>2. /\ orch[g].pc \notin {"none", "create"} /\ orch'[g].pc \notin {"none", "create"}
      /\ posts[i].kind = "finished" => inputDone[g] = TRUE /\ inputDone'[g] = TRUE
  BY <1>1, TurnAdvances DEF Truthful
<1>3. ASSUME posts[i].kind = "finished", Answering(g)'
      PROVE  ErrorWithin(g, j)' \/ Heard(g)'
  <2>1. ~NewTurn
    BY <1>2, <1>3 DEF NewTurn, ShapeInv, Begun, Types, ControlType, Gens, Answering
  <2>2. Answering(g) /\ ~AbortCancels /\ ~AbortDrains
    BY <1>3, <2>1, AnsweredBefore
  <2>3. ErrorWithin(g, i) \/ Heard(g)
    BY <1>3, <2>2 DEF Truthful
  <2>4. orch[g].pc = "done"
    BY <1>2, <1>3 DEF ClosingInv, Closing
  <2> QED
    BY <1>3, <2>1, <2>2, <2>3, <2>4, HeardStays
<1> QED
  BY <1>1, <1>2, <1>3 DEF Truthful

(* How the events move.                                                       *)
LEMMA EventsMove ==
  ASSUME Types, AbortCancels \/ PeerCloses \/ Supervisor \/ Write \/ WriteFails \/ UNCHANGED vars
  PROVE  \/ posts' = posts
         \/ posts # << >> /\ posts' = Tail(posts)
  BY DEF AbortCancels, PeerCloses, Supervisor, AbortStopsPacer, AbortDrains, AbortTells, DropStale,
     FinishSilently, FinishSpeaking, ErrorStopsPacer, ErrorTells, CloseSession, SupCancels, Pending,
     Write, WriteFails, vars

(* A report of a goroutine is true when it is made.                           *)
LEMMA NewEvent ==
  ASSUME Types, Types', ShapeInv, ShapeInv', ClosingInv, ClosingInv', OwedInv, OrderInv, [Next]_vars,
         NEW h \in Gens, Works(h), NEW k \in {"finished", "error"}, posts' = Append(posts, Event(k, h)),
         NEW j \in Nat, j = Len(posts) + 1
  PROVE  Truthful(j)'
<1> DEFINE e == Event(k, h)
<1>1. posts'[j] = e /\ posts' # posts /\ e.gen = h /\ e.kind = k
  BY DEF Types, PostType, Event
<1>2. orch'[h].pc \notin {"none", "create"}
  <2>1. orch[h].pc \notin {"none", "create"} \/ OrchCreateFails(h)
    BY <1>1 DEF Works, Orchestrator, OrchCreate, OrchCheck, OrchGivesUp, OrchSend, OrchSpeak,
       OrchFinish, OrchFinishInput, OrchHearsError, OrchStops, OrchCancels, OrchAt, Consumer,
       ConsNext, ConsEnds, ConsPut, ConsPush, Pacer, PacerTakes, PacerExits, PacerChecks,
       PacerClaimsStart, PacerSendsStart, TransitionToSpeaking, PacerRechecks, PacerSends,
       PacerPushes, PacerTicks, PacerFinishes, PacerAt, ShapeInv, Shape, Fresh
  <2>2. OrchCreateFails(h) => orch'[h].pc = "done"
    BY DEF OrchCreateFails, OrchGoto, Types, OrchType
  <2> QED
    BY <2>1, <2>2, TurnAdvances
<1>3. ASSUME k = "finished"
      PROVE  /\ PacerAt(h, "finish") /\ inputDone[h] = TRUE
             /\ UNCHANGED <<supVars, turnVars, inputDone, outVars>>
  <2>1. e # Event("error", h)
    BY <1>3 DEF Event
  <2>2. posts' # Append(posts, Event("error", h))
    BY <2>1 DEF Types, PostType
  <2>3. PacerFinishes(h) /\ PacerAt(h, "finish")
    BY <1>1, <2>2 DEF Works, Post, Orchestrator, OrchCreate, OrchCreateFails, OrchCheck,
       OrchGivesUp, OrchSend, OrchSpeak, OrchFinish, OrchFinishInput, OrchHearsError, OrchStops,
       OrchCancels, Consumer, ConsNext, ConsEnds, ConsPut, ConsPush, Overflow, Pacer, PacerTakes,
       PacerExits, PacerChecks, PacerClaimsStart, PacerSendsStart, TransitionToSpeaking,
       PacerRechecks, PacerSends, PacerPushes, PacerTicks, PacerFinishes
  <2> QED
    BY <2>3 DEF PacerFinishes, PacerAt, ClosingInv, Closing
<1>4. ASSUME k = "finished", Answering(h)' PROVE ErrorWithin(h, j)' \/ Heard(h)'
  <2>1. Answering(h) /\ sup' = sup /\ Sent' = Sent /\ wClosed' = wClosed /\ fed' = fed
    BY <1>3, <1>4 DEF Answering, supVars, outVars, turnVars, Sent
  <2>2. CASE Told(h)
    BY <2>1, <2>2, AppendKeepsErrors
  <2>3. CASE Complete(h)
    <3>1. /\ pacer[h].pc = "finish" /\ cons[h].pc = "done" /\ cons[h].n = fed[h] * Packets
          /\ cons[h].n = pacer[h].p + Len(packets[h]) /\ Len(packets[h]) = 0
      BY <1>3, <1>4, <2>3 DEF PacerAt, Complete, ClosingInv, Closing
    <3>2. pacer[h].p = fed[h] * Packets
      BY <3>1, Product DEF Types, PacerType
    <3>3. wClosed = FALSE => SoundSent(h)
      BY <2>1 DEF OrderInv, SentInv, Answering
    <3>5. cancelled[h] = FALSE
      BY <2>3 DEF Complete, ShapeInv, Shape, Line, Types, FlagType
    <3>4. Heard(h)
      BY <3>1, <3>2, <3>3, <3>5 DEF Heard, SoundSent, InHand
    <3> QED
      BY <2>1, <3>4 DEF Heard
  <2> QED
    BY <2>1, <2>2, <2>3 DEF OwedInv
<1> QED
  BY <1>1, <1>2, <1>3, <1>4 DEF Truthful

(* The events in the channel stay true ...                                    *)
LEMMA EventsStep ==
  ASSUME Types, Types', ShapeInv, ShapeInv', ClosingInv, ClosingInv', OwedInv, OrderInv, EventsInv,
         [Next]_vars
  PROVE  EventsInv'
<1> SUFFICES ASSUME NEW j \in 1 .. Len(posts') PROVE Truthful(j)'
  BY DEF EventsInv
<1>a. Len(posts) \in Nat /\ Len(posts') \in Nat /\ j \in Nat
  BY DEF Types, PostType
<1>b. \A i \in 1 .. Len(posts) : Truthful(i) /\ posts[i].gen \in Gens
  BY PostFacts DEF EventsInv
<1>1. CASE NewTurn \/ AbortCancels
  <2>1. posts' = posts /\ \A g \in Gens : ~(Answering(g) /\ Answering(g)')
    BY <1>1 DEF NewTurn, AbortCancels, Answering
  <2> QED
    BY <1>a, <1>b, <2>1, EventSurvives
<1>2. CASE ~NewTurn /\ (AbortCancels \/ PeerCloses \/ Supervisor \/ Write \/ WriteFails \/ UNCHANGED vars)
  <2>1. CASE posts' = posts
    <3>1. ASSUME NEW g \in Gens, Answering(g), Answering(g)', ErrorWithin(g, j)
          PROVE  ErrorWithin(g, j)'
      <4>1. sup'.pc \in {"fail", "close"} \/ sup' = sup
        BY <1>2, <3>1, AnsweredBefore, SupervisionKeeps
      <4> QED
        BY <2>1, <3>1, <4>1 DEF ErrorWithin
    <3> QED
      BY <1>a, <1>b, <2>1, <3>1, EventSurvives
  <2>2. CASE posts # << >> /\ posts' = Tail(posts)
    <3>1. /\ Len(posts') = Len(posts) - 1 /\ j + 1 \in 1 .. Len(posts)
          /\ posts'[j] = posts[j + 1] /\ posts' # posts
      BY <1>a, <2>2 DEF Types, PostType
    <3>2. ASSUME NEW g \in Gens, Answering(g), Answering(g)', ErrorWithin(g, j + 1)
          PROVE  ErrorWithin(g, j)'
      <4>1. sup'.pc \in {"fail", "close"} \/ (sup' = sup /\ Head(posts) # Event("error", g))
        BY <1>2, <3>1, <3>2, AnsweredBefore, SupervisionKeeps
      <4>2. CASE sup'.pc \in {"fail", "close"}
        BY <4>2 DEF ErrorWithin
      <4>3. CASE sup' = sup /\ Head(posts) # Event("error", g)
        BY <2>2, <3>2, <4>3, TailKeepsErrors
      <4> QED
        BY <4>1, <4>2, <4>3
    <3> QED
      BY <1>a, <1>b, <3>1, <3>2, EventSurvives
  <2> QED
    BY <1>2, <2>1, <2>2, EventsMove
<1>3. ASSUME NEW h \in Gens, Works(h) PROVE Truthful(j)'
  <2>1. CASE posts' = posts
    <3>1. \A g \in Gens : ErrorWithin(g, j) => ErrorWithin(g, j)'
      BY <1>3, <2>1, WorkKeeps DEF ErrorWithin
    <3> QED
      BY <1>a, <1>b, <2>1, <3>1, EventSurvives
  <2>2. ASSUME NEW k \in {"finished", "error"}, posts' = Append(posts, Event(k, h))
        PROVE  Truthful(j)'
    <3>1. sup' = sup
      BY <1>3, WorkKeeps
    <3>2. CASE j = Len(posts) + 1
      BY <1>a, <1>3, <2>2, <3>2, NewEvent
    <3>3. CASE j # Len(posts) + 1
      <4>1. j \in 1 .. Len(posts) /\ posts'[j] = posts[j]
        BY <1>a, <2>2, <3>3 DEF Types, PostType
      <4>2. \A g \in Gens : ErrorWithin(g, j) => ErrorWithin(g, j)'
        BY <2>2, <3>1, <4>1, AppendKeepsErrors
      <4> QED
        BY <1>a, <1>b, <4>1, <4>2, EventSurvives
    <3> QED
      BY <3>2, <3>3
  <2> QED
    BY <1>3, <2>1, <2>2, WorkKeeps
<1> QED
  BY <1>1, <1>2, <1>3, NextCases DEF Works

(* ... and what is committed is over and was sent.                            *)
CommitInv == ClosingInv /\ OwedInv /\ EventsInv /\ PastInv /\ CommittedIsSent

LEMMA HistoryMoves ==
  ASSUME [Next]_vars, ~(FinishSpeaking /\ history' # history)
  PROVE  history' = history \/ history' = << >>
<1>1. CASE NewTurn \/ AbortCancels \/ PeerCloses \/ Supervisor \/ Write \/ WriteFails \/ UNCHANGED vars
  BY <1>1 DEF NewTurn, AbortCancels, PeerCloses, CloseSession, Supervisor, AbortStopsPacer,
     AbortDrains, AbortTells, DropStale, FinishSilently, ErrorStopsPacer, ErrorTells, SupCancels,
     Write, WriteFails, vars, supVars
<1> QED
  BY <1>1, WorkKeeps, NextCases DEF Works

(* The turn that FinishSpeaking commits.                                      *)
LEMMA CommitIsWhole ==
  ASSUME Types, Types', ShapeInv, OrderInv, CommitInv, [Next]_vars, FinishSpeaking,
         history' # history
  PROVE  /\ generation \in Gens /\ orch[generation].pc = "done" /\ UNCHANGED <<orch, fed, generation>>
         /\ history' = Append(history, generation)
         /\ wClosed' = FALSE => WholeAnswer(generation) \subseteq Sent'
<1> DEFINE g == generation
<1>1. /\ history' = Append(history, g) /\ Grows(Msg("stop", g, 0)) /\ UNCHANGED <<orch, fed, generation>>
      /\ state = "Speaking" /\ g \in Gens
      /\ sup.pc = "idle" /\ posts # << >> /\ Head(posts) = Event("finished", g)
  BY DEF FinishSpeaking, Pending, Idle, Enqueue, Accepts, Grows, turnVars, Types, ControlType,
     OutType
<1>2. Len(posts) \in Nat /\ 1 \in 1 .. Len(posts) /\ posts[1] = Event("finished", g)
  BY <1>1 DEF Types, PostType
<1>3. posts[1].gen = g /\ posts[1].kind = "finished" /\ posts[1] # Event("error", g)
  BY <1>2 DEF Event
<1>4. ~ErrorWithin(g, 1)
  BY <1>1, <1>3 DEF ErrorWithin
<1>5. inputDone[g] = TRUE /\ Heard(g)
  <2>1. Truthful(1)
    BY <1>2 DEF CommitInv, EventsInv
  <2> QED
    BY <1>1, <1>3, <1>4, <2>1 DEF Truthful, Answering
<1>6. orch[g].pc = "done"
  BY <1>1, <1>5 DEF CommitInv, ClosingInv, Closing
<1>7. Sent \subseteq Sent' /\ Msg("stop", g, 0) \in Sent'
  BY <1>1, SentGrows, GrownSent
<1>8. wClosed = FALSE
  BY <1>1 DEF Grows
<1>9. Msg("start", g, 0) \in Sent
  BY <1>1, <1>8 DEF OrderInv, SpeakingIsAnnounced
<1>10. \A n \in 1 .. fed[g] : Msg("sentence", g, n) \in Sent
  <2>1. SentencesSent(g)
    BY <1>1, <1>8 DEF OrderInv, SentInv
  <2> QED
    BY <1>1, <2>1, Numbers DEF SentencesSent, Types, OrchType
<1>11. \A p \in 1 .. fed[g] * Packets : Msg("audio", g, p) \in Sent
  BY <1>5, <1>8 DEF Heard
<1>12. WholeAnswer(g) \subseteq Sent'
  BY <1>7, <1>9, <1>10, <1>11 DEF WholeAnswer
<1> QED
  BY <1>1, <1>6, <1>12

LEMMA CommitStep ==
  ASSUME Types, Types', ShapeInv, ShapeInv', OrderInv, CommitInv, [Next]_vars
  PROVE  CommitInv'
<1>a. HistoryType /\ HistoryType' /\ PastInv /\ CommittedIsSent
  BY DEF Types, CommitInv
<1>b. \A i \in 1 .. Len(history) : history[i] \in Gens /\ orch[history[i]].pc = "done"
  BY <1>a DEF HistoryType, PastInv
<1>1. ClosingInv'
  BY ClosingStep DEF CommitInv
<1>2. OwedInv'
  BY <1>1, OwedStep DEF CommitInv
<1>3. EventsInv'
  BY <1>1, EventsStep DEF CommitInv
<1>4. CASE history' = << >>
  BY <1>1, <1>2, <1>3, <1>4 DEF CommitInv, PastInv, CommittedIsSent, ToSet
<1>5. CASE FinishSpeaking /\ history' # history
  <2>1. /\ generation \in Gens /\ orch[generation].pc = "done" /\ UNCHANGED <<orch, fed, generation>>
        /\ history' = Append(history, generation)
        /\ wClosed' = FALSE => WholeAnswer(generation) \subseteq Sent'
    BY <1>5, CommitIsWhole
  <2>2. /\ Len(history') = Len(history) + 1 /\ Len(history) \in Nat
        /\ \A i \in 1 .. Len(history) : history'[i] = history[i]
        /\ history'[Len(history) + 1] = generation
    BY <1>a, <2>1 DEF HistoryType
  <2>3. \A i \in 1 .. Len(history') : i \in 1 .. Len(history) \/ i = Len(history) + 1
    BY <2>2
  <2>4. PastInv'
    BY <1>b, <2>1, <2>2, <2>3 DEF PastInv
  <2>5. WholeAnswer(generation)' = WholeAnswer(generation)
    BY <2>1 DEF WholeAnswer
  <2>6. CommittedIsSent'
    BY <2>1, <2>5 DEF CommittedIsSent, Types, OutType
  <2> QED
    BY <1>1, <1>2, <1>3, <2>4, <2>6 DEF CommitInv
<1>6. CASE history' = history
  <2>1. PastInv'
    <3> SUFFICES ASSUME NEW i \in 1 .. Len(history) PROVE orch'[history[i]].pc = "done"
      BY <1>6 DEF PastInv
    <3> QED
      BY <1>b, TurnAdvances
  <2>2. CommittedIsSent'
    <3> SUFFICES ASSUME NEW g \in ToSet(history), g = generation', wClosed' = FALSE
                 PROVE  WholeAnswer(g)' \subseteq Sent'
      BY <1>6 DEF CommittedIsSent, Types, OutType
    <3>1. orch[g].pc = "done" /\ g \in Gens
      BY <1>a, <1>b DEF ToSet, HistoryType
    <3>2. ~NewTurn /\ ~AbortCancels /\ ~AbortDrains
      BY <3>1 DEF NewTurn, AbortCancels, AbortDrains, ShapeInv, Begun, Types, ControlType, SupAt
    <3>3. g = generation /\ wClosed = FALSE /\ Sent \subseteq Sent'
      BY <3>2, GenerationKeeps, SentSurvives
    <3>4. fed'[g] = fed[g]
      BY <3>1, TurnAdvances
    <3>5. WholeAnswer(g) \subseteq Sent
      BY <1>a, <3>3 DEF CommittedIsSent
    <3> QED
      BY <3>3, <3>4, <3>5 DEF WholeAnswer
  <2> QED
    BY <1>1, <1>2, <1>3, <2>1, <2>2 DEF CommitInv
<1> QED
  BY <1>4, <1>5, <1>6, HistoryMoves

LEMMA CommitInit == Init => CommitInv
<1> SUFFICES ASSUME Init PROVE CommitInv
  OBVIOUS
<1>1. /\ \A g \in Gens : /\ orch[g].pc = "none" /\ stopped[g] = FALSE /\ inputDone[g] = FALSE
                         /\ pacer[g].pc = "none"
      /\ Len(posts) = 0 /\ Len(history) = 0 /\ history = << >> /\ sPacer = 0 /\ state = "Ready"
  BY DEF Init
<1>2. ClosingInv
  BY <1>1 DEF ClosingInv, Closing, Gens
<1>3. OwedInv /\ EventsInv /\ PastInv
  BY <1>1 DEF OwedInv, Answering, EventsInv, PastInv
<1>4. CommittedIsSent
  BY <1>1 DEF CommittedIsSent, ToSet
<1> QED
  BY <1>2, <1>3, <1>4 DEF CommitInv

(* A turn is in the history only if the whole of it was handed to the writer, *)
(* from tts.start to tts.stop, for answers of any length, queues of any size  *)
(* and every interleaving of failures and aborts (CommittedIsSent;            *)
(* handleTurnFinishedEvent).                                                  *)
THEOREM HistoryIsWhatWasSent == Spec => []CommittedIsSent
<1>1. CommitInv => CommittedIsSent
  BY DEF CommitInv
<1> QED
  BY CommitInit, <1>1, CommitStep, AlwaysShaped, AlwaysOrdered, PTL DEF Spec

------------------------------------------------------------------------------
(* One tts.stop for every speech.                                             *)

(* A goroutine of turn g is at work.                                          *)
Running(g) == orch[g].pc \notin {"none", "done"} \/ pacer[g].pc \notin {"none", "gone"}

(* The generation after a turn that was cut off is the abort's own, so at     *)
(* most every second generation has goroutines left that lag; a turn that     *)
(* finished has none.                                                         *)
OverInv ==
  /\ \A g \in Gens :
       /\ g < generation /\ Running(g) => orch[g + 1].pc = "none"
       /\ g = generation /\ state = "Ready" => ~Running(g)
  /\ \A j \in 1 .. Len(posts) : posts[j].kind = "finished" => pacer[posts[j].gen].pc = "gone"

(* The pacer that reports the end of its turn is about to return.             *)
LEMMA FinishedIsGone ==
  ASSUME Types, NEW h \in Gens, Works(h), posts' = Append(posts, Event("finished", h))
  PROVE  pacer'[h].pc = "gone"
<1>1. posts' # posts /\ posts' # Append(posts, Event("error", h))
  BY DEF Types, PostType, Event
<1>2. PacerFinishes(h) /\ PacerAt(h, "finish")
  BY <1>1 DEF Works, Post, Orchestrator, OrchCreate, OrchCreateFails, OrchCheck, OrchGivesUp,
     OrchSend, OrchSpeak, OrchFinish, OrchFinishInput, OrchHearsError, OrchStops, OrchCancels,
     Consumer, ConsNext, ConsEnds, ConsPut, ConsPush, Overflow, Pacer, PacerTakes, PacerExits,
     PacerChecks, PacerClaimsStart, PacerSendsStart, TransitionToSpeaking, PacerRechecks,
     PacerSends, PacerPushes, PacerTicks, PacerFinishes
<1> QED
  BY <1>2 DEF PacerFinishes, PacerAt, PacerGoto, Types, PacerType

(* A goroutine that has returned does not come back.                          *)
LEMMA NoneRunsAgain ==
  ASSUME Types, ShapeInv, [Next]_vars, NEW g \in Gens
  PROVE  /\ pacer[g].pc = "gone" => pacer'[g].pc = "gone"
         /\ ~Running(g) => ~Running(g)' \/ (NewTurn /\ g = generation')
<1> USE DEF Running
<1>a. Shape(g)
  BY DEF ShapeInv
<1> USE DEF Types, OrchType, PacerType
<1>1. CASE NewTurn
  BY <1>1 DEF NewTurn, pacerVars
<1>2. CASE AbortCancels \/ PeerCloses \/ Supervisor \/ Write \/ WriteFails \/ UNCHANGED vars
  BY <1>2, SupervisorKeeps DEF Same
<1>3. ASSUME NEW h \in Gens, Works(h), h # g PROVE pacer'[g] = pacer[g] /\ orch'[g] = orch[g]
  BY <1>3, WorkOfAnother DEF Same
<1>4. CASE Orchestrator(g)
  <2>1. orch[g].pc \notin {"none", "done"} /\ (pacer'[g] = pacer[g] \/ OrchCreate(g))
    BY <1>4 DEF Orchestrator, OrchCreateFails, OrchCheck, OrchGivesUp, OrchSend, OrchSpeak,
       OrchFinish, OrchFinishInput, OrchHearsError, OrchStops, OrchCancels, MarkStopped,
       CancelPacer, OrchCreate, pacerVars, OrchAt
  <2>2. OrchCreate(g) => pacer[g].pc = "none"
    BY <1>a DEF OrchCreate, OrchAt, Shape, Fresh
  <2> QED
    BY <2>1, <2>2
<1>5. CASE Consumer(g)
  BY <1>5 DEF Consumer, ConsNext, ConsEnds, ConsPut, ConsPush, pacerVars
<1>6. CASE Pacer(g)
  BY <1>6 DEF Pacer, PacerTakes, PacerExits, PacerChecks, PacerClaimsStart, PacerSendsStart,
     TransitionToSpeaking, PacerRechecks, PacerSends, PacerPushes, PacerTicks, PacerFinishes,
     PacerAt
<1> QED
  BY <1>1, <1>2, <1>3, <1>4, <1>5, <1>6, NextCases DEF Works

(* Only a goroutine that is about to send is counted, and only once.          *)
LEMMA LateMoves ==
  ASSUME Types, LateInv, [Next]_vars
  PROVE  \/ late' = late
         \/ \E h \in Gens, who \in {"orch", "pacer"} :
              /\ Works(h) /\ Running(h) /\ h < generation
              /\ late[h][who] = 0 /\ late' = [late EXCEPT ![h][who] = 1]
<1> USE DEF Types, AuxType, OrchType, PacerType
<1>1. CASE NewTurn \/ AbortCancels \/ PeerCloses \/ Supervisor \/ Write \/ WriteFails
           \/ UNCHANGED vars
  BY <1>1 DEF NewTurn, AbortCancels, PeerCloses, Supervisor, Write, WriteFails, vars,
     AbortStopsPacer, AbortDrains, AbortTells, DropStale, FinishSilently, FinishSpeaking,
     ErrorStopsPacer, ErrorTells, CloseSession, SupCancels, auxVars
<1>2. ASSUME NEW h \in Gens, Works(h)
      PROVE  \/ late' = late
             \/ \E who \in {"orch", "pacer"} :
                  /\ Running(h) /\ h < generation
                  /\ late[h][who] = 0 /\ late' = [late EXCEPT ![h][who] = 1]
  <2>a. h \in Nat /\ generation \in Nat
    BY DEF ControlType, Gens
  <2>1. CASE OrchSend(h)
    <3>1. orch[h].pc = "send" /\ (late' = late \/ (generation > h /\ late' = [late EXCEPT ![h].orch = @ + 1]))
      BY <2>1 DEF OrchSend, OrchAt, CountLate
    <3>2. late[h].orch = 0 /\ Running(h)
      BY <3>1 DEF LateInv, Running
    <3>3. late' = late \/ (h < generation /\ late' = [late EXCEPT ![h]["orch"] = 1])
      BY <2>a, <3>1, <3>2
    <3> QED
      BY <3>2, <3>3
  <2>2. CASE PacerSendsStart(h) \/ PacerPushes(h)
    <3>1. /\ pacer[h].pc \in {"startsend", "push"}
          /\ late' = late \/ (generation > h /\ late' = [late EXCEPT ![h].pacer = @ + 1])
      BY <2>2 DEF PacerSendsStart, PacerPushes, PacerAt, CountLate
    <3>2. late[h].pacer = 0 /\ Running(h)
      BY <3>1 DEF LateInv, Running
    <3>3. late' = late \/ (h < generation /\ late' = [late EXCEPT ![h]["pacer"] = 1])
      BY <2>a, <3>1, <3>2
    <3> QED
      BY <3>2, <3>3
  <2>3. CASE ~OrchSend(h) /\ ~PacerSendsStart(h) /\ ~PacerPushes(h)
    BY <1>2, <2>3 DEF Works, Orchestrator, OrchCreate, OrchCreateFails, OrchCheck, OrchGivesUp,
       OrchSpeak, OrchFinish, OrchFinishInput, OrchHearsError, OrchStops, OrchCancels, Consumer,
       ConsNext, ConsEnds, ConsPut, ConsPush, Pacer, PacerTakes, PacerExits, PacerChecks,
       PacerClaimsStart, TransitionToSpeaking, PacerRechecks, PacerSends, PacerTicks, PacerFinishes,
       auxVars
  <2> QED
    BY <2>1, <2>2, <2>3
<1> QED
  BY <1>1, <1>2, NextCases DEF Works

(* A turn begins only at the next generation.                                 *)
LEMMA BeginsNext ==
  ASSUME Types, ShapeInv, [Next]_vars, NEW g \in Gens, orch[g].pc = "none", orch'[g].pc # "none"
  PROVE  NewTurn /\ g = generation + 1
<1> USE DEF Types, OrchType
<1>1. CASE NewTurn
  BY <1>1 DEF NewTurn
<1>2. CASE AbortCancels \/ PeerCloses \/ Supervisor \/ Write \/ WriteFails \/ UNCHANGED vars
  BY <1>2, SupervisorKeeps DEF Same
<1>3. ASSUME NEW h \in Gens, Works(h), h # g PROVE FALSE
  BY <1>3, WorkOfAnother DEF Same
<1>4. ASSUME Works(g) PROVE FALSE
  BY <1>4 DEF Works, Orchestrator, OrchCreate, OrchCreateFails, OrchCheck, OrchGivesUp, OrchSend,
     OrchSpeak, OrchFinish, OrchFinishInput, OrchHearsError, OrchStops, OrchCancels, OrchAt,
     Consumer, ConsNext, ConsEnds, ConsPut, ConsPush, Pacer, PacerTakes, PacerExits, PacerChecks,
     PacerClaimsStart, PacerSendsStart, TransitionToSpeaking, PacerRechecks, PacerSends,
     PacerPushes, PacerTicks, PacerFinishes, turnVars
<1> QED
  BY <1>1, <1>2, <1>3, <1>4, NextCases DEF Works

(* The session becomes READY with the end of an answer or with an abort.      *)
LEMMA BecomesReady ==
  ASSUME [Next]_vars, state # "Ready", state' = "Ready"
  PROVE  AbortCancels \/ FinishSilently \/ FinishSpeaking
<1>1. CASE NewTurn \/ PeerCloses \/ Write \/ WriteFails \/ UNCHANGED vars \/ AbortStopsPacer
           \/ AbortDrains \/ AbortTells \/ DropStale \/ ErrorStopsPacer \/ ErrorTells
           \/ CloseSession \/ SupCancels
  BY <1>1 DEF NewTurn, PeerCloses, Write, WriteFails, vars, AbortStopsPacer, AbortDrains,
     AbortTells, DropStale, ErrorStopsPacer, ErrorTells, CloseSession, SupCancels, supVars
<1>2. ASSUME NEW h \in Gens, Works(h) PROVE FALSE
  BY <1>2, WorkKeeps
<1> QED
  BY <1>1, <1>2, NextCases DEF Supervisor, Works

(* A goroutine never works on beside the turn after its own, unless an abort  *)
(* stands between them.                                                       *)
LEMMA OverStep ==
  ASSUME Types, Types', ShapeInv, ShapeInv', LateInv, ClosingInv, EventsInv, OverInv, [Next]_vars
  PROVE  OverInv'
<1>a. /\ generation \in Nat /\ generation' \in Nat /\ Gens \subseteq Nat
      /\ \A g \in Gens : Shape(g) /\ Closing(g)
  BY DEF Types, ControlType, Gens, ShapeInv, ClosingInv
<1>1. ASSUME NEW g \in Gens, g < generation', Running(g)'
      PROVE  orch'[g + 1].pc = "none"
  <2>a. g + 1 \in Gens
    <3>1. generation' <= MaxGen /\ MaxGen \in Nat /\ g \in 1 .. MaxGen
      BY Numbers DEF Types, ControlType, Gens
    <3> QED
      BY <1>a, <1>1, <3>1 DEF Gens
  <2>1. CASE NewTurn
    <3>1. /\ generation' = generation + 1 /\ orch' = [orch EXCEPT ![generation'].pc = "create"]
          /\ UNCHANGED <<late, pacer>> /\ state = "Ready"
      BY <2>1 DEF NewTurn, auxVars, pacerVars
    <3>2. CASE g < generation
      <4>1. Running(g)
        BY <1>1, <1>a, <3>1, <3>2 DEF Running, Types, OrchType
      <4> QED
        BY <1>a, <2>a, <3>1, <3>2, <4>1 DEF OverInv, Types, OrchType
    <3>3. CASE g = generation
      <4>1. ~Running(g)'
        BY <1>a, <3>1, <3>3 DEF OverInv, Running, Types, OrchType
      <4> QED
        BY <1>1, <4>1
    <3> QED
      BY <1>1, <1>a, <3>1, <3>2, <3>3
  <2>2. CASE AbortCancels
    <3>1. generation' = generation + 1 /\ UNCHANGED <<orch, pacer, late>>
      BY <2>2 DEF AbortCancels, turnVars, pacerVars, auxVars
    <3>2. CASE g < generation
      BY <1>1, <3>1, <3>2 DEF OverInv, Running
    <3>3. CASE g = generation
      BY <1>a, <2>a, <3>1, <3>3 DEF ShapeInv, Begun
    <3> QED
      BY <1>1, <1>a, <3>1, <3>2, <3>3
  <2>3. CASE ~NewTurn /\ ~AbortCancels
    <3>1. generation' = generation
      BY <2>3, GenerationKeeps
    <3>2. Running(g)
      BY <1>1, <2>3, NoneRunsAgain
    <3>3. orch[g + 1].pc = "none"
      BY <1>1, <3>1, <3>2 DEF OverInv
    <3> QED
      BY <2>a, <2>3, <3>3, BeginsNext
  <2> QED
    BY <2>1, <2>2, <2>3
<1>2. ASSUME NEW g \in Gens, g = generation', state' = "Ready" PROVE ~Running(g)'
  <2>1. CASE AbortCancels
    <3>1. orch'[g].pc = "none"
      BY <1>a, <1>2, <2>1 DEF AbortCancels, turnVars, ShapeInv, Begun
    <3> QED
      BY <3>1 DEF Running, ShapeInv, Shape, Fresh
  <2>2. CASE FinishSilently \/ FinishSpeaking
    <3>1. /\ posts # << >> /\ Head(posts) = Event("finished", generation)
          /\ UNCHANGED <<generation, turnVars, pacer>>
      BY <1>2, <2>2 DEF FinishSilently, FinishSpeaking, Pending, DismissPacer
    <3>2. Len(posts) \in Nat /\ Len(posts) > 0 /\ posts[1] = Event("finished", g)
      BY <1>2, <3>1 DEF Types, PostType
    <3>3. 1 \in 1 .. Len(posts) /\ posts[1].kind = "finished" /\ posts[1].gen = g
      BY <3>2 DEF Event
    <3>4. pacer[g].pc = "gone" /\ orch[g].pc = "done"
      BY <1>a, <3>3 DEF OverInv, EventsInv, Truthful, Closing
    <3> QED
      BY <3>1, <3>4 DEF Running, turnVars
  <2>3. CASE ~AbortCancels /\ ~FinishSilently /\ ~FinishSpeaking
    <3>1. state = "Ready" /\ ~NewTurn
      BY <1>2, <2>3, BecomesReady DEF NewTurn
    <3>2. ~Running(g)
      BY <1>2, <2>3, <3>1, GenerationKeeps DEF OverInv
    <3> QED
      BY <3>1, <3>2, NoneRunsAgain
  <2> QED
    BY <2>1, <2>2, <2>3
<1>3. ASSUME NEW j \in 1 .. Len(posts'), posts'[j].kind = "finished"
      PROVE  pacer'[posts'[j].gen].pc = "gone"
  <2>a. Len(posts) \in Nat /\ Len(posts') \in Nat
    BY DEF Types, PostType
  <2>b. ASSUME NEW i \in 1 .. Len(posts), posts'[j] = posts[i] PROVE pacer'[posts'[j].gen].pc = "gone"
    BY <1>3, <2>b, NoneRunsAgain, PostFacts DEF OverInv
  <2>1. CASE posts' = posts
    BY <2>1, <2>b
  <2>2. CASE posts # << >> /\ posts' = Tail(posts)
    <3>1. j + 1 \in 1 .. Len(posts) /\ posts'[j] = posts[j + 1]
      BY <2>a, <2>2 DEF Types, PostType
    <3> QED
      BY <2>b, <3>1
  <2>3. ASSUME NEW h \in Gens, Works(h), NEW k \in {"finished", "error"},
               posts' = Append(posts, Event(k, h))
        PROVE  pacer'[posts'[j].gen].pc = "gone"
    <3>1. CASE j \in 1 .. Len(posts)
      BY <2>b, <2>3, <3>1 DEF Types, PostType
    <3>2. CASE j = Len(posts) + 1
      <4>1. posts'[j] = Event(k, h)
        BY <2>3, <3>2 DEF Types, PostType
      <4>2. k = "finished" /\ posts'[j].gen = h
        BY <1>3, <4>1 DEF Event
      <4> QED
        BY <2>3, <4>2, FinishedIsGone
    <3> QED
      BY <2>a, <2>3, <3>1, <3>2 DEF Types, PostType
  <2>4. CASE NewTurn
    BY <2>4, <2>1 DEF NewTurn
  <2> QED
    BY <2>1, <2>2, <2>3, <2>4, EventsMove, WorkKeeps, NextCases DEF Works
<1> QED
  BY <1>1, <1>2, <1>3 DEF OverInv

------------------------------------------------------------------------------
(* What is said once.                                                         *)

Aborting == sup.pc \in {"stop", "drain", "tell"}

(* An abort has still to tell the device that turn g is over.                 *)
Owes(g) == Aborting /\ sup.was = TRUE /\ sup.gen = g

Once(g) ==
  /\ stops[g] \in {0, 1}
  /\ stops[g] = 1 => g \in spoke
  /\ g \in spoke => g <= generation
  /\ g = generation /\ state = "Speaking" => g \in spoke /\ (stops[g] = 0 \/ sup.pc = "close")
  /\ g = generation /\ state = "Processing" => g \notin spoke

OnceInv ==
  /\ \A g \in Gens : Once(g)
  /\ Aborting => sup.gen + 1 = generation
  /\ Aborting /\ sup.was = TRUE => sup.gen \in spoke /\ stops[sup.gen] = 0

(* Every turn that spoke has been ended, is the one speaking, or is about to  *)
(* be ended by an abort.                                                      *)
ToldInv == \A g \in spoke : state # "Closed" /\ wClosed = FALSE =>
  stops[g] = 1 \/ (g = generation /\ state = "Speaking") \/ Owes(g)

(* A step that neither begins to speak nor ends a speech.                     *)
Quiet ==
  /\ UNCHANGED <<generation, spoke, stops>>
  /\ state' \in {state, "Closed"} \/ (state = "Processing" /\ state' = "Ready")
  /\ \/ sup' = sup
     \/ sup'.pc \in {"idle", "fail", "close"} /\ (AbortTells \/ ~Aborting \/ sup.was = FALSE)
     \/ Aborting /\ Aborting' /\ sup'.was = sup.was /\ sup'.gen = sup.gen
  /\ sup.pc = "close" => sup'.pc = "close" \/ state' = "Closed"

Tells(g) == g \in Gens /\ stops' = [stops EXCEPT ![g] = @ + 1] /\ spoke' = spoke /\ generation' = generation

(* The steps that begin to speak or end a speech.                             *)
LEMMA SpeechMoves ==
  ASSUME Types, [Next]_vars
  PROVE  \/ Quiet \/ NewTurn \/ AbortCancels
         \/ AbortTells /\ Tells(sup.gen) /\ state' = state /\ sup'.pc = "idle"
         \/ FinishSpeaking /\ Tells(generation) /\ state' = "Ready" /\ sup' = sup
         \/ ErrorTells /\ Tells(generation) /\ state = "Speaking" /\ state' = state
              /\ sup'.pc = "close"
         \/ /\ state = "Processing" /\ state' = "Speaking" /\ spoke' = spoke \cup {generation}
            /\ UNCHANGED <<generation, sup, stops>>
<1> USE DEF Quiet, Tells, Aborting
<1>a. \A l : SupGoto(l) => sup'.pc = l /\ sup'.was = sup.was /\ sup'.gen = sup.gen
  BY DEF SupGoto, Types, ControlType
<1>b. \A l : StopSessionPacer(l) => sup'.pc = l /\ sup'.was = sup.was /\ sup'.gen = sup.gen
  BY DEF StopSessionPacer, Types, ControlType
<1>1. CASE PeerCloses \/ DropStale \/ FinishSilently \/ Write \/ WriteFails \/ UNCHANGED vars
  BY <1>b, <1>1 DEF PeerCloses, DropStale, FinishSilently, Idle, Pending, Write, WriteFails, vars,
     supVars, auxVars
<1>2. CASE AbortStopsPacer \/ ErrorStopsPacer
  BY <1>b, <1>2 DEF AbortStopsPacer, ErrorStopsPacer, Pending, Idle, auxVars, SupAt
<1>3. CASE AbortDrains
  <2>1. SupGoto("tell") \/ (SupGoto("idle") /\ sup.was = FALSE)
    BY <1>3 DEF AbortDrains, Types, ControlType
  <2> QED
    BY <1>a, <1>3, <2>1 DEF AbortDrains, auxVars, SupAt
<1>4. CASE AbortTells
  <2>1. sup.gen \in Gens
    BY <1>4 DEF AbortTells, Types, ControlType, SupAt
  <2> QED
    BY <1>a, <1>4, <2>1 DEF AbortTells, SupAt
<1>5. CASE FinishSpeaking
  <2>1. generation \in Gens
    BY <1>5 DEF FinishSpeaking, Types, ControlType
  <2> QED
    BY <1>b, <1>5, <2>1 DEF FinishSpeaking, Pending, Idle
<1>6. CASE ErrorTells
  <2>1. state = "Speaking" => generation \in Gens
    BY DEF Types, ControlType
  <2> QED
    BY <1>b, <1>6, <2>1 DEF ErrorTells, SupAt
<1>9. CASE CloseSession
  BY <1>a, <1>9 DEF CloseSession, SupAt, auxVars
<1>10. CASE SupCancels
  <2>1. sup'.pc = sup.pc /\ sup'.was = sup.was /\ sup'.gen = sup.gen /\ sup.pc \in {"drain", "fail", "close"}
    BY <1>10 DEF SupCancels, Types, ControlType
  <2> QED
    BY <1>10, <2>1 DEF SupCancels, auxVars
<1>7. ASSUME NEW h \in Gens, TransitionToSpeaking(h)
      PROVE  \/ Quiet
             \/ /\ state = "Processing" /\ state' = "Speaking" /\ spoke' = spoke \cup {generation}
                /\ UNCHANGED <<generation, sup, stops>>
  BY <1>7 DEF TransitionToSpeaking, Announces
<1>8. ASSUME NEW h \in Gens, Works(h), ~TransitionToSpeaking(h) PROVE Quiet
  BY <1>8 DEF Works, Orchestrator, OrchCreate, OrchCreateFails, OrchCheck, OrchGivesUp, OrchSend,
     OrchSpeak, OrchFinish, OrchFinishInput, OrchHearsError, OrchStops, OrchCancels, Consumer,
     ConsNext, ConsEnds, ConsPut, ConsPush, Pacer, PacerTakes, PacerExits, PacerChecks,
     PacerClaimsStart, PacerSendsStart, PacerRechecks, PacerSends, PacerPushes, PacerTicks,
     PacerFinishes, supVars, auxVars
<1> QED
  BY <1>1, <1>2, <1>3, <1>4, <1>5, <1>6, <1>7, <1>8, <1>9, <1>10, NextCases DEF Supervisor, Works

LEMMA OnceStep ==
  ASSUME Types, ShapeInv, OnceInv, [Next]_vars
  PROVE  OnceInv'
<1>a. /\ generation \in Nat /\ Gens \subseteq Nat /\ sup.was \in BOOLEAN
      /\ state \in {"Ready", "Processing", "Speaking", "Closed"}
      /\ spoke \subseteq Gens /\ stops \in [Gens -> Nat]
  BY DEF Types, ControlType, AuxType, Gens
<1>1. CASE Quiet
  BY <1>1 DEF Quiet, OnceInv, Once, Aborting
<1>2. CASE NewTurn
  <2>1. /\ generation' = generation + 1 /\ state' = "Processing" /\ sup.pc = "idle"
        /\ UNCHANGED <<sup, spoke, stops>>
    BY <1>2 DEF NewTurn, Idle, auxVars
  <2> QED
    BY <1>a, <2>1 DEF OnceInv, Once, Aborting
<1>3. CASE AbortCancels
  <2>1. /\ generation' = generation + 1 /\ state' = "Ready" /\ UNCHANGED <<spoke, stops>>
        /\ sup.pc = "idle"
        /\ sup' = [pc |-> "stop", gen |-> generation, was |-> state = "Speaking", p |-> 0]
    BY <1>3 DEF AbortCancels, MustTell, Idle, auxVars
  <2>2. state = "Speaking" => generation \in Gens
    BY DEF Types, ControlType
  <2>3. state = "Speaking" => generation \in spoke /\ stops[generation] = 0
    BY <2>1, <2>2 DEF OnceInv, Once
  <2>4. \A g \in Gens : Once(g)'
    BY <1>a, <2>1 DEF OnceInv, Once
  <2> QED
    BY <2>1, <2>3, <2>4 DEF OnceInv
<1>4. CASE AbortTells /\ Tells(sup.gen) /\ state' = state /\ sup'.pc = "idle"
  <2>1. sup.was = TRUE /\ sup.pc = "tell" /\ state = "Ready"
    BY <1>a, <1>4 DEF AbortTells, Types, ControlType, ShapeInv, Begun, SupAt
  <2>2. sup.gen \in spoke /\ stops[sup.gen] = 0
    BY <2>1 DEF OnceInv, Aborting
  <2> QED
    BY <1>a, <1>4, <2>1, <2>2 DEF OnceInv, Once, Aborting, Tells
<1>5. CASE FinishSpeaking /\ Tells(generation) /\ state' = "Ready" /\ sup' = sup
  <2>1. state = "Speaking" /\ sup.pc = "idle"
    BY <1>5 DEF FinishSpeaking, Pending, Idle
  <2> QED
    BY <1>a, <1>5, <2>1 DEF OnceInv, Once, Aborting, Tells
<1>6. CASE ErrorTells /\ Tells(generation) /\ state = "Speaking" /\ state' = state /\ sup'.pc = "close"
  <2>1. sup.pc = "fail"
    BY <1>6 DEF ErrorTells, SupAt
  <2> QED
    BY <1>a, <1>6, <2>1 DEF OnceInv, Once, Aborting, Tells
<1>7. CASE /\ state = "Processing" /\ state' = "Speaking" /\ spoke' = spoke \cup {generation}
           /\ UNCHANGED <<generation, sup, stops>>
  <2>1. generation \in Gens /\ ~Aborting
    BY <1>7 DEF Types, ControlType, ShapeInv, Begun, Aborting
  <2>2. generation \notin spoke /\ stops[generation] = 0
    BY <1>7, <2>1 DEF OnceInv, Once
  <2> QED
    BY <1>a, <1>7, <2>1, <2>2 DEF OnceInv, Once, Aborting
<1> QED
  BY <1>1, <1>2, <1>3, <1>4, <1>5, <1>6, <1>7, SpeechMoves

(* A closed writer stays closed.                                              *)
LEMMA OpenBefore ==
  ASSUME Types, [Next]_vars, wClosed' = FALSE
  PROVE  wClosed = FALSE
<1>1. CASE NewTurn \/ AbortCancels \/ PeerCloses \/ Supervisor \/ Write \/ WriteFails \/ UNCHANGED vars
  BY <1>1 DEF NewTurn, AbortCancels, PeerCloses, Supervisor, Write, WriteFails, vars, outVars,
     AbortStopsPacer, AbortDrains, AbortTells, DropStale, FinishSilently, FinishSpeaking,
     ErrorStopsPacer, ErrorTells, CloseSession, SupCancels, Enqueue, Refuse
<1>2. ASSUME NEW h \in Gens, Works(h) PROVE wClosed' = wClosed
  BY <1>2 DEF Works, Orchestrator, OrchCreate, OrchCreateFails, OrchCheck, OrchGivesUp, OrchSend,
     OrchSpeak, OrchFinish, OrchFinishInput, OrchHearsError, OrchStops, OrchCancels, Consumer,
     ConsNext, ConsEnds, ConsPut, ConsPush, Pacer, PacerTakes, PacerExits, PacerChecks,
     PacerClaimsStart, PacerSendsStart, TransitionToSpeaking, PacerRechecks, PacerSends,
     PacerPushes, PacerTicks, PacerFinishes, outVars, Enqueue, Refuse
<1> QED
  BY <1>1, <1>2, NextCases DEF Works

(* If an abort's tts.stop is never refused by an open writer.                 *)
LEMMA ToldStep ==
  ASSUME Types, ShapeInv, OnceInv, ToldInv, [Next]_vars,
         AbortTells /\ wClosed = FALSE => Tells(sup.gen)
  PROVE  ToldInv'
<1> SUFFICES ASSUME NEW g \in spoke', state' # "Closed", wClosed' = FALSE
             PROVE  stops'[g] = 1 \/ (g = generation' /\ state' = "Speaking") \/ Owes(g)'
  BY DEF ToldInv
<1>a. /\ generation \in Nat /\ Gens \subseteq Nat /\ sup.was \in BOOLEAN
      /\ spoke \subseteq Gens /\ stops \in [Gens -> Nat]
  BY DEF Types, ControlType, AuxType, Gens
<1>b. wClosed = FALSE
  BY OpenBefore
<1>1. CASE Quiet
  <2>1. g \in spoke /\ state # "Closed" /\ stops' = stops /\ generation' = generation
    <3>1. state = "Closed" => state' = "Closed"
      BY <1>1 DEF Quiet
    <3> QED
      BY <1>1, <3>1 DEF Quiet
  <2>2. stops[g] = 1 \/ (g = generation /\ state = "Speaking") \/ Owes(g)
    BY <1>b, <2>1 DEF ToldInv
  <2>3. ASSUME Owes(g) PROVE Owes(g)'
    <3>1. ~AbortTells
      BY <1>a, <1>b, <2>1, <2>3 DEF Tells, Owes
    <3> QED
      BY <1>1, <2>3, <3>1 DEF Quiet, Owes, Aborting
  <2>4. state = "Speaking" => state' = "Speaking"
    BY <1>1 DEF Quiet
  <2> QED
    BY <2>1, <2>2, <2>3, <2>4
<1>2. CASE NewTurn
  <2>1. state = "Ready" /\ sup.pc = "idle" /\ UNCHANGED <<spoke, stops>>
    BY <1>2 DEF NewTurn, Idle, auxVars
  <2> QED
    BY <1>b, <2>1 DEF ToldInv, Owes, Aborting
<1>3. CASE AbortCancels
  <2>1. /\ state # "Closed" /\ sup.pc = "idle" /\ UNCHANGED <<spoke, stops>>
        /\ sup' = [pc |-> "stop", gen |-> generation, was |-> state = "Speaking", p |-> 0]
    BY <1>3 DEF AbortCancels, MustTell, Idle, auxVars
  <2>2. stops[g] = 1 \/ (g = generation /\ state = "Speaking")
    BY <1>b, <2>1 DEF ToldInv, Owes, Aborting
  <2> QED
    BY <2>1, <2>2 DEF Owes, Aborting
<1>4. ASSUME NEW h \in Gens, Tells(h), stops[h] = 0, state # "Closed", g # h =>
               ~Owes(g) /\ ~(g = generation /\ state = "Speaking")
      PROVE  stops'[g] = 1
  <2>1. g \in spoke /\ (g # h => stops[g] = 1)
    BY <1>b, <1>4 DEF Tells, ToldInv
  <2> QED
    BY <1>a, <1>4, <2>1 DEF Tells
<1>5. CASE AbortTells /\ Tells(sup.gen)
  <2>1. sup.was = TRUE /\ Aborting /\ state = "Ready" /\ sup.gen \in Gens
    BY <1>a, <1>5 DEF AbortTells, Types, ControlType, ShapeInv, Begun, Aborting, SupAt
  <2>2. stops[sup.gen] = 0
    BY <2>1 DEF OnceInv
  <2> QED
    BY <1>4, <1>5, <2>1, <2>2 DEF Owes
<1>6. CASE FinishSpeaking /\ Tells(generation)
  <2>1. state = "Speaking" /\ sup.pc = "idle" /\ generation \in Gens
    BY <1>6 DEF FinishSpeaking, Pending, Idle, Tells
  <2>2. stops[generation] = 0
    BY <2>1 DEF OnceInv, Once
  <2> QED
    BY <1>4, <1>6, <2>1, <2>2 DEF Owes, Aborting
<1>8. CASE ErrorTells /\ Tells(generation) /\ state = "Speaking"
  <2>1. sup.pc = "fail" /\ generation \in Gens
    BY <1>8 DEF ErrorTells, SupAt, Tells
  <2>2. stops[generation] = 0
    BY <1>8, <2>1 DEF OnceInv, Once
  <2> QED
    BY <1>4, <1>8, <2>1, <2>2 DEF Owes, Aborting
<1>7. CASE /\ state = "Processing" /\ state' = "Speaking" /\ spoke' = spoke \cup {generation}
           /\ UNCHANGED <<generation, sup, stops>>
  <2>1. g # generation => stops[g] = 1 \/ Owes(g)
    BY <1>b, <1>7 DEF ToldInv
  <2> QED
    BY <1>7, <2>1 DEF Owes, Aborting
<1> QED
  BY <1>1, <1>2, <1>3, <1>5, <1>6, <1>7, <1>8, SpeechMoves

------------------------------------------------------------------------------
(* The room an abort leaves in the writer's queue.                            *)

(* What a turn that was cut off may still queue, an element for each message. *)
Laggards == {s \in Gens \X {"orch", "pacer"} :
  s[1] < generation /\ Running(s[1]) /\ late[s[1]][s[2]] = 0}

(* When an abort drains the queue, it has a place for what is still to come   *)
(* of all that, and one for the tts.stop.                                     *)
Room == sup.pc = "drain" => Cardinality(Laggards) < WriterCap

RoomInv ==
  sup.pc = "tell" /\ wClosed = FALSE => Len(queue) + Cardinality(Laggards) < WriterCap

LEMMA LaggardsAreFinite == IsFiniteSet(Laggards) /\ Cardinality(Laggards) \in Nat
<1>1. IsFiniteSet(Gens)
  BY Numbers, FS_Interval DEF Gens
<1>2. IsFiniteSet({"orch", "pacer"})
  <2>1. IsFiniteSet({"orch"}) /\ {"orch"} \cup {"pacer"} = {"orch", "pacer"}
    BY FS_Singleton
  <2> QED
    BY <2>1, FS_AddElement
<1>3. IsFiniteSet(Gens \X {"orch", "pacer"})
  BY <1>1, <1>2, FS_Product
<1>4. Laggards \in SUBSET (Gens \X {"orch", "pacer"})
  BY DEF Laggards
<1> QED
  BY <1>3, <1>4, FS_Subset, FS_CardinalityType

(* No two turns in a row lag.                                                 *)
LEMMA LaggardsAreFew ==
  ASSUME Types, ShapeInv, OverInv
  PROVE  Cardinality(Laggards) <= 2 * (MaxGen \div 2)
<1> DEFINE L == {g \in Gens : g < generation /\ Running(g)}
           f == [g \in L |-> g + 1]
           N == {g + 1 : g \in L}
<1>a. MaxGen \in Nat /\ generation \in 0 .. MaxGen
  BY Numbers DEF Types, ControlType
<1>1. IsFiniteSet(Gens) /\ Cardinality(Gens) = MaxGen
  BY <1>a, FS_Interval DEF Gens
<1>2. IsFiniteSet(L) /\ Cardinality(L) \in Nat
  BY <1>1, FS_Subset, FS_CardinalityType
<1>3. \A g \in L : g < generation /\ g + 1 \in Gens
  BY <1>a DEF Gens
<1>4. L \cap N = {}
  <2> SUFFICES ASSUME NEW g \in L, g + 1 \in L PROVE FALSE
    OBVIOUS
  <2>1. g + 1 \in Gens /\ orch[g + 1].pc = "none"
    BY <1>3 DEF OverInv
  <2>2. pacer[g + 1].pc = "none"
    BY <2>1 DEF ShapeInv, Shape, Fresh
  <2> QED
    BY <2>1, <2>2 DEF Running
<1>5. IsFiniteSet(N) /\ Cardinality(N) = Cardinality(L)
  <2>1. f \in Bijection(L, N)
    BY DEF Gens, Bijection, Injection, Surjection, IsInjective
  <2> QED
    BY <1>2, <2>1, FS_Bijection DEF ExistsBijection
<1>6. Cardinality(L) + Cardinality(L) <= MaxGen
  <2>1. Cardinality(L \cup N) = Cardinality(L) + Cardinality(N) - Cardinality(L \cap N)
    BY <1>2, <1>5, FS_Union
  <2>2. Cardinality(L \cup N) <= MaxGen
    <3>1. L \cup N \in SUBSET Gens
      BY <1>3
    <3> QED
      BY <1>1, <3>1, FS_Subset
  <2>3. Cardinality(L \cap N) = 0
    BY <1>4, FS_EmptySet
  <2> QED
    BY <1>2, <1>5, <2>1, <2>2, <2>3
<1>7. /\ IsFiniteSet(L \X {"orch", "pacer"})
      /\ Cardinality(L \X {"orch", "pacer"}) = Cardinality(L) * 2
  <2>1. IsFiniteSet({"orch"}) /\ Cardinality({"orch"}) = 1
    BY FS_Singleton
  <2>2. {"orch"} \cup {"pacer"} = {"orch", "pacer"}
    OBVIOUS
  <2>3. IsFiniteSet({"orch", "pacer"}) /\ Cardinality({"orch", "pacer"}) = 2
    BY <2>1, <2>2, FS_AddElement
  <2> QED
    BY <1>2, <2>3, FS_Product
<1>8. Laggards \in SUBSET (L \X {"orch", "pacer"})
  BY DEF Laggards
<1>9. Cardinality(Laggards) <= Cardinality(L) * 2 /\ Cardinality(Laggards) \in Nat
  BY <1>7, <1>8, FS_Subset, LaggardsAreFinite
<1>10. Cardinality(L) <= MaxGen \div 2
  BY <1>2, <1>6, <1>a
<1> QED
  BY <1>2, <1>9, <1>10, <1>a

(* What a superseded turn queues, it has no longer to queue.                  *)
LEMMA CountedWhenQueued ==
  ASSUME Types, LateInv, NEW h \in Gens, h < generation, Works(h)
  PROVE  \/ UNCHANGED <<queue, late>>
         \/ /\ Running(h)
            /\ \E m : queue' = Append(queue, m)
            /\ \E who \in {"orch", "pacer"} :
                 late[h][who] = 0 /\ late' = [late EXCEPT ![h][who] = @ + 1]
<1> USE DEF Types, AuxType, OrchType, PacerType
<1>a. h \in Nat /\ generation \in Nat
  BY DEF ControlType, Gens
<1>1. CASE OrchSend(h)
  <2>1. CASE Refuse
    BY <1>1, <2>1 DEF OrchSend, Refuse, Enqueue, outVars
  <2>2. CASE ~Refuse
    <3>1. orch[h].pc = "send" /\ queue' = Append(queue, Msg("sentence", h, orch[h].n))
      BY <1>1, <2>2 DEF OrchSend, OrchAt, Enqueue
    <3>2. late[h]["orch"] = 0 /\ late' = [late EXCEPT ![h]["orch"] = @ + 1]
      BY <1>1, <1>a, <2>2, <3>1 DEF OrchSend, CountLate, LateInv
    <3> QED
      BY <3>1, <3>2 DEF Running
  <2> QED
    BY <2>1, <2>2
<1>2. CASE PacerSendsStart(h) \/ PacerPushes(h)
  <2>1. CASE Refuse
    BY <1>2, <2>1 DEF PacerSendsStart, PacerPushes, Refuse, Enqueue, outVars
  <2>2. CASE ~Refuse
    <3>1. pacer[h].pc \in {"startsend", "push"} /\ \E m : queue' = Append(queue, m)
      BY <1>2, <2>2 DEF PacerSendsStart, PacerPushes, PacerAt, Enqueue
    <3>2. late[h]["pacer"] = 0 /\ late' = [late EXCEPT ![h]["pacer"] = @ + 1]
      BY <1>2, <1>a, <2>2, <3>1 DEF PacerSendsStart, PacerPushes, CountLate, LateInv
    <3> QED
      BY <3>1, <3>2 DEF Running
  <2> QED
    BY <2>1, <2>2
<1>3. CASE ~OrchSend(h) /\ ~PacerSendsStart(h) /\ ~PacerPushes(h)
  BY <1>3 DEF Works, Orchestrator, OrchCreate, OrchCreateFails, OrchCheck, OrchGivesUp, OrchSpeak,
     OrchFinish, OrchFinishInput, OrchHearsError, OrchStops, OrchCancels, Consumer, ConsNext,
     ConsEnds, ConsPut, ConsPush, Pacer, PacerTakes, PacerExits, PacerChecks, PacerClaimsStart,
     TransitionToSpeaking, PacerRechecks, PacerSends, PacerTicks, PacerFinishes, auxVars, outVars
<1> QED
  BY <1>1, <1>2, <1>3

(* Until the next turn begins, nobody joins those that lag; and who has       *)
(* queued its message leaves them.                                            *)
LEMMA LaggardsLeave ==
  ASSUME Types, LateInv, ShapeInv, [Next]_vars, ~NewTurn, generation' = generation
  PROVE  /\ Laggards' \subseteq Laggards
         /\ \A h \in Gens, who \in {"orch", "pacer"} :
              h < generation /\ Running(h) /\ late[h][who] = 0
                /\ late' = [late EXCEPT ![h][who] = @ + 1]
              => <<h, who>> \in Laggards /\ <<h, who>> \notin Laggards'
<1>1. \A g \in Gens : Running(g)' => Running(g)
  BY NoneRunsAgain
<1>2. \A g \in Gens, who \in {"orch", "pacer"} : late'[g][who] = 0 => late[g][who] = 0
  BY LateMoves DEF Types, AuxType
<1>3. Laggards' \subseteq Laggards
  BY <1>1, <1>2 DEF Laggards
<1>4. ASSUME NEW h \in Gens, NEW who \in {"orch", "pacer"}, h < generation, Running(h),
             late[h][who] = 0, late' = [late EXCEPT ![h][who] = @ + 1]
      PROVE  <<h, who>> \in Laggards /\ <<h, who>> \notin Laggards'
  <2>1. late'[h][who] = 1
    BY <1>4 DEF Types, AuxType
  <2> QED
    BY <1>4, <2>1 DEF Laggards
<1> QED
  BY <1>3, <1>4

LEMMA RoomStep ==
  ASSUME Types, Types', ShapeInv, LateInv, RoomInv, Room, [Next]_vars
  PROVE  RoomInv'
<1> SUFFICES ASSUME sup'.pc = "tell", wClosed' = FALSE
             PROVE  Len(queue') + Cardinality(Laggards') < WriterCap
  BY DEF RoomInv
<1>0. wClosed = FALSE
  BY OpenBefore
<1>a. /\ Len(queue) \in Nat /\ generation \in Nat /\ Gens \subseteq Nat /\ WriterCap \in Nat
      /\ IsFiniteSet(Laggards) /\ Cardinality(Laggards) \in Nat
  BY Numbers, LaggardsAreFinite DEF Types, OutType, ControlType, Gens
<1>1. CASE AbortDrains
  <2>1. queue' = << >> /\ Laggards' = Laggards
    BY <1>1 DEF AbortDrains, turnVars, pacerVars, auxVars, Laggards, Running
  <2>2. sup.pc = "drain"
    BY <1>1 DEF AbortDrains, SupAt
  <2> QED
    BY <1>a, <2>1, <2>2 DEF Room
<1>2. CASE UNCHANGED vars
  <2>1. sup' = sup /\ queue' = queue /\ Laggards' = Laggards
    BY <1>2 DEF vars, supVars, outVars, turnVars, pacerVars, auxVars, Laggards, Running
  <2> QED
    BY <1>0, <2>1 DEF RoomInv
<1>3. CASE Write
  <2>1. sup' = sup /\ Len(queue') = Len(queue) - 1 /\ Laggards' = Laggards
    BY <1>3, <1>a DEF Write, supVars, turnVars, pacerVars, auxVars, Laggards, Running, Types,
       OutType
  <2> QED
    BY <1>0, <1>a, <2>1 DEF RoomInv
<1>4. ASSUME NEW h \in Gens, Works(h) PROVE Len(queue') + Cardinality(Laggards') < WriterCap
  <2>1. sup.pc = "tell" /\ generation' = generation /\ ~NewTurn
    BY <1>4, WorkKeeps DEF NewTurn, Idle
  <2>2. Len(queue) + Cardinality(Laggards) < WriterCap
    BY <1>0, <2>1 DEF RoomInv
  <2>3. /\ Laggards' \subseteq Laggards
        /\ \A g \in Gens, who \in {"orch", "pacer"} :
             g < generation /\ Running(g) /\ late[g][who] = 0
               /\ late' = [late EXCEPT ![g][who] = @ + 1]
             => <<g, who>> \in Laggards /\ <<g, who>> \notin Laggards'
    BY <2>1, LaggardsLeave
  <2>4. IsFiniteSet(Laggards') /\ Cardinality(Laggards') \in Nat /\ Cardinality(Laggards') <= Cardinality(Laggards)
    BY <1>a, <2>3, FS_Subset, FS_CardinalityType
  <2>5. CASE queue' = queue
    BY <1>a, <2>2, <2>4, <2>5
  <2>6. CASE queue' # queue
    <3>1. h < generation
      <4>1. h >= generation => orch[h].pc = "none" /\ pacer[h].pc = "none" /\ cons[h].pc = "none"
        BY <1>a, <2>1 DEF ShapeInv, Begun, Shape, Fresh
      <4>2. h >= generation => queue' = queue
        BY <1>4, <4>1 DEF Works, Orchestrator, OrchCreate, OrchCreateFails, OrchCheck, OrchGivesUp,
           OrchSend, OrchSpeak, OrchFinish, OrchFinishInput, OrchHearsError, OrchStops, OrchCancels,
           OrchAt, Consumer, ConsNext, ConsEnds, ConsPut, ConsPush, Pacer, PacerTakes, PacerExits,
           PacerChecks, PacerClaimsStart, PacerSendsStart, TransitionToSpeaking, PacerRechecks,
           PacerSends, PacerPushes, PacerTicks, PacerFinishes, PacerAt
      <4> QED
        BY <1>a, <2>6, <4>2
    <3>2. /\ Running(h) /\ \E m : queue' = Append(queue, m)
          /\ \E who \in {"orch", "pacer"} : late[h][who] = 0 /\ late' = [late EXCEPT ![h][who] = @ + 1]
      BY <1>4, <2>6, <3>1, CountedWhenQueued
    <3>3. PICK x : x \in Laggards /\ x \notin Laggards'
      BY <2>3, <3>1, <3>2
    <3>4. Cardinality(Laggards') < Cardinality(Laggards)
      <4>1. Laggards' # Laggards
        BY <3>3
      <4> QED
        BY <1>a, <2>3, <2>4, <4>1, FS_Subset
    <3>5. Len(queue') = Len(queue) + 1
      BY <3>2 DEF Types, OutType
    <3> QED
      BY <1>a, <2>2, <2>4, <3>4, <3>5
  <2> QED
    BY <2>5, <2>6
<1>5. CASE CloseSession \/ WriteFails
  <2>1. wClosed' = TRUE
    BY <1>5 DEF CloseSession, WriteFails
  <2> QED
    BY <2>1
<1>6. CASE NewTurn \/ DropStale \/ FinishSilently
  BY <1>6 DEF NewTurn, DropStale, FinishSilently, Pending, Idle, supVars
<1>7. CASE \/ AbortCancels \/ AbortStopsPacer \/ AbortTells \/ ErrorStopsPacer \/ ErrorTells \/ PeerCloses
           \/ SupCancels \/ FinishSpeaking
  <2>1. \A l : StopSessionPacer(l) => sup'.pc = l
    BY DEF StopSessionPacer, Types, ControlType
  <2>2. sup'.pc # "tell"
    BY <1>7, <2>1 DEF AbortCancels, AbortStopsPacer, AbortTells, ErrorStopsPacer, ErrorTells,
       PeerCloses, SupCancels, FinishSpeaking, Pending, Idle, SupGoto, Types, ControlType
  <2> QED
    BY <2>2
<1> QED
  BY <1>1, <1>2, <1>3, <1>4, <1>5, <1>6, <1>7, NextCases DEF Supervisor, Works

------------------------------------------------------------------------------
(* Together.                                                                  *)

SpeechInv == OverInv /\ OnceInv

LEMMA AlwaysSpoken == Spec => [](Types /\ ShapeInv /\ LateInv /\ SpeechInv)
<1>1. Init => LateInv /\ CommitInv /\ SpeechInv
  <2> SUFFICES ASSUME Init PROVE LateInv /\ CommitInv /\ SpeechInv
    OBVIOUS
  <2>1. SpeechInv
    <3>1. /\ \A g \in Gens : orch[g].pc = "none" /\ pacer[g].pc = "none" /\ stops[g] = 0
          /\ Len(posts) = 0 /\ spoke = {} /\ sup.pc = "idle" /\ generation = 0 /\ Gens \subseteq Nat
          /\ state = "Ready"
      BY DEF Init, Gens
    <3>2. OverInv
      BY <3>1 DEF OverInv, Running
    <3>3. OnceInv
      BY <3>1 DEF OnceInv, Once, Aborting
    <3> QED
      BY <3>2, <3>3 DEF SpeechInv
  <2>2. LateInv
    BY DEF Init, LateInv
  <2> QED
    BY <2>1, <2>2, CommitInit
<1>2. /\ Types /\ Types' /\ ShapeInv /\ ShapeInv' /\ LateInv /\ CommitInv /\ SpeechInv /\ [Next]_vars
        => SpeechInv'
  BY OverStep, OnceStep DEF SpeechInv, CommitInv
<1> QED
  BY <1>1, <1>2, LateStep, CommitStep, AlwaysShaped, AlwaysOrdered, PTL DEF Spec

(* A tts.stop is sent for a turn at most once, only for one that spoke, and   *)
(* while that turn is still SPEAKING only by a session that is closing, for   *)
(* any number of turns and any capacity of the queues (Abort,                 *)
(* handleTurnFinishedEvent, handleErrorEvent).                                *)
AtMostOneStop == \A g \in Gens :
  stops[g] <= 1
    /\ (stops[g] = 1 => g \in spoke /\ (generation = g /\ state = "Speaking" => sup.pc = "close"))

THEOREM StopIsNotRepeated == Spec => []AtMostOneStop
<1>1. Types /\ SpeechInv => AtMostOneStop
  BY DEF SpeechInv, OnceInv, Once, AtMostOneStop
<1> QED
  BY <1>1, AlwaysSpoken, PTL

(* So the abort finds a place for its tts.stop.                               *)
LEMMA TellIsAccepted ==
  ASSUME Types, RoomInv, AbortTells, wClosed = FALSE
  PROVE  Tells(sup.gen)
<1>1. Len(queue) < WriterCap
  <2>1. sup.pc = "tell" /\ Len(queue) \in Nat
    BY DEF AbortTells, Types, OutType, SupAt
  <2>2. Len(queue) + Cardinality(Laggards) < WriterCap
    BY <2>1 DEF RoomInv
  <2> QED
    BY <2>1, <2>2, LaggardsAreFinite, Numbers
<1>2. ~Refuse
  BY <1>1 DEF Refuse, Accepts, HasRoom
<1>3. sup.gen \in Gens
  BY DEF AbortTells, Types, ControlType, SupAt
<1> QED
  BY <1>2, <1>3 DEF AbortTells, Tells

(* SPEAKING is opened by one tts.start and closed by one tts.stop of the turn *)
(* it belongs to, whatever overtakes what and however long the session, if    *)
(* whenever an abort drains the writer, fewer messages than the writer has    *)
(* places are still to come of the turns that were cut off: two at most for   *)
(* each whose goroutines have not returned (SpeechIsBracketed;                *)
(* handleAbortEvent).  With a place less the drained queue can be full again  *)
(* when the tts.stop comes.                                                   *)
THEOREM SpeechIsEndedWithRoom == Spec /\ []Room => []SpeechIsBracketed
<1>1. Init => ToldInv /\ RoomInv
  BY DEF Init, ToldInv, RoomInv
<1>2. Types /\ Types' /\ ShapeInv /\ LateInv /\ SpeechInv /\ ToldInv /\ RoomInv /\ Room /\ [Next]_vars
        => ToldInv' /\ RoomInv'
  BY ToldStep, RoomStep, TellIsAccepted DEF SpeechInv
<1>3. Types /\ SpeechInv /\ ToldInv => OneStop
  BY DEF SpeechInv, OnceInv, Once, ToldInv, Owes, Aborting, OneStop, Idle, Types, AuxType, OutType
<1>4. Spec /\ []Room => []OneStop
  BY <1>1, <1>2, <1>3, AlwaysSpoken, PTL DEF Spec
<1> QED
  BY <1>4, SpeechIsAnnounced, PTL DEF SpeechIsBracketed

(* A turn and its abort take two generations, so that a session with fewer    *)
(* generations than the writer has places always has that room.               *)
THEOREM SpeechIsEnded ==
  ASSUME WriterCap > 2 * (MaxGen \div 2)
  PROVE  Spec => []SpeechIsBracketed
<1>1. Types /\ ShapeInv /\ SpeechInv => Room
  BY LaggardsAreFew, LaggardsAreFinite, Numbers DEF SpeechInv, Room
<1> QED
  BY <1>1, AlwaysSpoken, SpeechIsEndedWithRoom, PTL
=============================================================================
