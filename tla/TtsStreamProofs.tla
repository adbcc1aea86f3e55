---------------------------- MODULE TtsStreamProofs ----------------------------
(***************************************************************************)
(* The consumer hears the audio in order without a gap, and is told the    *)
(* end of it only when the service has finished and everything was heard:  *)
(* for any number of sentences and chunks, any capacity of the channel,    *)
(* and whenever timers, a Close and the end of the turn come.              *)
(***************************************************************************)
EXTENDS TtsStream, SequenceTheorems, TLAPS

Spots == {"idle", "gone", "saying", "ending", "arm", "rearm", "done", "read", "push",
          "leaving", "record", "fired", "late", "cancel", "mark"}

PlaceInv ==
  /\ at \in [Procs -> Spots]
  /\ at["reader"] \in {"read", "push", "leaving", "record", "done"}
  /\ chan = FALSE => at["reader"] = "done"
  /\ verdict # None => at["player"] = "done"
  /\ outcome # "running" => at["reader"] \notin {"read", "push"}

(* Played, queued and held chunks are those heard, in order; and the read     *)
(* loop leaves with all of them handed on, or with a cause on record.         *)
SoundInv ==
  /\ \A i \in 1 .. Len(played) : played[i] = i
  /\ \A i \in 1 .. Len(pcmCh) : pcmCh[i] = Len(played) + i
  /\ at["reader"] = "read" => Len(held) = 0 /\ Len(played) + Len(pcmCh) = heard
  /\ at["reader"] = "push" => held = <<heard>> /\ Len(played) + Len(pcmCh) + 1 = heard
  /\ at["reader"] \in {"leaving", "done"} =>
       \/ cancelled = TRUE \/ err # None
       \/ outcome = "finished" /\ Len(played) + Len(pcmCh) = heard
  /\ verdict = "eof" => /\ at["reader"] = "done" /\ outcome = "finished"
                        /\ Len(played) = heard /\ Len(pcmCh) = 0

------------------------------------------------------------------------------
(* Types.                                                                     *)

FlagsOK ==
  /\ over \in BOOLEAN /\ cancelled \in BOOLEAN /\ closed \in BOOLEAN /\ finished \in BOOLEAN
  /\ firstAudioSent \in BOOLEAN /\ firstAudioReceived \in BOOLEAN
  /\ conn \in BOOLEAN /\ chan \in BOOLEAN /\ ended \in BOOLEAN

CausesOK ==
  /\ err \in Errors \cup {None} /\ armed \subseteq Timers /\ timedOut \subseteq Timers
  /\ outcome \in {"running", "finished", "failed"}
  /\ verdict \in Errors \cup {None, "eof"}
  /\ DOMAIN at = Procs

ChunksOK ==
  /\ sent \in Nat /\ heard \in Nat /\ pcmCh \in Seq(Nat) /\ Len(pcmCh) <= Capacity
  /\ held \in Seq(Nat) /\ Len(held) <= 1 /\ played \in Seq(Nat)

LEMMA TypesSplit == TypeOK <=> FlagsOK /\ CausesOK /\ ChunksOK
  BY DEF TypeOK, FlagsOK, CausesOK, ChunksOK

LEMMA SmallSeqs ==
  /\ <<>> \in Seq(Nat) /\ Len(<<>>) = 0
  /\ \A x \in Nat : <<x>> \in Seq(Nat) /\ Len(<<x>>) = 1 /\ <<x>>[1] = x
  OBVIOUS

LEMMA TypesInit == Init => TypeOK
<1> SUFFICES ASSUME Init PROVE TypeOK
  OBVIOUS
<1>1. FlagsOK
  BY DEF Init, FlagsOK
<1>2. CausesOK
  BY DEF Init, CausesOK
<1>3. ChunksOK
  BY SmallSeqs, TtsAssumption DEF Init, ChunksOK
<1>4. QED
  BY <1>1, <1>2, <1>3, TypesSplit

LEMMA FlagsStep == FlagsOK /\ [Next]_vars => FlagsOK'
<1> SUFFICES ASSUME FlagsOK, [Next]_vars PROVE FlagsOK'
  OBVIOUS
<1> USE DEF FlagsOK, state, alarms, sound, net
<1>1. CASE Call
  BY <1>1 DEF Call
<1>2. CASE Written
  BY <1>2 DEF Written
<1>3. CASE WriteFails
  BY <1>3 DEF WriteFails
<1>4. CASE ArmFirst
  BY <1>4 DEF ArmFirst
<1>5. CASE Rearm
  BY <1>5 DEF Rearm
<1>6. CASE ReadAudio
  BY <1>6 DEF ReadAudio
<1>7. CASE Push \/ PushGivesUp
  BY <1>7 DEF Push, PushGivesUp
<1>8. CASE ReadFinished \/ ReadFailed \/ ReadFails \/ ReaderRecords
  BY <1>8 DEF ReadFinished, ReadFailed, ReadFails, ReaderRecords
<1>9. CASE Leave
  BY <1>9 DEF Leave
<1>10. ASSUME NEW t \in Timers, Expires(t) \/ TimesOut(t) PROVE FlagsOK'
  BY <1>10 DEF Expires, TimesOut
<1>11. ASSUME NEW t \in Timers, TimeoutCancels(t) PROVE FlagsOK'
  BY <1>11 DEF TimeoutCancels
<1>12. CASE DecideFirst
  BY <1>12 DEF DecideFirst
<1>13. CASE DecideSentence \/ Take \/ SeesEnd \/ SeesCancel \/ PlayerLeaves
  BY <1>13 DEF DecideSentence, Take, SeesEnd, SeesCancel, PlayerLeaves
<1>14. CASE TurnEnds
  BY <1>14 DEF TurnEnds
<1>15. CASE CloseStops
  BY <1>15 DEF CloseStops
<1>16. CASE CloseMarks
  BY <1>16 DEF CloseMarks
<1>17. CASE CloseConn
  BY <1>17 DEF CloseConn, CloseCancels
<1>18. CASE UNCHANGED vars
  BY <1>18 DEF vars
<1>19. QED
  BY <1>1, <1>2, <1>3, <1>4, <1>5, <1>6, <1>7, <1>8, <1>9, <1>10, <1>11, <1>12, <1>13, <1>14,
     <1>15, <1>16, <1>17, <1>18 DEF Next, Orchestrate, Read, Handle, Handler, Play

LEMMA CausesStep == CausesOK /\ [Next]_vars => CausesOK'
<1> SUFFICES ASSUME CausesOK, [Next]_vars PROVE CausesOK'
  OBVIOUS
<1> USE DEF CausesOK, state, alarms, sound, net, Goto
<1>1. ASSUME NEW late, RecordError(late) PROVE err' \in Errors \cup {None}
  BY <1>1 DEF RecordError, Cause, Errors, Timers
<1>2. CASE Call
  BY <1>2 DEF Call
<1>3. CASE Written
  BY <1>3 DEF Written
<1>4. CASE WriteFails
  BY <1>1, <1>4 DEF WriteFails
<1>5. CASE ArmFirst
  BY <1>5 DEF ArmFirst, Timers
<1>6. CASE Rearm
  BY <1>6 DEF Rearm, Rearmed, Timers
<1>7. CASE ReadAudio
  BY <1>7 DEF ReadAudio, Rearmed, Timers
<1>8. CASE Push \/ PushGivesUp
  BY <1>8 DEF Push, PushGivesUp
<1>9. CASE ReadFinished \/ ReadFailed \/ ReadFails
  BY <1>9 DEF ReadFinished, ReadFailed, ReadFails
<1>10. CASE ReaderRecords
  BY <1>1, <1>10 DEF ReaderRecords
<1>11. CASE Leave
  BY <1>11 DEF Leave
<1>12. ASSUME NEW t \in Timers, Expires(t) PROVE CausesOK'
  BY <1>12 DEF Expires
<1>13. ASSUME NEW t \in Timers, TimesOut(t) PROVE CausesOK'
  <2>1. timedOut' \subseteq Timers
    BY <1>13 DEF TimesOut
  <2>2. err' \in Errors \cup {None}
    BY <1>13 DEF TimesOut, RecordError, Cause, Errors, Timers
  <2>3. QED
    BY <1>13, <2>1, <2>2 DEF TimesOut
<1>14. ASSUME NEW t \in Timers, TimeoutCancels(t) PROVE CausesOK'
  BY <1>14 DEF TimeoutCancels
<1>15. CASE DecideFirst \/ DecideSentence
  BY <1>15 DEF DecideFirst, DecideSentence
<1>16. CASE Take
  BY <1>16 DEF Take
<1>17. CASE SeesEnd \/ SeesCancel \/ PlayerLeaves
  <2>1. verdict' \in Errors \cup {None, "eof"}
    BY <1>17
       DEF SeesEnd, SeesCancel, PlayerLeaves, Verdict, End, Fault, Cause, Errors, Timers
  <2>2. QED
    BY <1>17, <2>1 DEF SeesEnd, SeesCancel, PlayerLeaves, Verdict
<1>18. CASE TurnEnds \/ CloseStops \/ CloseMarks \/ CloseConn
  BY <1>18 DEF TurnEnds, CloseStops, CloseMarks, CloseConn
<1>19. CASE UNCHANGED vars
  BY <1>19 DEF vars
<1>20. QED
  BY <1>2, <1>3, <1>4, <1>5, <1>6, <1>7, <1>8, <1>9, <1>10, <1>11, <1>12, <1>13, <1>14, <1>15,
     <1>16, <1>17, <1>18, <1>19 DEF Next, Orchestrate, Read, Handle, Handler, Play

LEMMA ChunksStep == ChunksOK /\ [Next]_vars => ChunksOK'
<1> SUFFICES ASSUME ChunksOK, [Next]_vars PROVE ChunksOK'
  OBVIOUS
<1> USE DEF ChunksOK, sound, net
<1>1. CASE Written
  <2>1. sent' = sent \/ sent' = sent + 1
    BY <1>1 DEF Written
  <2>2. QED
    BY <1>1, <2>1 DEF Written
<1>2. CASE ReadAudio
  <2>1. heard' = heard + 1 /\ held' = <<heard'>> /\ UNCHANGED <<sent, pcmCh, played>>
    BY <1>2 DEF ReadAudio
  <2>2. heard' \in Nat
    BY <2>1
  <2>3. held' \in Seq(Nat) /\ Len(held') <= 1
    BY <2>1, <2>2, SmallSeqs
  <2>4. QED
    BY <2>1, <2>2, <2>3
<1>3. CASE Push
  <2>1. pcmCh' = pcmCh \o held /\ held' = <<>> /\ UNCHANGED <<sent, heard, played>> /\ HasRoom
    BY <1>3 DEF Push
  <2>2. pcmCh' \in Seq(Nat) /\ Len(pcmCh') = Len(pcmCh) + Len(held)
    BY <2>1, ConcatProperties
  <2>3. Len(pcmCh') <= Capacity
    BY <2>1, <2>2, LenProperties, TtsAssumption DEF HasRoom
  <2>4. held' \in Seq(Nat) /\ Len(held') <= 1
    BY <2>1, SmallSeqs
  <2>5. QED
    BY <2>1, <2>2, <2>3, <2>4
<1>4. CASE Take
  <2>1. /\ pcmCh # <<>> /\ played' = Append(played, Head(pcmCh)) /\ pcmCh' = Tail(pcmCh)
        /\ UNCHANGED <<sent, heard, held>>
    BY <1>4 DEF Take
  <2>2. Head(pcmCh) \in Nat /\ pcmCh' \in Seq(Nat) /\ Len(pcmCh') = Len(pcmCh) - 1
    BY <2>1, HeadTailProperties
  <2>3. played' \in Seq(Nat)
    BY <2>1, <2>2, AppendProperties
  <2>4. Len(pcmCh') <= Capacity
    BY <2>2, LenProperties, TtsAssumption
  <2>5. QED
    BY <2>1, <2>2, <2>3, <2>4
<1>5. ASSUME UNCHANGED <<sent, heard, pcmCh, played>>, held' = held \/ held' = <<>>
      PROVE  ChunksOK'
  <2>1. held' \in Seq(Nat) /\ Len(held') <= 1
    <3>1. CASE held' = held
      BY <3>1
    <3>2. CASE held' = <<>>
      BY <3>2, SmallSeqs
    <3>3. QED
      BY <1>5, <3>1, <3>2
  <2>2. QED
    BY <1>5, <2>1
<1>6. CASE Call \/ WriteFails \/ ArmFirst \/ Rearm
  BY <1>5, <1>6 DEF Call, WriteFails, ArmFirst, Rearm
<1>7. CASE PushGivesUp \/ ReadFinished \/ ReadFailed \/ ReadFails \/ ReaderRecords \/ Leave
  BY <1>5, <1>7 DEF PushGivesUp, ReadFinished, ReadFailed, ReadFails, ReaderRecords, Leave
<1>8. ASSUME NEW t \in Timers, Expires(t) \/ TimesOut(t) \/ TimeoutCancels(t) PROVE ChunksOK'
  BY <1>5, <1>8 DEF Expires, TimesOut, TimeoutCancels
<1>9. CASE DecideFirst \/ DecideSentence \/ SeesEnd \/ SeesCancel \/ PlayerLeaves
  BY <1>5, <1>9 DEF DecideFirst, DecideSentence, SeesEnd, SeesCancel, PlayerLeaves
<1>10. CASE TurnEnds \/ CloseStops \/ CloseMarks \/ CloseConn \/ UNCHANGED vars
  BY <1>5, <1>10 DEF TurnEnds, CloseStops, CloseMarks, CloseConn, vars
<1>11. QED
  BY <1>1, <1>2, <1>3, <1>4, <1>6, <1>7, <1>8, <1>9, <1>10
     DEF Next, Orchestrate, Read, Handle, Handler, Play

LEMMA TypesStep == TypeOK /\ [Next]_vars => TypeOK'
<1> SUFFICES ASSUME TypeOK, [Next]_vars PROVE TypeOK'
  OBVIOUS
<1>1. FlagsOK' /\ CausesOK' /\ ChunksOK'
  BY TypesSplit, FlagsStep, CausesStep, ChunksStep
<1>2. QED
  BY <1>1 DEF TypeOK, FlagsOK, CausesOK, ChunksOK

------------------------------------------------------------------------------
(* Where the processes are.                                                   *)

LEMMA PlaceInit == Init => PlaceInv
  BY DEF Init, PlaceInv, Procs, Spots

LEMMA PlaceStep == TypeOK /\ PlaceInv /\ [Next]_vars => PlaceInv'
<1> SUFFICES ASSUME TypeOK, PlaceInv, [Next]_vars PROVE PlaceInv'
  OBVIOUS
<1> USE DEF PlaceInv, state, alarms, sound, net, Goto
<1>1. "reader" \in Procs /\ "player" \in Procs /\ Timers \subseteq Procs \ {"reader", "player"}
  BY DEF Procs, Timers
<1>2. ASSUME NEW p \in Procs \ {"reader", "player"}, NEW l \in Spots,
             at' = at \/ at' = [at EXCEPT ![p] = l], UNCHANGED <<chan, verdict, outcome>>
      PROVE  PlaceInv'
  BY <1>1, <1>2
<1>3. CASE Call \/ Written \/ WriteFails \/ ArmFirst \/ Rearm
  <2>1. \E l \in Spots : at' = [at EXCEPT !["orch"] = l]
    BY <1>3 DEF Call, Written, WriteFails, ArmFirst, Rearm, Spots
  <2>2. UNCHANGED <<chan, verdict, outcome>>
    BY <1>3 DEF Call, Written, WriteFails, ArmFirst, Rearm
  <2>3. QED
    BY <1>2, <2>1, <2>2 DEF Procs
<1>4. ASSUME at["reader"] # "done", UNCHANGED <<chan, verdict>>,
             NEW l \in {"read", "push", "leaving", "record"}, at' = [at EXCEPT !["reader"] = l],
             outcome' # "running" => l \notin {"read", "push"}
      PROVE  PlaceInv'
  BY <1>1, <1>4 DEF Spots
<1>5. CASE ReadAudio \/ ReadFinished \/ ReadFailed \/ ReadFails
  BY <1>4, <1>5 DEF ReadAudio, ReadFinished, ReadFailed, ReadFails, Reads
<1>6. CASE Push \/ PushGivesUp \/ ReaderRecords
  BY <1>4, <1>6 DEF Push, PushGivesUp, ReaderRecords
<1>7. CASE Leave
  BY <1>1, <1>7 DEF Leave, Spots
<1>8. ASSUME NEW t \in Timers, Expires(t) \/ TimesOut(t) \/ TimeoutCancels(t) PROVE PlaceInv'
  BY <1>1, <1>2, <1>8 DEF Expires, TimesOut, TimeoutCancels, Spots
<1>9. CASE DecideFirst \/ DecideSentence
  <2>1. \E t \in Timers, l \in Spots : at' = [at EXCEPT ![t] = l]
    BY <1>9 DEF DecideFirst, DecideSentence, Timers, Spots
  <2>2. UNCHANGED <<chan, verdict, outcome>>
    BY <1>9 DEF DecideFirst, DecideSentence
  <2>3. QED
    BY <1>1, <1>2, <2>1, <2>2
<1>10. CASE Take \/ TurnEnds \/ UNCHANGED vars
  BY <1>10 DEF Take, TurnEnds, vars
<1>11. CASE SeesEnd \/ SeesCancel \/ PlayerLeaves
  BY <1>1, <1>11 DEF SeesEnd, SeesCancel, PlayerLeaves, Verdict, Spots
<1>12. CASE CloseStops \/ CloseMarks \/ CloseConn
  BY <1>1, <1>2, <1>12 DEF CloseStops, CloseMarks, CloseConn, Procs, Spots
<1>13. QED
  BY <1>3, <1>5, <1>6, <1>7, <1>8, <1>9, <1>10, <1>11, <1>12
     DEF Next, Orchestrate, Read, Handle, Handler, Play

------------------------------------------------------------------------------
(* The audio and its end.                                                     *)

LEMMA SoundInit == Init => SoundInv
<1> SUFFICES ASSUME Init PROVE SoundInv
  OBVIOUS
<1>1. Len(played) = 0 /\ Len(pcmCh) = 0 /\ Len(held) = 0 /\ heard = 0
  BY DEF Init
<1>2. at["reader"] = "read" /\ verdict # "eof"
  BY TtsAssumption DEF Init, Procs
<1>3. QED
  BY <1>1, <1>2 DEF SoundInv

LEMMA SoundStep == TypeOK /\ PlaceInv /\ SoundInv /\ [Next]_vars => SoundInv'
<1> SUFFICES ASSUME TypeOK, PlaceInv, SoundInv, [Next]_vars PROVE SoundInv'
  OBVIOUS
<1> USE DEF state, alarms, sound, net, Goto
<1>1. /\ heard \in Nat /\ pcmCh \in Seq(Nat) /\ held \in Seq(Nat) /\ played \in Seq(Nat)
      /\ Len(pcmCh) \in Nat /\ Len(held) \in Nat /\ Len(played) \in Nat
      /\ cancelled \in BOOLEAN /\ chan \in BOOLEAN /\ closed \in BOOLEAN
      /\ at \in [Procs -> Spots] /\ "reader" \in Procs /\ "player" \in Procs
      /\ Timers \subseteq Procs \ {"reader", "player"}
  BY LenProperties DEF TypeOK, PlaceInv, Procs, Timers
<1>2. ASSUME UNCHANGED <<played, pcmCh, heard, held, outcome, verdict>>,
             at'["reader"] = at["reader"],
             cancelled = TRUE => cancelled' = TRUE, err # None => err' # None
      PROVE  SoundInv'
  BY <1>2 DEF SoundInv
<1>3. ASSUME NEW late, RecordError(late) PROVE err' # None
  BY <1>3, TtsAssumption DEF RecordError, Cause
<1>4. CASE Call \/ Written \/ ArmFirst \/ Rearm
  <2>1. at'["reader"] = at["reader"]
    BY <1>1, <1>4 DEF Call, Written, ArmFirst, Rearm
  <2>2. QED
    BY <1>2, <1>4, <2>1 DEF Call, Written, ArmFirst, Rearm
<1>5. CASE WriteFails
  <2>1. at'["reader"] = at["reader"] /\ err' # None
    BY <1>1, <1>3, <1>5 DEF WriteFails
  <2>2. QED
    BY <1>2, <1>5, <2>1 DEF WriteFails
<1>6. verdict = "eof" => at["player"] = "done" /\ at["reader"] = "done"
  BY TtsAssumption DEF PlaceInv, SoundInv
<1>7. CASE ReadAudio
  <2>1. /\ at["reader"] = "read" /\ at'["reader"] = "push" /\ heard' = heard + 1
        /\ held' = <<heard'>> /\ UNCHANGED <<played, pcmCh, verdict>>
    BY <1>1, <1>7 DEF ReadAudio, Reads
  <2>2. QED
    BY <1>1, <1>6, <2>1 DEF SoundInv
<1>8. CASE Push
  <2>1. /\ at["reader"] = "push" /\ at'["reader"] = "read" /\ pcmCh' = pcmCh \o held
        /\ held' = <<>> /\ UNCHANGED <<played, heard, verdict>>
    BY <1>1, <1>8 DEF Push
  <2> DEFINE n == Len(pcmCh)
             m == Len(played)
  <2>2. /\ held = <<heard>> /\ Len(held) = 1 /\ held[1] = heard
        /\ m + n + 1 = heard /\ \A i \in 1 .. n : pcmCh[i] = m + i
    BY <2>1 DEF SoundInv
  <2>3. /\ Len(pcmCh') = n + 1 /\ pcmCh'[n + 1] = heard
        /\ \A i \in 1 .. n : pcmCh'[i] = pcmCh[i]
    BY <1>1, <2>1, <2>2, ConcatProperties
  <2>4. \A i \in 1 .. n + 1 : pcmCh'[i] = m + i
    <3>1. n \in Nat /\ m \in Nat
      BY <1>1
    <3> HIDE DEF n, m
    <3>2. QED
      BY <2>2, <2>3, <3>1
  <2>5. Len(held') = 0
    BY <2>1
  <2>6. Len(played') + Len(pcmCh') = heard'
    BY <1>1, <2>1, <2>2, <2>3
  <2>7. /\ \A i \in 1 .. Len(played') : played'[i] = i
        /\ \A i \in 1 .. Len(pcmCh') : pcmCh'[i] = Len(played') + i
    BY <2>1, <2>3, <2>4 DEF SoundInv
  <2>8. verdict' # "eof"
    BY <1>6, <2>1
  <2>9. QED
    BY <2>1, <2>5, <2>6, <2>7, <2>8 DEF SoundInv
<1>9. CASE PushGivesUp
  <2>1. /\ at'["reader"] = "leaving" /\ cancelled' = TRUE /\ at["reader"] = "push"
        /\ UNCHANGED <<played, pcmCh, heard, outcome, verdict>>
    BY <1>1, <1>9 DEF PushGivesUp
  <2>2. QED
    BY <1>6, <2>1 DEF SoundInv
<1>10. CASE ReadFinished
  <2>1. /\ at["reader"] = "read" /\ at'["reader"] = "leaving" /\ outcome' = "finished"
        /\ UNCHANGED <<played, pcmCh, heard, verdict>>
    BY <1>1, <1>10 DEF ReadFinished, Reads
  <2>2. QED
    BY <1>6, <2>1 DEF SoundInv
<1>11. CASE ReadFailed \/ ReadFails
  <2>1. /\ at["reader"] = "read" /\ at'["reader"] = "record"
        /\ UNCHANGED <<played, pcmCh, heard, verdict>>
    BY <1>1, <1>11 DEF ReadFailed, ReadFails, Reads
  <2>2. QED
    BY <1>6, <2>1 DEF SoundInv
<1>12. CASE ReaderRecords
  <2>1. /\ at["reader"] = "record" /\ at'["reader"] = "leaving" /\ err' # None
        /\ UNCHANGED <<played, pcmCh, heard, verdict>>
    BY <1>1, <1>3, <1>12 DEF ReaderRecords
  <2>2. QED
    BY <1>6, <2>1 DEF SoundInv
<1>13. CASE Leave
  <2>1. /\ at["reader"] = "leaving" /\ at'["reader"] = "done"
        /\ UNCHANGED <<played, pcmCh, heard, verdict, outcome, cancelled, err>>
    BY <1>1, <1>13 DEF Leave
  <2>2. QED
    BY <1>6, <2>1 DEF SoundInv
<1>14. ASSUME NEW t \in Timers, Expires(t) \/ TimesOut(t) \/ TimeoutCancels(t) PROVE SoundInv'
  <2>1. at'["reader"] = at["reader"]
    BY <1>1, <1>14 DEF Expires, TimesOut, TimeoutCancels
  <2>2. err # None => err' # None
    BY <1>14 DEF Expires, TimesOut, TimeoutCancels, RecordError
  <2>3. QED
    BY <1>2, <1>14, <2>1, <2>2 DEF Expires, TimesOut, TimeoutCancels
<1>15. CASE DecideFirst \/ DecideSentence
  <2>1. at'["reader"] = at["reader"]
    BY <1>1, <1>15 DEF DecideFirst, DecideSentence
  <2>2. QED
    BY <1>2, <1>15, <2>1 DEF DecideFirst, DecideSentence
<1>16. CASE Take
  <2>1. /\ pcmCh # <<>> /\ played' = Append(played, Head(pcmCh)) /\ pcmCh' = Tail(pcmCh)
        /\ UNCHANGED <<heard, held, outcome, verdict, cancelled, err, at>> /\ at["player"] = "idle"
    BY <1>16 DEF Take
  <2> DEFINE n == Len(pcmCh)
             m == Len(played)
  <2>2. /\ n >= 1 /\ Head(pcmCh) = pcmCh[1] /\ Len(pcmCh') = n - 1 /\ Head(pcmCh) \in Nat
        /\ \A i \in 1 .. n - 1 : pcmCh'[i] = pcmCh[i + 1]
    BY <1>1, <2>1, HeadTailProperties, EmptySeq, LenProperties
  <2>3. /\ Len(played') = m + 1 /\ played'[m + 1] = Head(pcmCh)
        /\ \A i \in 1 .. m : played'[i] = played[i]
    BY <1>1, <2>1, <2>2, AppendProperties
  <2>4. /\ \A i \in 1 .. m : played[i] = i
        /\ \A i \in 1 .. n : pcmCh[i] = m + i
    BY DEF SoundInv
  <2>5. /\ \A i \in 1 .. m + 1 : played'[i] = i
        /\ \A i \in 1 .. n - 1 : pcmCh'[i] = (m + 1) + i
        /\ (m + 1) + (n - 1) = m + n
    <3>1. n \in Nat /\ m \in Nat
      BY <1>1
    <3> HIDE DEF n, m
    <3>2. QED
      BY <2>2, <2>3, <2>4, <3>1
  <2>6. Len(played') + Len(pcmCh') = Len(played) + Len(pcmCh)
    BY <2>2, <2>3, <2>5
  <2>7. verdict # "eof"
    BY <1>6, <2>1
  <2>8. /\ \A i \in 1 .. Len(played') : played'[i] = i
        /\ \A i \in 1 .. Len(pcmCh') : pcmCh'[i] = Len(played') + i
    BY <2>2, <2>3, <2>5
  <2>9. QED
    BY <2>1, <2>6, <2>7, <2>8 DEF SoundInv
<1>17. ASSUME UNCHANGED <<played, pcmCh, heard, held, outcome, cancelled, err>>,
              at' = [at EXCEPT !["player"] = "done"],
              verdict' = "eof" => /\ at["reader"] = "done" /\ outcome = "finished"
                                  /\ Len(played) = heard /\ Len(pcmCh) = 0
       PROVE  SoundInv'
  BY <1>1, <1>17 DEF SoundInv
<1>18. \A late, e : Cause(late, e) = None => e = None
  BY TtsAssumption DEF Cause
<1>19. \A late, e : e # "eof" => Cause(late, e) # "eof"
  BY DEF Cause
<1>20. Fault # "eof"
  BY <1>19, TtsAssumption DEF Fault, TypeOK, Errors, Timers
<1>21. CASE SeesEnd
  <2>1. /\ chan = FALSE /\ Len(pcmCh) = 0 /\ verdict' = End
        /\ at' = [at EXCEPT !["player"] = "done"]
        /\ UNCHANGED <<played, pcmCh, heard, held, outcome, cancelled, err>>
    BY <1>1, <1>21 DEF SeesEnd, Verdict
  <2>2. End = "eof" => cancelled = FALSE /\ err = None
    BY <1>1, <1>18, <1>20, TtsAssumption DEF End, Fault
  <2>3. at["reader"] = "done"
    BY <2>1 DEF PlaceInv
  <2>4. End = "eof" => outcome = "finished" /\ Len(played) = heard
    BY <1>1, <2>1, <2>2, <2>3 DEF SoundInv
  <2>5. QED
    BY <1>17, <2>1, <2>3, <2>4
<1>22. CASE SeesCancel \/ PlayerLeaves
  <2>1. verdict' # "eof" /\ at' = [at EXCEPT !["player"] = "done"]
    BY <1>20, <1>22 DEF SeesCancel, PlayerLeaves, Verdict
  <2>2. QED
    BY <1>17, <1>22, <2>1 DEF SeesCancel, PlayerLeaves
<1>23. CASE TurnEnds \/ UNCHANGED vars
  BY <1>2, <1>23 DEF TurnEnds, vars
<1>24. CASE CloseStops \/ CloseMarks \/ CloseConn
  <2>1. at'["reader"] = at["reader"]
    BY <1>1, <1>24 DEF CloseStops, CloseMarks, CloseConn
  <2>2. QED
    BY <1>2, <1>24, <2>1 DEF CloseStops, CloseMarks, CloseConn, CloseCancels
<1>25. QED
  BY <1>4, <1>5, <1>7, <1>8, <1>9, <1>10, <1>11, <1>12, <1>13, <1>14, <1>15, <1>16, <1>21, <1>22,
     <1>23, <1>24 DEF Next, Orchestrate, Read, Handle, Handler, Play

------------------------------------------------------------------------------
(* The theorems.                                                              *)

TtsInv == TypeOK /\ PlaceInv /\ SoundInv

LEMMA TtsInvariant == Spec => []TtsInv
<1>1. Init => TtsInv
  BY TypesInit, PlaceInit, SoundInit DEF TtsInv
<1>2. TtsInv /\ [Next]_vars => TtsInv'
  BY TypesStep, PlaceStep, SoundStep DEF TtsInv
<1>3. QED
  BY <1>1, <1>2, PTL DEF Spec

(* Types; pcmCh never holds more than its capacity (TypeOK; tts.go).          *)
THEOREM TtsTypes == Spec => []TypeOK
<1>1. TtsInv => TypeOK
  BY DEF TtsInv
<1>2. QED
  BY TtsInvariant, <1>1, PTL

(* The audio is heard in order without a gap, and its end is reported only    *)
(* when the service finished the task and all of it was heard (EOFIsComplete; *)
(* tts.go readLoop and NextPCM).                                              *)
THEOREM EndOfAudioIsTrue == Spec => []EOFIsComplete
<1>1. ASSUME TtsInv PROVE EOFIsComplete
  <2>1. DOMAIN played = 1 .. Len(played)
    BY <1>1, LenProperties DEF TtsInv, TypeOK
  <2>2. QED
    BY <1>1, <2>1 DEF TtsInv, SoundInv, EOFIsComplete, InOrder
<1>2. QED
  BY TtsInvariant, <1>1, PTL
==============================================================================
