--------------------------- MODULE RegistryProofs ---------------------------
(***************************************************************************)
(* Proofs about Registry, for any finite set of connections, any devices   *)
(* and any limit.  The slots and the wait group are counted first; what    *)
(* the maps say of the sessions is proved on top of that.                  *)
(***************************************************************************)
EXTENDS Registry, FiniteSetTheorems, TLAPS

(* The types, without the bound on the slots in use.                         *)
Types ==
  /\ closed \in BOOLEAN /\ sessions \subseteq Conns
  /\ byDevice \in [Devices -> Conns \cup {NoConn}]
  /\ wg \in Nat /\ active \in Nat
  /\ pc \in [Conns -> PCs]
  /\ evicts \in [Conns -> Conns \cup {NoConn}]
  /\ sess \in [Conns -> {"none", "open", "closing", "closed"}]
  /\ shut \in {"no", "waiting", "nil", "deadline"} /\ doomed \subseteq Conns

Counted == Types /\ active <= MaxSessions /\ Accounting

(* A step of connection c to l changes the number of connections at ls by at *)
(* most one.                                                                 *)
LEMMA CountMoves ==
  ASSUME Types, NEW c \in Conns, NEW l, Goto(c, l), NEW ls
  PROVE  /\ Cardinality(At(ls)) \in Nat
         /\ (l \in ls <=> pc[c] \in ls) => Cardinality(At(ls))' = Cardinality(At(ls))
         /\ l \in ls /\ pc[c] \notin ls => Cardinality(At(ls))' = Cardinality(At(ls)) + 1
         /\ l \notin ls /\ pc[c] \in ls => Cardinality(At(ls))' = Cardinality(At(ls)) - 1
<1>1. At(ls) \subseteq Conns
  BY DEF At
<1>2. IsFiniteSet(At(ls)) /\ Cardinality(At(ls)) \in Nat
  BY <1>1, RegistryAssumption, FS_Subset, FS_CardinalityType DEF RegistryAssumption
<1>3. pc'[c] = l /\ \A d \in Conns : d # c => pc'[d] = pc[d]
  BY DEF Goto, Types
<1>4. At(ls)' = IF l \in ls THEN At(ls) \cup {c} ELSE At(ls) \ {c}
  BY <1>3 DEF At
<1>5. c \in At(ls) <=> pc[c] \in ls
  BY DEF At
<1>6. l \in ls => Cardinality(At(ls))' = IF pc[c] \in ls THEN Cardinality(At(ls))
                                         ELSE Cardinality(At(ls)) + 1
  BY <1>2, <1>4, <1>5, FS_AddElement
<1>7. l \notin ls => Cardinality(At(ls))' = IF pc[c] \in ls THEN Cardinality(At(ls)) - 1
                                            ELSE Cardinality(At(ls))
  BY <1>2, <1>4, <1>5, FS_RemoveElement
<1> QED
  BY <1>2, <1>6, <1>7

(* A connection that holds a slot or a count is one of at least one.         *)
LEMMA CountsOne ==
  ASSUME Types, NEW c \in Conns, NEW ls, pc[c] \in ls
  PROVE  Cardinality(At(ls)) \in Nat \ {0}
<1>1. At(ls) \subseteq Conns /\ c \in At(ls)
  BY DEF At
<1> QED
  BY <1>1, RegistryAssumption, FS_Subset, FS_CardinalityType, FS_EmptySet DEF RegistryAssumption

LEMMA CountedInit == Init => Counted
<1> SUFFICES ASSUME Init PROVE Counted
  OBVIOUS
<1>1. Types
  BY DEF Init, Types, PCs
<1>2. Holders = {} /\ Enrolled = {}
  BY DEF Init, Holders, Enrolled, At
<1>3. Cardinality({}) = 0
  BY FS_EmptySet
<1> QED
  BY <1>1, <1>2, <1>3, RegistryAssumption DEF Init, Counted, Accounting, RegistryAssumption

(* Every step keeps the types and moves slots, counts and connections        *)
(* together.                                                                 *)
LEMMA CountedStep == Counted /\ [Next]_vars => Counted'
<1> SUFFICES ASSUME Counted, [Next]_vars PROVE Counted'
  OBVIOUS
<1> USE DEF Counted
<1>a. MaxSessions \in Nat \ {0}
  BY RegistryAssumption DEF RegistryAssumption
<1>1. ASSUME NEW c \in Conns, Admit(c) PROVE Counted'
  <2>1. PICK l \in {"gone", "admitted"} : Goto(c, l)
    BY <1>1 DEF Admit
  <2>2. Accounting'
    BY <1>1, <2>1, CountMoves DEF Admit, Accounting, Holders, Enrolled
  <2> QED
    BY <1>1, <2>2 DEF Admit, Types, Goto, PCs
<1>2. ASSUME NEW c \in Conns, TryAcquire(c) PROVE Counted'
  <2>1. CASE HasRoom
    <3>1. Goto(c, "accepting") /\ active' = active + 1
      BY <1>2, <2>1 DEF TryAcquire
    <3>2. Accounting'
      BY <1>2, <3>1, CountMoves DEF TryAcquire, Accounting, Holders, Enrolled, Types
    <3> QED
      BY <1>2, <1>a, <2>1, <3>1, <3>2 DEF TryAcquire, HasRoom, Types, Goto, PCs
  <2>2. CASE ~HasRoom
    <3>1. Goto(c, "gone") /\ active' = active
      BY <1>2, <2>2 DEF TryAcquire
    <3>2. Accounting'
      BY <1>2, <3>1, CountMoves DEF TryAcquire, Accounting, Holders, Enrolled, Types
    <3> QED
      BY <1>2, <3>1, <3>2 DEF TryAcquire, Types, Goto, PCs
  <2> QED
    BY <2>1, <2>2
<1>3. ASSUME NEW c \in Conns, Accept(c) PROVE Counted'
  <2>1. CASE Goto(c, "accepted") /\ sess' = [sess EXCEPT ![c] = "open"] /\ active' = active
    <3>1. Accounting'
      BY <1>3, <2>1, CountMoves DEF Accept, Accounting, Holders, Enrolled, Types
    <3> QED
      BY <1>3, <2>1, <3>1 DEF Accept, Types, Goto, PCs
  <2>2. CASE Goto(c, "gone") /\ active' = active - 1 /\ sess' = sess
    <3>1. Accounting'
      BY <1>3, <2>2, CountMoves DEF Accept, Accounting, Holders, Enrolled, Types
    <3>2. active > 0
      BY <1>3, CountsOne DEF Accept, Accounting, Holders
    <3> QED
      BY <1>3, <1>a, <2>2, <3>1, <3>2 DEF Accept, Types, Goto, PCs
  <2> QED
    BY <1>3, <2>1, <2>2 DEF Accept
<1>4. ASSUME NEW c \in Conns, Register(c) PROVE Counted'
  <2>1. PICK l \in {"running", "evicting"} : Goto(c, l)
    BY <1>4 DEF Register
  <2>2. Accounting'
    BY <1>4, <2>1, CountMoves DEF Register, Accounting, Holders, Enrolled, Types
  <2>3. Replaced(c) \in Conns \cup {NoConn}
    BY RegistryAssumption DEF Replaced, Types, RegistryAssumption
  <2> QED
    BY <1>4, <2>1, <2>2, <2>3 DEF Register, Types, Goto, PCs
<1>5. ASSUME NEW c \in Conns, RegisterRefused(c) PROVE Counted'
  <2>1. Goto(c, "gone")
    BY <1>5 DEF RegisterRefused
  <2>2. Accounting'
    BY <1>5, <2>1, CountMoves DEF RegisterRefused, Accounting, Holders, Enrolled, Types
  <2>3. active > 0
    BY <1>5, CountsOne DEF RegisterRefused, Accounting, Holders
  <2> QED
    BY <1>5, <1>a, <2>2, <2>3 DEF RegisterRefused, Types, Goto, PCs
<1>6. ASSUME NEW c \in Conns, EvictOld(c) \/ SessionEnds(c) \/ SessionClosed(c) \/ ShutdownCloses(c)
      PROVE  Counted'
  BY <1>6 DEF EvictOld, SessionEnds, SessionClosed, ShutdownCloses, Types, Accounting,
              Holders, Enrolled, At
<1>7. ASSUME NEW c \in Conns, OldClosed(c) PROVE Counted'
  <2>1. Goto(c, "running")
    BY <1>7 DEF OldClosed
  <2>2. Accounting'
    BY <1>7, <2>1, CountMoves DEF OldClosed, Accounting, Holders, Enrolled, Types
  <2> QED
    BY <1>7, <2>2 DEF OldClosed, Types, Goto, PCs
<1>8. ASSUME NEW c \in Conns, RunReturns(c) PROVE Counted'
  <2>1. Goto(c, "unregister")
    BY <1>8 DEF RunReturns
  <2>2. Accounting'
    BY <1>8, <2>1, CountMoves DEF RunReturns, Accounting, Holders, Enrolled, Types
  <2> QED
    BY <1>8, <2>2 DEF RunReturns, Types, Goto, PCs
<1>9. ASSUME NEW c \in Conns, Unregister(c) PROVE Counted'
  <2>1. Goto(c, "release")
    BY <1>9 DEF Unregister
  <2>2. Accounting'
    BY <1>9, <2>1, CountMoves DEF Unregister, Accounting, Holders, Enrolled, Types
  <2> QED
    BY <1>9, <2>2 DEF Unregister, Types, Goto, PCs
<1>10. ASSUME NEW c \in Conns, Release(c) PROVE Counted'
  <2>1. Goto(c, "finish")
    BY <1>10 DEF Release
  <2>2. Accounting'
    BY <1>10, <2>1, CountMoves DEF Release, FreeSlot, Accounting, Holders, Enrolled, Types
  <2>3. active > 0
    BY <1>10, CountsOne DEF Release, Accounting, Holders
  <2> QED
    BY <1>10, <1>a, <2>2, <2>3 DEF Release, FreeSlot, Types, Goto, PCs
<1>11. ASSUME NEW c \in Conns, WgDone(c) PROVE Counted'
  <2>1. Goto(c, "gone")
    BY <1>11 DEF WgDone
  <2>2. Accounting'
    BY <1>11, <2>1, CountMoves DEF WgDone, Accounting, Holders, Enrolled, Types
  <2>3. wg > 0
    BY <1>11, CountsOne DEF WgDone, Accounting, Enrolled
  <2> QED
    BY <1>11, <2>2, <2>3 DEF WgDone, Types, Goto, PCs
<1>12. CASE ShutdownBegins \/ ShutdownReturns \/ ShutdownTimesOut
  BY <1>12 DEF ShutdownBegins, ShutdownReturns, ShutdownTimesOut, Broadcast, Types,
               Accounting, Holders, Enrolled, At
<1>13. CASE UNCHANGED vars
  BY <1>13 DEF vars, Types, Accounting, Holders, Enrolled, At
<1> QED
  BY <1>1, <1>2, <1>3, <1>4, <1>5, <1>6, <1>7, <1>8, <1>9, <1>10, <1>11, <1>12, <1>13
     DEF Next, Serve
------------------------------------------------------------------------------
(* What the maps say of the sessions.                                         *)

(* A registered session's goroutine is between Register and cleanup.          *)
Tracked == \A c \in sessions : pc[c] \in {"evicting", "running", "unregister"}

(* A goroutine that evicts knows whom.                                        *)
HasVictim == \A c \in Conns : pc[c] = "evicting" => evicts[c] \in Conns

(* Shutdown closed the registry before it waited, and found everyone gone.    *)
ShutIsClosed == shut # "no" => closed
NilMeansNone == shut = "nil" => Enrolled = {}

(* Beyond Run a goroutine's session is closed, and before cleanup it is in    *)
(* the set that Shutdown takes its snapshot of.                               *)
RunEndsClosed == \A c \in At({"unregister", "release", "finish"}) : sess[c] = "closed"
RunsTracked == At({"evicting", "running"}) \subseteq sessions

Told == RunEndsClosed /\ RunsTracked /\ ShutdownForgetsNobody

Owned == Tracked /\ HasVictim /\ ReplacedIsClosed /\ DeviceEntryIsRegistered
Drained == ShutIsClosed /\ NilMeansNone

LEMMA OwnedInit == Init => Owned /\ Drained
  BY DEF Init, Owned, Drained, Tracked, HasVictim, ReplacedIsClosed, DeviceEntryIsRegistered,
         ShutIsClosed, NilMeansNone

(* Registering c: the session it replaces becomes its victim.                 *)
LEMMA OwnedRegister ==
  ASSUME Types, Owned, NEW c \in Conns, Register(c)
  PROVE  Owned'
<1>1. /\ pc[c] = "accepted" /\ c \notin sessions
      /\ sessions' = sessions \cup {c} /\ sess' = sess
  BY DEF Register, Owned, Tracked
<1>2. \A d \in Conns : d # c => pc'[d] = pc[d] /\ evicts'[d] = evicts[d]
  BY DEF Register, Goto, Types
<1>3. /\ pc'[c] \in {"evicting", "running"} /\ evicts'[c] = Replaced(c)
      /\ Replaced(c) # NoConn => pc'[c] = "evicting"
      /\ pc'[c] = "evicting" => Replaced(c) # NoConn
  BY DEF Register, Goto, Types
<1>4. Replaced(c) \in Conns \cup {NoConn}
  BY RegistryAssumption DEF Replaced, Types, RegistryAssumption
<1>5. \A d \in Devices : byDevice'[d] = IF d = KeyOf[c] THEN c ELSE byDevice[d]
  BY DEF Register
<1>6. Tracked'
  BY <1>1, <1>2, <1>3 DEF Owned, Tracked, Types
<1>7. HasVictim'
  BY <1>2, <1>3, <1>4 DEF Owned, HasVictim
<1>8. ReplacedIsClosed'
  <2> SUFFICES ASSUME NEW e \in sessions', KeyOf[e] # NoKey, byDevice'[KeyOf[e]] # e
               PROVE  \/ sess'[e] \in {"closing", "closed"}
                      \/ \E d \in Conns : pc'[d] = "evicting" /\ evicts'[d] = e
    BY DEF ReplacedIsClosed
  <2>1. e \in sessions /\ e # c /\ e \in Conns /\ KeyOf[e] \in Devices
    BY <1>1, <1>5, RegistryAssumption DEF Types, RegistryAssumption
  <2>2. CASE byDevice[KeyOf[e]] = e
    <3>1. KeyOf[e] = KeyOf[c]
      BY <1>5, <2>1, <2>2
    <3>2. Replaced(c) = e
      BY <2>2, <3>1 DEF Replaced
    <3> QED
      BY <1>3, <2>1, <3>2, RegistryAssumption DEF RegistryAssumption
  <2>3. CASE byDevice[KeyOf[e]] # e
    BY <1>1, <1>2, <2>1, <2>3 DEF Owned, ReplacedIsClosed
  <2> QED
    BY <2>2, <2>3
<1>9. DeviceEntryIsRegistered'
  BY <1>1, <1>5 DEF Owned, DeviceEntryIsRegistered
<1> QED
  BY <1>6, <1>7, <1>8, <1>9 DEF Owned

(* Unregistering c: only c's own entry is removed, and no other device's      *)
(* entry leads to c.                                                          *)
LEMMA OwnedUnregister ==
  ASSUME Types, Owned, NEW c \in Conns, Unregister(c)
  PROVE  Owned'
<1>1. /\ pc[c] = "unregister" /\ sessions' = sessions \ {c}
      /\ evicts' = evicts /\ sess' = sess
  BY DEF Unregister
<1>2. \A d \in Conns : d # c => pc'[d] = pc[d]
  BY DEF Unregister, Goto, Types
<1>3. pc'[c] = "release"
  BY DEF Unregister, Goto, Types
<1>4. \A d \in Devices :
        byDevice'[d] = IF d = KeyOf[c] /\ byDevice[d] = c THEN NoConn ELSE byDevice[d]
  BY RegistryAssumption DEF Unregister, IsCurrent, Types, RegistryAssumption
<1>5. Tracked'
  BY <1>1, <1>2 DEF Owned, Tracked, Types
<1>6. HasVictim'
  BY <1>1, <1>2, <1>3 DEF Owned, HasVictim
<1>7. ReplacedIsClosed'
  <2> SUFFICES ASSUME NEW e \in sessions', KeyOf[e] # NoKey, byDevice'[KeyOf[e]] # e
               PROVE  \/ sess'[e] \in {"closing", "closed"}
                      \/ \E d \in Conns : pc'[d] = "evicting" /\ evicts'[d] = e
    BY DEF ReplacedIsClosed
  <2>1. e \in sessions /\ e # c /\ KeyOf[e] \in Devices
    BY <1>1, RegistryAssumption DEF Types, RegistryAssumption
  <2>2. byDevice[KeyOf[e]] # e
    BY <1>4, <2>1
  <2>3. \/ sess[e] \in {"closing", "closed"}
        \/ \E d \in Conns : pc[d] = "evicting" /\ evicts[d] = e
    BY <2>1, <2>2 DEF Owned, ReplacedIsClosed
  <2> QED
    BY <1>1, <1>2, <2>3
<1>8. DeviceEntryIsRegistered'
  BY <1>1, <1>4 DEF Owned, DeviceEntryIsRegistered
<1> QED
  BY <1>5, <1>6, <1>7, <1>8 DEF Owned

(* The step of a connection that neither registers nor unregisters: c stays   *)
(* in its stage, or leaves one in which it was not registered, or goes on to  *)
(* the next of the registered ones; no Close is undone.                       *)
LEMMA OwnedKept ==
  ASSUME Types, Owned, sessions' = sessions, byDevice' = byDevice,
         \A e \in sessions : /\ pc'[e] \in {"evicting", "running", "unregister"}
                             /\ sess[e] \in {"closing", "closed"} =>
                                  sess'[e] \in {"closing", "closed"},
         \A d \in Conns : \/ pc'[d] = "evicting" /\ pc[d] = "evicting" /\ evicts'[d] = evicts[d]
                          \/ pc'[d] # "evicting" /\ pc[d] # "evicting"
                          \/ pc'[d] # "evicting" /\ sess'[evicts[d]] = "closed"
  PROVE  Owned'
<1>1. Tracked' /\ HasVictim' /\ DeviceEntryIsRegistered'
  BY DEF Owned, Tracked, HasVictim, DeviceEntryIsRegistered
<1>2. ReplacedIsClosed'
  <2> SUFFICES ASSUME NEW e \in sessions, KeyOf[e] # NoKey, byDevice[KeyOf[e]] # e
               PROVE  \/ sess'[e] \in {"closing", "closed"}
                      \/ \E d \in Conns : pc'[d] = "evicting" /\ evicts'[d] = e
    BY DEF ReplacedIsClosed
  <2> QED
    BY DEF Owned, ReplacedIsClosed
<1> QED
  BY <1>1, <1>2 DEF Owned

LEMMA OwnedStep == Counted /\ Owned /\ [Next]_vars => Owned'
<1> SUFFICES ASSUME Counted, Owned, [Next]_vars PROVE Owned'
  OBVIOUS
<1>a. Types
  BY DEF Counted
<1>b. NoConn \notin Conns /\ sessions \subseteq Conns
  BY <1>a, RegistryAssumption DEF Types, RegistryAssumption
<1>1. ASSUME NEW c \in Conns,
             Admit(c) \/ TryAcquire(c) \/ Accept(c) \/ RegisterRefused(c)
      PROVE  Owned'
  <2>1. pc[c] \in {"new", "admitted", "accepting", "accepted"} /\ c \notin sessions
    BY <1>1 DEF Admit, TryAcquire, Accept, RegisterRefused, Owned, Tracked
  <2>2. \A d \in Conns : pc'[d] = pc[d] \/ (d = c /\ pc'[d] # "evicting")
    BY <1>1, <1>a DEF Admit, TryAcquire, Accept, RegisterRefused, Goto, Types
  <2>3. \A d \in Conns : d # c => sess'[d] = sess[d]
    BY <1>1, <1>a DEF Admit, TryAcquire, Accept, RegisterRefused, Types
  <2>4. evicts' = evicts /\ sessions' = sessions /\ byDevice' = byDevice
    BY <1>1 DEF Admit, TryAcquire, Accept, RegisterRefused
  <2>5. \A e \in sessions : e # c /\ pc'[e] = pc[e] /\ sess'[e] = sess[e]
    BY <1>b, <2>1, <2>2, <2>3
  <2> QED
    BY <1>a, <2>1, <2>2, <2>4, <2>5, OwnedKept DEF Owned, Tracked
<1>2. ASSUME NEW c \in Conns, Register(c) PROVE Owned'
  BY <1>a, <1>2, OwnedRegister
<1>3. ASSUME NEW c \in Conns, Unregister(c) PROVE Owned'
  BY <1>a, <1>3, OwnedUnregister
<1>4. ASSUME NEW c \in Conns,
             EvictOld(c) \/ SessionEnds(c) \/ SessionClosed(c) \/ ShutdownCloses(c)
      PROVE  Owned'
  <2>1. /\ pc' = pc /\ evicts' = evicts /\ sessions' = sessions /\ byDevice' = byDevice
    BY <1>4 DEF EvictOld, SessionEnds, SessionClosed, ShutdownCloses
  <2>2. \A e \in Conns : sess[e] \in {"closing", "closed"} => sess'[e] \in {"closing", "closed"}
    BY <1>4, <1>a DEF EvictOld, OldIsOpen, SessionEnds, SessionClosed, ShutdownCloses, Types
  <2> QED
    BY <1>a, <1>b, <2>1, <2>2, OwnedKept DEF Owned, Tracked
<1>5. ASSUME NEW c \in Conns, OldClosed(c) PROVE Owned'
  <2>1. pc[c] = "evicting" /\ sess' = sess /\ sess[evicts[c]] = "closed"
    BY <1>5 DEF OldClosed
  <2>2. pc'[c] = "running" /\ \A d \in Conns : d # c => pc'[d] = pc[d] /\ evicts'[d] = evicts[d]
    BY <1>5, <1>a DEF OldClosed, Goto, Types
  <2>3. sessions' = sessions /\ byDevice' = byDevice
    BY <1>5 DEF OldClosed
  <2> QED
    BY <1>a, <1>b, <2>1, <2>2, <2>3, OwnedKept DEF Owned, Tracked
<1>6. ASSUME NEW c \in Conns, RunReturns(c) \/ Release(c) \/ WgDone(c) PROVE Owned'
  <2>1. /\ sess' = sess /\ evicts' = evicts /\ sessions' = sessions /\ byDevice' = byDevice
    BY <1>6 DEF RunReturns, Release, WgDone
  <2>2. /\ \A d \in Conns : d # c => pc'[d] = pc[d]
        /\ pc[c] # "evicting" /\ pc'[c] # "evicting"
        /\ c \in sessions => pc'[c] = "unregister"
    BY <1>6, <1>a DEF RunReturns, Release, WgDone, Goto, Types, Owned, Tracked
  <2> QED
    BY <1>a, <1>b, <2>1, <2>2, OwnedKept DEF Owned, Tracked
<1>7. CASE \/ ShutdownBegins \/ ShutdownReturns \/ ShutdownTimesOut
           \/ UNCHANGED vars
  BY <1>7 DEF ShutdownBegins, ShutdownReturns, ShutdownTimesOut, vars, Owned, Tracked,
              HasVictim, ReplacedIsClosed, DeviceEntryIsRegistered
<1> QED
  BY <1>1, <1>2, <1>3, <1>4, <1>5, <1>6, <1>7 DEF Next, Serve

(* Once the wait group was seen at zero nobody enrols again: only Register    *)
(* enrols, and it refuses in a closed registry.                               *)
LEMMA DrainedStep == Counted /\ Drained /\ [Next]_vars => Drained'
<1> SUFFICES ASSUME Counted, Drained, [Next]_vars PROVE Drained'
  OBVIOUS
<1>a. Types /\ wg = Cardinality(Enrolled) /\ IsFiniteSet(Enrolled)
  <2>1. Enrolled \subseteq Conns
    BY DEF Enrolled, At
  <2> QED
    BY <2>1, RegistryAssumption, FS_Subset DEF RegistryAssumption, Counted, Accounting
<1>1. ASSUME NEW c \in Conns, Serve(c), ~Register(c) PROVE Drained'
  <2>1. closed' = closed /\ shut' = shut
    BY <1>1 DEF Serve, Admit, TryAcquire, Accept, RegisterRefused, EvictOld, OldClosed,
                RunReturns, Unregister, Release, WgDone
  <2>2. \A d \in Conns : d # c => pc'[d] = pc[d]
    BY <1>1, <1>a DEF Serve, Admit, TryAcquire, Accept, RegisterRefused, EvictOld, OldClosed,
                RunReturns, Unregister, Release, WgDone, Goto, Types
  <2>3. c \notin Enrolled => c \notin Enrolled'
    BY <1>1, <1>a DEF Serve, Admit, TryAcquire, Accept, RegisterRefused, EvictOld, OldClosed,
                RunReturns, Unregister, Release, WgDone, Goto, Types, Enrolled, At
  <2> QED
    BY <2>1, <2>2, <2>3 DEF Drained, ShutIsClosed, NilMeansNone, Enrolled, At
<1>2. ASSUME NEW c \in Conns, Register(c) PROVE Drained'
  BY <1>2 DEF Register, Refused, Drained, ShutIsClosed, NilMeansNone
<1>3. ASSUME NEW c \in Conns, SessionEnds(c) \/ SessionClosed(c) \/ ShutdownCloses(c)
      PROVE  Drained'
  BY <1>3 DEF SessionEnds, SessionClosed, ShutdownCloses, Drained, ShutIsClosed, NilMeansNone,
              Enrolled, At
<1>4. CASE ShutdownReturns
  BY <1>4, <1>a, FS_EmptySet DEF ShutdownReturns, WaitGroupIsDown, Drained, ShutIsClosed,
              NilMeansNone, Enrolled, At
<1>5. CASE ShutdownBegins \/ ShutdownTimesOut \/ UNCHANGED vars
  BY <1>5 DEF ShutdownBegins, ShutdownTimesOut, vars, Drained, ShutIsClosed, NilMeansNone,
              Enrolled, At
<1> QED
  BY <1>1, <1>2, <1>3, <1>4, <1>5 DEF Next

(* Of a closed registry nobody is forgotten: a session that is open and       *)
(* enrolled when Shutdown begins is still in Run or before it, hence in the   *)
(* snapshot; later nobody enrols, and a session leaves the list of the doomed *)
(* only when its Close is called.                                             *)
LEMMA ToldInit == Init => Told
  BY DEF Init, Told, RunEndsClosed, RunsTracked, ShutdownForgetsNobody, Enrolled, At

LEMMA ToldStep == Types /\ Told /\ [Next]_vars => Told'
<1> SUFFICES ASSUME Types, Told, [Next]_vars PROVE Told'
  OBVIOUS
<1> USE DEF Told, RunEndsClosed, RunsTracked, ShutdownForgetsNobody, Enrolled, At
<1>1. ASSUME NEW c \in Conns,
             Admit(c) \/ TryAcquire(c) \/ Accept(c) \/ RegisterRefused(c)
      PROVE  Told'
  <2>1. /\ pc[c] \in {"new", "admitted", "accepting", "accepted"}
        /\ pc'[c] \in {"admitted", "accepting", "accepted", "gone"}
        /\ \A d \in Conns : d # c => pc'[d] = pc[d] /\ sess'[d] = sess[d]
    BY <1>1 DEF Admit, TryAcquire, Accept, RegisterRefused, Goto, Types
  <2>2. closed' = closed /\ sessions' = sessions /\ doomed' = doomed
    BY <1>1 DEF Admit, TryAcquire, Accept, RegisterRefused
  <2> QED
    BY <2>1, <2>2
<1>2. ASSUME NEW c \in Conns, Register(c) PROVE Told'
  BY <1>2 DEF Register, Refused, Goto, Types
<1>3. ASSUME NEW c \in Conns,
             EvictOld(c) \/ SessionEnds(c) \/ SessionClosed(c) \/ ShutdownCloses(c)
      PROVE  Told'
  <2>1. /\ pc' = pc /\ closed' = closed /\ sessions' = sessions
        /\ \A d \in Conns : /\ sess'[d] = "open" => sess[d] = "open"
                            /\ sess[d] = "closed" => sess'[d] = "closed"
                            /\ d \in doomed /\ sess'[d] = "open" => d \in doomed'
    BY <1>3 DEF EvictOld, OldIsOpen, SessionEnds, SessionClosed, ShutdownCloses, Types
  <2> QED
    BY <2>1
<1>4. ASSUME NEW c \in Conns, OldClosed(c) \/ RunReturns(c) \/ Release(c) \/ WgDone(c)
      PROVE  Told'
  <2>1. /\ sess' = sess /\ closed' = closed /\ sessions' = sessions /\ doomed' = doomed
        /\ \A d \in Conns : d # c => pc'[d] = pc[d]
    BY <1>4 DEF OldClosed, RunReturns, Release, WgDone, Goto, Types
  <2>2. \/ pc[c] = "evicting" /\ pc'[c] = "running"
        \/ pc[c] = "running" /\ pc'[c] = "unregister" /\ sess[c] = "closed"
        \/ pc[c] \in {"release", "finish"} /\ pc'[c] \in {"finish", "gone"}
    BY <1>4 DEF OldClosed, RunReturns, Release, WgDone, Goto, Types
  <2> QED
    BY <2>1, <2>2
<1>5. ASSUME NEW c \in Conns, Unregister(c) PROVE Told'
  BY <1>5 DEF Unregister, Goto, Types
<1>6. CASE ShutdownBegins
  BY <1>6 DEF ShutdownBegins, Broadcast
<1>7. CASE ShutdownReturns \/ ShutdownTimesOut \/ UNCHANGED vars
  BY <1>7 DEF ShutdownReturns, ShutdownTimesOut, vars
<1> QED
  BY <1>1, <1>2, <1>3, <1>4, <1>5, <1>6, <1>7 DEF Next, Serve

------------------------------------------------------------------------------
(* The theorems.                                                              *)

IInv == Counted /\ Owned /\ Drained /\ Told

LEMMA Invariance == Spec => []IInv
<1>1. Init => IInv
  BY CountedInit, OwnedInit, ToldInit DEF IInv
<1>2. IInv /\ [Next]_vars => IInv'
  BY CountedStep, OwnedStep, DrainedStep, ToldStep DEF IInv, Counted
<1> QED
  BY <1>1, <1>2, PTL DEF Spec

(* The limiter's counter stays within 0 .. MaxSessions and every variable has *)
(* its type, however many requests race through ServeHTTP.                    *)
THEOREM RegistryTypes == Spec => []TypeOK
<1>1. IInv => TypeOK
  BY RegistryAssumption DEF IInv, Counted, Types, TypeOK, RegistryAssumption
<1> QED
  BY <1>1, Invariance, PTL

(* Slots and wait group count exactly the connections that hold them: no path *)
(* through ServeHTTP leaks either.                                            *)
THEOREM NothingLeaks == Spec => []Accounting
<1>1. IInv => Accounting
  BY DEF IInv, Counted
<1> QED
  BY <1>1, Invariance, PTL

(* The two indexes agree: byDevice leads only to registered sessions of that  *)
(* device, and a registered session it no longer leads to is closed, being    *)
(* closed, or about to be closed by the Register that replaced it.            *)
THEOREM IndexStaysSound == Spec => []IndexIsSound
<1>1. IInv => IndexIsSound
  BY DEF IInv, Owned, IndexIsSound
<1> QED
  BY <1>1, Invariance, PTL

(* When Shutdown has returned nil every ServeHTTP that registered a session   *)
(* has cleaned up, and none registers later.                                  *)
THEOREM ShutdownDrainedAll == Spec => []ShutdownIsComplete
<1>1. IInv => ShutdownIsComplete
  <2> SUFFICES ASSUME IInv, shut = "nil" PROVE Enrolled = {} /\ sessions = {}
    BY DEF ShutdownIsComplete
  <2>1. Enrolled = {}
    BY DEF IInv, Drained, NilMeansNone
  <2>2. sessions \subseteq Enrolled
    BY DEF IInv, Counted, Types, Owned, Tracked, Enrolled, At
  <2> QED
    BY <2>1, <2>2
<1> QED
  BY <1>1, Invariance, PTL

(* Every session enrolled in a closed registry is closed, being closed, or on *)
(* the list of those that Shutdown closes, for any number of connections,     *)
(* with and without device keys.                                              *)
THEOREM NobodyIsForgotten == Spec => []ShutdownForgetsNobody
<1>1. IInv => ShutdownForgetsNobody
  BY DEF IInv, Told
<1> QED
  BY <1>1, Invariance, PTL
==============================================================================
