------------------------------ MODULE Registry ------------------------------
(***************************************************************************)
(* Admission, registration, eviction and shutdown of sessions:             *)
(* src/internal/session/{limiter,registry,handler}.go.  Every WebSocket    *)
(* request runs ServeHTTP in a goroutine of its own; each step below is    *)
(* one critical section of that goroutine, or one call that may block.     *)
(* A session is reduced to the progress of its Close.                      *)
(***************************************************************************)
EXTENDS Naturals, FiniteSets

CONSTANTS
  Conns,         (* the connections, each with its session                    *)
  Devices,       (* device keys                                               *)
  NoKey,         (* the empty device key: nothing identifies the device       *)
  NoConn,        (* the nil session                                           *)
  KeyOf,         (* DeviceKey of each session                                 *)
  MaxSessions    (* cfg.Server.MaxConcurrentSessions                          *)

ASSUME RegistryAssumption ==
  /\ IsFiniteSet(Conns)
  /\ NoConn \notin Conns /\ NoKey \notin Devices
  /\ KeyOf \in [Conns -> Devices \cup {NoKey}]
  /\ MaxSessions \in Nat \ {0}

VARIABLES
  closed,        (* Registry.closed                                           *)
  sessions,      (* Registry.sessions                                         *)
  byDevice,      (* Registry.byDevice                                         *)
  wg,            (* counter of Registry.wg                                    *)
  active,        (* SessionLimiter.active                                     *)
  pc,            (* where the connection's ServeHTTP goroutine is             *)
  evicts,        (* the old session Register has to close                     *)
  sess,          (* progress of the session's Close                           *)
  shut,          (* progress of Shutdown                                      *)
  doomed         (* sessions whose Close Shutdown's goroutines still have to call *)

vars == <<closed, sessions, byDevice, wg, active, pc, evicts, sess, shut, doomed>>

Init ==
  /\ closed = FALSE /\ sessions = {} /\ byDevice = [d \in Devices |-> NoConn]
  /\ wg = 0 /\ active = 0
  /\ pc = [c \in Conns |-> "new"]
  /\ evicts = [c \in Conns |-> NoConn]
  /\ sess = [c \in Conns |-> "none"]
  /\ shut = "no" /\ doomed = {}

Goto(c, l) == pc' = [pc EXCEPT ![c] = l]

------------------------------------------------------------------------------
(* ServeHTTP.                                                                 *)

(* Registry.Acquire, the critical section.                                    *)
Admit(c) ==
  /\ pc[c] = "new"
  /\ Goto(c, IF closed THEN "gone" ELSE "admitted")
  /\ UNCHANGED <<closed, sessions, byDevice, wg, active, evicts, sess, shut, doomed>>

(* Mutant of HasRoom: off by one.                                             *)
HasRoomForOneMore == active <= MaxSessions
HasRoom == active < MaxSessions

(* SessionLimiter.TryAcquire: a full limiter refuses the upgrade with 503.    *)
TryAcquire(c) ==
  /\ pc[c] = "admitted"
  /\ IF HasRoom
     THEN active' = active + 1 /\ Goto(c, "accepting")
     ELSE active' = active /\ Goto(c, "gone")
  /\ UNCHANGED <<closed, sessions, byDevice, wg, evicts, sess, shut, doomed>>

(* The upgrade succeeds and NewSession is called, or it fails and the slot is *)
(* given back.                                                                *)
Accept(c) ==
  /\ pc[c] = "accepting"
  /\ \/ /\ Goto(c, "accepted") /\ sess' = [sess EXCEPT ![c] = "open"]
        /\ UNCHANGED active
     \/ Goto(c, "gone") /\ active' = active - 1 /\ UNCHANGED sess
  /\ UNCHANGED <<closed, sessions, byDevice, wg, evicts, shut, doomed>>

NoOne(c) == NoConn                (* mutant of Replaced: nobody is evicted     *)

(* The session that c replaces.                                               *)
Replaced(c) == IF KeyOf[c] = NoKey THEN NoConn ELSE byDevice[KeyOf[c]]

NeverRefused == FALSE             (* mutant of Refused: not checked again      *)
Refused == closed

(* Register, the critical section: c becomes its device's session and learns  *)
(* which one it has to evict.                                                 *)
Register(c) ==
  /\ pc[c] = "accepted" /\ ~Refused
  /\ evicts' = [evicts EXCEPT ![c] = Replaced(c)]
  /\ byDevice' = [d \in Devices |-> IF d = KeyOf[c] THEN c ELSE byDevice[d]]
  /\ sessions' = sessions \cup {c}
  /\ wg' = wg + 1
  /\ Goto(c, IF Replaced(c) = NoConn THEN "running" ELSE "evicting")
  /\ UNCHANGED <<closed, active, sess, shut, doomed>>

(* A closed registry refuses: the slot is given back and the session closed.  *)
RegisterRefused(c) ==
  /\ pc[c] = "accepted" /\ Refused
  /\ active' = active - 1
  /\ sess' = [sess EXCEPT ![c] = "closed"]
  /\ Goto(c, "gone")
  /\ UNCHANGED <<closed, sessions, byDevice, wg, evicts, shut, doomed>>

NeverOpen(c) == FALSE             (* mutant of OldIsOpen: Close is not called  *)
OldIsOpen(c) == sess[evicts[c]] = "open"

(* oldSession.Close(), outside the lock: started here unless it is under way  *)
(* already, ...                                                               *)
EvictOld(c) ==
  /\ pc[c] = "evicting" /\ OldIsOpen(c)
  /\ sess' = [sess EXCEPT ![evicts[c]] = "closing"]
  /\ UNCHANGED <<closed, sessions, byDevice, wg, active, pc, evicts, shut, doomed>>

(* ... and waited for.  Only then does Run start.                             *)
OldClosed(c) ==
  /\ pc[c] = "evicting" /\ sess[evicts[c]] = "closed"
  /\ evicts' = [evicts EXCEPT ![c] = NoConn]
  /\ Goto(c, "running")
  /\ UNCHANGED <<closed, sessions, byDevice, wg, active, sess, shut, doomed>>

(* The session ends by itself: the device left, a timeout, an error.          *)
SessionEnds(c) ==
  /\ pc[c] = "running" /\ sess[c] = "open"
  /\ sess' = [sess EXCEPT ![c] = "closing"]
  /\ UNCHANGED <<closed, sessions, byDevice, wg, active, pc, evicts, shut, doomed>>

(* closeWithReason is done, whoever called it.                                *)
SessionClosed(c) ==
  /\ sess[c] = "closing"
  /\ sess' = [sess EXCEPT ![c] = "closed"]
  /\ UNCHANGED <<closed, sessions, byDevice, wg, active, pc, evicts, shut, doomed>>

RunReturns(c) ==
  /\ pc[c] = "running" /\ sess[c] = "closed"
  /\ Goto(c, "unregister")
  /\ UNCHANGED <<closed, sessions, byDevice, wg, active, evicts, sess, shut, doomed>>

NoSession(c) == FALSE             (* mutant of IsCurrent: the entry stays      *)
IsCurrent(c) == byDevice[KeyOf[c]] = c

(* cleanup: the maps first, ...                                               *)
Unregister(c) ==
  /\ pc[c] = "unregister"
  /\ sessions' = sessions \ {c}
  /\ byDevice' = IF KeyOf[c] # NoKey /\ IsCurrent(c)
                 THEN [byDevice EXCEPT ![KeyOf[c]] = NoConn] ELSE byDevice
  /\ Goto(c, "release")
  /\ UNCHANGED <<closed, wg, active, evicts, sess, shut, doomed>>

KeepSlot == active                (* mutant of FreeSlot: release not called    *)
FreeSlot == active - 1

(* ... then the slot, ...                                                     *)
Release(c) ==
  /\ pc[c] = "release"
  /\ active' = FreeSlot
  /\ Goto(c, "finish")
  /\ UNCHANGED <<closed, sessions, byDevice, wg, evicts, sess, shut, doomed>>

(* ... and the wait group last.                                               *)
WgDone(c) ==
  /\ pc[c] = "finish"
  /\ wg' = wg - 1
  /\ Goto(c, "gone")
  /\ UNCHANGED <<closed, sessions, byDevice, active, evicts, sess, shut, doomed>>

------------------------------------------------------------------------------
(* Registry.Shutdown.                                                         *)

NoBroadcast == {}                 (* mutant of Broadcast: nobody is told       *)
(* Mutant of Broadcast: the snapshot is taken from the other index.           *)
BroadcastToDevices == {byDevice[d] : d \in Devices} \ {NoConn}
Broadcast == sessions

(* closed is set under the lock, with a snapshot of the sessions; ...         *)
ShutdownBegins ==
  /\ shut = "no" /\ shut' = "waiting"
  /\ closed' = TRUE
  /\ doomed' = Broadcast
  /\ UNCHANGED <<sessions, byDevice, wg, active, pc, evicts, sess>>

(* ... each is closed by a goroutine of its own.                              *)
ShutdownCloses(c) ==
  /\ c \in doomed /\ doomed' = doomed \ {c}
  /\ sess' = [sess EXCEPT ![c] = IF @ = "open" THEN "closing" ELSE @]
  /\ UNCHANGED <<closed, sessions, byDevice, wg, active, pc, evicts, shut>>

(* wait: nil once the wait group is down, or the error of the deadline.       *)
WaitGroupIsDown == wg = 0

ShutdownReturns ==
  /\ shut = "waiting" /\ WaitGroupIsDown
  /\ shut' = "nil"
  /\ UNCHANGED <<closed, sessions, byDevice, wg, active, pc, evicts, sess, doomed>>

ShutdownTimesOut ==
  /\ shut = "waiting" /\ shut' = "deadline"
  /\ UNCHANGED <<closed, sessions, byDevice, wg, active, pc, evicts, sess, doomed>>

Serve(c) ==
  \/ Admit(c) \/ TryAcquire(c) \/ Accept(c) \/ Register(c) \/ RegisterRefused(c)
  \/ EvictOld(c) \/ OldClosed(c) \/ RunReturns(c)
  \/ Unregister(c) \/ Release(c) \/ WgDone(c)

Next ==
  \/ \E c \in Conns : Serve(c) \/ SessionEnds(c) \/ SessionClosed(c) \/ ShutdownCloses(c)
  \/ ShutdownBegins \/ ShutdownReturns \/ ShutdownTimesOut

Spec == Init /\ [][Next]_vars

(* Goroutines run and a Close ends: the writer is given 300 ms and the close  *)
(* handshake is bounded.  Devices need not disconnect, no request need come,  *)
(* and the deadline of Shutdown may be far away.                              *)
Fairness ==
  /\ \A c \in Conns : /\ WF_vars(pc[c] # "new" /\ Serve(c))
                      /\ WF_vars(SessionClosed(c)) /\ WF_vars(ShutdownCloses(c))
  /\ WF_vars(ShutdownReturns)

FairSpec == Spec /\ Fairness

------------------------------------------------------------------------------
(* Properties.                                                                *)

PCs == {"new", "admitted", "accepting", "accepted", "evicting", "running",
        "unregister", "release", "finish", "gone"}

(* Types.  The limiter's counter never leaves its range.                      *)
TypeOK ==
  /\ closed \in BOOLEAN /\ sessions \subseteq Conns
  /\ byDevice \in [Devices -> Conns \cup {NoConn}]
  /\ wg \in Nat /\ active \in 0 .. MaxSessions
  /\ pc \in [Conns -> PCs]
  /\ evicts \in [Conns -> Conns \cup {NoConn}]
  /\ sess \in [Conns -> {"none", "open", "closing", "closed"}]
  /\ shut \in {"no", "waiting", "nil", "deadline"} /\ doomed \subseteq Conns

At(ls) == {c \in Conns : pc[c] \in ls}

Holders  == At({"accepting", "accepted", "evicting", "running", "unregister", "release"})
Enrolled == At({"evicting", "running", "unregister", "release", "finish"})

(* Every slot and every count of the wait group belongs to exactly one        *)
(* connection, on every path through ServeHTTP: failed upgrades, refused      *)
(* registrations, evictions and shutdowns leak neither.                       *)
Accounting == active = Cardinality(Holders) /\ wg = Cardinality(Enrolled)

(* A registered session that is no longer its device's session is closed, is  *)
(* being closed, or there is a goroutine inside Register that will close it:  *)
(* a replaced session is never forgotten, not even when replacements of one   *)
(* device overlap or the replaced session unregisters late.                   *)
ReplacedIsClosed ==
  \A c \in sessions :
    (KeyOf[c] # NoKey /\ byDevice[KeyOf[c]] # c) =>
      \/ sess[c] \in {"closing", "closed"}
      \/ \E d \in Conns : pc[d] = "evicting" /\ evicts[d] = c

(* byDevice never leads to a session that has been unregistered.              *)
DeviceEntryIsRegistered ==
  \A d \in Devices : byDevice[d] # NoConn =>
    byDevice[d] \in sessions /\ KeyOf[byDevice[d]] = d

(* The two indexes agree wherever a session may still be looked for.          *)
IndexIsSound == ReplacedIsClosed /\ DeviceEntryIsRegistered

(* Shutdown returns nil only after every registered session has returned from *)
(* ServeHTTP's cleanup, and none is registered later: wg.Add cannot follow    *)
(* wg.Wait although a request may be between Acquire and Register.            *)
ShutdownIsComplete == shut = "nil" => Enrolled = {} /\ sessions = {}

(* Once the registry is closed every session enrolled in it is closed, is     *)
(* being closed, or is one of those Shutdown's goroutines still have to       *)
(* close: the snapshot taken under the lock misses none, neither one without  *)
(* a device key, nor one that is replaced and not yet evicted, nor one whose  *)
(* Register was under way.                                                    *)
ShutdownForgetsNobody == closed => \A c \in Enrolled : sess[c] = "open" => c \in doomed

(* Every Register returns: a chain of evictions of one device cannot block    *)
(* itself.                                                                    *)
EvictionEnds == \A c \in Conns : pc[c] = "evicting" ~> pc[c] # "evicting"

(* Shutdown drains the registry if its deadline allows.                       *)
ShutdownDrains == closed ~> (Enrolled = {})

==============================================================================
