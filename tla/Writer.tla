-------------------------------- MODULE Writer --------------------------------
(***************************************************************************)
(* The serial writer of a session, src/internal/session/writer.go, with    *)
(* the goroutines that use it: senders (pacer, orchestrator, supervisor),  *)
(* the supervisor's DrainPending on an abort, and the two goroutines of    *)
(* closeWithReason, one in Close, the other falling back to Stop after     *)
(* 300 ms.  A step is one operation on the channel, on the context or on   *)
(* the lock.  A message is its number in the order of acceptance.          *)
(***************************************************************************)
EXTENDS Naturals, Sequences

CONSTANTS
  Senders,       (* goroutines that call SendText, SendBinary                 *)
  Capacity,      (* of the queue                                              *)
  MaxMsgs        (* bound: nobody sends once so many messages were accepted   *)

ASSUME WriterAssumption == Capacity \in Nat \ {0} /\ MaxMsgs \in Nat

VARIABLES
  cancelled,     (* w.ctx is done                                             *)
  closed,        (* w.closed                                                  *)
  chan,          (* the channel is open                                       *)
  queue,         (* what the channel holds                                    *)
  once,          (* closeOnce: "new", "done", or the process that runs it     *)
  readers,       (* senders that hold the read lock                           *)
  pc,            (* where the senders are                                     *)
  at,            (* where the other processes are: see Procs                  *)
  inflight,      (* the message inside conn.Write                             *)
  failed,        (* w.lastErr is set                                          *)
  wire,          (* what conn.Write has written                               *)
  issued,        (* number of messages accepted                               *)
  panicked,      (* a send on a closed channel, or a second close             *)
  cut            (* a drain, a stop, a failure or a cancellation has begun    *)

flow == <<queue, inflight, wire, issued>>
gate == <<closed, chan, once, readers, panicked>>
vars == <<cancelled, closed, chan, queue, once, readers, pc, at, inflight,
          failed, wire, issued, panicked, cut>>

Procs == {"loop", "close", "stop", "drain"}

Init ==
  /\ cancelled = FALSE /\ closed = FALSE /\ chan = TRUE /\ once = "new"
  /\ queue = <<>> /\ inflight = <<>> /\ wire = <<>> /\ issued = 0
  /\ readers = {} /\ pc = [s \in Senders |-> "idle"]
  /\ at = [p \in Procs |-> IF p = "loop" THEN "select" ELSE "idle"]
  /\ failed = FALSE /\ panicked = FALSE /\ cut = FALSE

Go(p, l) == at' = [at EXCEPT ![p] = l]
Move(s, l) == pc' = [pc EXCEPT ![s] = l]

------------------------------------------------------------------------------
(* enqueue.                                                                   *)

(* The first select, before the message is copied: a cancelled writer or      *)
(* caller is refused here, or only later.                                     *)
Enter(s) ==
  /\ pc[s] = "idle" /\ ~cancelled /\ issued < MaxMsgs
  /\ Move(s, "copied")
  /\ UNCHANGED <<cancelled, at, failed, cut>> /\ UNCHANGED flow /\ UNCHANGED gate

(* The lock is not given to new readers while the close waits for it.         *)
CloseWaits == once \in Procs

AsIfOpen == FALSE                 (* mutant of SeesClosed: closed not checked  *)
SeesClosed == closed

RLock(s) ==
  /\ pc[s] = "copied" /\ ~CloseWaits
  /\ IF SeesClosed
     THEN Move(s, "idle") /\ UNCHANGED readers
     ELSE Move(s, "locked") /\ readers' = readers \cup {s}
  /\ UNCHANGED <<cancelled, at, failed, cut, closed, chan, once, panicked>> /\ UNCHANGED flow

RUnlock(s) == Move(s, "idle") /\ readers' = readers \ {s}

AnyRoom == TRUE                   (* mutant of HasRoom: the buffer is endless  *)
HasRoom == Len(queue) < Capacity

(* The second select takes the message if there is room; ...                  *)
Push(s) ==
  /\ pc[s] = "locked" /\ RUnlock(s)
  /\ IF chan
     THEN /\ HasRoom /\ UNCHANGED panicked
          /\ issued' = issued + 1 /\ queue' = Append(queue, issued')
     ELSE panicked' = TRUE /\ UNCHANGED <<issued, queue>>
  /\ UNCHANGED <<cancelled, at, failed, cut, closed, chan, once, inflight, wire>>

(* ... it may find the writer cancelled, or the caller's own context (which   *)
(* may end at any time); and it refuses instead of waiting.                   *)
Refuse(s) ==
  /\ pc[s] = "locked" /\ RUnlock(s)
  /\ UNCHANGED <<cancelled, at, failed, cut, closed, chan, once, panicked>> /\ UNCHANGED flow

------------------------------------------------------------------------------
(* closeOnce.Do, wherever it is called.                                       *)

DoOnce(p) ==
  /\ at[p] = "once" /\ once = "new" /\ once' = p
  /\ UNCHANGED <<cancelled, closed, chan, readers, pc, at, failed, panicked, cut>> /\ UNCHANGED flow

(* Mutant of NoReaders: the channel is closed without the lock.               *)
Unlocked == TRUE
NoReaders == readers = {}

(* Under the lock.                                                            *)
CloseChannel(p) ==
  /\ at[p] = "once" /\ once = p /\ NoReaders
  /\ closed' = TRUE /\ chan' = FALSE /\ once' = "done"
  /\ panicked' = (panicked \/ ~chan)
  /\ UNCHANGED <<cancelled, readers, pc, at, failed, cut>> /\ UNCHANGED flow

(* Mutant of After: the loop does not drain.                                  *)
AfterUndrained(p) == CASE p = "loop" -> "done" [] p = "close" -> "wait" [] OTHER -> "drain"
After(p) == IF p = "close" THEN "wait" ELSE "drain"

(* Everybody returns from Do when the first call is done.                     *)
OnceDone(p) ==
  /\ at[p] = "once" /\ once = "done" /\ Go(p, After(p))
  /\ UNCHANGED <<cancelled, pc, failed, cut>> /\ UNCHANGED flow /\ UNCHANGED gate

(* drainQueue and DrainPending: receive until nothing is there.               *)
DrainOne(p) ==
  /\ at[p] = "drain" /\ queue # <<>> /\ queue' = Tail(queue)
  /\ UNCHANGED <<cancelled, pc, at, inflight, failed, wire, issued, cut>> /\ UNCHANGED gate

(* Where each goes then; the channel of a loop that is done is w.done.        *)
Drained(p) == CASE p = "loop" -> "done" [] p = "stop" -> "wait" [] OTHER -> "idle"

DrainEnds(p) ==
  /\ at[p] = "drain" /\ queue = <<>> /\ Go(p, Drained(p))
  /\ UNCHANGED <<cancelled, pc, failed, cut>> /\ UNCHANGED flow /\ UNCHANGED gate

------------------------------------------------------------------------------
(* writeLoop.                                                                 *)

LoopReceives ==
  /\ at["loop"] = "select" /\ queue # <<>>
  /\ inflight' = <<Head(queue)>> /\ queue' = Tail(queue)
  /\ Go("loop", "writing")
  /\ UNCHANGED <<cancelled, pc, failed, wire, issued, cut>> /\ UNCHANGED gate

LeavesOnClose == ~chan            (* mutant of ChannelEnds: without draining   *)
ChannelEnds == ~chan /\ queue = <<>>

LoopSeesEnd ==
  /\ at["loop"] = "select" /\ (ChannelEnds \/ cancelled)
  /\ Go("loop", "leaving")
  /\ UNCHANGED <<cancelled, pc, failed, cut>> /\ UNCHANGED flow /\ UNCHANGED gate

WriteOk ==
  /\ at["loop"] = "writing" /\ wire' = wire \o inflight /\ inflight' = <<>>
  /\ Go("loop", "select")
  /\ UNCHANGED <<cancelled, pc, queue, failed, issued, cut>> /\ UNCHANGED gate

(* conn.Write fails, or its context is cancelled: setErr.                     *)
WriteFails ==
  /\ at["loop"] = "writing" /\ inflight' = <<>>
  /\ failed' = TRUE /\ cut' = TRUE
  /\ Go("loop", "leaving")
  /\ UNCHANGED <<cancelled, pc, queue, wire, issued>> /\ UNCHANGED gate

(* The deferred part: cancel, then closeOnce, then drainQueue.                *)
LoopLeaves ==
  /\ at["loop"] = "leaving" /\ cancelled' = TRUE
  /\ Go("loop", "once")
  /\ UNCHANGED <<pc, failed, cut>> /\ UNCHANGED flow /\ UNCHANGED gate

------------------------------------------------------------------------------
(* closeWithReason starts Close in a goroutine; ...                           *)
CloseBegins ==
  /\ at["close"] = "idle" /\ Go("close", "once")
  /\ UNCHANGED <<cancelled, pc, failed, cut>> /\ UNCHANGED flow /\ UNCHANGED gate

(* ... Close waits for w.done; ...                                            *)
CloseReturns ==
  /\ at["close"] = "wait" /\ at["loop"] = "done" /\ Go("close", "returned")
  /\ UNCHANGED <<cancelled, pc, failed, cut>> /\ UNCHANGED flow /\ UNCHANGED gate

NotCancelled == cancelled         (* mutant of StopCancels: cancel is missing  *)
StopCancels == TRUE

(* ... after 300 ms the session calls Stop, which cancels first ...           *)
StopBegins ==
  /\ at["stop"] = "idle" /\ at["close"] \in {"once", "wait"}
  /\ cancelled' = StopCancels /\ cut' = TRUE
  /\ Go("stop", "once")
  /\ UNCHANGED <<pc, failed>> /\ UNCHANGED flow /\ UNCHANGED gate

(* ... and then waits for Close.                                              *)
ClosingEnds ==
  /\ at["stop"] \in {"idle", "wait"} /\ at["close"] = "returned"
  /\ Go("stop", "returned")
  /\ UNCHANGED <<cancelled, pc, failed, cut>> /\ UNCHANGED flow /\ UNCHANGED gate

(* DrainPending, on an abort.                                                 *)
DrainBegins ==
  /\ at["drain"] = "idle" /\ Go("drain", "drain") /\ cut' = TRUE
  /\ UNCHANGED <<cancelled, pc, failed>> /\ UNCHANGED flow /\ UNCHANGED gate

(* The parent of the writer's context ends.                                   *)
ParentEnds ==
  /\ ~cancelled /\ cancelled' = TRUE /\ cut' = TRUE
  /\ UNCHANGED <<pc, at, failed>> /\ UNCHANGED flow /\ UNCHANGED gate

Sender(s) == Enter(s) \/ RLock(s) \/ Push(s) \/ Refuse(s)
Once(p)   == DoOnce(p) \/ CloseChannel(p) \/ OnceDone(p)
Drain(p)  == DrainOne(p) \/ DrainEnds(p)
Leave     == LoopSeesEnd \/ LoopLeaves

Next ==
  \/ \E s \in Senders : Sender(s)
  \/ \E p \in Procs : Once(p) \/ Drain(p)
  \/ LoopReceives \/ Leave \/ WriteOk \/ WriteFails
  \/ CloseBegins \/ CloseReturns \/ StopBegins \/ ClosingEnds
  \/ DrainBegins \/ ParentEnds

Spec == Init /\ [][Next]_vars

(* Goroutines run, and the 300 ms pass.  A write has no deadline: it need not *)
(* end as long as nobody cancels it.                                          *)
Fairness ==
  /\ \A s \in Senders : WF_vars(pc[s] # "idle" /\ Sender(s))
  /\ \A p \in Procs : WF_vars(Once(p)) /\ WF_vars(Drain(p))
  /\ WF_vars(LoopReceives) /\ WF_vars(Leave) /\ WF_vars(cancelled /\ (WriteOk \/ WriteFails))
  /\ WF_vars(CloseReturns) /\ WF_vars(StopBegins) /\ WF_vars(ClosingEnds)

FairSpec == Spec /\ Fairness

------------------------------------------------------------------------------
(* Properties.                                                                *)

(* Types; the queue never holds more than its capacity.                       *)
TypeOK ==
  /\ cancelled \in BOOLEAN /\ closed \in BOOLEAN /\ chan \in BOOLEAN
  /\ once \in {"new", "done"} \cup Procs
  /\ readers \subseteq Senders
  /\ pc \in [Senders -> {"idle", "copied", "locked"}]
  /\ at \in [Procs -> {"idle", "select", "writing", "leaving", "once", "drain",
                       "wait", "returned", "done"}]
  /\ queue \in Seq(Nat) /\ Len(queue) <= Capacity
  /\ inflight \in Seq(Nat) /\ Len(inflight) <= 1
  /\ wire \in Seq(Nat) /\ issued \in Nat
  /\ failed \in BOOLEAN /\ panicked \in BOOLEAN /\ cut \in BOOLEAN

(* No sender ever sends on the closed channel, and the channel is closed once *)
(* although Close, Stop and the write loop all close it, each while the others *)
(* and any number of enqueues are under way.                                  *)
NeverPanics == ~panicked

(* Once the write loop is done (and Close has returned), the channel is       *)
(* closed and empty: no enqueue that was under way has put a message behind   *)
(* the last drain and reported success for it.                                *)
NothingStranded == at["loop"] = "done" => ~chan /\ queue = <<>>

(* A Close that nothing cuts short is graceful: when the loop is done every   *)
(* message accepted has been written.                                         *)
CloseIsGraceful == (at["loop"] = "done" /\ ~cut) => Len(wire) = issued

(* What a close must get right, all at once.                                  *)
ClosesCleanly == NeverPanics /\ NothingStranded /\ CloseIsGraceful

(* The writer is an outbox: in order, once, bounded, and closed for good.     *)
Promise == INSTANCE Outbox WITH
  open <- chan, pending <- inflight \o queue, sent <- wire

Outbox == Promise!Spec

(* closeWithReason gets through the writer even if conn.Write never returns   *)
(* by itself: Close waits, and Stop cancels what it waits for.                *)
ClosingReturns == (at["close"] # "idle") ~> (at["stop"] = "returned")
==============================================================================
