---------------------------------- MODULE Mcp ---------------------------------
(***************************************************************************)
(* Tool calls to the device, src/internal/session/mcp.go, and the tool     *)
(* round of an answer (orchestration.go).  Callers of sendMCPRequest are   *)
(* the discovery goroutine and the orchestrators of turns; the supervisor  *)
(* hands each response to the channel of its request.  The device answers  *)
(* late, twice, never, or with an error.                                   *)
(***************************************************************************)
EXTENDS Naturals, Sequences

CONSTANTS
  Turns,         (* orchestrators whose model asks for tool calls              *)
  Discovery,     (* the goroutine of discoverMCPTools                          *)
  Calls,         (* tool calls of one turn                                     *)
  MaxPages,      (* DefaultMCPMaxListPages                                     *)
  MaxAnswers,    (* bound: answers the device gives in all                     *)
  None           (* no response                                                *)

ASSUME McpAssumption ==
  /\ Discovery \notin Turns
  /\ Calls \in Nat \ {0} /\ MaxPages \in Nat \ {0} /\ MaxAnswers \in Nat

Callers == Turns \cup {Discovery}

Pages == 0 .. MaxPages            (* page 0 stands for initialize              *)

(* A page of the tool list ends with a cursor or without; an answer that is   *)
(* no result of its method is garbage, which callMCPTool takes for text.      *)
Kinds(c) == IF c = Discovery THEN {"more", "last", "error", "garbage"} ELSE {"text", "error"}

VARIABLES
  mcpSeq,        (* the last id                                               *)
  pendingMCP,    (* ids with a channel in the map                             *)
  respCh,        (* what the channels hold                                    *)
  queue,         (* the requests in the writer's queue                        *)
  asked,         (* the requests the device has                               *)
  inbound,       (* responses among the session's events                      *)
  answers,       (* how many there were                                       *)
  sup,           (* the response being delivered by the supervisor            *)
  mcpTools,      (* tools offered to the model: a tool is its page            *)
  pc, req,       (* where each caller is, and the id of its request           *)
  reply,         (* the response a caller has received                        *)
  page, found,   (* of discoverMCPTools: the page asked for, allTools         *)
  made, results, (* of a turn: tool calls taken up, those with a tool message *)
  over,          (* turns whose context is cancelled                          *)
  closed         (* s.ctx is cancelled                                        *)

calling == <<pc, req, reply>>
device  == <<asked, inbound, answers>>
finding == <<mcpTools, page, found>>
turning == <<made, results>>
ending  == <<over, closed>>
vars == <<mcpSeq, pendingMCP, respCh, queue, asked, inbound, answers, sup, mcpTools,
          pc, req, reply, page, found, made, results, over, closed>>

Init ==
  /\ mcpSeq = 0 /\ pendingMCP = {} /\ respCh = {}
  /\ queue = <<>> /\ asked = {} /\ inbound = <<>> /\ answers = 0 /\ sup = None
  /\ mcpTools = {} /\ page = 0 /\ found = {}
  /\ pc = [c \in Callers |-> "idle"] /\ req = [c \in Callers |-> 0]
  /\ reply = [c \in Callers |-> None]
  /\ made = [t \in Turns |-> 0] /\ results = [t \in Turns |-> <<>>]
  /\ over = {} /\ closed = FALSE

Goto(c, l) == pc' = [pc EXCEPT ![c] = l]

------------------------------------------------------------------------------
(* sendMCPRequest.                                                            *)

SameId == IF mcpSeq = 0 THEN 1 ELSE mcpSeq    (* mutant of NewId              *)
NewId == mcpSeq + 1

(* The id is taken and the channel registered.                                *)
Register(c) ==
  /\ pc[c] = "start" /\ Goto(c, "registered")
  /\ mcpSeq' = NewId /\ req' = [req EXCEPT ![c] = mcpSeq']
  /\ pendingMCP' = pendingMCP \cup {mcpSeq'}
  /\ UNCHANGED <<respCh, queue, sup, reply>>
  /\ UNCHANGED <<device, finding, turning, ending>>

(* What a request is about: its caller, and the page or the call.             *)
About(c) == <<c, IF c = Discovery THEN page ELSE made[c]>>

(* The writer takes the request, ...                                          *)
Submit(c) ==
  /\ pc[c] = "registered" /\ Goto(c, "waiting")
  /\ queue' = Append(queue, [id |-> req[c], about |-> About(c)])
  /\ UNCHANGED <<mcpSeq, pendingMCP, respCh, sup, req, reply>>
  /\ UNCHANGED <<device, finding, turning, ending>>

KeepEntry(c) == pendingMCP        (* mutant of Forget: no deferred delete      *)
Forget(c) == pendingMCP \ {req[c]}

Fail(c) == Goto(c, "failed") /\ pendingMCP' = Forget(c) /\ UNCHANGED reply

(* ... or refuses it: full or closed.                                         *)
SubmitFails(c) ==
  /\ pc[c] = "registered" /\ Fail(c)
  /\ UNCHANGED <<mcpSeq, respCh, queue, sup, req>>
  /\ UNCHANGED <<device, finding, turning, ending>>

(* The channel of an id, with room for one.                                   *)
In(i) == {r \in respCh : r.id = i}

(* The response comes: a JSON-RPC error is an error of the request.           *)
Receive(c) ==
  /\ pc[c] = "waiting"
  /\ \E r \in In(req[c]) :
       /\ respCh' = respCh \ {r}
       /\ IF r.kind = "error" THEN Goto(c, "failed") /\ UNCHANGED reply
          ELSE Goto(c, "answered") /\ reply' = [reply EXCEPT ![c] = r]
  /\ pendingMCP' = Forget(c)
  /\ UNCHANGED <<mcpSeq, queue, sup, req>>
  /\ UNCHANGED <<device, finding, turning, ending>>

(* The ten seconds pass.                                                      *)
Timeout(c) ==
  /\ pc[c] = "waiting" /\ Fail(c)
  /\ UNCHANGED <<mcpSeq, respCh, queue, sup, req>>
  /\ UNCHANGED <<device, finding, turning, ending>>

OnlyTurn(c) == c \in over         (* mutant of Cancelled: s.ctx is not waited for *)
Cancelled(c) == c \in over \/ closed

Abandon(c) ==
  /\ pc[c] = "waiting" /\ Cancelled(c) /\ Fail(c)
  /\ UNCHANGED <<mcpSeq, respCh, queue, sup, req>>
  /\ UNCHANGED <<device, finding, turning, ending>>

------------------------------------------------------------------------------
(* discoverMCPTools: initialize is page 0.                                    *)

DiscoverBegins ==
  /\ pc[Discovery] = "idle" /\ Goto(Discovery, "start")
  /\ UNCHANGED <<mcpSeq, pendingMCP, respCh, queue, sup, req, reply>>
  /\ UNCHANGED <<device, finding, turning, ending>>

OnePageMore == page <= MaxPages   (* mutant of PagesLeft: off by one           *)
PagesLeft == page < MaxPages

(* The next page, or the end of the list.                                     *)
Answered ==
  /\ pc[Discovery] = "answered"
  /\ LET kind == reply[Discovery].kind
         more == page = 0 \/ kind = "more" IN
       /\ found' = IF page > 0 /\ kind # "garbage" THEN found \cup {reply[Discovery].about[2]}
                   ELSE found
       /\ IF more /\ PagesLeft
          THEN page' = page + 1 /\ Goto(Discovery, "start")
          ELSE UNCHANGED page /\ Goto(Discovery, "store")
  /\ reply' = [reply EXCEPT ![Discovery] = None]
  /\ UNCHANGED <<mcpSeq, pendingMCP, respCh, queue, sup, req, mcpTools>>
  /\ UNCHANGED <<device, turning, ending>>

(* A failed initialize ends it; a failed page ends the list.                  *)
DiscoveryFails ==
  /\ pc[Discovery] = "failed" /\ Goto(Discovery, IF page = 0 THEN "done" ELSE "store")
  /\ UNCHANGED <<mcpSeq, pendingMCP, respCh, queue, sup, req, reply>>
  /\ UNCHANGED <<device, finding, turning, ending>>

(* s.mcpTools is set under the lock.                                          *)
Store ==
  /\ pc[Discovery] = "store" /\ Goto(Discovery, "done")
  /\ mcpTools' = found
  /\ UNCHANGED <<mcpSeq, pendingMCP, respCh, queue, sup, req, reply, page, found>>
  /\ UNCHANGED <<device, turning, ending>>

------------------------------------------------------------------------------
(* The tool round of a turn.                                                  *)

(* A turn begins when the one before it has ended or was cancelled.           *)
TurnBegins(t) ==
  /\ pc[t] = "idle" /\ Goto(t, "choose")
  /\ \A u \in Turns \ {t} : pc[u] \in {"idle", "done"} \/ u \in over
  /\ UNCHANGED <<mcpSeq, pendingMCP, respCh, queue, sup, req, reply>>
  /\ UNCHANGED <<device, finding, turning, ending>>

(* A tool message, a text or an error, for the call in hand.                  *)
Result(t) == results' = [results EXCEPT ![t] = Append(@, made'[t])]

(* isMCPToolAllowed: a tool the device has not reported is refused.           *)
Allowed(tool) == tool \in mcpTools

(* The model asks for any tool; the cancelled turn returns.                   *)
NextCall(t) ==
  /\ pc[t] = "choose" /\ made[t] < Calls /\ t \notin over
  /\ made' = [made EXCEPT ![t] = @ + 1]
  /\ \E tool \in 1 .. MaxPages + 1 :
       IF Allowed(tool) THEN Goto(t, "start") /\ UNCHANGED results
       ELSE UNCHANGED pc /\ Result(t)
  /\ UNCHANGED <<mcpSeq, pendingMCP, respCh, queue, sup, req, reply>>
  /\ UNCHANGED <<device, finding, ending>>

(* Mutant of Tell: a failed call is skipped.                                  *)
Silent(t) == IF pc[t] = "failed" THEN UNCHANGED results ELSE Result(t)
Tell(t) == Result(t)

(* callMCPTool returns: a result or an error, both are told to the model.     *)
CallEnds(t) ==
  /\ pc[t] \in {"answered", "failed"} /\ Goto(t, "choose")
  /\ UNCHANGED made /\ Tell(t)
  /\ reply' = [reply EXCEPT ![t] = None]
  /\ UNCHANGED <<mcpSeq, pendingMCP, respCh, queue, sup, req>>
  /\ UNCHANGED <<device, finding, ending>>

(* The second request to the model, or the return of a superseded turn.       *)
RoundEnds(t) ==
  /\ pc[t] = "choose" /\ (made[t] = Calls \/ t \in over)
  /\ Goto(t, IF t \in over THEN "gone" ELSE "done")
  /\ UNCHANGED <<mcpSeq, pendingMCP, respCh, queue, sup, req, reply>>
  /\ UNCHANGED <<device, finding, turning, ending>>

------------------------------------------------------------------------------
(* The device, the writer, the supervisor.                                    *)

Write ==
  /\ queue # <<>> /\ queue' = Tail(queue) /\ asked' = asked \cup {Head(queue)}
  /\ UNCHANGED <<mcpSeq, pendingMCP, respCh, sup, inbound, answers>>
  /\ UNCHANGED <<calling, finding, turning, ending>>

(* The device answers what it was asked, in any order, more than once.  That  *)
(* two answers are on their way says no more than that the second comes later.*)
Answer ==
  /\ answers < MaxAnswers /\ inbound = <<>> /\ answers' = answers + 1
  /\ \E r \in asked : \E kind \in Kinds(r.about[1]) :
       inbound' = Append(inbound, [id |-> r.id, about |-> r.about, kind |-> kind])
  /\ UNCHANGED <<mcpSeq, pendingMCP, respCh, queue, sup, asked>>
  /\ UNCHANGED <<calling, finding, turning, ending>>

(* handleIncomingMCP: the channel is looked up under the lock, ...            *)
Lookup ==
  /\ sup = None /\ inbound # <<>> /\ inbound' = Tail(inbound)
  /\ sup' = IF Head(inbound).id \in pendingMCP THEN Head(inbound) ELSE None
  /\ UNCHANGED <<mcpSeq, pendingMCP, respCh, queue, asked, answers>>
  /\ UNCHANGED <<calling, finding, turning, ending>>

WaitsForRoom == FALSE             (* mutant of DropsIfFull: a plain send       *)
DropsIfFull == TRUE

(* ... and sent to after it was given back, without waiting.                  *)
Deliver ==
  /\ sup # None /\ sup' = None
  /\ \/ In(sup.id) = {} /\ respCh' = respCh \cup {sup}
     \/ In(sup.id) # {} /\ DropsIfFull /\ UNCHANGED respCh
  /\ UNCHANGED <<mcpSeq, pendingMCP, queue>>
  /\ UNCHANGED <<calling, device, finding, turning, ending>>

(* An abort cancels the turn and drains the writer.                           *)
Abort(t) ==
  /\ t \notin over /\ sup = None /\ over' = over \cup {t} /\ queue' = <<>>
  /\ UNCHANGED <<mcpSeq, pendingMCP, respCh, sup, closed>>
  /\ UNCHANGED <<calling, device, finding, turning>>

(* closeWithReason ends every turn, then the session's context, ...           *)
Close ==
  /\ ~closed /\ closed' = TRUE /\ over' = Turns /\ queue' = <<>>
  /\ UNCHANGED <<mcpSeq, pendingMCP, respCh, sup>>
  /\ UNCHANGED <<calling, device, finding, turning>>

(* ... and clears the map last.                                               *)
Clear ==
  /\ closed /\ pendingMCP' = {}
  /\ UNCHANGED <<mcpSeq, respCh, queue, sup>>
  /\ UNCHANGED <<calling, device, finding, turning, ending>>

Request(c) == Register(c) \/ Submit(c) \/ SubmitFails(c) \/ Receive(c) \/ Abandon(c)
Round(t) == NextCall(t) \/ CallEnds(t) \/ RoundEnds(t)
Discover == Answered \/ DiscoveryFails \/ Store

Next ==
  \/ \E c \in Callers : Request(c) \/ Timeout(c)
  \/ \E t \in Turns : TurnBegins(t) \/ Round(t) \/ Abort(t)
  \/ DiscoverBegins \/ Discover
  \/ Write \/ Answer \/ Lookup \/ Deliver \/ Close \/ Clear

Spec == Init /\ [][Next]_vars

(* Goroutines run.  The device need not answer, and the timers are left out:  *)
(* a close must not have to wait for them.                                    *)
Fairness ==
  /\ \A c \in Callers : WF_vars(Request(c))
  /\ \A t \in Turns : WF_vars(Round(t))
  /\ WF_vars(Discover) /\ WF_vars(Lookup) /\ WF_vars(Deliver)

FairSpec == Spec /\ Fairness

------------------------------------------------------------------------------
(* Properties.                                                                *)

Places == {"idle", "start", "registered", "waiting", "answered", "failed", "store",
           "choose", "done", "gone"}

Requests == [id : Nat, about : Callers \X Nat]
Messages == [id : Nat, about : Callers \X Nat, kind : {"text", "more", "last", "error", "garbage"}]

(* Types; initialize is followed by at most MaxPages requests for a page,     *)
(* whatever cursors the device sends.                                         *)
TypeOK ==
  /\ mcpSeq \in Nat /\ pendingMCP \subseteq Nat
  /\ pc \in [Callers -> Places] /\ req \in [Callers -> Nat]
  /\ respCh \subseteq Messages /\ inbound \in Seq(Messages)
  /\ sup \in Messages \cup {None} /\ reply \in [Callers -> Messages \cup {None}]
  /\ queue \in Seq(Requests) /\ asked \subseteq Requests
  /\ page \in Pages /\ found \subseteq Pages /\ mcpTools \subseteq Pages
  /\ made \in [Turns -> 0 .. Calls] /\ over \subseteq Turns /\ closed \in BOOLEAN

Waiting == {c \in Callers : pc[c] \in {"registered", "waiting"}}

(* A caller only ever gets the answer to what it has asked last, however late *)
(* or often the device answers the requests of others and its own timed-out   *)
(* ones; and the map holds the channels of the requests under way, no more    *)
(* (no request leaves its channel behind), and no less until the close.       *)
OwnAnswer == \A c \in Callers : pc[c] = "answered" => reply[c].about = About(c)

NoneLeft == LET ids == {req[c] : c \in Waiting} IN
  /\ pendingMCP \subseteq ids
  /\ ~closed => pendingMCP = ids

Correlated == OwnAnswer /\ NoneLeft

(* The tools offered are the first pages of the device's list, none skipped,  *)
(* even if a page was answered twice or timed out.  And when the model is     *)
(* asked again, every one of its tool calls has its one tool message, in the  *)
(* order of the calls: refused, failed and timed-out calls too.               *)
ListIsAPrefix == \A p \in mcpTools : p > 0 /\ \A q \in 1 .. p : q \in mcpTools

EveryCallIsTold == \A t \in Turns :
  pc[t] \in {"choose", "done"} => /\ Len(results[t]) = made[t]
                                  /\ \A i \in 1 .. made[t] : results[t][i] = i

ToolsAreSound == ListIsAPrefix /\ EveryCallIsTold

(* The supervisor is not kept by the delivery of a response nobody takes; and *)
(* a close releases every caller without waiting for the ten seconds.         *)
NobodyIsKept ==
  /\ sup # None ~> sup = None
  /\ closed ~> \A c \in Callers : pc[c] \in {"idle", "done", "gone"}
==============================================================================
