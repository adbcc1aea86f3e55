------------------------------ MODULE McpProofs -------------------------------
(***************************************************************************)
(* Every caller gets the answer to its own request and leaves no channel   *)
(* behind, the tools offered are a prefix of the device's list, and every  *)
(* tool call has its one tool message: for any number of turns, calls and  *)
(* pages, and however often, late or wrongly the device answers.           *)
(***************************************************************************)
EXTENDS Mcp, SequenceTheorems, TLAPS

(* The requests and responses that are anywhere between a caller and its      *)
(* channel.                                                                   *)
Flying ==
  {queue[i] : i \in DOMAIN queue} \cup asked \cup {inbound[i] : i \in DOMAIN inbound}
    \cup ({sup} \ {None}) \cup respCh

(* A message under way has an id that was given out; and if the request of    *)
(* that id is still waited for, the message is about what its caller asks.    *)
Sound(m) ==
  /\ m.id <= mcpSeq
  /\ \A c \in Waiting : req[c] = m.id => m.about = About(c)

FlyInv == \A m \in Flying : Sound(m)

(* Ids are given out once, so no two callers wait for the same.               *)
PendInv ==
  /\ \A c \in Callers : req[c] <= mcpSeq
  /\ \A c, d \in Waiting : req[c] = req[d] => c = d
  /\ NoneLeft

(* The tools found so far are the pages before the one asked for.             *)
IsPrefix(S) == \A p \in S : p > 0 /\ \A q \in 1 .. p : q \in S

ListInv ==
  /\ pc[Discovery] \notin {"store", "done"} => found = {q \in Pages : 0 < q /\ q < page}
  /\ IsPrefix(found) /\ IsPrefix(mcpTools)

(* A turn inside a call owes its tool message, and no other.                  *)
InCall == {"start", "registered", "waiting", "answered", "failed"}

Told(t) ==
  /\ \A i \in 1 .. Len(results[t]) : results[t][i] = i
  /\ made[t] = IF pc[t] \in InCall THEN Len(results[t]) + 1 ELSE Len(results[t])

TellInv == results \in [Turns -> Seq(Nat)] /\ \A t \in Turns : Told(t)

McpInv == TypeOK /\ PendInv /\ FlyInv /\ OwnAnswer /\ ListInv /\ TellInv

------------------------------------------------------------------------------
(* Types.                                                                     *)

LEMMA DiscoveryCalls == Discovery \in Callers /\ Discovery \notin Turns /\ Turns \subseteq Callers
  BY McpAssumption DEF Callers

LEMMA TypesInit == Init => TypeOK
<1> SUFFICES ASSUME Init PROVE TypeOK
  OBVIOUS
<1>1. queue \in Seq(Requests) /\ inbound \in Seq(Messages)
  BY DEF Init
<1>2. 0 \in Pages /\ 0 \in 0 .. Calls
  BY McpAssumption DEF Pages
<1>3. respCh \subseteq Messages /\ asked \subseteq Requests /\ sup \in Messages \cup {None}
  BY DEF Init
<1>4. QED
  BY <1>1, <1>2, <1>3 DEF Init, TypeOK, Places

LEMMA TypesStep == TypeOK /\ OwnAnswer /\ [Next]_vars => TypeOK'
<1> SUFFICES ASSUME TypeOK, OwnAnswer, [Next]_vars PROVE TypeOK'
  OBVIOUS
<1> USE DiscoveryCalls, McpAssumption DEF TypeOK, calling, device, finding, turning, ending
<1>1. ASSUME NEW c \in Callers, Register(c) PROVE TypeOK'
  BY <1>1 DEF Register, NewId, Goto, Places
<1>2. ASSUME NEW c \in Callers, Submit(c) PROVE TypeOK'
  <2>1. About(c) \in Callers \X Nat
    BY DEF About, Pages, Callers
  <2>2. [id |-> req[c], about |-> About(c)] \in Requests
    BY <2>1 DEF Requests
  <2>3. queue' \in Seq(Requests)
    BY <1>2, <2>2, AppendProperties DEF Submit
  <2>4. QED
    BY <1>2, <2>3 DEF Submit, Goto, Places
<1>3. ASSUME NEW c \in Callers, SubmitFails(c) PROVE TypeOK'
  BY <1>3 DEF SubmitFails, Fail, Forget, Goto, Places
<1>4. ASSUME NEW c \in Callers, Receive(c) PROVE TypeOK'
  BY <1>4 DEF Receive, In, Forget, Goto, Places
<1>5. ASSUME NEW c \in Callers, Abandon(c) PROVE TypeOK'
  BY <1>5 DEF Abandon, Fail, Forget, Goto, Places
<1>6. ASSUME NEW c \in Callers, Timeout(c) PROVE TypeOK'
  BY <1>6 DEF Timeout, Fail, Forget, Goto, Places
<1>7. ASSUME NEW t \in Turns, TurnBegins(t) PROVE TypeOK'
  BY <1>7 DEF TurnBegins, Goto, Places
<1>8. ASSUME NEW t \in Turns, NextCall(t) PROVE TypeOK'
  <2>1. made' \in [Turns -> 0 .. Calls]
    BY <1>8 DEF NextCall
  <2>2. pc' \in [Callers -> Places]
    BY <1>8 DEF NextCall, Goto, Places
  <2>3. QED
    BY <1>8, <2>1, <2>2 DEF NextCall
<1>9. ASSUME NEW t \in Turns, CallEnds(t) PROVE TypeOK'
  BY <1>9 DEF CallEnds, Goto, Places
<1>10. ASSUME NEW t \in Turns, RoundEnds(t) PROVE TypeOK'
  BY <1>10 DEF RoundEnds, Goto, Places
<1>11. ASSUME NEW t \in Turns, Abort(t) PROVE TypeOK'
  BY <1>11 DEF Abort
<1>12. CASE DiscoverBegins
  BY <1>12 DEF DiscoverBegins, Goto, Places
<1>13. CASE Answered
  <2>1. reply[Discovery].about[2] = page
    BY <1>13 DEF Answered, OwnAnswer, About
  <2>2. page' \in Pages /\ found' \subseteq Pages
    BY <1>13, <2>1 DEF Answered, PagesLeft, Pages
  <2>3. QED
    BY <1>13, <2>2 DEF Answered, Goto, Places
<1>14. CASE DiscoveryFails
  BY <1>14 DEF DiscoveryFails, Goto, Places
<1>15. CASE Store
  BY <1>15 DEF Store, Goto, Places
<1>16. CASE Write
  <2>1. queue' \in Seq(Requests) /\ Head(queue) \in Requests
    BY <1>16, HeadTailProperties DEF Write
  <2>2. QED
    BY <1>16, <2>1 DEF Write
<1>17. CASE Answer
  <2>1. inbound' \in Seq(Messages)
    <3>1. PICK r \in asked, kind \in {"text", "more", "last", "error", "garbage"} :
            inbound' = Append(inbound, [id |-> r.id, about |-> r.about, kind |-> kind])
      <4>1. \A c \in Callers : Kinds(c) \subseteq {"text", "more", "last", "error", "garbage"}
        BY DEF Kinds
      <4>2. \A r \in asked : r.about[1] \in Callers
        BY DEF Requests
      <4>3. QED
        BY <1>17, <4>1, <4>2 DEF Answer
    <3>2. [id |-> r.id, about |-> r.about, kind |-> kind] \in Messages
      BY DEF Messages, Requests
    <3>3. QED
      BY <3>1, <3>2, AppendProperties
  <2>2. QED
    BY <1>17, <2>1 DEF Answer
<1>18. CASE Lookup
  <2>1. inbound' \in Seq(Messages) /\ Head(inbound) \in Messages
    BY <1>18, HeadTailProperties DEF Lookup
  <2>2. QED
    BY <1>18, <2>1 DEF Lookup
<1>19. CASE Deliver
  BY <1>19 DEF Deliver
<1>20. CASE Close
  BY <1>20 DEF Close
<1>21. CASE Clear
  BY <1>21 DEF Clear
<1>22. CASE UNCHANGED vars
  BY <1>22 DEF vars
<1>23. QED
  BY <1>1, <1>2, <1>3, <1>4, <1>5, <1>6, <1>7, <1>8, <1>9, <1>10, <1>11, <1>12, <1>13,
     <1>14, <1>15, <1>16, <1>17, <1>18, <1>19, <1>20, <1>21, <1>22
     DEF Next, Request, Round, Discover

------------------------------------------------------------------------------
(* Ids and the map.                                                           *)

LEMMA PendInit == Init => PendInv
  BY DEF Init, PendInv, NoneLeft, Waiting

LEMMA PendStep == TypeOK /\ PendInv /\ [Next]_vars => PendInv'
<1> SUFFICES ASSUME TypeOK, PendInv, [Next]_vars PROVE PendInv'
  OBVIOUS
<1> USE DiscoveryCalls DEF device, finding, turning, ending
<1>1. /\ mcpSeq \in Nat /\ pendingMCP \subseteq Nat /\ closed \in BOOLEAN
      /\ pc \in [Callers -> Places] /\ req \in [Callers -> Nat]
  BY DEF TypeOK
<1>2. ASSUME UNCHANGED <<mcpSeq, pendingMCP, req>>, Waiting' = Waiting, closed => closed'
      PROVE  PendInv'
  BY <1>2 DEF PendInv, NoneLeft
<1>3. ASSUME NEW c \in Callers, Register(c) PROVE PendInv'
  <2>1. /\ mcpSeq' = mcpSeq + 1 /\ req' = [req EXCEPT ![c] = mcpSeq + 1]
        /\ pendingMCP' = pendingMCP \cup {mcpSeq + 1} /\ closed' = closed
    BY <1>3 DEF Register, NewId
  <2>2. Waiting' = Waiting \cup {c} /\ c \notin Waiting
    BY <1>1, <1>3 DEF Register, Goto, Waiting
  <2>3. \A d \in Callers : req[d] < mcpSeq + 1
    BY <1>1 DEF PendInv
  <2>4. Waiting \subseteq Callers
    BY DEF Waiting
  <2>5. {req'[d] : d \in Waiting'} = {req[d] : d \in Waiting} \cup {mcpSeq + 1}
    BY <1>1, <2>1, <2>2, <2>4
  <2>6. NoneLeft'
    BY <2>1, <2>5 DEF PendInv, NoneLeft
  <2>7. QED
    BY <1>1, <2>1, <2>2, <2>3, <2>4, <2>6 DEF PendInv
<1>4. ASSUME NEW c \in Callers, c \in Waiting, pendingMCP' = pendingMCP \ {req[c]},
             Waiting' = Waiting \ {c}, UNCHANGED <<mcpSeq, req, closed>>
      PROVE  PendInv'
  <2>1. {req[d] : d \in Waiting \ {c}} = {req[d] : d \in Waiting} \ {req[c]}
    BY <1>4 DEF PendInv
  <2>2. NoneLeft'
    BY <1>4, <2>1 DEF PendInv, NoneLeft
  <2>3. QED
    BY <1>4, <2>2 DEF PendInv
<1>5. ASSUME NEW c \in Callers, SubmitFails(c) \/ Receive(c) \/ Abandon(c) \/ Timeout(c)
      PROVE  PendInv'
  <2>1. c \in Waiting /\ Waiting' = Waiting \ {c}
    BY <1>1, <1>5 DEF SubmitFails, Receive, Abandon, Timeout, Fail, Goto, Waiting
  <2>2. pendingMCP' = pendingMCP \ {req[c]} /\ UNCHANGED <<mcpSeq, req, closed>>
    BY <1>5 DEF SubmitFails, Receive, Abandon, Timeout, Fail, Forget
  <2>3. QED
    BY <1>4, <2>1, <2>2
<1>6. ASSUME NEW c \in Callers, Submit(c) PROVE PendInv'
  <2>1. Waiting' = Waiting
    BY <1>1, <1>6 DEF Submit, Goto, Waiting
  <2>2. QED
    BY <1>2, <1>6, <2>1 DEF Submit
<1>7. ASSUME NEW c \in Callers, NEW l \in Places \ {"registered", "waiting"},
             c \notin Waiting, pc' = [pc EXCEPT ![c] = l] PROVE Waiting' = Waiting
  BY <1>1, <1>7 DEF Waiting
<1>8. ASSUME NEW t \in Turns, TurnBegins(t) \/ CallEnds(t) \/ RoundEnds(t) PROVE PendInv'
  <2>1. t \notin Waiting
    BY <1>8 DEF TurnBegins, CallEnds, RoundEnds, Waiting
  <2>2. Waiting' = Waiting
    BY <1>7, <1>8, <2>1 DEF TurnBegins, CallEnds, RoundEnds, Goto, Places
  <2>3. QED
    BY <1>2, <1>8, <2>2 DEF TurnBegins, CallEnds, RoundEnds
<1>9. ASSUME NEW t \in Turns, NextCall(t) PROVE PendInv'
  <2>1. t \notin Waiting
    BY <1>9 DEF NextCall, Waiting
  <2>2. pc' = pc \/ pc' = [pc EXCEPT ![t] = "start"]
    BY <1>9 DEF NextCall, Goto
  <2>3. Waiting' = Waiting
    BY <1>7, <2>1, <2>2 DEF Waiting, Places
  <2>4. QED
    BY <1>2, <1>9, <2>3 DEF NextCall
<1>10. CASE DiscoverBegins \/ Answered \/ DiscoveryFails \/ Store
  <2>1. Discovery \notin Waiting
    BY <1>10 DEF DiscoverBegins, Answered, DiscoveryFails, Store, Waiting
  <2>2. Waiting' = Waiting
    BY <1>7, <1>10, <2>1 DEF DiscoverBegins, Answered, DiscoveryFails, Store, Goto, Places
  <2>3. QED
    BY <1>2, <1>10, <2>2 DEF DiscoverBegins, Answered, DiscoveryFails, Store
<1>11. CASE Clear
  BY <1>11 DEF Clear, calling, PendInv, NoneLeft, Waiting
<1>12. ASSUME UNCHANGED <<mcpSeq, pendingMCP, pc, req>>, closed => closed' PROVE PendInv'
  BY <1>2, <1>12 DEF Waiting
<1>13. ASSUME NEW t \in Turns, Abort(t) PROVE PendInv'
  BY <1>12, <1>13 DEF Abort, calling
<1>14. CASE Write \/ Answer \/ Lookup \/ Deliver \/ Close \/ UNCHANGED vars
  BY <1>12, <1>14 DEF Write, Answer, Lookup, Deliver, Close, calling, vars
<1>15. QED
  BY <1>3, <1>5, <1>6, <1>8, <1>9, <1>10, <1>11, <1>13, <1>14
     DEF Next, Request, Round, Discover

------------------------------------------------------------------------------
(* Messages under way.                                                        *)

LEMMA AppendRange ==
  ASSUME NEW S, NEW s \in Seq(S), NEW x \in S
  PROVE  \A i \in DOMAIN Append(s, x) :
           Append(s, x)[i] = x \/ \E j \in DOMAIN s : Append(s, x)[i] = s[j]
<1> SUFFICES ASSUME NEW i \in 1 .. Len(s) + 1
             PROVE  Append(s, x)[i] = x \/ \E j \in DOMAIN s : Append(s, x)[i] = s[j]
  BY AppendProperties
<1>1. CASE i = Len(s) + 1
  BY <1>1, AppendProperties
<1>2. CASE i # Len(s) + 1
  BY <1>2, AppendProperties
<1>3. QED
  BY <1>1, <1>2

LEMMA TailRange ==
  ASSUME NEW S, NEW s \in Seq(S), s # <<>>
  PROVE  /\ \E j \in DOMAIN s : Head(s) = s[j]
         /\ \A i \in DOMAIN Tail(s) : \E j \in DOMAIN s : Tail(s)[i] = s[j]
<1>1. Len(s) >= 1 /\ Head(s) = s[1] /\ 1 \in DOMAIN s
  BY EmptySeq, LenProperties
<1>2. ASSUME NEW i \in DOMAIN Tail(s) PROVE Tail(s)[i] = s[i + 1] /\ i + 1 \in DOMAIN s
  BY <1>1, HeadTailProperties, LenProperties
<1>3. QED
  BY <1>1, <1>2

(* Nothing changes for a message if nobody begins to wait or asks anew.       *)
LEMMA SoundKept ==
  ASSUME UNCHANGED mcpSeq, Waiting' \subseteq Waiting,
         \A c \in Waiting' : req'[c] = req[c] /\ About(c)' = About(c),
         NEW m, Sound(m)
  PROVE  Sound(m)'
  BY DEF Sound

LEMMA FlyInit == Init => FlyInv
  BY DEF Init, FlyInv, Flying

LEMMA FlyStep == TypeOK /\ PendInv /\ FlyInv /\ [Next]_vars => FlyInv'
<1> SUFFICES ASSUME TypeOK, PendInv, FlyInv, [Next]_vars PROVE FlyInv'
  OBVIOUS
<1> USE DiscoveryCalls DEF device, finding, turning, ending
<1>1. /\ mcpSeq \in Nat /\ page \in Pages /\ Waiting \subseteq Callers
      /\ pc \in [Callers -> Places] /\ req \in [Callers -> Nat]
      /\ queue \in Seq(Requests) /\ inbound \in Seq(Messages)
  BY DEF TypeOK, Waiting
<1>2. ASSUME UNCHANGED mcpSeq, Waiting' \subseteq Waiting,
             \A c \in Waiting' : req'[c] = req[c] /\ About(c)' = About(c),
             \A m \in Flying' : \E n \in Flying : m.id = n.id /\ m.about = n.about
      PROVE  FlyInv'
  <2>1. \A m \in Flying' : Sound(m)
    BY <1>2 DEF FlyInv, Sound
  <2>2. QED
    BY <1>2, <2>1, SoundKept DEF FlyInv
<1>3. ASSUME UNCHANGED <<pc, req, page, made>>
      PROVE  Waiting' = Waiting /\ \A c \in Waiting' : req'[c] = req[c] /\ About(c)' = About(c)
  BY <1>3 DEF Waiting, About
<1>4. ASSUME UNCHANGED <<mcpSeq, queue, asked, inbound, sup, req>>, respCh' \subseteq respCh,
             NEW c \in Callers, Waiting' = Waiting \ {c},
             \A d \in Callers \ {c} : About(d)' = About(d)
      PROVE  FlyInv'
  <2>1. Flying' \subseteq Flying
    BY <1>4 DEF Flying
  <2>2. QED
    BY <1>1, <1>2, <1>4, <2>1
<1>5. ASSUME NEW c \in Callers, Register(c) PROVE FlyInv'
  <2>1. Flying' = Flying /\ mcpSeq' = mcpSeq + 1 /\ req' = [req EXCEPT ![c] = mcpSeq + 1]
    BY <1>5 DEF Register, NewId, Flying
  <2>2. Waiting' = Waiting \cup {c}
    BY <1>1, <1>5 DEF Register, Goto, Waiting
  <2>3. \A d \in Callers : About(d)' = About(d)
    BY <1>5 DEF Register, About
  <2>4. ASSUME NEW m \in Flying PROVE Sound(m)'
    <3>1. m.id <= mcpSeq /\ \A d \in Waiting : req[d] = m.id => m.about = About(d)
      BY <2>4 DEF FlyInv, Sound
    <3>2. m.id \in Nat
      <4>1. \A i \in DOMAIN queue : queue[i] \in Requests
        BY <1>1
      <4>2. \A i \in DOMAIN inbound : inbound[i] \in Messages
        BY <1>1
      <4>3. m \in Requests \/ m \in Messages
        BY <2>4, <4>1, <4>2 DEF Flying, TypeOK
      <4>4. QED
        BY <4>3 DEF Messages, Requests
    <3>3. m.id <= mcpSeq' /\ m.id # mcpSeq + 1
      BY <1>1, <2>1, <3>1, <3>2
    <3>4. \A d \in Waiting' : req'[d] = m.id => m.about = About(d)'
      BY <1>1, <2>1, <2>2, <2>3, <3>1, <3>3
    <3>5. QED
      BY <3>3, <3>4 DEF Sound
  <2>5. QED
    BY <2>1, <2>4 DEF FlyInv
<1>6. ASSUME NEW c \in Callers, Submit(c) PROVE FlyInv'
  <2> DEFINE new == [id |-> req[c], about |-> About(c)]
  <2>1. Waiting' = Waiting /\ c \in Waiting /\ UNCHANGED <<mcpSeq, req>>
    BY <1>1, <1>6 DEF Submit, Goto, Waiting
  <2>2. \A d \in Callers : About(d)' = About(d)
    BY <1>6 DEF Submit, About
  <2>3. Sound(new)
    BY <1>1, <2>1 DEF Sound, PendInv
  <2>4. new \in Requests
    BY <1>1 DEF Requests, About, Pages, TypeOK, Callers
  <2>5. Flying' \subseteq Flying \cup {new}
    <3>1. \A i \in DOMAIN queue' : queue'[i] = new \/ \E j \in DOMAIN queue : queue'[i] = queue[j]
      BY <1>1, <1>6, <2>4, AppendRange DEF Submit
    <3>2. UNCHANGED <<asked, inbound, sup, respCh>>
      BY <1>6 DEF Submit
    <3>3. QED
      BY <3>1, <3>2 DEF Flying
  <2>6. \A m \in Flying' : Sound(m)
    BY <2>3, <2>5 DEF FlyInv
  <2>7. QED
    BY <1>1, <2>1, <2>2, <2>6, SoundKept DEF FlyInv
<1>7. ASSUME NEW c \in Callers, SubmitFails(c) \/ Receive(c) \/ Abandon(c) \/ Timeout(c)
      PROVE  FlyInv'
  <2>1. Waiting' = Waiting \ {c}
    BY <1>1, <1>7 DEF SubmitFails, Receive, Abandon, Timeout, Fail, Goto, Waiting
  <2>2. UNCHANGED <<mcpSeq, queue, asked, inbound, sup, req, page, made>>
    BY <1>7 DEF SubmitFails, Receive, Abandon, Timeout
  <2>3. respCh' \subseteq respCh
    BY <1>7 DEF SubmitFails, Receive, Abandon, Timeout
  <2>4. QED
    BY <1>4, <2>1, <2>2, <2>3 DEF About
<1>8. ASSUME NEW c \in Callers, c \notin Waiting, NEW l \in Places \ {"registered", "waiting"},
             pc' = [pc EXCEPT ![c] = l]
      PROVE  Waiting' = Waiting \ {c}
  BY <1>1, <1>8 DEF Waiting
<1>9. ASSUME NEW t \in Turns, TurnBegins(t) \/ CallEnds(t) \/ RoundEnds(t) PROVE FlyInv'
  <2>1. t \notin Waiting
    BY <1>9 DEF TurnBegins, CallEnds, RoundEnds, Waiting
  <2>2. Waiting' = Waiting \ {t}
    BY <1>8, <1>9, <2>1 DEF TurnBegins, CallEnds, RoundEnds, Goto, Places
  <2>3. UNCHANGED <<mcpSeq, queue, asked, inbound, sup, respCh, req, page, made>>
    BY <1>9 DEF TurnBegins, CallEnds, RoundEnds
  <2>4. QED
    BY <1>4, <2>2, <2>3 DEF About
<1>10. ASSUME NEW t \in Turns, NextCall(t) PROVE FlyInv'
  <2>1. t \notin Waiting
    BY <1>10 DEF NextCall, Waiting
  <2>2. pc' = pc \/ pc' = [pc EXCEPT ![t] = "start"]
    BY <1>10 DEF NextCall, Goto
  <2>3. Waiting' = Waiting \ {t}
    BY <1>8, <2>1, <2>2 DEF Waiting, Places
  <2>4. \A d \in Callers \ {t} : About(d)' = About(d)
    BY <1>10 DEF NextCall, About, Callers, TypeOK
  <2>5. UNCHANGED <<mcpSeq, queue, asked, inbound, sup, respCh, req>>
    BY <1>10 DEF NextCall
  <2>6. QED
    BY <1>4, <2>3, <2>4, <2>5
<1>11. CASE DiscoverBegins \/ Answered \/ DiscoveryFails \/ Store
  <2>1. Discovery \notin Waiting
    BY <1>11 DEF DiscoverBegins, Answered, DiscoveryFails, Store, Waiting
  <2>2. Waiting' = Waiting \ {Discovery}
    BY <1>8, <1>11, <2>1 DEF DiscoverBegins, Answered, DiscoveryFails, Store, Goto, Places
  <2>3. UNCHANGED <<mcpSeq, queue, asked, inbound, sup, respCh, req, made>>
    BY <1>11 DEF DiscoverBegins, Answered, DiscoveryFails, Store
  <2>4. QED
    BY <1>4, <2>2, <2>3 DEF About
<1>12. CASE Write
  <2>1. UNCHANGED <<mcpSeq, pc, req, page, made, inbound, sup, respCh>>
    BY <1>12 DEF Write, calling
  <2>2. Flying' \subseteq Flying
    <3>1. \E j \in DOMAIN queue : Head(queue) = queue[j]
      BY <1>1, <1>12, TailRange DEF Write
    <3>2. \A i \in DOMAIN queue' : \E j \in DOMAIN queue : queue'[i] = queue[j]
      BY <1>1, <1>12, TailRange DEF Write
    <3>3. asked' = asked \cup {Head(queue)}
      BY <1>12 DEF Write
    <3>4. QED
      BY <2>1, <3>1, <3>2, <3>3 DEF Flying
  <2>3. QED
    BY <1>2, <1>3, <2>1, <2>2
<1>13. CASE Answer
  <2>1. UNCHANGED <<mcpSeq, pc, req, page, made, queue, asked, sup, respCh>>
    BY <1>13 DEF Answer, calling
  <2>2. PICK r \in asked, kind \in {"text", "more", "last", "error", "garbage"} :
          inbound' = Append(inbound, [id |-> r.id, about |-> r.about, kind |-> kind])
    BY <1>13 DEF Answer, Kinds
  <2> DEFINE new == [id |-> r.id, about |-> r.about, kind |-> kind]
  <2>3. new \in Messages
    BY DEF Messages, Requests, TypeOK
  <2>4. \A i \in DOMAIN inbound' :
          inbound'[i] = new \/ \E j \in DOMAIN inbound : inbound'[i] = inbound[j]
    BY <1>1, <2>2, <2>3, AppendRange
  <2>5. \A m \in Flying' : m = new \/ m \in Flying
    BY <2>1, <2>4 DEF Flying
  <2>6. r \in Flying /\ new.id = r.id /\ new.about = r.about
    BY DEF Flying
  <2>7. QED
    BY <1>2, <1>3, <2>1, <2>5, <2>6
<1>14. CASE Lookup
  <2>1. UNCHANGED <<mcpSeq, pc, req, page, made, queue, asked, respCh>>
    BY <1>14 DEF Lookup, calling
  <2>2. Flying' \subseteq Flying
    <3>1. \E j \in DOMAIN inbound : Head(inbound) = inbound[j]
      BY <1>1, <1>14, TailRange DEF Lookup
    <3>2. \A i \in DOMAIN inbound' : \E j \in DOMAIN inbound : inbound'[i] = inbound[j]
      BY <1>1, <1>14, TailRange DEF Lookup
    <3>3. sup' \in {Head(inbound), None}
      BY <1>14 DEF Lookup
    <3>4. QED
      BY <2>1, <3>1, <3>2, <3>3 DEF Flying
  <2>3. QED
    BY <1>2, <1>3, <2>1, <2>2
<1>15. CASE Deliver
  <2>1. UNCHANGED <<mcpSeq, pc, req, page, made>>
    BY <1>15 DEF Deliver, calling
  <2>2. Flying' \subseteq Flying
    BY <1>15 DEF Deliver, Flying
  <2>3. QED
    BY <1>2, <1>3, <2>1, <2>2
<1>16. ASSUME UNCHANGED <<mcpSeq, pc, req, page, made, asked, inbound, sup, respCh>>,
              queue' = <<>> \/ queue' = queue
       PROVE  FlyInv'
  <2>1. Flying' \subseteq Flying
    BY <1>16 DEF Flying
  <2>2. QED
    BY <1>2, <1>3, <1>16, <2>1
<1>17. ASSUME NEW t \in Turns, Abort(t) PROVE FlyInv'
  BY <1>16, <1>17 DEF Abort, calling
<1>18. CASE Close \/ Clear \/ UNCHANGED vars
  BY <1>16, <1>18 DEF Close, Clear, calling, vars
<1>19. QED
  BY <1>5, <1>6, <1>7, <1>9, <1>10, <1>11, <1>12, <1>13, <1>14, <1>15, <1>17, <1>18
     DEF Next, Request, Round, Discover

------------------------------------------------------------------------------
(* What a caller receives, the tools, the tool messages.                      *)

LEMMA OwnStep == TypeOK /\ FlyInv /\ OwnAnswer /\ [Next]_vars => OwnAnswer'
<1> SUFFICES ASSUME TypeOK, FlyInv, OwnAnswer, [Next]_vars PROVE OwnAnswer'
  OBVIOUS
<1> USE DiscoveryCalls DEF device, finding, turning, ending
<1>1. pc \in [Callers -> Places] /\ reply \in [Callers -> Messages \cup {None}]
  BY DEF TypeOK
<1>2. ASSUME NEW c \in Callers, Receive(c) PROVE OwnAnswer'
  <2>1. PICK r \in In(req[c]) :
          IF r.kind = "error" THEN Goto(c, "failed") /\ UNCHANGED reply
          ELSE Goto(c, "answered") /\ reply' = [reply EXCEPT ![c] = r]
    BY <1>2 DEF Receive
  <2>2. r.about = About(c)
    BY <1>2 DEF Receive, In, FlyInv, Flying, Sound, Waiting
  <2>3. \A d \in Callers : About(d)' = About(d)
    BY <1>2 DEF Receive, About
  <2>4. QED
    BY <1>1, <2>1, <2>2, <2>3 DEF OwnAnswer, Goto
<1>3. ASSUME NEW c \in Callers, NEW l \in Places \ {"answered"}, pc' = [pc EXCEPT ![c] = l],
             \A d \in Callers \ {c} : reply'[d] = reply[d] /\ About(d)' = About(d)
      PROVE  OwnAnswer'
  BY <1>1, <1>3 DEF OwnAnswer
<1>4. ASSUME NEW c \in Callers,
             Register(c) \/ Submit(c) \/ SubmitFails(c) \/ Abandon(c) \/ Timeout(c)
      PROVE  OwnAnswer'
  <2>1. PICK l \in Places \ {"answered"} : pc' = [pc EXCEPT ![c] = l]
    BY <1>4 DEF Register, Submit, SubmitFails, Abandon, Timeout, Fail, Goto, Places
  <2>2. UNCHANGED <<reply, page, made>>
    BY <1>4 DEF Register, Submit, SubmitFails, Abandon, Timeout, Fail
  <2>3. QED
    BY <1>3, <2>1, <2>2 DEF About
<1>5. ASSUME NEW t \in Turns, TurnBegins(t) \/ CallEnds(t) \/ RoundEnds(t) PROVE OwnAnswer'
  <2>1. PICK l \in Places \ {"answered"} : pc' = [pc EXCEPT ![t] = l]
    BY <1>5 DEF TurnBegins, CallEnds, RoundEnds, Goto, Places
  <2>2. UNCHANGED <<page, made>> /\ \A d \in Callers \ {t} : reply'[d] = reply[d]
    BY <1>1, <1>5 DEF TurnBegins, CallEnds, RoundEnds
  <2>3. QED
    BY <1>3, <2>1, <2>2 DEF About
<1>6. ASSUME NEW t \in Turns, NextCall(t) PROVE OwnAnswer'
  <2>1. pc' = [pc EXCEPT ![t] = "choose"] \/ pc' = [pc EXCEPT ![t] = "start"]
    BY <1>1, <1>6 DEF NextCall, Goto
  <2>2. \A d \in Callers \ {t} : reply'[d] = reply[d] /\ About(d)' = About(d)
    BY <1>6 DEF NextCall, About, Callers, TypeOK
  <2>3. QED
    BY <1>3, <2>1, <2>2 DEF Places
<1>7. CASE DiscoverBegins \/ Answered \/ DiscoveryFails \/ Store
  <2>1. PICK l \in Places \ {"answered"} : pc' = [pc EXCEPT ![Discovery] = l]
    BY <1>7 DEF DiscoverBegins, Answered, DiscoveryFails, Store, Goto, Places
  <2>2. UNCHANGED made /\ \A d \in Callers \ {Discovery} : reply'[d] = reply[d]
    BY <1>1, <1>7 DEF DiscoverBegins, Answered, DiscoveryFails, Store
  <2>3. QED
    BY <1>3, <2>1, <2>2 DEF About
<1>8. ASSUME UNCHANGED <<pc, reply, page, made>> PROVE OwnAnswer'
  BY <1>8 DEF OwnAnswer, About
<1>9. ASSUME NEW t \in Turns, Abort(t) PROVE OwnAnswer'
  BY <1>8, <1>9 DEF Abort, calling
<1>10. CASE Write \/ Answer \/ Lookup \/ Deliver \/ Close \/ Clear \/ UNCHANGED vars
  BY <1>8, <1>10 DEF Write, Answer, Lookup, Deliver, Close, Clear, calling, vars
<1>11. QED
  BY <1>2, <1>4, <1>5, <1>6, <1>7, <1>9, <1>10 DEF Next, Request, Round, Discover

LEMMA ListStep == TypeOK /\ OwnAnswer /\ ListInv /\ [Next]_vars => ListInv'
<1> SUFFICES ASSUME TypeOK, OwnAnswer, ListInv, [Next]_vars PROVE ListInv'
  OBVIOUS
<1> USE DiscoveryCalls DEF device, finding, turning, ending
<1>1. pc \in [Callers -> Places] /\ page \in Pages /\ found \subseteq Pages
  BY DEF TypeOK
<1>2. ASSUME UNCHANGED finding, pc'[Discovery] \in {"store", "done"} \/
               pc[Discovery] \notin {"store", "done"}
      PROVE  ListInv'
  BY <1>2 DEF ListInv, IsPrefix
<1>3. CASE Answered
  <2>1. reply[Discovery].about[2] = page /\ pc[Discovery] = "answered" /\ UNCHANGED mcpTools
    BY <1>3 DEF Answered, OwnAnswer, About
  <2>2. found = {q \in Pages : 0 < q /\ q < page}
    BY <2>1 DEF ListInv
  <2>3. CASE found' = found \cup {page} /\ page > 0
    <3>1. found' = {q \in Pages : 0 < q /\ q < page + 1}
      BY <1>1, <2>2, <2>3, McpAssumption DEF Pages
    <3>2. IsPrefix(found')
      BY <1>1, <3>1, McpAssumption DEF IsPrefix, Pages
    <3>3. page' = page + 1 \/ pc'[Discovery] = "store"
      BY <1>1, <1>3 DEF Answered, Goto
    <3>4. QED
      BY <2>1, <3>1, <3>2, <3>3 DEF ListInv, IsPrefix
  <2>4. CASE found' = found /\ (page = 0 \/ reply[Discovery].kind = "garbage")
    <3>1. (page = 0 /\ page' = 1) \/ pc'[Discovery] = "store"
      BY <1>1, <1>3, <2>4 DEF Answered, Goto
    <3>2. page = 0 /\ page' = 1 => found' = {q \in Pages : 0 < q /\ q < page'}
      BY <2>2, <2>4, McpAssumption DEF Pages
    <3>3. QED
      BY <2>1, <2>4, <3>1, <3>2 DEF ListInv, IsPrefix
  <2>5. QED
    BY <1>1, <1>3, <2>1, <2>3, <2>4 DEF Answered, Pages
<1>4. CASE Store
  BY <1>1, <1>4 DEF Store, Goto, ListInv, IsPrefix
<1>5. CASE DiscoverBegins \/ DiscoveryFails
  BY <1>2, <1>5 DEF DiscoverBegins, DiscoveryFails
<1>6. ASSUME UNCHANGED finding, UNCHANGED pc PROVE ListInv'
  BY <1>2, <1>6
<1>7. ASSUME NEW c \in Callers, Request(c) \/ Timeout(c) PROVE ListInv'
  <2>1. pc[c] \in {"start", "registered", "waiting"} /\ UNCHANGED finding
    BY <1>7 DEF Request, Register, Submit, SubmitFails, Receive, Abandon, Timeout
  <2>2. \E l : pc' = [pc EXCEPT ![c] = l]
    BY <1>7 DEF Request, Register, Submit, SubmitFails, Receive, Abandon, Timeout, Fail, Goto
  <2>3. QED
    BY <1>1, <1>2, <2>1, <2>2
<1>8. ASSUME NEW t \in Turns, TurnBegins(t) \/ Round(t) PROVE ListInv'
  <2>1. UNCHANGED finding /\ (pc' = pc \/ \E l : pc' = [pc EXCEPT ![t] = l])
    BY <1>8 DEF TurnBegins, Round, NextCall, CallEnds, RoundEnds, Goto
  <2>2. t # Discovery
    OBVIOUS
  <2>3. QED
    BY <1>1, <1>2, <2>1, <2>2
<1>9. ASSUME NEW t \in Turns, Abort(t) PROVE ListInv'
  BY <1>6, <1>9 DEF Abort, calling
<1>10. CASE Write \/ Answer \/ Lookup \/ Deliver \/ Close \/ Clear \/ UNCHANGED vars
  BY <1>6, <1>10 DEF Write, Answer, Lookup, Deliver, Close, Clear, calling, vars
<1>11. QED
  BY <1>3, <1>4, <1>5, <1>7, <1>8, <1>9, <1>10 DEF Next, Discover

LEMMA TellInit == Init => TellInv
<1> SUFFICES ASSUME Init PROVE TellInv
  OBVIOUS
<1>1. results \in [Turns -> Seq(Nat)]
  BY DEF Init
<1>2. \A t \in Turns : Len(results[t]) = 0 /\ made[t] = 0 /\ pc[t] = "idle"
  BY DiscoveryCalls DEF Init
<1>3. QED
  BY <1>1, <1>2 DEF TellInv, Told, InCall

LEMMA TellStep == TypeOK /\ TellInv /\ [Next]_vars => TellInv'
<1> SUFFICES ASSUME TypeOK, TellInv, [Next]_vars PROVE TellInv'
  OBVIOUS
<1> USE DiscoveryCalls DEF device, finding, turning, ending
<1>1. /\ pc \in [Callers -> Places] /\ made \in [Turns -> 0 .. Calls]
      /\ results \in [Turns -> Seq(Nat)]
  BY DEF TypeOK, TellInv
<1>2. ASSUME UNCHANGED turning,
             \A t \in Turns : pc'[t] \in InCall <=> pc[t] \in InCall
      PROVE  TellInv'
  BY <1>2 DEF TellInv, Told
<1>3. ASSUME NEW t \in Turns, \A u \in Turns \ {t} : made'[u] = made[u] /\ pc'[u] = pc[u],
             results' = [results EXCEPT ![t] = Append(@, made'[t])],
             made'[t] = Len(results[t]) + 1, pc'[t] \notin InCall
      PROVE  TellInv'
  <2> DEFINE s == results[t]
             k == made'[t]
  <2>1. s \in Seq(Nat) /\ k \in Nat /\ k = Len(s) + 1
    BY <1>1, <1>3, LenProperties
  <2>2. \A i \in 1 .. Len(s) : s[i] = i
    BY DEF TellInv, Told
  <2>3. /\ results' \in [Turns -> Seq(Nat)] /\ results'[t] = Append(s, k)
        /\ \A u \in Turns \ {t} : results'[u] = results[u]
    BY <1>1, <1>3, <2>1, AppendProperties
  <2>4. Len(Append(s, k)) = k /\ \A i \in 1 .. k : Append(s, k)[i] = i
    <3> HIDE DEF s, k
    <3>1. QED
      BY <2>1, <2>2, AppendProperties
  <2>5. Told(t)'
    BY <1>3, <2>3, <2>4 DEF Told
  <2>6. \A u \in Turns \ {t} : Told(u)'
    BY <1>3, <2>3 DEF TellInv, Told
  <2>7. QED
    BY <2>3, <2>5, <2>6 DEF TellInv
<1>4. ASSUME NEW t \in Turns, NextCall(t) PROVE TellInv'
  <2>1. made[t] = Len(results[t]) /\ made' = [made EXCEPT ![t] = Len(results[t]) + 1]
    BY <1>4 DEF NextCall, TellInv, Told, InCall
  <2>2. \A u \in Turns \ {t} : made'[u] = made[u]
    BY <1>1, <2>1
  <2>3. made'[t] = Len(results[t]) + 1
    BY <1>1, <2>1
  <2>4. CASE UNCHANGED pc /\ Result(t)
    BY <1>3, <1>4, <2>2, <2>3, <2>4 DEF NextCall, Result, InCall
  <2>5. CASE Goto(t, "start") /\ UNCHANGED results
    <3>1. Told(t)'
      BY <1>1, <2>1, <2>3, <2>5 DEF TellInv, Told, Goto, InCall
    <3>2. \A u \in Turns \ {t} : Told(u)'
      BY <1>1, <2>2, <2>5 DEF TellInv, Told, Goto
    <3>3. QED
      BY <1>1, <2>5, <3>1, <3>2 DEF TellInv
  <2>6. QED
    BY <1>4, <2>4, <2>5 DEF NextCall
<1>5. ASSUME NEW t \in Turns, CallEnds(t) PROVE TellInv'
  <2>1. made' = made /\ made'[t] = Len(results[t]) + 1 /\ Result(t)
    BY <1>5 DEF CallEnds, Tell, TellInv, Told, InCall
  <2>2. pc'[t] = "choose" /\ \A u \in Turns \ {t} : pc'[u] = pc[u]
    BY <1>1, <1>5 DEF CallEnds, Goto
  <2>3. QED
    BY <1>3, <2>1, <2>2 DEF Result, InCall
<1>6. ASSUME NEW c \in Callers, Request(c) \/ Timeout(c) PROVE TellInv'
  <2>1. pc[c] \in InCall /\ UNCHANGED turning
    BY <1>6 DEF Request, Register, Submit, SubmitFails, Receive, Abandon, Timeout, InCall
  <2>2. \E l \in InCall : pc' = [pc EXCEPT ![c] = l]
    BY <1>6 DEF Request, Register, Submit, SubmitFails, Receive, Abandon, Timeout, Fail, Goto,
                InCall
  <2>3. QED
    BY <1>1, <1>2, <2>1, <2>2
<1>7. ASSUME NEW t \in Turns, TurnBegins(t) \/ RoundEnds(t) PROVE TellInv'
  <2>1. pc[t] \notin InCall /\ UNCHANGED turning
    BY <1>7 DEF TurnBegins, RoundEnds, InCall
  <2>2. \E l : l \notin InCall /\ pc' = [pc EXCEPT ![t] = l]
    BY <1>7 DEF TurnBegins, RoundEnds, Goto, InCall
  <2>3. QED
    BY <1>1, <1>2, <2>1, <2>2
<1>8. CASE DiscoverBegins \/ Answered \/ DiscoveryFails \/ Store
  <2>1. UNCHANGED turning /\ \E l : pc' = [pc EXCEPT ![Discovery] = l]
    BY <1>8 DEF DiscoverBegins, Answered, DiscoveryFails, Store, Goto
  <2>2. \A t \in Turns : pc'[t] = pc[t]
    BY <1>1, <2>1
  <2>3. QED
    BY <1>2, <2>1, <2>2
<1>9. ASSUME UNCHANGED turning, UNCHANGED pc PROVE TellInv'
  BY <1>2, <1>9
<1>10. ASSUME NEW t \in Turns, Abort(t) PROVE TellInv'
  BY <1>9, <1>10 DEF Abort, calling
<1>11. CASE Write \/ Answer \/ Lookup \/ Deliver \/ Close \/ Clear \/ UNCHANGED vars
  BY <1>9, <1>11 DEF Write, Answer, Lookup, Deliver, Close, Clear, calling, vars
<1>12. QED
  BY <1>4, <1>5, <1>6, <1>7, <1>8, <1>10, <1>11 DEF Next, Round, Discover

------------------------------------------------------------------------------
(* The theorems.                                                              *)

LEMMA McpInvariant == Spec => []McpInv
<1>1. Init => McpInv
  <2>1. Init => OwnAnswer /\ ListInv
    BY McpAssumption DEF Init, OwnAnswer, ListInv, IsPrefix, Pages, Callers
  <2>2. QED
    BY <2>1, TypesInit, PendInit, FlyInit, TellInit DEF McpInv
<1>2. McpInv /\ [Next]_vars => McpInv'
  BY TypesStep, PendStep, FlyStep, OwnStep, ListStep, TellStep DEF McpInv
<1>3. QED
  BY <1>1, <1>2, PTL DEF Spec

(* Types; discovery asks for no more than MaxPages pages, whatever cursors    *)
(* the device sends (TypeOK; mcp.go discoverMCPTools).                        *)
THEOREM McpTypes == Spec => []TypeOK
<1>1. McpInv => TypeOK
  BY DEF McpInv
<1>2. QED
  BY McpInvariant, <1>1, PTL

(* A caller only ever receives the answer to what it asked, and the map holds *)
(* the channels of the requests under way and no others (Correlated;          *)
(* sendMCPRequest and handleIncomingMCP), for any number of turns and answers *)
(* however late or repeated.                                                  *)
THEOREM AnswersAreCorrelated == Spec => []Correlated
<1>1. McpInv => Correlated
  BY DEF McpInv, PendInv, Correlated
<1>2. QED
  BY McpInvariant, <1>1, PTL

(* The tools offered are the first pages of the device's list, and every tool *)
(* call has its one tool message in order (ToolsAreSound; discoverMCPTools    *)
(* and the tool round of orchestration.go).                                   *)
THEOREM ToolRoundsAreSound == Spec => []ToolsAreSound
<1>1. McpInv => ListIsAPrefix
  BY DEF McpInv, ListInv, IsPrefix, ListIsAPrefix
<1>2. McpInv => EveryCallIsTold
  BY DEF McpInv, TellInv, Told, EveryCallIsTold, InCall
<1>3. McpInv => ToolsAreSound
  BY <1>1, <1>2 DEF ToolsAreSound
<1>4. QED
  BY McpInvariant, <1>3, PTL
==============================================================================
