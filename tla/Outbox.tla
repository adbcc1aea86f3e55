-------------------------------- MODULE Outbox --------------------------------
(***************************************************************************)
(* What the serial writer of a connection promises to its callers: a       *)
(* bounded queue that sends what it has accepted in order and once, that   *)
(* may discard, and that accepts nothing after it was closed.  A message   *)
(* is its number in the order of acceptance.                               *)
(***************************************************************************)
EXTENDS Naturals, SequencesExt

CONSTANT Capacity      (* of the queue; one more message may be in flight      *)

VARIABLES open, issued, pending, sent

vars == <<open, issued, pending, sent>>

Init == open = TRUE /\ issued = 0 /\ pending = <<>> /\ sent = <<>>

Accept ==
  /\ open /\ Len(pending) <= Capacity
  /\ issued' = issued + 1
  /\ pending' = Append(pending, issued')
  /\ UNCHANGED <<open, sent>>

Send ==
  /\ pending # <<>>
  /\ sent' = Append(sent, Head(pending)) /\ pending' = Tail(pending)
  /\ UNCHANGED <<open, issued>>

Discard ==
  /\ \E i \in DOMAIN pending : pending' = RemoveAt(pending, i)
  /\ UNCHANGED <<open, issued, sent>>

Close == open /\ open' = FALSE /\ UNCHANGED <<issued, pending, sent>>

Next == Accept \/ Send \/ Discard \/ Close

Spec == Init /\ [][Next]_vars
==============================================================================
