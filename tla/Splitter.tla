-------------------------------- MODULE Splitter -------------------------------
(***************************************************************************)
(* The sentence splitter, src/internal/session/splitter.go: the text of    *)
(* the model is fed in chunks cut anywhere, and sentences come out as soon *)
(* as they are ready.  A character is its class:                           *)
(*   "a" content   "9" a digit   "." the full stop   "!" other punctuation *)
(*   ")" a closing mark   "_" a space   "n" a newline, which is both a     *)
(*   space and punctuation.                                                *)
(***************************************************************************)
EXTENDS Naturals, Sequences

CONSTANTS
  Chars,              (* classes in the text                                  *)
  maxSentenceRunes,
  MaxText,            (* bound: length of the text                            *)
  MaxChunk            (* bound: length of a chunk                             *)

ASSUME SplitterAssumption == maxSentenceRunes \in Nat \ {0}

VARIABLES
  fed,                (* all the text so far                                  *)
  buffer,             (* s.buffer                                             *)
  sentences,          (* returned by Feed and Flush, with their places in fed *)
  cuts,               (* where in the text they end, and whether at full length *)
  flushed             (* Flush was called                                     *)

vars == <<fed, buffer, sentences, cuts, flushed>>

Spaces == {"_", "n"}
Punctuation == {".", "!", "n"}
TrailingPunctuation == Punctuation \cup {")"}

NeverPoint(b, i) == FALSE          (* mutant of isPeriodDecimalPoint            *)

(* A stop between digits; at the end of the buffer it may still become one.   *)
isPeriodDecimalPoint(b, i) ==
  /\ b[i] = "." /\ i > 1 /\ b[i - 1] = "9"
  /\ IF i < Len(b) THEN b[i + 1] = "9" ELSE Len(b) < maxSentenceRunes

(* The place of the first element outside S, one past the end if none is.     *)
FirstNot(b, from, S) ==
  CHOOSE i \in from .. Len(b) + 1 :
    /\ i = Len(b) + 1 \/ b[i] \notin S
    /\ \A j \in from .. i - 1 : b[j] \in S

(* The place of the last element outside S, 0 if none is.                     *)
LastNot(b, S) ==
  CHOOSE i \in 0 .. Len(b) :
    /\ i = 0 \/ b[i] \notin S
    /\ \A j \in i + 1 .. Len(b) : b[j] \in S

SkipSpace(b) == SubSeq(b, FirstNot(b, 1, Spaces), Len(b))
TrimSpace(b) == SubSeq(b, FirstNot(b, 1, Spaces), LastNot(b, Spaces))

(* Punctuation that ends a sentence, among the first maxSentenceRunes.        *)
Ends(b) == {i \in 1 .. Len(b) :
  /\ i <= maxSentenceRunes /\ b[i] \in Punctuation /\ ~isPeriodDecimalPoint(b, i)
  /\ \E j \in 1 .. i : b[j] \notin TrailingPunctuation}

NoForcedCut(b) == 0                (* mutant of ForcedCut                       *)
ForcedCut(b) == IF Len(b) >= maxSentenceRunes THEN maxSentenceRunes ELSE 0

(* splitEnd: with the marks that follow, or at full length, or 0.             *)
SplitEnd(b) ==
  IF Ends(b) = {} THEN ForcedCut(b)
  ELSE LET first == CHOOSE i \in Ends(b) : \A j \in Ends(b) : i <= j
       IN  FirstNot(b, first + 1, TrailingPunctuation) - 1

(* The sentence in b, which stands after the first at characters of the text. *)
Sentence(b, at) ==
  [text |-> TrimSpace(b), from |-> at + FirstNot(b, 1, Spaces), to |-> at + LastNot(b, Spaces)]

Say(out, b, at) == IF TrimSpace(b) = << >> THEN out ELSE Append(out, Sentence(b, at))

(* An iteration of the loop of split, which stops once nothing is cut off.    *)
SplitStep(text, s) ==
  LET rest == SkipSpace(s.buffer)
      at   == Len(text) - Len(rest)
      cut  == SplitEnd(rest)
  IN IF cut = 0 THEN [s EXCEPT !.buffer = rest]
     ELSE [buffer    |-> SubSeq(rest, cut + 1, Len(rest)),
           sentences |-> Say(s.sentences, SubSeq(rest, 1, cut), at),
           cuts      |-> s.cuts \cup {<<at + cut, cut >= maxSentenceRunes>>}]

(* The whole loop: every iteration but the last takes a character at least.   *)
Split(text, s) ==
  LET after[n \in 0 .. Len(s.buffer)] ==
        IF n = 0 THEN s ELSE SplitStep(text, after[n - 1])
  IN after[Len(s.buffer)]

------------------------------------------------------------------------------

Init == fed = <<>> /\ buffer = <<>> /\ sentences = <<>> /\ cuts = {} /\ flushed = FALSE

Feed(chunk) ==
  /\ ~flushed
  /\ fed' = fed \o chunk
  /\ LET s == Split(fed', [buffer |-> buffer \o chunk, sentences |-> sentences, cuts |-> cuts])
     IN  buffer' = s.buffer /\ sentences' = s.sentences /\ cuts' = s.cuts
  /\ UNCHANGED flushed

Flush ==
  /\ ~flushed /\ flushed' = TRUE /\ buffer' = <<>>
  /\ sentences' = Say(sentences, buffer, Len(fed) - Len(buffer))
  /\ UNCHANGED <<fed, cuts>>

Chunks == UNION {[1 .. n -> Chars] : n \in 1 .. MaxChunk}

Next ==
  \/ \E chunk \in Chunks : Len(fed) + Len(chunk) <= MaxText /\ Feed(chunk)
  \/ Flush

Spec == Init /\ [][Next]_vars

------------------------------------------------------------------------------
(* Properties.                                                                *)

(* Types; Feed never keeps as much as a full sentence (the first audio does   *)
(* not wait for punctuation that does not come), nor a blank in front; and no *)
(* sentence is blank or has blanks around it.                                 *)
TypeOK ==
  /\ fed \in Seq(Chars) /\ flushed \in BOOLEAN
  /\ buffer \in Seq(Chars) /\ Len(buffer) < maxSentenceRunes /\ SkipSpace(buffer) = buffer
  /\ sentences \in Seq([text : Seq(Chars), from : Nat, to : Nat])
  /\ \A i \in DOMAIN sentences :
       sentences[i].text # <<>> /\ TrimSpace(sentences[i].text) = sentences[i].text
  /\ cuts \subseteq Nat \X BOOLEAN

(* However the text is cut into chunks, what is spoken is the text: the       *)
(* sentences and the buffer are pieces of it, in order, and nothing outside   *)
(* them is more than a space.                                                 *)
NothingLost ==
  /\ \A i \in DOMAIN sentences :
       sentences[i].text = SubSeq(fed, sentences[i].from, sentences[i].to)
  /\ \A i, j \in DOMAIN sentences : i < j => sentences[i].to < sentences[j].from
  /\ \A i \in DOMAIN sentences : sentences[i].to <= Len(fed) - Len(buffer)
  /\ buffer = SubSeq(fed, Len(fed) - Len(buffer) + 1, Len(fed))
  /\ \A k \in 1 .. Len(fed) - Len(buffer) :
       fed[k] \in Spaces \/ \E i \in DOMAIN sentences : k \in sentences[i].from .. sentences[i].to

(* And no number is cut at its point, even if the chunk ended there, unless   *)
(* the sentence is at full length.                                            *)
DecimalsStayWhole == \A c \in cuts :
  LET k == c[1] IN
  (k > 1 /\ k < Len(fed) /\ fed[k - 1] = "9" /\ fed[k] = "." /\ fed[k + 1] = "9") => c[2]

(* The device is told to speak what the model wrote (splitter.go split,       *)
(* Flush, isPeriodDecimalPoint).                                              *)
SpokenAsWritten == NothingLost /\ DecimalsStayWhole
==============================================================================
