--------------------------- MODULE SplitterProofs ---------------------------
(***************************************************************************)
(* Proofs about Splitter, for every text, every way to cut it into chunks  *)
(* and every maximal length.                                               *)
(***************************************************************************)
EXTENDS Splitter, Integers, SequenceTheorems, WellFoundedInduction, TLAPS

------------------------------------------------------------------------------
(* Induction over data, from the well-foundedness of < on Nat.                *)

LEMMA Least ==
  ASSUME NEW T \in SUBSET Nat, T # {}
  PROVE  \E x \in T : \A y \in T : x <= y
<1>1. PICK x \in T : \A y \in T : ~(<<y, x>> \in OpToRel(<, Nat))
  BY NatLessThanWellFounded, WFMin
<1>2. \A y \in T : ~(y < x)
  BY <1>1 DEF OpToRel
<1> QED
  BY <1>2

LEMMA AllNumbers ==
  ASSUME NEW T \in SUBSET Nat, 0 \in T, \A n \in T : n + 1 \in T
  PROVE  T = Nat
<1> SUFFICES ASSUME Nat \ T # {} PROVE FALSE
  OBVIOUS
<1>1. PICK x \in Nat \ T : \A y \in Nat \ T : x <= y
  BY Least
<1>2. x # 0 /\ x - 1 \in Nat
  OBVIOUS
<1>3. x - 1 \in T
  BY <1>1, <1>2
<1> QED
  BY <1>1, <1>2, <1>3

------------------------------------------------------------------------------
(* Places in a text.                                                          *)

LEMMA FirstNotFacts ==
  ASSUME NEW b \in Seq(Chars), NEW from \in 1 .. Len(b) + 1, NEW S, NEW i, i = FirstNot(b, from, S)
  PROVE  /\ i \in from .. Len(b) + 1
         /\ i = Len(b) + 1 \/ b[i] \notin S
         /\ \A j \in from .. i - 1 : b[j] \in S
<1> DEFINE T == {k \in from .. Len(b) + 1 : k = Len(b) + 1 \/ b[k] \notin S}
<1>1. Len(b) \in Nat
  OBVIOUS
<1>2. T \in SUBSET Nat /\ Len(b) + 1 \in T
  BY <1>1
<1>3. PICK x \in T : \A y \in T : x <= y
  BY <1>2, Least
<1>4. \A j \in from .. x - 1 : b[j] \in S
  BY <1>1, <1>2, <1>3
<1> QED
  BY <1>3, <1>4 DEF FirstNot

LEMMA LastNotFacts ==
  ASSUME NEW b \in Seq(Chars), NEW S, NEW i, i = LastNot(b, S)
  PROVE  /\ i \in 0 .. Len(b)
         /\ i = 0 \/ b[i] \notin S
         /\ \A j \in i + 1 .. Len(b) : b[j] \in S
<1> DEFINE T == {d \in 0 .. Len(b) : d = Len(b) \/ b[Len(b) - d] \notin S}
<1>1. Len(b) \in Nat
  OBVIOUS
<1>2. T \in SUBSET Nat /\ Len(b) \in T
  BY <1>1
<1>3. PICK x \in T : \A y \in T : x <= y
  BY <1>2, Least
<1> DEFINE z == Len(b) - x
<1>4. z \in 0 .. Len(b) /\ (z = 0 \/ b[z] \notin S)
  BY <1>1, <1>3
<1>5. ASSUME NEW j \in z + 1 .. Len(b) PROVE b[j] \in S
  <2>1. Len(b) - j \in 0 .. Len(b) /\ Len(b) - j < x /\ Len(b) - (Len(b) - j) = j
    BY <1>1, <1>3
  <2> QED
    BY <1>1, <1>3, <2>1
<1> QED
  BY <1>4, <1>5 DEF LastNot

(* A piece of a text.                                                         *)
LEMMA Piece ==
  ASSUME NEW b \in Seq(Chars), NEW lo \in Nat, NEW hi \in Nat, lo >= 1, hi <= Len(b), lo <= hi + 1
  PROVE  /\ SubSeq(b, lo, hi) \in Seq(Chars) /\ Len(SubSeq(b, lo, hi)) = hi - lo + 1
         /\ \A i \in 1 .. hi - lo + 1 : SubSeq(b, lo, hi)[i] = b[lo + i - 1]
<1>1. Len(b) \in Nat
  OBVIOUS
<1>2. \A i \in lo .. hi : b[i] \in Chars
  BY <1>1
<1> QED
  BY <1>1, <1>2, SubSeqProperties

LEMMA SameText ==
  ASSUME NEW a \in Seq(Chars), NEW b \in Seq(Chars), Len(a) = Len(b), \A i \in 1 .. Len(a) : a[i] = b[i]
  PROVE  a = b
  BY SeqEqual

LEMMA SamePiece ==
  ASSUME NEW a \in Seq(Chars), NEW b \in Seq(Chars), NEW off \in Nat, NEW lo \in Nat, NEW hi \in Nat,
         lo >= 1, lo <= hi, hi <= Len(b), off + hi <= Len(a), \A i \in lo .. hi : b[i] = a[off + i]
  PROVE  SubSeq(a, off + lo, off + hi) = SubSeq(b, lo, hi)
<1> DEFINE p == SubSeq(b, lo, hi)
           q == SubSeq(a, off + lo, off + hi)
<1>1. p \in Seq(Chars) /\ Len(p) = hi - lo + 1 /\ \A i \in 1 .. hi - lo + 1 : p[i] = b[lo + i - 1]
  BY Piece
<1>2. /\ off + lo \in Nat /\ off + hi \in Nat /\ off + lo >= 1 /\ off + lo <= (off + hi) + 1
      /\ (off + hi) - (off + lo) + 1 = hi - lo + 1
  OBVIOUS
<1>3. /\ q \in Seq(Chars) /\ Len(q) = hi - lo + 1
      /\ \A i \in 1 .. hi - lo + 1 : q[i] = a[(off + lo) + i - 1]
  BY <1>2, Piece
<1>4. ASSUME NEW i \in 1 .. hi - lo + 1 PROVE q[i] = p[i]
  <2>1. lo + i - 1 \in lo .. hi /\ (off + lo) + i - 1 = off + (lo + i - 1)
    OBVIOUS
  <2> QED
    BY <1>1, <1>3, <2>1
<1> HIDE DEF p, q
<1>5. q = p
  BY <1>1, <1>3, <1>4, SameText
<1> QED
  BY <1>5 DEF p, q

LEMMA SkipSpaceFacts ==
  ASSUME NEW b \in Seq(Chars)
  PROVE  /\ SkipSpace(b) \in Seq(Chars)
         /\ \E skip \in 0 .. Len(b) :
              /\ Len(SkipSpace(b)) = Len(b) - skip
              /\ \A i \in 1 .. Len(b) - skip : SkipSpace(b)[i] = b[skip + i]
              /\ \A i \in 1 .. skip : b[i] \in Spaces
         /\ Len(SkipSpace(b)) = 0 \/ SkipSpace(b)[1] \notin Spaces
<1> DEFINE i == FirstNot(b, 1, Spaces)
<1>1. Len(b) \in Nat
  OBVIOUS
<1>2. /\ i \in 1 .. Len(b) + 1
      /\ i = Len(b) + 1 \/ b[i] \notin Spaces
      /\ \A j \in 1 .. i - 1 : b[j] \in Spaces
  BY <1>1, FirstNotFacts
<1> HIDE DEF i
<1>3. SkipSpace(b) = SubSeq(b, i, Len(b))
  BY DEF SkipSpace, i
<1>4. /\ SkipSpace(b) \in Seq(Chars) /\ Len(SkipSpace(b)) = Len(b) - i + 1
      /\ \A k \in 1 .. Len(b) - i + 1 : SkipSpace(b)[k] = b[i + k - 1]
  BY <1>1, <1>2, <1>3, Piece
<1> DEFINE skip == i - 1
<1>5. skip \in 0 .. Len(b) /\ Len(SkipSpace(b)) = Len(b) - skip
  BY <1>1, <1>2, <1>4
<1>6. \A k \in 1 .. Len(b) - skip : SkipSpace(b)[k] = b[skip + k]
  BY <1>1, <1>2, <1>4
<1>7. Len(SkipSpace(b)) = 0 \/ SkipSpace(b)[1] \notin Spaces
  BY <1>1, <1>2, <1>4
<1> QED
  BY <1>2, <1>4, <1>5, <1>6, <1>7

LEMMA NothingToSkip ==
  ASSUME NEW b \in Seq(Chars), Len(b) = 0 \/ b[1] \notin Spaces
  PROVE  SkipSpace(b) = b
<1> DEFINE i == FirstNot(b, 1, Spaces)
<1>1. Len(b) \in Nat
  OBVIOUS
<1>2. i \in 1 .. Len(b) + 1 /\ \A j \in 1 .. i - 1 : b[j] \in Spaces
  BY <1>1, FirstNotFacts
<1>3. i = 1
  BY <1>1, <1>2
<1>4. SkipSpace(b) = SubSeq(b, 1, Len(b))
  BY <1>3 DEF SkipSpace
<1> QED
  BY <1>1, <1>4, Piece, SameText

LEMMA TrimSpaceFacts ==
  ASSUME NEW b \in Seq(Chars), NEW lo, NEW hi, lo = FirstNot(b, 1, Spaces), hi = LastNot(b, Spaces)
  PROVE  /\ TrimSpace(b) = SubSeq(b, lo, hi) /\ TrimSpace(b) \in Seq(Chars)
         /\ lo \in 1 .. Len(b) + 1 /\ hi \in 0 .. Len(b)
         /\ \A i \in 1 .. Len(b) : i < lo \/ i > hi => b[i] \in Spaces
         /\ TrimSpace(b) # << >> <=> lo <= hi
         /\ lo <= hi => b[lo] \notin Spaces /\ b[hi] \notin Spaces
<1>1. Len(b) \in Nat
  OBVIOUS
<1>2. /\ lo \in 1 .. Len(b) + 1
      /\ lo = Len(b) + 1 \/ b[lo] \notin Spaces
      /\ \A j \in 1 .. lo - 1 : b[j] \in Spaces
  BY <1>1, FirstNotFacts
<1>3. /\ hi \in 0 .. Len(b)
      /\ hi = 0 \/ b[hi] \notin Spaces
      /\ \A j \in hi + 1 .. Len(b) : b[j] \in Spaces
  BY LastNotFacts
<1>4. TrimSpace(b) = SubSeq(b, lo, hi)
  BY DEF TrimSpace
<1>5. \A i \in 1 .. Len(b) : i < lo \/ i > hi => b[i] \in Spaces
  BY <1>1, <1>2, <1>3
<1>6. CASE lo <= hi
  <2>1. TrimSpace(b) \in Seq(Chars) /\ Len(TrimSpace(b)) = hi - lo + 1
    BY <1>1, <1>2, <1>3, <1>4, <1>6, Piece
  <2>2. TrimSpace(b) # << >>
    BY <1>1, <1>2, <1>3, <1>6, <2>1
  <2> QED
    BY <1>1, <1>2, <1>3, <1>4, <1>5, <1>6, <2>1, <2>2
<1>7. CASE lo > hi
  <2>1. TrimSpace(b) = << >>
    BY <1>1, <1>2, <1>3, <1>4, <1>7, SubSeqEmpty
  <2> QED
    BY <1>1, <1>2, <1>3, <1>4, <1>5, <1>7, <2>1
<1> QED
  BY <1>1, <1>2, <1>3, <1>6, <1>7

LEMMA NothingToTrim ==
  ASSUME NEW b \in Seq(Chars), Len(b) > 0, b[1] \notin Spaces, b[Len(b)] \notin Spaces
  PROVE  TrimSpace(b) = b
<1> DEFINE lo == FirstNot(b, 1, Spaces)
           hi == LastNot(b, Spaces)
<1>1. Len(b) \in Nat /\ 1 \in 1 .. Len(b) /\ Len(b) \in 1 .. Len(b)
  OBVIOUS
<1>2. /\ TrimSpace(b) = SubSeq(b, lo, hi) /\ lo \in 1 .. Len(b) + 1 /\ hi \in 0 .. Len(b)
      /\ \A i \in 1 .. Len(b) : i < lo \/ i > hi => b[i] \in Spaces
  BY TrimSpaceFacts
<1> HIDE DEF lo, hi
<1>3. lo = 1 /\ hi = Len(b)
  BY <1>1, <1>2
<1> QED
  BY <1>2, <1>3, SubSeqFull

LEMMA TrimTwice ==
  ASSUME NEW b \in Seq(Chars), TrimSpace(b) # << >>
  PROVE  TrimSpace(TrimSpace(b)) = TrimSpace(b)
<1> DEFINE lo == FirstNot(b, 1, Spaces)
           hi == LastNot(b, Spaces)
<1>0. /\ TrimSpace(b) = SubSeq(b, lo, hi) /\ lo \in 1 .. Len(b) + 1 /\ hi \in 0 .. Len(b)
      /\ TrimSpace(b) # << >> <=> lo <= hi
      /\ lo <= hi => b[lo] \notin Spaces /\ b[hi] \notin Spaces
  BY TrimSpaceFacts
<1> HIDE DEF lo, hi
<1>1. /\ TrimSpace(b) = SubSeq(b, lo, hi) /\ lo \in 1 .. Len(b) + 1 /\ hi \in 0 .. Len(b)
      /\ lo <= hi /\ b[lo] \notin Spaces /\ b[hi] \notin Spaces /\ Len(b) \in Nat
  BY <1>0
<1>2. /\ TrimSpace(b) \in Seq(Chars) /\ Len(TrimSpace(b)) = hi - lo + 1
      /\ \A i \in 1 .. hi - lo + 1 : TrimSpace(b)[i] = b[lo + i - 1]
  BY <1>1, Piece
<1>3. TrimSpace(b)[1] = b[lo] /\ TrimSpace(b)[hi - lo + 1] = b[hi]
  BY <1>1, <1>2
<1>4. Len(TrimSpace(b)) > 0
  BY <1>1, <1>2
<1> DEFINE t == TrimSpace(b)
<1>5. t \in Seq(Chars) /\ Len(t) > 0 /\ t[1] \notin Spaces /\ t[Len(t)] \notin Spaces
  BY <1>1, <1>2, <1>3, <1>4
<1> HIDE DEF t
<1>6. TrimSpace(t) = t
  BY <1>5, NothingToTrim
<1> QED
  BY <1>6 DEF t

------------------------------------------------------------------------------
(* Where a sentence is cut.                                                   *)

(* A number goes on after k, or may go on with the next chunk.                *)
AtPoint(text, k) ==
  k > 1 /\ text[k - 1] = "9" /\ text[k] = "." /\ (k < Len(text) => text[k + 1] = "9")

LEMMA SplitEndFacts ==
  ASSUME NEW b \in Seq(Chars), NEW cut, cut = SplitEnd(b)
  PROVE  /\ cut \in 0 .. Len(b)
         /\ cut = 0 => Len(b) < maxSentenceRunes
         /\ cut # 0 => cut >= maxSentenceRunes \/ (cut > 1 /\ ~AtPoint(b, cut))
<1>1. Len(b) \in Nat /\ maxSentenceRunes \in Nat /\ maxSentenceRunes > 0
  BY SplitterAssumption DEF SplitterAssumption
<1>2. CASE Ends(b) = {}
  BY <1>1, <1>2 DEF SplitEnd, ForcedCut
<1>3. CASE Ends(b) # {}
  <2> DEFINE first == CHOOSE i \in Ends(b) : \A j \in Ends(b) : i <= j
             end == FirstNot(b, first + 1, TrailingPunctuation)
  <2>1. Ends(b) \in SUBSET Nat
    BY DEF Ends
  <2>2. first \in Ends(b)
    BY <1>3, <2>1, Least
  <2>3. cut = end - 1
    BY <1>3 DEF SplitEnd
  <2> HIDE DEF first
  <2>4. /\ first \in 1 .. Len(b) /\ b[first] \in Punctuation /\ ~isPeriodDecimalPoint(b, first)
        /\ \E j \in 1 .. first : b[j] \notin TrailingPunctuation
    BY <2>2 DEF Ends
  <2>5. first > 1
    BY <1>1, <2>4 DEF TrailingPunctuation
  <2>6. first + 1 \in 1 .. Len(b) + 1
    BY <1>1, <2>4
  <2>7. /\ end \in first + 1 .. Len(b) + 1
        /\ \A j \in first + 1 .. end - 1 : b[j] \in TrailingPunctuation
    BY <2>6, FirstNotFacts
  <2> HIDE DEF end
  <2>8. cut \in first .. Len(b) /\ cut > 1
    BY <1>1, <2>3, <2>4, <2>5, <2>7
  <2>9. CASE cut = first
    <3>1. AtPoint(b, cut) => first = Len(b) /\ Len(b) >= maxSentenceRunes
      BY <1>1, <2>4, <2>9 DEF AtPoint, isPeriodDecimalPoint
    <3> QED
      BY <1>1, <2>4, <2>5, <2>8, <2>9, <3>1
  <2>10. CASE cut > first
    <3>1. b[cut - 1] \in TrailingPunctuation
      BY <1>1, <2>3, <2>4, <2>7, <2>8, <2>10 DEF TrailingPunctuation
    <3>2. ~AtPoint(b, cut)
      BY <3>1 DEF AtPoint, TrailingPunctuation, Punctuation
    <3> QED
      BY <1>1, <2>4, <2>8, <3>2
  <2> QED
    BY <1>1, <2>4, <2>8, <2>9, <2>10
<1> QED
  BY <1>2, <1>3

------------------------------------------------------------------------------
(* What has been spoken.                                                      *)

Spoken == [text : Seq(Chars), from : Nat, to : Nat]

Quotes(text, x) ==
  /\ 1 <= x.from /\ x.from <= x.to /\ x.to <= Len(text)
  /\ x.text = SubSeq(text, x.from, x.to)
  /\ x.text # << >> /\ TrimSpace(x.text) = x.text

(* The sentences in out are the text up to a place.                           *)
Said(text, out, upto) ==
  /\ out \in Seq(Spoken)
  /\ \A i \in 1 .. Len(out) : Quotes(text, out[i]) /\ out[i].to <= upto
  /\ \A i, j \in 1 .. Len(out) : i < j => out[i].to < out[j].from
  /\ \A k \in 1 .. upto :
       text[k] \in Spaces \/ \E i \in 1 .. Len(out) : out[i].from <= k /\ k <= out[i].to

LEMMA SaidBlanks ==
  ASSUME NEW text \in Seq(Chars), NEW out, NEW u \in Nat, NEW v \in Nat, Said(text, out, u), u <= v,
         \A k \in 1 .. v : k > u => text[k] \in Spaces
  PROVE  Said(text, out, v)
<1>1. \A i \in 1 .. Len(out) : out[i] \in Spoken
  BY DEF Said
<1>2. \A i \in 1 .. Len(out) : out[i].to <= v
  BY <1>1 DEF Said, Spoken
<1>3. \A k \in 1 .. v : k <= u => k \in 1 .. u
  OBVIOUS
<1> QED
  BY <1>2, <1>3 DEF Said

LEMMA SaidLonger ==
  ASSUME NEW text \in Seq(Chars), NEW chunk \in Seq(Chars), NEW out, NEW u \in 0 .. Len(text),
         Said(text, out, u)
  PROVE  Said(text \o chunk, out, u)
<1> DEFINE T == text \o chunk
<1>1. /\ T \in Seq(Chars) /\ Len(T) = Len(text) + Len(chunk) /\ Len(text) \in Nat /\ Len(chunk) \in Nat
      /\ \A i \in 1 .. Len(text) : T[i] = text[i]
  BY ConcatProperties
<1> HIDE DEF T
<1>2. ASSUME NEW i \in 1 .. Len(out) PROVE Quotes(T, out[i])
  <2> DEFINE x == out[i]
  <2>1. x \in Spoken /\ Quotes(text, x)
    BY DEF Said
  <2> HIDE DEF x
  <2>2. x.from \in Nat /\ x.to \in Nat /\ 1 <= x.from /\ x.from <= x.to /\ x.to <= Len(text)
    BY <2>1 DEF Spoken, Quotes
  <2>3. SubSeq(T, x.from, x.to) = SubSeq(text, x.from, x.to)
    <3>1. PICK z \in Nat, lo \in Nat, hi \in Nat : z = 0 /\ lo = x.from /\ hi = x.to
      BY <2>2
    <3>2. \A m \in lo .. hi : text[m] = T[z + m]
      BY <1>1, <2>2, <3>1
    <3>3. z + hi <= Len(T) /\ hi <= Len(text) /\ lo >= 1 /\ lo <= hi
      BY <1>1, <2>2, <3>1
    <3>4. SubSeq(T, z + lo, z + hi) = SubSeq(text, lo, hi)
      <4> HIDE DEF x
      <4>1. T \in Seq(Chars)
        BY <1>1
      <4> QED
        BY <3>2, <3>3, <4>1, SamePiece
    <3>5. z + lo = lo /\ z + hi = hi
      BY <3>1
    <3> QED
      BY <3>1, <3>4, <3>5
  <2>4. Quotes(T, x)
    BY <1>1, <2>1, <2>2, <2>3 DEF Quotes
  <2> QED
    BY <2>4 DEF x
<1>3. \A k \in 1 .. u : T[k] = text[k]
  BY <1>1
<1>4. Said(T, out, u)
  BY <1>2, <1>3 DEF Said
<1> QED
  BY <1>4 DEF T

LEMMA SaidMore ==
  ASSUME NEW text \in Seq(Chars), NEW out, NEW at \in Nat, NEW b \in Seq(Chars),
         Said(text, out, at), at + Len(b) <= Len(text),
         \A i \in 1 .. Len(b) : b[i] = text[at + i]
  PROVE  Said(text, Say(out, b, at), at + Len(b))
<1> DEFINE lo == FirstNot(b, 1, Spaces)
           hi == LastNot(b, Spaces)
           x == Sentence(b, at)
<1>1. Len(b) \in Nat /\ Len(text) \in Nat
  OBVIOUS
<1>2. /\ TrimSpace(b) = SubSeq(b, lo, hi) /\ TrimSpace(b) \in Seq(Chars)
      /\ lo \in 1 .. Len(b) + 1 /\ hi \in 0 .. Len(b)
      /\ \A i \in 1 .. Len(b) : i < lo \/ i > hi => b[i] \in Spaces
      /\ TrimSpace(b) # << >> <=> lo <= hi
  BY TrimSpaceFacts
<1>x. x = [text |-> TrimSpace(b), from |-> at + lo, to |-> at + hi]
  BY DEF Sentence
<1> HIDE DEF lo, hi, x
<1>3. \A k \in at + 1 .. at + Len(b) : k - at \in 1 .. Len(b) /\ text[k] = b[k - at]
  BY <1>1
<1>4. CASE TrimSpace(b) = << >>
  <2>1. Say(out, b, at) = out
    BY <1>4 DEF Say
  <2>2. \A k \in 1 .. at + Len(b) : k > at => text[k] \in Spaces
    <3>1. lo > hi
      BY <1>2, <1>4
    <3>2. \A i \in 1 .. Len(b) : b[i] \in Spaces
      BY <1>2, <3>1
    <3> QED
      BY <1>1, <1>3, <3>2
  <2> QED
    BY <1>1, <2>1, <2>2, SaidBlanks
<1>5. CASE TrimSpace(b) # << >>
  <2>1. Say(out, b, at) = Append(out, x)
    BY <1>5 DEF Say, x
  <2>2. x \in Spoken /\ x.from = at + lo /\ x.to = at + hi /\ x.text = TrimSpace(b) /\ lo <= hi
    BY <1>1, <1>2, <1>5, <1>x DEF Spoken
  <2>3. SubSeq(text, at + lo, at + hi) = SubSeq(b, lo, hi)
    <3>1. \A i \in lo .. hi : i \in 1 .. Len(b)
      BY <1>1, <1>2
    <3> QED
      BY <1>1, <1>2, <2>2, <3>1, SamePiece
  <2>4. Quotes(text, x)
    <3>1. 1 <= x.from /\ x.from <= x.to /\ x.to <= Len(text)
      BY <1>1, <1>2, <2>2
    <3>2. x.text = SubSeq(text, x.from, x.to)
      BY <1>2, <2>2, <2>3
    <3>3. x.text # << >> /\ TrimSpace(x.text) = x.text
      BY <1>5, <2>2, TrimTwice
    <3> QED
      BY <3>1, <3>2, <3>3 DEF Quotes
  <2> DEFINE new == Append(out, x)
  <2>5. /\ new \in Seq(Spoken) /\ Len(new) = Len(out) + 1 /\ Len(out) \in Nat
        /\ \A i \in 1 .. Len(out) : new[i] = out[i] /\ out[i] \in Spoken
        /\ new[Len(out) + 1] = x
    BY <2>2, AppendProperties DEF Said
  <2> HIDE DEF new
  <2>6. \A i \in 1 .. Len(out) : Quotes(text, out[i]) /\ out[i].to <= at /\ out[i].to \in Nat
    BY <2>5 DEF Said, Spoken
  <2>7. \A i \in 1 .. Len(new) : Quotes(text, new[i]) /\ new[i].to <= at + Len(b)
    <3>1. x.to <= at + Len(b)
      BY <1>2, <1>1, <2>2
    <3>2. \A i \in 1 .. Len(out) : out[i].to <= at + Len(b)
      BY <1>1, <2>6
    <3> QED
      BY <2>4, <2>5, <2>6, <3>1, <3>2
  <2>8. \A i, j \in 1 .. Len(new) : i < j => new[i].to < new[j].from
    <3>1. \A i \in 1 .. Len(out) : out[i].to < x.from
      BY <1>2, <2>2, <2>6
    <3> SUFFICES ASSUME NEW i \in 1 .. Len(new), NEW j \in 1 .. Len(new), i < j
                 PROVE  new[i].to < new[j].from
      OBVIOUS
    <3>2. i \in 1 .. Len(out)
      BY <2>5
    <3>3. CASE j = Len(out) + 1
      BY <2>5, <3>1, <3>2, <3>3
    <3>4. CASE j # Len(out) + 1
      <4>0. Len(new) = Len(out) + 1 /\ Len(out) \in Nat /\ j \in Nat
        BY <2>5
      <4>1. j \in 1 .. Len(out)
        BY <3>4, <4>0
      <4> QED
        BY <2>5, <3>2, <4>1 DEF Said
    <3> QED
      BY <3>3, <3>4
  <2>9. \A k \in 1 .. at + Len(b) :
          text[k] \in Spaces \/ \E i \in 1 .. Len(new) : new[i].from <= k /\ k <= new[i].to
    <3> SUFFICES ASSUME NEW k \in 1 .. at + Len(b), text[k] \notin Spaces
                 PROVE  \E i \in 1 .. Len(new) : new[i].from <= k /\ k <= new[i].to
      OBVIOUS
    <3>1. CASE k <= at
      <4>1. k \in 1 .. at
        BY <3>1
      <4>2. PICK i \in 1 .. Len(out) : out[i].from <= k /\ k <= out[i].to
        BY <4>1 DEF Said
      <4> QED
        BY <2>5, <4>2
    <3>2. CASE k > at
      <4>1. k - at \in 1 .. Len(b) /\ b[k - at] \notin Spaces
        BY <1>1, <1>3, <3>2
      <4>2. lo <= k - at /\ k - at <= hi
        BY <1>2, <4>1
      <4>3. x.from <= k /\ k <= x.to
        BY <1>2, <2>2, <4>2
      <4> QED
        BY <2>5, <4>3
    <3> QED
      BY <3>1, <3>2
  <2> QED
    BY <2>1, <2>5, <2>7, <2>8, <2>9 DEF Said, new
<1> QED
  BY <1>4, <1>5

------------------------------------------------------------------------------
(* The loop of split.                                                         *)

Cuts(text, cs) == cs \subseteq Nat \X BOOLEAN /\ \A c \in cs :
  c[1] \in 1 .. Len(text) /\ (AtPoint(text, c[1]) => c[2] = TRUE)

LEMMA CutsMore ==
  ASSUME NEW text \in Seq(Chars), NEW cs, Cuts(text, cs), NEW k \in 1 .. Len(text),
         NEW v \in BOOLEAN, AtPoint(text, k) => v = TRUE
  PROVE  Cuts(text, cs \cup {<<k, v>>})
<1>1. k \in Nat
  OBVIOUS
<1>2. <<k, v>> \in Nat \X BOOLEAN /\ <<k, v>>[1] = k /\ <<k, v>>[2] = v
  BY <1>1
<1> QED
  BY <1>2 DEF Cuts

Rests(text, b) ==
  /\ b \in Seq(Chars) /\ Len(b) <= Len(text)
  /\ \A i \in 1 .. Len(b) : b[i] = text[Len(text) - Len(b) + i]

States == [buffer : Seq(Chars), sentences : Seq(Spoken), cuts : SUBSET (Nat \X BOOLEAN)]

(* The invariant of the loop: the sentences are the text up to the buffer,    *)
(* and the buffer is what remains of it.                                      *)
Whole(text, s) ==
  /\ s \in States
  /\ Rests(text, s.buffer)
  /\ Said(text, s.sentences, Len(text) - Len(s.buffer))
  /\ Cuts(text, s.cuts)

(* What the loop leaves.                                                      *)
Ready(b) == Len(b) < maxSentenceRunes /\ SkipSpace(b) = b

LEMMA StepIsWhole ==
  ASSUME NEW text \in Seq(Chars), NEW s, Whole(text, s)
  PROVE  /\ Whole(text, SplitStep(text, s))
         /\ \/ Len(SplitStep(text, s).buffer) < Len(s.buffer)
            \/ Ready(SplitStep(text, s).buffer) /\ SplitEnd(SplitStep(text, s).buffer) = 0
<1> DEFINE b == s.buffer
           rest == SkipSpace(s.buffer)
           at == Len(text) - Len(rest)
           cut == SplitEnd(rest)
           t == SplitStep(text, s)
<1>1. /\ b \in Seq(Chars) /\ Len(b) \in Nat /\ Len(text) \in Nat /\ Len(b) <= Len(text)
      /\ \A i \in 1 .. Len(b) : b[i] = text[Len(text) - Len(b) + i]
  <2>1. Rests(text, b)
    BY DEF Whole
  <2> HIDE DEF b
  <2> QED
    BY <2>1 DEF Rests
<1>2. /\ rest \in Seq(Chars)
      /\ Len(rest) = 0 \/ rest[1] \notin Spaces
  BY <1>1, SkipSpaceFacts
<1>3. PICK skip \in 0 .. Len(b) :
        /\ Len(rest) = Len(b) - skip
        /\ \A i \in 1 .. Len(b) - skip : rest[i] = b[skip + i]
        /\ \A i \in 1 .. skip : b[i] \in Spaces
  BY <1>1, SkipSpaceFacts
<1>4. SkipSpace(rest) = rest
  BY <1>2, NothingToSkip
<1>5. /\ cut \in 0 .. Len(rest)
      /\ cut = 0 => Len(rest) < maxSentenceRunes
      /\ cut # 0 => cut >= maxSentenceRunes \/ (cut > 1 /\ ~AtPoint(rest, cut))
  BY <1>2, SplitEndFacts
<1>t. t = IF cut = 0 THEN [s EXCEPT !.buffer = rest]
          ELSE [buffer    |-> SubSeq(rest, cut + 1, Len(rest)),
                sentences |-> Say(s.sentences, SubSeq(rest, 1, cut), at),
                cuts      |-> s.cuts \cup {<<at + cut, cut >= maxSentenceRunes>>}]
  BY DEF SplitStep
<1>s. s \in States /\ Said(text, s.sentences, Len(text) - Len(b)) /\ Cuts(text, s.cuts)
  BY DEF Whole
<1> HIDE DEF b, rest, cut, t
<1>6. at \in Nat /\ at = Len(text) - Len(b) + skip /\ Len(rest) \in Nat /\ Len(rest) <= Len(text)
  BY <1>1, <1>2, <1>3
<1>7. \A i \in 1 .. Len(rest) : rest[i] = text[at + i]
  BY <1>1, <1>3, <1>6
<1>8. Said(text, s.sentences, at)
  <2>1. Len(text) - Len(b) \in Nat /\ Len(text) - Len(b) <= at
    BY <1>1, <1>3, <1>6
  <2>2. ASSUME NEW k \in 1 .. at, k > Len(text) - Len(b) PROVE text[k] \in Spaces
    <3>1. PICK i \in 1 .. skip : k = Len(text) - Len(b) + i /\ skip <= Len(b)
      <4>1. k - (Len(text) - Len(b)) \in 1 .. skip /\ skip <= Len(b)
        BY <1>1, <1>3, <1>6, <2>1, <2>2
      <4>2. k = Len(text) - Len(b) + (k - (Len(text) - Len(b)))
        BY <1>1
      <4> QED
        BY <4>1, <4>2
    <3>2. text[k] = b[i]
      BY <1>1, <1>3, <3>1
    <3> QED
      BY <1>3, <3>1, <3>2
  <2> QED
    BY <1>6, <1>s, <2>1, <2>2, SaidBlanks
<1> HIDE DEF at
<1>9. CASE cut = 0
  <2>1. t = [s EXCEPT !.buffer = rest]
    BY <1>9, <1>t
  <2>2. t \in States /\ t.buffer = rest /\ t.sentences = s.sentences /\ t.cuts = s.cuts
    BY <1>2, <1>s, <2>1 DEF States
  <2>3. Rests(text, rest) /\ at = Len(text) - Len(rest)
    BY <1>2, <1>6, <1>7 DEF Rests, at
  <2>4. Whole(text, t)
    BY <1>8, <1>s, <2>2, <2>3 DEF Whole
  <2>5. Ready(t.buffer) /\ SplitEnd(t.buffer) = 0
    BY <1>4, <1>5, <1>9, <2>2 DEF Ready, cut
  <2> QED
    BY <2>4, <2>5 DEF t
<1>10. CASE cut # 0
  <2> DEFINE part == SubSeq(rest, 1, cut)
             left == SubSeq(rest, cut + 1, Len(rest))
  <2>1. /\ part \in Seq(Chars) /\ Len(part) = cut /\ \A i \in 1 .. cut : part[i] = rest[i]
        /\ cut \in 1 .. Len(rest)
    BY <1>2, <1>5, <1>6, <1>10, Piece
  <2>2. /\ left \in Seq(Chars) /\ Len(left) = Len(rest) - cut
        /\ \A i \in 1 .. Len(rest) - cut : left[i] = rest[cut + i]
    <3>1. /\ left \in Seq(Chars) /\ Len(left) = Len(rest) - (cut + 1) + 1
          /\ \A i \in 1 .. Len(rest) - (cut + 1) + 1 : left[i] = rest[(cut + 1) + i - 1]
      BY <1>2, <1>6, <2>1, Piece
    <3>2. Len(rest) - (cut + 1) + 1 = Len(rest) - cut
      BY <1>6, <2>1
    <3>3. ASSUME NEW i \in 1 .. Len(rest) - cut PROVE left[i] = rest[cut + i]
      <4>1. (cut + 1) + i - 1 = cut + i
        BY <2>1
      <4> QED
        BY <3>1, <3>2, <4>1
    <3> HIDE DEF left
    <3> QED
      BY <3>1, <3>2, <3>3
  <2>3. t = [buffer |-> left, sentences |-> Say(s.sentences, part, at),
             cuts |-> s.cuts \cup {<<at + cut, cut >= maxSentenceRunes>>}]
    BY <1>10, <1>t
  <2> HIDE DEF part, left
  <2>4. Said(text, t.sentences, at + cut)
    <3>1. at + Len(part) <= Len(text) /\ \A i \in 1 .. Len(part) : part[i] = text[at + i]
      BY <1>6, <1>7, <2>1 DEF at
    <3> QED
      BY <1>6, <1>8, <2>1, <2>3, <3>1, SaidMore
  <2>5. at + cut = Len(text) - Len(left) /\ at + cut \in 1 .. Len(text)
    BY <1>1, <1>6, <2>1, <2>2 DEF at
  <2>6. Rests(text, left)
    <3>1. \A i \in 1 .. Len(left) : left[i] = text[at + (cut + i)] /\ at + (cut + i) = (at + cut) + i
      BY <1>6, <1>7, <2>1, <2>2
    <3> QED
      BY <1>1, <2>2, <2>5, <3>1 DEF Rests
  <2>7. AtPoint(text, at + cut) => cut >= maxSentenceRunes
    <3>1. CASE cut > 1 /\ ~AtPoint(rest, cut)
      <4>1. rest[cut] = text[at + cut] /\ rest[cut - 1] = text[(at + cut) - 1]
        BY <1>6, <1>7, <2>1, <3>1
      <4>2. cut < Len(rest) => at + cut < Len(text) /\ rest[cut + 1] = text[(at + cut) + 1]
        BY <1>6, <1>7, <2>1 DEF at
      <4>3. ~AtPoint(text, at + cut)
        BY <1>6, <2>1, <3>1, <4>1, <4>2 DEF AtPoint
      <4> QED
        BY <4>3
    <3> QED
      BY <1>5, <1>10, <3>1
  <2>8. Cuts(text, t.cuts) /\ t.cuts \in SUBSET (Nat \X BOOLEAN)
    <3>1. t.cuts = s.cuts \cup {<<at + cut, cut >= maxSentenceRunes>>}
      BY <2>3
    <3>2. CASE cut >= maxSentenceRunes
      <4>1. (cut >= maxSentenceRunes) = TRUE
        BY <3>2
      <4>2. Cuts(text, s.cuts \cup {<<at + cut, TRUE>>})
        BY <1>s, <2>5, CutsMore
      <4> QED
        BY <3>1, <4>1, <4>2 DEF Cuts
    <3>3. CASE ~(cut >= maxSentenceRunes)
      <4>1. (cut >= maxSentenceRunes) = FALSE
        BY <3>3
      <4>2. Cuts(text, s.cuts \cup {<<at + cut, FALSE>>})
        BY <1>s, <2>5, <2>7, <3>3, CutsMore
      <4> QED
        BY <3>1, <4>1, <4>2 DEF Cuts
    <3> QED
      BY <3>2, <3>3
  <2>9. t \in States /\ t.buffer = left
    BY <2>2, <2>3, <2>4, <2>8 DEF States, Said
  <2>10. Whole(text, t)
    BY <2>4, <2>5, <2>6, <2>8, <2>9 DEF Whole
  <2>11. Len(t.buffer) < Len(s.buffer)
    BY <1>1, <1>3, <2>1, <2>2, <2>9 DEF b
  <2> QED
    BY <2>10, <2>11 DEF t
<1> QED
  BY <1>9, <1>10

(* The recursive function in Split is what its equation says: functions on    *)
(* longer and longer ranges satisfy it.                                       *)
Unfolds(text, s, n, f) ==
  f = [k \in 0 .. n |-> IF k = 0 THEN s ELSE SplitStep(text, f[k - 1])]

LEMMA LoopExists ==
  ASSUME NEW text, NEW s, NEW n \in Nat
  PROVE  \E f : Unfolds(text, s, n, f)
<1> DEFINE T == {m \in Nat : \E f : Unfolds(text, s, m, f)}
<1>1. 0 \in T
  <2> DEFINE f == [k \in 0 .. 0 |-> s]
  <2>1. f = [k \in 0 .. 0 |-> IF k = 0 THEN s ELSE SplitStep(text, f[k - 1])]
    OBVIOUS
  <2> QED
    BY <2>1 DEF Unfolds
<1>2. ASSUME NEW m \in T PROVE m + 1 \in T
  <2>1. PICK f : Unfolds(text, s, m, f)
    OBVIOUS
  <2> DEFINE g == [k \in 0 .. m + 1 |-> IF k = m + 1 THEN SplitStep(text, f[m]) ELSE f[k]]
  <2>2. \A k \in 0 .. m : g[k] = f[k] /\ f[k] = IF k = 0 THEN s ELSE SplitStep(text, f[k - 1])
    BY <2>1 DEF Unfolds
  <2>3. ASSUME NEW k \in 0 .. m + 1
        PROVE  g[k] = IF k = 0 THEN s ELSE SplitStep(text, g[k - 1])
    <3>1. CASE k = m + 1
      <4>1. g[k] = SplitStep(text, f[m]) /\ k - 1 = m /\ k # 0 /\ m \in 0 .. m
        BY <3>1
      <4>2. g[m] = f[m]
        BY <2>2, <4>1
      <4> QED
        BY <4>1, <4>2
    <3>2. CASE k \in 0 .. m
      <4>1. k # 0 => k - 1 \in 0 .. m
        BY <3>2
      <4> HIDE DEF g
      <4>2. CASE k = 0
        BY <2>2, <3>2, <4>2
      <4>3. CASE k # 0
        BY <2>2, <3>2, <4>1, <4>3
      <4> QED
        BY <4>2, <4>3
    <3> QED
      BY <3>1, <3>2
  <2> HIDE DEF g
  <2>4. g = [k \in 0 .. m + 1 |-> g[k]]
    BY DEF g
  <2>5. g = [k \in 0 .. m + 1 |-> IF k = 0 THEN s ELSE SplitStep(text, g[k - 1])]
    BY <2>3, <2>4
  <2> QED
    BY <2>5 DEF Unfolds
<1>3. T = Nat
  <2> HIDE DEF T
  <2>1. T \in SUBSET Nat
    BY DEF T
  <2> QED
    BY <1>1, <1>2, <2>1, AllNumbers
<1> QED
  BY <1>3

LEMMA LoopUnfolds ==
  ASSUME NEW text, NEW s, Len(s.buffer) \in Nat
  PROVE  \E f : Unfolds(text, s, Len(s.buffer), f) /\ Split(text, s) = f[Len(s.buffer)]
<1> DEFINE n == Len(s.buffer)
           f == CHOOSE f : f = [k \in 0 .. n |-> IF k = 0 THEN s ELSE SplitStep(text, f[k - 1])]
<1>1. Unfolds(text, s, n, f)
  BY LoopExists DEF Unfolds
<1>2. Split(text, s) = f[n]
  BY DEF Split
<1> QED
  BY <1>1, <1>2

(* Once nothing is cut off, another iteration changes nothing.                *)
LEMMA StepStays ==
  ASSUME NEW text, NEW s \in States, Ready(s.buffer), SplitEnd(s.buffer) = 0
  PROVE  SplitStep(text, s) = s
<1>1. SplitStep(text, s) = [s EXCEPT !.buffer = s.buffer]
  BY DEF SplitStep, Ready
<1> QED
  BY <1>1 DEF States

(* After n iterations the loop is over, or it has cut off n characters.       *)
LEMMA SplitIsWhole ==
  ASSUME NEW text \in Seq(Chars), NEW s, Whole(text, s)
  PROVE  Whole(text, Split(text, s)) /\ Ready(Split(text, s).buffer)
<1> DEFINE n == Len(s.buffer)
<1>1. n \in Nat
  BY DEF Whole, Rests
<1>2. PICK f : Unfolds(text, s, n, f) /\ Split(text, s) = f[n]
  BY <1>1, LoopUnfolds
<1> HIDE DEF n
<1>3. \A k \in 0 .. n : f[k] = IF k = 0 THEN s ELSE SplitStep(text, f[k - 1])
  BY <1>2 DEF Unfolds
<1> DEFINE Over(t) == Ready(t.buffer) /\ SplitEnd(t.buffer) = 0
           T == {k \in Nat : k <= n =>
                   Whole(text, f[k]) /\ (Over(f[k]) \/ Len(f[k].buffer) <= n - k)}
<1>4. 0 \in T
  <2>1. f[0] = s /\ 0 \in 0 .. n
    BY <1>1, <1>3
  <2> QED
    BY <1>1, <2>1 DEF n
<1>5. ASSUME NEW k \in T PROVE k + 1 \in T
  <2> SUFFICES ASSUME k + 1 <= n
               PROVE  Whole(text, f[k + 1]) /\ (Over(f[k + 1]) \/ Len(f[k + 1].buffer) <= n - (k + 1))
    OBVIOUS
  <2> DEFINE t == f[k]
             u == f[k + 1]
  <2>1. k \in Nat /\ k <= n
    BY <1>1
  <2>2. Whole(text, t) /\ (Over(t) \/ Len(t.buffer) <= n - k)
    BY <2>1
  <2>3. u = SplitStep(text, t)
    <3>1. k + 1 \in 0 .. n /\ k + 1 # 0 /\ (k + 1) - 1 = k
      BY <1>1, <2>1
    <3> QED
      BY <1>3, <3>1
  <2> HIDE DEF t, u, T
  <2>4. Whole(text, u) /\ (Len(u.buffer) < Len(t.buffer) \/ Over(u))
    BY <2>2, <2>3, StepIsWhole
  <2>5. Len(u.buffer) \in Nat /\ Len(t.buffer) \in Nat
    BY <2>2, <2>4 DEF Whole, Rests
  <2>6. Over(t) => Over(u)
    BY <2>2, <2>3, StepStays DEF Whole
  <2>7. Over(u) \/ Len(u.buffer) <= n - (k + 1)
    BY <1>1, <2>1, <2>2, <2>4, <2>5, <2>6
  <2> QED
    BY <2>4, <2>7 DEF u
<1>6. n \in T
  <2> HIDE DEF T
  <2>1. T \in SUBSET Nat
    BY DEF T
  <2>2. T = Nat
    BY <1>4, <1>5, <2>1, AllNumbers
  <2> QED
    BY <1>1, <2>2
<1>7. Whole(text, f[n]) /\ (Over(f[n]) \/ Len(f[n].buffer) <= 0)
  BY <1>1, <1>6
<1>8. Len(f[n].buffer) <= 0 => Ready(f[n].buffer)
  <2>1. f[n].buffer \in Seq(Chars) /\ Len(f[n].buffer) \in Nat
    BY <1>7 DEF Whole, Rests
  <2> QED
    BY <2>1, NothingToSkip, SplitterAssumption DEF Ready, SplitterAssumption
<1> QED
  BY <1>2, <1>7, <1>8
------------------------------------------------------------------------------
(* The splitter.                                                              *)

Now == [buffer |-> buffer, sentences |-> sentences, cuts |-> cuts]

SplitterInv ==
  fed \in Seq(Chars) /\ flushed \in BOOLEAN /\ Whole(fed, Now) /\ Ready(buffer)

LEMMA NothingIsReady == Ready(<< >>)
<1>1. << >> \in Seq(Chars) /\ Len(<< >>) = 0
  OBVIOUS
<1>2. SkipSpace(<< >>) = << >>
  BY <1>1, NothingToSkip
<1> QED
  BY <1>1, <1>2, SplitterAssumption DEF Ready, SplitterAssumption

LEMMA SplitterInit == Init => SplitterInv
<1> SUFFICES ASSUME Init PROVE SplitterInv
  OBVIOUS
<1>1. /\ fed = << >> /\ buffer = << >> /\ sentences = << >> /\ cuts = {} /\ flushed = FALSE
      /\ << >> \in Seq(Chars) /\ Len(<< >>) = 0 /\ << >> \in Seq(Spoken)
  BY DEF Init
<1>2. Now \in States /\ Now.buffer = << >> /\ Now.sentences = << >> /\ Now.cuts = {}
  BY <1>1 DEF Now, States
<1>3. Rests(fed, << >>)
  BY <1>1 DEF Rests
<1>4. Said(fed, << >>, 0)
  BY <1>1 DEF Said
<1>5. Cuts(fed, {})
  BY DEF Cuts
<1>6. Len(fed) - Len(<< >>) = 0
  BY <1>1
<1>7. Whole(fed, Now)
  BY <1>2, <1>3, <1>4, <1>5, <1>6 DEF Whole
<1> QED
  BY <1>1, <1>7, NothingIsReady DEF SplitterInv

(* What has been said of a text remains true when more of it comes.           *)
LEMMA CutsLonger ==
  ASSUME NEW text \in Seq(Chars), NEW chunk \in Seq(Chars), NEW cs, Cuts(text, cs)
  PROVE  Cuts(text \o chunk, cs)
<1> DEFINE T == text \o chunk
<1>1. /\ Len(T) = Len(text) + Len(chunk) /\ Len(text) \in Nat /\ Len(chunk) \in Nat
      /\ \A i \in 1 .. Len(text) : T[i] = text[i]
  BY ConcatProperties
<1> HIDE DEF T
<1>2. ASSUME NEW c \in cs PROVE c[1] \in 1 .. Len(T) /\ (AtPoint(T, c[1]) => c[2] = TRUE)
  <2>1. PICK k \in 1 .. Len(text) : k = c[1]
    BY DEF Cuts
  <2>2. AtPoint(T, k) => AtPoint(text, k)
    BY <1>1 DEF AtPoint
  <2> QED
    BY <1>1, <2>1, <2>2 DEF Cuts
<1>3. Cuts(T, cs)
  BY <1>2 DEF Cuts
<1> QED
  BY <1>3 DEF T

LEMMA RestsLonger ==
  ASSUME NEW text \in Seq(Chars), NEW chunk \in Seq(Chars), NEW b, Rests(text, b)
  PROVE  /\ Rests(text \o chunk, b \o chunk)
         /\ Len(text \o chunk) - Len(b \o chunk) = Len(text) - Len(b)
<1> DEFINE T == text \o chunk
           c == b \o chunk
<1>1. /\ Len(T) = Len(text) + Len(chunk) /\ Len(text) \in Nat /\ Len(chunk) \in Nat
      /\ \A i \in 1 .. Len(text) : T[i] = text[i]
      /\ \A i \in 1 .. Len(chunk) : T[Len(text) + i] = chunk[i]
  BY ConcatProperties
<1>2. /\ b \in Seq(Chars) /\ Len(b) \in Nat /\ Len(b) <= Len(text)
      /\ \A i \in 1 .. Len(b) : b[i] = text[Len(text) - Len(b) + i]
  BY DEF Rests
<1>3. /\ c \in Seq(Chars) /\ Len(c) = Len(b) + Len(chunk)
      /\ \A i \in 1 .. Len(b) : c[i] = b[i]
      /\ \A i \in 1 .. Len(chunk) : c[Len(b) + i] = chunk[i]
  BY <1>2, ConcatProperties
<1> HIDE DEF T, c
<1>4. ASSUME NEW i \in 1 .. Len(c) PROVE c[i] = T[Len(T) - Len(c) + i]
  <2>1. Len(T) - Len(c) + i = Len(text) - Len(b) + i
    BY <1>1, <1>2, <1>3
  <2>2. CASE i <= Len(b)
    <3>1. i \in 1 .. Len(b) /\ Len(text) - Len(b) + i \in 1 .. Len(text)
      BY <1>1, <1>2, <1>3, <2>2
    <3> QED
      BY <1>1, <1>2, <1>3, <2>1, <3>1
  <2>3. CASE i > Len(b)
    <3>1. PICK j \in 1 .. Len(chunk) : i = Len(b) + j
      <4>1. i - Len(b) \in 1 .. Len(chunk) /\ i = Len(b) + (i - Len(b))
        BY <1>1, <1>2, <1>3, <2>3
      <4> QED
        BY <4>1
    <3>2. Len(text) - Len(b) + i = Len(text) + j
      BY <1>1, <1>2, <3>1
    <3> QED
      BY <1>1, <1>3, <2>1, <3>1, <3>2
  <2> QED
    BY <1>2, <2>2, <2>3
<1>5. Rests(T, c) /\ Len(T) - Len(c) = Len(text) - Len(b)
  BY <1>1, <1>2, <1>3, <1>4 DEF Rests
<1> QED
  BY <1>5 DEF T, c

LEMMA FeedKeeps ==
  ASSUME SplitterInv, NEW chunk \in Seq(Chars), Feed(chunk)
  PROVE  SplitterInv'
<1> DEFINE T == fed \o chunk
           s == [buffer |-> buffer \o chunk, sentences |-> sentences, cuts |-> cuts]
           u == Split(T, s)
<1>1. /\ fed \in Seq(Chars) /\ Now \in States /\ Rests(fed, buffer)
      /\ Said(fed, sentences, Len(fed) - Len(buffer)) /\ Cuts(fed, cuts)
      /\ buffer \in Seq(Chars) /\ Len(buffer) <= Len(fed)
  BY DEF SplitterInv, Whole, Now, Rests
<1>2. T \in Seq(Chars) /\ buffer \o chunk \in Seq(Chars)
  BY <1>1, ConcatProperties
<1>3. s \in States
  BY <1>1, <1>2 DEF States, Now
<1>4. Rests(T, s.buffer) /\ Len(T) - Len(s.buffer) = Len(fed) - Len(buffer)
  BY <1>1, RestsLonger
<1>5. Said(T, s.sentences, Len(T) - Len(s.buffer))
  <2>1. Len(fed) - Len(buffer) \in 0 .. Len(fed)
    BY <1>1
  <2> QED
    BY <1>1, <1>4, <2>1, SaidLonger
<1>6. Cuts(T, s.cuts)
  BY <1>1, CutsLonger
<1>7. fed' = T /\ buffer' = u.buffer /\ sentences' = u.sentences /\ cuts' = u.cuts /\ flushed' = flushed
  BY DEF Feed
<1> HIDE DEF T, s
<1>8. Whole(T, s)
  BY <1>3, <1>4, <1>5, <1>6 DEF Whole
<1>9. Whole(T, u) /\ Ready(u.buffer)
  BY <1>2, <1>8, SplitIsWhole
<1> HIDE DEF u
<1>10. u \in States
  BY <1>9 DEF Whole
<1>11. u = [buffer |-> u.buffer, sentences |-> u.sentences, cuts |-> u.cuts]
  BY <1>10 DEF States
<1>12. Now' = u
  BY <1>7, <1>11 DEF Now
<1> QED
  BY <1>2, <1>7, <1>9, <1>12 DEF SplitterInv

LEMMA FlushKeeps ==
  ASSUME SplitterInv, Flush
  PROVE  SplitterInv'
<1> DEFINE at == Len(fed) - Len(buffer)
           out == Say(sentences, buffer, at)
<1>1. /\ fed \in Seq(Chars) /\ Now \in States /\ Rests(fed, buffer)
      /\ Said(fed, sentences, at) /\ Cuts(fed, cuts)
  BY DEF SplitterInv, Whole, Now
<1>2. /\ buffer \in Seq(Chars) /\ at \in Nat /\ at + Len(buffer) = Len(fed)
      /\ \A i \in 1 .. Len(buffer) : buffer[i] = fed[at + i]
  BY <1>1 DEF Rests
<1>3. fed' = fed /\ buffer' = << >> /\ sentences' = out /\ cuts' = cuts /\ flushed' \in BOOLEAN
  BY DEF Flush
<1> HIDE DEF at, out
<1>4. Said(fed, out, Len(fed))
  <2>1. Said(fed, Say(sentences, buffer, at), at + Len(buffer))
    BY <1>1, <1>2, SaidMore
  <2> QED
    BY <1>2, <2>1 DEF out
<1> DEFINE u == [buffer |-> << >>, sentences |-> out, cuts |-> cuts]
<1>5. u \in States /\ u.buffer = << >> /\ u.sentences = out /\ u.cuts = cuts
  BY <1>1, <1>4 DEF States, Said, Cuts
<1>6. Rests(fed, << >>) /\ Len(fed) - Len(<< >>) = Len(fed)
  BY <1>1 DEF Rests
<1>7. Whole(fed, u)
  BY <1>1, <1>4, <1>5, <1>6 DEF Whole
<1>8. Now' = u
  BY <1>3 DEF Now
<1> HIDE DEF u
<1> QED
  BY <1>1, <1>3, <1>7, <1>8, NothingIsReady DEF SplitterInv

LEMMA SplitterStep == SplitterInv /\ [Next]_vars => SplitterInv'
<1> SUFFICES ASSUME SplitterInv, [Next]_vars PROVE SplitterInv'
  OBVIOUS
<1>1. ASSUME NEW chunk \in Chunks, Feed(chunk) PROVE SplitterInv'
  <2>1. chunk \in Seq(Chars)
    BY DEF Chunks
  <2> QED
    BY <1>1, <2>1, FeedKeeps
<1>2. CASE Flush
  BY <1>2, FlushKeeps
<1>3. CASE UNCHANGED vars
  BY <1>3 DEF vars, SplitterInv, Whole, Now, States, Rests, Said, Cuts, Quotes, AtPoint, Ready
<1> QED
  BY <1>1, <1>2, <1>3 DEF Next

LEMMA AlwaysWhole == Spec => []SplitterInv
<1> QED
  BY SplitterInit, SplitterStep, PTL DEF Spec

(* What is kept is never as long as a full sentence and has no blank in       *)
(* front, and no sentence is blank or has blanks around it (splitter.go       *)
(* split, splitEnd, trimLeadingSpace).                                        *)
THEOREM SplitterTypes == Spec => []TypeOK
<1>1. ASSUME SplitterInv PROVE TypeOK
  <2>1. /\ fed \in Seq(Chars) /\ flushed \in BOOLEAN /\ buffer \in Seq(Chars)
        /\ Said(fed, sentences, Len(fed) - Len(buffer)) /\ Cuts(fed, cuts) /\ Ready(buffer)
    BY <1>1 DEF SplitterInv, Whole, Now, Rests
  <2>2. sentences \in Seq(Spoken) /\ DOMAIN sentences = 1 .. Len(sentences)
    BY <2>1 DEF Said
  <2>3. \A i \in DOMAIN sentences :
          sentences[i].text # << >> /\ TrimSpace(sentences[i].text) = sentences[i].text
    BY <2>1, <2>2 DEF Said, Quotes
  <2> QED
    BY <2>1, <2>2, <2>3 DEF TypeOK, Cuts, Ready, Spoken
<1> QED
  BY <1>1, AlwaysWhole, PTL

(* However the text is cut into chunks, the sentences and the buffer are      *)
(* pieces of it, in order, and nothing but spaces is left out; and no number  *)
(* is cut at its point unless the sentence is at full length (splitter.go     *)
(* Feed, Flush, split, isPeriodDecimalPoint).                                 *)
THEOREM SplitterSpeaksTheText == Spec => []SpokenAsWritten
<1>1. ASSUME SplitterInv PROVE NothingLost
  <2> DEFINE at == Len(fed) - Len(buffer)
  <2>1. /\ fed \in Seq(Chars) /\ Rests(fed, buffer) /\ Said(fed, sentences, at)
    BY <1>1 DEF SplitterInv, Whole, Now
  <2>2. sentences \in Seq(Spoken) /\ DOMAIN sentences = 1 .. Len(sentences)
    BY <2>1 DEF Said
  <2>3. /\ buffer \in Seq(Chars) /\ Len(fed) \in Nat /\ Len(buffer) \in Nat /\ Len(buffer) <= Len(fed)
        /\ at \in Nat /\ at + Len(buffer) = Len(fed)
        /\ \A i \in 1 .. Len(buffer) : buffer[i] = fed[at + i]
    BY <2>1 DEF Rests
  <2> HIDE DEF at
  <2>4. buffer = SubSeq(fed, at + 1, Len(fed))
    <3> DEFINE p == SubSeq(fed, at + 1, Len(fed))
    <3>1. /\ p \in Seq(Chars) /\ Len(p) = Len(buffer)
          /\ \A i \in 1 .. Len(buffer) : p[i] = fed[at + i]
      <4>1. at + 1 \in Nat /\ at + 1 >= 1 /\ at + 1 <= Len(fed) + 1 /\ Len(fed) <= Len(fed)
            /\ Len(fed) - (at + 1) + 1 = Len(buffer)
        BY <2>3
      <4>2. /\ p \in Seq(Chars) /\ Len(p) = Len(fed) - (at + 1) + 1
            /\ \A i \in 1 .. Len(fed) - (at + 1) + 1 : p[i] = fed[(at + 1) + i - 1]
        BY <2>1, <2>3, <4>1, Piece
      <4>3. \A i \in 1 .. Len(buffer) : (at + 1) + i - 1 = at + i
        BY <2>3
      <4> QED
        BY <4>1, <4>2, <4>3
    <3> HIDE DEF p
    <3>2. buffer = p
      BY <2>3, <3>1, SameText
    <3> QED
      BY <3>2 DEF p
  <2>5. \A i \in DOMAIN sentences : sentences[i].from \in Nat /\ sentences[i].to \in Nat
    <3>1. \A i \in DOMAIN sentences : sentences[i] \in Spoken
      BY <2>2
    <3> QED
      BY <3>1 DEF Spoken
  <2>6. \A k \in 1 .. at :
          fed[k] \in Spaces \/ \E i \in DOMAIN sentences : k \in sentences[i].from .. sentences[i].to
    BY <2>1, <2>2, <2>3, <2>5 DEF Said
  <2>7. /\ \A i \in DOMAIN sentences :
             sentences[i].text = SubSeq(fed, sentences[i].from, sentences[i].to)
        /\ \A i, j \in DOMAIN sentences : i < j => sentences[i].to < sentences[j].from
        /\ \A i \in DOMAIN sentences : sentences[i].to <= at
    BY <2>1, <2>2 DEF Said, Quotes
  <2> QED
    BY <2>4, <2>6, <2>7 DEF NothingLost, at
<1>2. ASSUME SplitterInv PROVE DecimalsStayWhole
  <2>1. Cuts(fed, cuts)
    BY <1>2 DEF SplitterInv, Whole, Now
  <2> QED
    BY <2>1 DEF DecimalsStayWhole, Cuts, AtPoint
<1> QED
  BY <1>1, <1>2, AlwaysWhole, PTL DEF SpokenAsWritten
=============================================================================
