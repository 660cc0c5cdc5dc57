--------------------------- MODULE SequenceLemmas ---------------------------
(***************************************************************************)
(* What the proofs about queues and pipes need of sequences.               *)
(***************************************************************************)
EXTENDS Integers, Sequences, SequenceTheorems, TLAPS

\* What Len, Head, Tail and Append do to the elements of a sequence.
LEMMA SequenceFacts ==
    ASSUME NEW S, NEW s \in Seq(S)
    PROVE  /\ Len(s) \in Nat
           /\ \A k \in 1 .. Len(s) : s[k] \in S
           /\ s # <<>> => /\ Len(s) > 0
                          /\ Head(s) = s[1]
                          /\ Tail(s) \in Seq(S)
                          /\ Len(Tail(s)) = Len(s) - 1
                          /\ \A k \in 1 .. Len(s) - 1 : Tail(s)[k] = s[k + 1]
           /\ \A e \in S : /\ Append(s, e) \in Seq(S)
                           /\ Len(Append(s, e)) = Len(s) + 1
                           /\ Append(s, e)[Len(s) + 1] = e
                           /\ \A k \in 1 .. Len(s) : Append(s, e)[k] = s[k]
<1>1. Len(s) \in Nat /\ \A k \in 1 .. Len(s) : s[k] \in S
  BY LenProperties, ElementOfSeq
<1>2. ASSUME s # <<>>
      PROVE  /\ Len(s) > 0
             /\ Head(s) = s[1]
             /\ Tail(s) \in Seq(S)
             /\ Len(Tail(s)) = Len(s) - 1
             /\ \A k \in 1 .. Len(s) - 1 : Tail(s)[k] = s[k + 1]
  BY <1>1, <1>2, HeadTailProperties, EmptySeq, SMT
<1>3. ASSUME NEW e \in S
      PROVE  /\ Append(s, e) \in Seq(S)
             /\ Len(Append(s, e)) = Len(s) + 1
             /\ Append(s, e)[Len(s) + 1] = e
             /\ \A k \in 1 .. Len(s) : Append(s, e)[k] = s[k]
  BY <1>1, <1>3, SMT
<1> QED BY <1>1, <1>2, <1>3

\* Only the empty sequence has length 0.
LEMMA EmptyIffNoLength ==
    ASSUME NEW S, NEW s \in Seq(S)
    PROVE  Len(s) = 0 <=> s = <<>>
BY EmptySeq

\* An element of the tail is an element of the sequence, one place further on.
LEMMA InTail ==
    ASSUME NEW S, NEW s \in Seq(S), s # <<>>
    PROVE  \A k \in 1 .. Len(Tail(s)) : k + 1 \in 1 .. Len(s) /\ Tail(s)[k] = s[k + 1]
BY SequenceFacts

\* An element of a sequence that grew is the new one or one of before.
LEMMA InAppend ==
    ASSUME NEW S, NEW s \in Seq(S), NEW e \in S
    PROVE  \A k \in 1 .. Len(Append(s, e)) :
               \/ k = Len(Append(s, e)) /\ Append(s, e)[k] = e
               \/ k \in 1 .. Len(s) /\ Append(s, e)[k] = s[k]
BY SequenceFacts

\* A sequence that grows keeps its head.
LEMMA HeadOfAppend ==
    ASSUME NEW S, NEW s \in Seq(S), NEW e \in S
    PROVE  /\ Append(s, e) # <<>>
           /\ s # <<>> => Head(Append(s, e)) = Head(s)
<1>1. Append(s, e) \in Seq(S) /\ Len(Append(s, e)) > 0
  BY SequenceFacts
<1>2. Append(s, e) # <<>>
  BY <1>1, EmptyIffNoLength
<1>3. ASSUME s # <<>> PROVE Append(s, e)[1] = s[1]
  BY <1>3, SequenceFacts
<1> QED BY <1>1, <1>2, <1>3, SequenceFacts

\* The elements of a sequence that grew, and of one whose head is taken.
LEMMA ElementsOfAppend ==
    ASSUME NEW S, NEW s \in Seq(S), NEW e \in S, NEW x
    PROVE  (\E k \in 1 .. Len(Append(s, e)) : Append(s, e)[k] = x)
               <=> x = e \/ \E k \in 1 .. Len(s) : s[k] = x
<1>1. /\ Len(s) \in Nat /\ Len(Append(s, e)) = Len(s) + 1
      /\ Append(s, e)[Len(s) + 1] = e
      /\ \A k \in 1 .. Len(s) : Append(s, e)[k] = s[k]
  BY SequenceFacts
<1> DEFINE t == Append(s, e)
<1> HIDE DEF t
<1>2. \A k \in 1 .. Len(t) : k \in 1 .. Len(s) \/ k = Len(s) + 1
  BY <1>1 DEF t
<1>3. 1 .. Len(s) \subseteq 1 .. Len(t) /\ Len(s) + 1 \in 1 .. Len(t)
  BY <1>1 DEF t
<1>4. (\E k \in 1 .. Len(t) : t[k] = x) <=> x = e \/ \E k \in 1 .. Len(s) : s[k] = x
  BY <1>1, <1>2, <1>3 DEF t
<1> QED BY <1>4 DEF t

LEMMA ElementsOfTail ==
    ASSUME NEW S, NEW s \in Seq(S), s # <<>>, NEW x
    PROVE  (\E k \in 1 .. Len(s) : s[k] = x)
               <=> x = Head(s) \/ \E k \in 1 .. Len(Tail(s)) : Tail(s)[k] = x
<1> DEFINE t == Tail(s)
<1>1. /\ Len(s) \in Nat /\ Len(s) > 0 /\ Head(s) = s[1] /\ Len(t) = Len(s) - 1
      /\ \A k \in 1 .. Len(t) : t[k] = s[k + 1]
  BY SequenceFacts
<1> HIDE DEF t
<1>2. 1 \in 1 .. Len(s) /\ \A k \in 1 .. Len(t) : k + 1 \in 1 .. Len(s)
  BY <1>1
<1>3. \A k \in 1 .. Len(s) : k = 1 \/ (k - 1 \in 1 .. Len(t) /\ (k - 1) + 1 = k)
  BY <1>1
<1>4. ASSUME NEW k \in 1 .. Len(s), s[k] = x
      PROVE  x = Head(s) \/ \E m \in 1 .. Len(t) : t[m] = x
  <2>1. CASE k = 1
    BY <1>1, <1>4, <2>1
  <2>2. CASE k - 1 \in 1 .. Len(t) /\ (k - 1) + 1 = k
    <3>1. t[k - 1] = x
      BY <1>1, <1>4, <2>2
    <3> QED BY <2>2, <3>1
  <2> QED BY <1>3, <2>1, <2>2
<1>5. ASSUME x = Head(s) \/ \E m \in 1 .. Len(t) : t[m] = x
      PROVE  \E k \in 1 .. Len(s) : s[k] = x
  BY <1>1, <1>2, <1>5
<1>6. (\E k \in 1 .. Len(s) : s[k] = x) <=> x = Head(s) \/ \E m \in 1 .. Len(t) : t[m] = x
  BY <1>4, <1>5
<1> QED BY <1>6 DEF t

LEMMA PairInSeq ==
    ASSUME NEW S, NEW a \in S, NEW b \in S
    PROVE  <<a, b>> \in Seq(S)
OBVIOUS
=============================================================================
