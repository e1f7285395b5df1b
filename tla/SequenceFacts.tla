--------------------------- MODULE SequenceFacts ----------------------------
(* Facts about sequences and numbers used by the proofs of several         *)
(* components.                                                             *)
EXTENDS Integers, Sequences, SequenceTheorems, WellFoundedInduction, TLAPS

(* Dropping the last element keeps the rest. *)
LEMMA FrontFacts ==
    ASSUME NEW S, NEW s \in Seq(S), s # <<>>
    PROVE  /\ SubSeq(s, 1, Len(s) - 1) \in Seq(S)
           /\ Len(s) \in Nat \ {0}
           /\ Len(SubSeq(s, 1, Len(s) - 1)) = Len(s) - 1
           /\ \A i \in 1 .. Len(s) - 1 : SubSeq(s, 1, Len(s) - 1)[i] = s[i]
           /\ SubSeq(s, 1, Len(s) - 1) = <<>> <=> Len(s) = 1
  <1>1. PICK n \in Nat : n = Len(s) /\ n > 0
    BY EmptySeq, LenProperties
  <1>2. \A i \in 1 .. n - 1 : s[i] \in S
    BY <1>1, LenProperties
  <1>3. /\ SubSeq(s, 1, n - 1) \in Seq(S)
        /\ Len(SubSeq(s, 1, n - 1)) = IF 1 <= n - 1 THEN n - 1 - 1 + 1 ELSE 0
        /\ \A i \in 1 .. (n - 1 - 1 + 1) : SubSeq(s, 1, n - 1)[i] = s[1 + i - 1]
    <2>1. n - 1 \in Int
      OBVIOUS
    <2> QED
      BY <1>2, <2>1, SubSeqProperties
  <1>4. Len(SubSeq(s, 1, n - 1)) = n - 1
    BY <1>1, <1>3
  <1>5. \A i \in 1 .. n - 1 : SubSeq(s, 1, n - 1)[i] = s[i]
    BY <1>1, <1>3
  <1>6. SubSeq(s, 1, n - 1) = <<>> <=> Len(SubSeq(s, 1, n - 1)) = 0
    BY <1>3, EmptySeq
  <1>7. SubSeq(s, 1, n - 1) = <<>> <=> n = 1
    BY <1>1, <1>4, <1>6
  <1> QED
    BY <1>1, <1>3, <1>4, <1>5, <1>7

(* What appending does to length, elements and type. *)
LEMMA AppendFacts ==
    ASSUME NEW S, NEW s \in Seq(S), NEW x \in S
    PROVE  /\ Append(s, x) \in Seq(S)
           /\ Len(Append(s, x)) = Len(s) + 1
           /\ Append(s, x) # <<>>
  BY AppendProperties

(* A set of numbers that is not empty has a least element. *)
LEMMA LeastNumber ==
    ASSUME NEW T \in SUBSET Nat, T # {}
    PROVE  \E x \in T : \A y \in T : x <= y
  <1>1. PICK x \in T : \A y \in T : ~(<<y, x>> \in OpToRel(<, Nat))
    BY NatLessThanWellFounded, WFMin
  <1>2. \A y \in T : ~(y < x)
    BY <1>1 DEF OpToRel
  <1> QED
    BY <1>2

(* A piece of a sequence. *)
LEMMA SegmentFacts ==
    ASSUME NEW S, NEW s \in Seq(S), NEW m \in Nat \ {0}, NEW n \in Nat,
           m <= n + 1, n <= Len(s)
    PROVE  /\ SubSeq(s, m, n) \in Seq(S)
           /\ Len(SubSeq(s, m, n)) = n - m + 1
           /\ \A i \in 1 .. n - m + 1 : SubSeq(s, m, n)[i] = s[m + i - 1]
  <1>1. \A i \in m .. n : s[i] \in S
    BY LenProperties
  <1> QED
    BY <1>1, SubSeqProperties
=============================================================================
