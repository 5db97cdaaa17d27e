------------------------------ MODULE ListLemmas ------------------------------
(***************************************************************************)
(* The list of the blocks a heap has handed out, oldest first: what is     *)
(* listed after Append and Tail, the two ways FifoAllocator changes it.    *)
(***************************************************************************)
EXTENDS Integers, Sequences, SequenceTheorems, TLAPS

Listed(x, s) == \E i \in DOMAIN s : s[i] = x
NoDuplicates(s) == \A i, j \in DOMAIN s : s[i] = s[j] => i = j

(* What Append does to a list without duplicates.                          *)
LEMMA AppendListed ==
  ASSUME NEW S, NEW s \in Seq(S), NEW b \in S
  PROVE  /\ Append(s, b) \in Seq(S)
         /\ \A x : Listed(x, Append(s, b)) <=> Listed(x, s) \/ x = b
         /\ NoDuplicates(s) /\ ~ Listed(b, s) => NoDuplicates(Append(s, b))
<1>. DEFINE t == Append(s, b)
<1>1. /\ t \in Seq(S) /\ Len(s) \in Nat
      /\ DOMAIN s = 1 .. Len(s) /\ DOMAIN t = 1 .. Len(s) + 1
      /\ \A i \in 1 .. Len(s) : t[i] = s[i]
      /\ t[Len(s) + 1] = b
  OBVIOUS
<1>2. \A x : Listed(x, t) <=> Listed(x, s) \/ x = b
  <2>. SUFFICES ASSUME NEW x PROVE Listed(x, t) <=> Listed(x, s) \/ x = b
    OBVIOUS
  <2>1. \A i \in DOMAIN t : i \in DOMAIN s \/ i = Len(s) + 1
    BY <1>1
  <2>. QED
    BY <1>1, <2>1 DEF Listed
<1>3. ASSUME NoDuplicates(s), ~ Listed(b, s) PROVE NoDuplicates(t)
  BY <1>1, <1>3 DEF NoDuplicates, Listed
<1>. QED
  BY <1>1, <1>2, <1>3

(* What Tail does to a list without duplicates.                            *)
LEMMA TailListed ==
  ASSUME NEW S, NEW s \in Seq(S), s # <<>>, NoDuplicates(s)
  PROVE  /\ Tail(s) \in Seq(S)
         /\ \A x : Listed(x, Tail(s)) <=> Listed(x, s) /\ x # Head(s)
         /\ NoDuplicates(Tail(s))
<1>. DEFINE t == Tail(s)
<1>1. /\ t \in Seq(S) /\ Len(s) \in Nat \ {0}
      /\ DOMAIN s = 1 .. Len(s) /\ DOMAIN t = 1 .. Len(s) - 1
      /\ \A i \in 1 .. Len(s) - 1 : t[i] = s[i + 1]
      /\ Head(s) = s[1]
  BY EmptySeq
<1>2. ASSUME NEW x, Listed(x, t) PROVE Listed(x, s) /\ x # Head(s)
  <2>1. PICK i \in 1 .. Len(s) - 1 : s[i + 1] = x
    BY <1>1, <1>2 DEF Listed
  <2>. QED
    BY <1>1, <2>1 DEF Listed, NoDuplicates
<1>3. ASSUME NEW x, Listed(x, s), x # Head(s) PROVE Listed(x, t)
  <2>1. PICK i \in 1 .. Len(s) : s[i] = x
    BY <1>1, <1>3 DEF Listed
  <2>2. i - 1 \in 1 .. Len(s) - 1 /\ t[i - 1] = x
    BY <1>1, <1>3, <2>1
  <2>. QED
    BY <1>1, <2>2 DEF Listed
<1>4. NoDuplicates(t)
  BY <1>1 DEF NoDuplicates
<1>. QED
  BY <1>1, <1>2, <1>3, <1>4

=============================================================================
