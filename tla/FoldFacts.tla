----------------------------- MODULE FoldFacts -----------------------------
(***************************************************************************)
(* What the proofs need of a fold over a sequence: FoldLeft of SequencesExt *)
(* with an operator Op, which takes the places of the sequence by Largest. *)
(* An INSTANCE of this module for each operator that is folded says that   *)
(* the fold is the last of the values Op makes one after another.          *)
(***************************************************************************)
EXTENDS OrderFacts

CONSTANTS Op(_, _), Largest(_)

(* Largest is one of the largest of every set of places.                   *)
Picks(n) == \A S \in SUBSET (1 .. n) : S # {} => Largest(S) \in S /\ \A k \in S : Largest(S) >= k

(* The function FoldLeft chooses: the fold over any set of places.         *)
Is(base, seq, n, g) ==
    g = [s \in SUBSET (1 .. n) |-> IF s = {} THEN base ELSE Op(g[s \ {Largest(s)}], seq[Largest(s)])]

LEMMA Exists ==
    ASSUME NEW base, NEW seq, NEW n \in Nat, Picks(n)
    PROVE  \E g : Is(base, seq, n, g)
<1> DEFINE T == {m \in 0 .. n : \E g : Is(base, seq, m, g)}
<1>1. 0 \in T
  <2> DEFINE g == [s \in SUBSET (1 .. 0) |-> base]
  <2>1. Is(base, seq, 0, g)
    BY DEF Is
  <2> QED BY <2>1
<1>2. ASSUME NEW m \in 1 .. n, m - 1 \in T PROVE m \in T
  <2>1. PICK g : Is(base, seq, m - 1, g)
    BY <1>2
  <2> DEFINE h == [s \in SUBSET (1 .. m) |-> IF m \in s THEN Op(g[s \ {m}], seq[m]) ELSE g[s]]
  <2>2. ASSUME NEW s \in SUBSET (1 .. m)
        PROVE  h[s] = IF s = {} THEN base ELSE Op(h[s \ {Largest(s)}], seq[Largest(s)])
    <3>1. CASE m \in s
      <4>0. m \in Nat /\ s # {}
        BY <3>1
      <4>1. Largest(s) \in s /\ Largest(s) >= m
        BY <3>1, <4>0 DEF Picks
      <4>2. Largest(s) = m
        <5>1. Largest(s) \in 1 .. m
          BY <4>1
        <5> QED BY <4>1, <5>1
      <4>3. s \ {m} \in SUBSET (1 .. m) /\ m \notin s \ {m}
        OBVIOUS
      <4>4. h[s] = Op(g[s \ {m}], seq[m]) /\ h[s \ {m}] = g[s \ {m}]
        BY <4>3, <3>1
      <4> HIDE DEF h
      <4> QED BY <4>2, <4>4, <3>1
    <3>2. CASE m \notin s
      <4>1. s \in SUBSET (1 .. m - 1)
        BY <3>2
      <4>2. h[s] = g[s]
        BY <3>2
      <4>3. CASE s = {}
        BY <2>1, <4>1, <4>2, <4>3 DEF Is
      <4>4. CASE s # {}
        <5>1. Largest(s) \in s
          BY <4>4 DEF Picks
        <5>2. h[s \ {Largest(s)}] = g[s \ {Largest(s)}]
          BY <3>2
        <5>3. g[s] = Op(g[s \ {Largest(s)}], seq[Largest(s)])
          BY <2>1, <4>1, <4>4 DEF Is
        <5> HIDE DEF h
        <5> QED BY <4>2, <4>4, <5>2, <5>3
      <4> QED BY <4>3, <4>4
    <3> QED BY <3>1, <3>2
  <2>3. h = [s \in SUBSET (1 .. m) |-> h[s]]
    OBVIOUS
  <2> HIDE DEF h
  <2>4. Is(base, seq, m, h)
    BY <2>2, <2>3 DEF Is
  <2> QED BY <2>4
<1>3. 0 .. n \subseteq T
  BY <1>1, <1>2, UpTo
<1> QED BY <1>3

(* The values of the fold over the first places, from none to n.           *)
StepByStep(base, seq, n, g) ==
    /\ g[0] = base
    /\ \A m \in 1 .. n : g[m] = Op(g[m - 1], seq[m])

(* A fold over a sequence is made step by step from its beginning.         *)
THEOREM Steps ==
    ASSUME NEW base, NEW seq, NEW n \in Nat, Picks(n), NEW it, Is(base, seq, n, it)
    PROVE  \E g : StepByStep(base, seq, n, g) /\ it[1 .. n] = g[n]
<1> DEFINE g == [m \in 0 .. n |-> it[1 .. m]]
<1>3. g[0] = base
  <2>1. 1 .. 0 = {}
    OBVIOUS
  <2> QED BY <2>1 DEF Is
<1>4. ASSUME NEW m \in 1 .. n PROVE g[m] = Op(g[m - 1], seq[m])
  <2>0. m \in Nat /\ 1 .. m # {} /\ m \in 1 .. m /\ 1 .. m \in SUBSET (1 .. n)
    OBVIOUS
  <2>1. Largest(1 .. m) \in 1 .. m /\ Largest(1 .. m) >= m
    BY <2>0 DEF Picks
  <2>2. Largest(1 .. m) = m /\ (1 .. m) \ {m} = 1 .. m - 1
    BY <2>1
  <2>3. it[1 .. m] = Op(it[1 .. m - 1], seq[m])
    <3>2. it[1 .. m] = Op(it[(1 .. m) \ {Largest(1 .. m)}], seq[Largest(1 .. m)])
      BY <2>0 DEF Is
    <3> QED BY <2>2, <3>2
  <2> QED BY <2>3
<1>5. it[1 .. n] = g[n] /\ n \in 0 .. n
  OBVIOUS
<1> HIDE DEF g
<1> QED BY <1>3, <1>4, <1>5 DEF StepByStep
============================================================================
