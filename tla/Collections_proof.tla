-------------------------- MODULE Collections_proof --------------------------
(***************************************************************************)
(* The lemmas about lists, and the safety of reading a Swarm, a project of *)
(* Cloud Run and the regions of ECS, for any inputs.  Survey_proof states  *)
(* the theorems of a run, Kubernetes_proof has what they need of a         *)
(* cluster.                                                                *)
(***************************************************************************)
EXTENDS SwarmCollection, ECSCollection, CloudRunCollection, Lists, SequencesExt, WellFoundedInduction, TLAPS

-----------------------------------------------------------------------------
(* Lists                                                                   *)

(***************************************************************************)
(* Induction on the set of the numbers that something holds for.           *)
(***************************************************************************)
LEMMA SetInduction ==
  ASSUME NEW S, 0 \in S, \A n \in Nat : n \in S => n + 1 \in S
  PROVE  Nat \subseteq S
<1> DEFINE T == Nat \ S
<1>1. SUFFICES ASSUME T # {} PROVE FALSE
  OBVIOUS
<1>2. PICK x \in T : \A y \in T : <<y, x>> \notin OpToRel(<, Nat)
  BY <1>1, NatLessThanWellFounded, WFMin
<1>3. x \in Nat /\ x # 0 /\ x - 1 \in Nat
  OBVIOUS
<1>4. x - 1 \in T
  BY <1>3
<1>5. <<x - 1, x>> \in OpToRel(<, Nat)
  BY <1>3 DEF OpToRel
<1> QED
  BY <1>2, <1>4, <1>5

\* What a loop has computed when it has come as far as each n.
Loop(g, N, base, h) == g[0] = base /\ \A n \in 1..N : g[n] = h[<<n, g[n - 1]>>]

(***************************************************************************)
(* A loop has a result, however often its body runs.                       *)
(***************************************************************************)
LEMMA LoopRuns ==
  ASSUME NEW N \in Nat, NEW A, NEW base \in A, NEW h \in [(1..N) \X A -> A]
  PROVE  \E g \in [0..N -> A] : Loop(g, N, base, h)
<1> USE DEF Loop
<1> DEFINE Run(g, m) == g[0] = base /\ \A n \in 1..m : g[n] = h[<<n, g[n - 1]>>]
           S == {m \in Nat : m <= N => \E g \in [0..m -> A] : Run(g, m)}
<1>1. 0 \in S
  <2>1. [i \in 0..0 |-> base] \in [0..0 -> A] /\ Run([i \in 0..0 |-> base], 0)
    OBVIOUS
  <2> QED
    BY <2>1
<1>2. ASSUME NEW m \in Nat, m \in S PROVE m + 1 \in S
  <2> SUFFICES ASSUME m + 1 <= N PROVE \E g \in [0..(m + 1) -> A] : Run(g, m + 1)
    OBVIOUS
  <2>1. PICK g \in [0..m -> A] : Run(g, m)
    BY <1>2
  <2> DEFINE next == h[<<m + 1, g[m]>>]
             longer == [i \in 0..(m + 1) |-> IF i = m + 1 THEN next ELSE g[i]]
  <2>2. next \in A
    <3>1. <<m + 1, g[m]>> \in (1..N) \X A
      OBVIOUS
    <3> QED
      BY <3>1
  <2> HIDE DEF next
  <2>3. longer \in [0..(m + 1) -> A]
    BY <2>2
  <2>4. longer[0] = base
    BY <2>1
  <2>5. ASSUME NEW n \in 1..(m + 1) PROVE longer[n] = h[<<n, longer[n - 1]>>]
    <3>1. CASE n = m + 1
      <4>1. longer[m + 1] = next /\ longer[m] = g[m] /\ (m + 1) - 1 = m
        OBVIOUS
      <4> HIDE DEF longer
      <4> QED
        BY <3>1, <4>1 DEF next
    <3>2. CASE n # m + 1
      <4>1. n \in 1..m /\ n - 1 \in 0..m
        BY <2>5, <3>2
      <4>2. longer[n] = g[n] /\ longer[n - 1] = g[n - 1]
        BY <4>1
      <4>3. g[n] = h[<<n, g[n - 1]>>]
        BY <2>1, <4>1
      <4> HIDE DEF longer
      <4> QED
        BY <4>2, <4>3
    <3> QED
      BY <3>1, <3>2
  <2> HIDE DEF longer
  <2> QED
    BY <2>3, <2>4, <2>5
<1> HIDE DEF S
<1>3. Nat \subseteq S
  BY <1>1, <1>2, SetInduction
<1> QED
  BY <1>3 DEF S

(***************************************************************************)
(* The loop that keeps elements of a list has a result, step by step.      *)
(***************************************************************************)
LEMMA OnlyRuns ==
  ASSUME NEW S, NEW s \in Seq(S), NEW kept
  PROVE  \E upTo : /\ upTo[0] = <<>>
                   /\ \A n \in 1..Len(s) :
                        upTo[n] = IF s[n] \in kept THEN Append(upTo[n - 1], s[n]) ELSE upTo[n - 1]
                   /\ Only(s, kept) = upTo[Len(s)]
<1> DEFINE N == Len(s)
           A == Seq(S)
           grow(n, before) == IF s[n] \in kept THEN Append(before, s[n]) ELSE before
           loop(g) == [n \in 0..N |-> IF n = 0 THEN <<>> ELSE grow(n, g[n - 1])]
           upTo == CHOOSE g : g = loop(g)
           h == [p \in (1..N) \X A |-> grow(p[1], p[2])]
<1>1. N \in Nat /\ <<>> \in A /\ DOMAIN s = 1..N /\ \A n \in 1..N : s[n] \in S
  OBVIOUS
<1>2. \A n \in 1..N, q \in A : grow(n, q) \in A
  BY <1>1
<1>3. h \in [(1..N) \X A -> A]
  BY <1>2
<1>4. PICK g \in [0..N -> A] : Loop(g, N, <<>>, h)
  <2> HIDE DEF h, A, N
  <2>1. <<>> \in A /\ N \in Nat
    BY <1>1
  <2> QED
    BY <1>3, <2>1, LoopRuns
<1>5. g = loop(g)
  <2>1. \A n \in 1..N : g[n] = grow(n, g[n - 1])
    <3>1. ASSUME NEW n \in 1..N PROVE g[n] = grow(n, g[n - 1])
      <4>1. g[n - 1] \in A
        BY <1>1, <1>4
      <4>2. <<n, g[n - 1]>> \in (1..N) \X A
        BY <4>1, Zenon
      <4>3. h[<<n, g[n - 1]>>] = grow(n, g[n - 1])
        BY <4>2
      <4> QED
        BY <1>4, <4>3 DEF Loop
    <3> QED
      BY <3>1
  <2> HIDE DEF grow
  <2> QED
    BY <1>4, <2>1 DEF Loop
<1>6. upTo = loop(upTo)
  <2> HIDE DEF loop
  <2> QED
    BY <1>5, Zenon
<1>7. Only(s, kept) = upTo[N]
  BY DEF Only
<1> HIDE DEF upTo
<1>8. upTo[0] = <<>> /\ \A n \in 1..N : upTo[n] = grow(n, upTo[n - 1])
  <2> HIDE DEF grow
  <2>1. upTo[0] = <<>>
    BY <1>1, <1>6
  <2>2. ASSUME NEW n \in 1..N PROVE upTo[n] = grow(n, upTo[n - 1])
    <3>1. n \in 0..N /\ n # 0
      BY <1>1
    <3>2. \A q : q = loop(upTo) => q[n] = IF n = 0 THEN <<>> ELSE grow(n, upTo[n - 1])
      BY <3>1
    <3> QED
      BY <1>6, <3>1, <3>2
  <2> QED
    BY <2>1, <2>2
<1> QED
  BY <1>7, <1>8

(***************************************************************************)
(* What a loop keeps of a list is the elements that are to be kept.        *)
(***************************************************************************)
LEMMA OnlyKept ==
  ASSUME NEW S, NEW s \in Seq(S), NEW kept
  PROVE  /\ Only(s, kept) \in Seq(S)
         /\ \A x : (\E i \in DOMAIN Only(s, kept) : Only(s, kept)[i] = x)
                     <=> x \in kept /\ \E i \in DOMAIN s : s[i] = x
<1> DEFINE N == Len(s)
           A == Seq(S)
           Has(q, x) == \E i \in DOMAIN q : q[i] = x
<1>1. N \in Nat /\ DOMAIN s = 1..N /\ \A n \in 1..N : s[n] \in S
  OBVIOUS
<1>2. PICK upTo : /\ upTo[0] = <<>>
                  /\ \A n \in 1..N :
                       upTo[n] = IF s[n] \in kept THEN Append(upTo[n - 1], s[n]) ELSE upTo[n - 1]
                  /\ Only(s, kept) = upTo[N]
  BY OnlyRuns
<1> DEFINE Holds == {n \in Nat : n <= N =>
             /\ upTo[n] \in A
             /\ \A x : Has(upTo[n], x) <=> x \in kept /\ \E i \in 1..n : s[i] = x}
<1>3. 0 \in Holds
  <2>1. DOMAIN upTo[0] = {} /\ upTo[0] \in A
    BY <1>2
  <2> QED
    BY <2>1
<1>4. ASSUME NEW n \in Nat, n \in Holds PROVE n + 1 \in Holds
  <2> SUFFICES ASSUME n + 1 <= N
               PROVE  /\ upTo[n + 1] \in A
                      /\ \A x : Has(upTo[n + 1], x) <=> x \in kept /\ \E i \in 1..(n + 1) : s[i] = x
    OBVIOUS
  <2> DEFINE before == upTo[n]
             after == upTo[n + 1]
             y == s[n + 1]
  <2>1. before \in A /\ \A x : Has(before, x) <=> x \in kept /\ \E i \in 1..n : s[i] = x
    <3>1. n <= N
      BY <1>1
    <3> HIDE DEF A, N, Has
    <3> QED
      BY <1>4, <3>1
  <2>2. after = (IF y \in kept THEN Append(before, y) ELSE before) /\ y \in S
    <3>1. n + 1 \in 1..N /\ (n + 1) - 1 = n
      BY <1>1
    <3> QED
      BY <1>1, <1>2, <3>1
  <2>3. \A x : (\E i \in 1..(n + 1) : s[i] = x) <=> (\E i \in 1..n : s[i] = x) \/ y = x
    OBVIOUS
  <2> HIDE DEF before, after, y
  <2>4. CASE y \in kept
    <3>1. \A x : Has(after, x) <=> Has(before, x) \/ y = x
      <4>1. /\ DOMAIN after = 1..(Len(before) + 1) /\ DOMAIN before = 1..Len(before)
            /\ Len(before) \in Nat /\ after[Len(before) + 1] = y
            /\ \A i \in 1..Len(before) : after[i] = before[i]
        BY <2>1, <2>2, <2>4
      <4>2. ASSUME NEW i \in DOMAIN after PROVE Has(before, after[i]) \/ y = after[i]
        <5>1. i \in DOMAIN before \/ i = Len(before) + 1
          BY <4>1
        <5> QED
          BY <4>1, <5>1
      <4>3. ASSUME NEW i \in DOMAIN before PROVE Has(after, before[i])
        <5>1. i \in DOMAIN after /\ after[i] = before[i]
          BY <4>1
        <5> QED
          BY <5>1
      <4>4. Has(after, y)
        <5>1. Len(before) + 1 \in DOMAIN after
          BY <4>1
        <5> QED
          BY <4>1, <5>1
      <4>5. ASSUME NEW x, Has(after, x) PROVE Has(before, x) \/ y = x
        <5>1. PICK i \in DOMAIN after : after[i] = x
          BY <4>5
        <5> HIDE DEF Has
        <5> QED
          BY <4>2, <5>1
      <4>6. ASSUME NEW x, Has(before, x) PROVE Has(after, x)
        <5>1. PICK i \in DOMAIN before : before[i] = x
          BY <4>6
        <5> HIDE DEF Has
        <5> QED
          BY <4>3, <5>1
      <4> HIDE DEF Has
      <4> QED
        BY <4>4, <4>5, <4>6
    <3>2. after \in A
      BY <2>1, <2>2
    <3> QED
      BY <2>1, <2>3, <2>4, <3>1, <3>2 DEF after
  <2>5. CASE y \notin kept
    BY <2>1, <2>2, <2>3, <2>5 DEF before, after
  <2> QED
    BY <2>4, <2>5
<1> HIDE DEF Holds
<1>5. Nat \subseteq Holds
  BY <1>3, <1>4, SetInduction
<1> QED
  <2> DEFINE whole == upTo[N]
  <2> HIDE DEF A
  <2>1. /\ whole \in A
        /\ \A x : Has(whole, x) <=> x \in kept /\ \E i \in 1..N : s[i] = x
    <3>1. N \in Nat /\ N <= N
      BY <1>1
    <3> HIDE DEF N, Has
    <3> QED
      BY <1>5, <3>1 DEF Holds
  <2> HIDE DEF whole
  <2>2. Only(s, kept) = whole
    BY <1>2 DEF whole
  <2> QED
    BY <1>1, <2>1, <2>2 DEF A

(***************************************************************************)
(* The loop that appends lists has a result, step by step.                 *)
(***************************************************************************)
LEMMA FlattenRuns ==
  ASSUME NEW S, NEW seqs \in Seq(Seq(S)), Len(seqs) # 0
  PROVE  \E flatten :
           /\ \A i \in 1..Len(seqs) :
                flatten[i] = IF i = 1 THEN seqs[i] ELSE flatten[i - 1] \o seqs[i]
           /\ FlattenSeq(seqs) = flatten[Len(seqs)]
<1> DEFINE N == Len(seqs)
           A == Seq(S)
           loop(g) == [i \in 1..N |-> IF i = 1 THEN seqs[i] ELSE g[i - 1] \o seqs[i]]
           flatten == CHOOSE g : g = loop(g)
           h == [p \in (1..N) \X A |-> p[2] \o seqs[p[1]]]
<1>1. N \in Nat /\ <<>> \in A /\ DOMAIN seqs = 1..N /\ \A n \in 1..N : seqs[n] \in A
  OBVIOUS
<1>2. N # 0
  OBVIOUS
<1>3. h \in [(1..N) \X A -> A]
  BY <1>1
<1>4. PICK g \in [0..N -> A] : Loop(g, N, <<>>, h)
  <2> HIDE DEF h, A, N
  <2>1. <<>> \in A /\ N \in Nat
    BY <1>1
  <2> QED
    BY <1>3, <2>1, LoopRuns
<1>5. g[0] = <<>> /\ \A n \in 1..N : g[n] = g[n - 1] \o seqs[n]
  <2>1. ASSUME NEW n \in 1..N PROVE g[n] = g[n - 1] \o seqs[n]
    <3>1. g[n - 1] \in A
      <4>1. n - 1 \in 0..N
        BY <1>1
      <4> HIDE DEF A, N, h
      <4> QED
        BY <1>4, <4>1
    <3>2. <<n, g[n - 1]>> \in (1..N) \X A
      BY <3>1, Zenon
    <3>3. \A p \in (1..N) \X A : h[p] = p[2] \o seqs[p[1]]
      OBVIOUS
    <3>4. h[<<n, g[n - 1]>>] = g[n - 1] \o seqs[n]
      <4> HIDE DEF h, N, A
      <4> QED
        BY <3>2, <3>3
    <3> QED
      BY <1>4, <3>4 DEF Loop
  <2> QED
    BY <1>4, <2>1 DEF Loop
<1> DEFINE f == [i \in 1..N |-> g[i]]
<1>6. f = loop(f)
  <2>1. ASSUME NEW i \in 1..N PROVE f[i] = IF i = 1 THEN seqs[i] ELSE f[i - 1] \o seqs[i]
    <3>1. CASE i = 1
      <4>1. g[1] = <<>> \o seqs[1] /\ seqs[1] \in A
        <5>1. 1 \in 1..N /\ 1 - 1 = 0
          BY <3>1
        <5> HIDE DEF A, N
        <5> QED
          BY <1>1, <1>5, <5>1
      <4>2. \A q \in A : <<>> \o q = q
        OBVIOUS
      <4>3. f[i] = g[1]
        BY <3>1
      <4> HIDE DEF A, N, f
      <4> QED
        BY <3>1, <4>1, <4>2, <4>3
    <3>2. CASE i # 1
      <4>1. i - 1 \in 1..N /\ f[i - 1] = g[i - 1]
        BY <1>1, <3>2
      <4>2. f[i] = g[i] /\ g[i] = g[i - 1] \o seqs[i]
        BY <1>5
      <4> QED
        BY <3>2, <4>1, <4>2, Zenon
    <3> QED
      BY <3>1, <3>2
  <2> QED
    BY <2>1
<1>7. flatten = loop(flatten)
  <2> HIDE DEF loop
  <2> QED
    BY <1>6, Zenon
<1>8. FlattenSeq(seqs) = flatten[N]
  BY <1>2 DEF FlattenSeq
<1> HIDE DEF flatten
<1>9. ASSUME NEW i \in 1..N
       PROVE  flatten[i] = IF i = 1 THEN seqs[i] ELSE flatten[i - 1] \o seqs[i]
  <2>1. \A q : q = loop(flatten) => q[i] = IF i = 1 THEN seqs[i] ELSE flatten[i - 1] \o seqs[i]
    OBVIOUS
  <2> HIDE DEF loop
  <2> QED
    BY <1>7, <2>1
<1> QED
  BY <1>8, <1>9

(***************************************************************************)
(* What a list of lists has when its lists are appended is what they have. *)
(***************************************************************************)
LEMMA FlattenJoins ==
  ASSUME NEW S, NEW seqs \in Seq(Seq(S))
  PROVE  /\ FlattenSeq(seqs) \in Seq(S)
         /\ \A x : (\E i \in DOMAIN FlattenSeq(seqs) : FlattenSeq(seqs)[i] = x)
                     <=> \E k \in DOMAIN seqs : \E i \in DOMAIN seqs[k] : seqs[k][i] = x
<1> DEFINE N == Len(seqs)
           A == Seq(S)
           Has(q, x) == \E i \in DOMAIN q : q[i] = x
<1>1. N \in Nat /\ <<>> \in A /\ DOMAIN seqs = 1..N /\ \A n \in 1..N : seqs[n] \in A
  OBVIOUS
<1>2. CASE N = 0
  <2>1. seqs = <<>>
    BY <1>2
  <2>2. FlattenSeq(seqs) = seqs
    <3>1. Len(seqs) = 0
      BY <1>2
    <3> HIDE DEF N
    <3> QED
      BY <3>1, Zenon DEF FlattenSeq
  <2>3. DOMAIN FlattenSeq(seqs) = {} /\ DOMAIN seqs = {} /\ FlattenSeq(seqs) \in Seq(S)
    <3>1. DOMAIN seqs = {} /\ seqs \in Seq(S)
      BY <2>1
    <3> QED
      BY <2>2, <3>1, Zenon
  <2> HIDE DEF N
  <2> QED
    BY <2>3, Zenon
<1>3. CASE N # 0
  <2>1. PICK flatten : /\ \A i \in 1..N :
                            flatten[i] = IF i = 1 THEN seqs[i] ELSE flatten[i - 1] \o seqs[i]
                       /\ FlattenSeq(seqs) = flatten[N]
    BY <1>3, FlattenRuns
  <2> DEFINE Holds == {n \in Nat : n < N =>
               /\ flatten[n + 1] \in A
               /\ \A x : Has(flatten[n + 1], x) <=> \E k \in 1..(n + 1) : Has(seqs[k], x)}
  <2>2. 0 \in Holds
    <3>1. flatten[1] = seqs[1]
      BY <1>1, <1>3, <2>1
    <3>2. flatten[1] \in A
      BY <1>1, <1>3, <3>1
    <3>3. \A x : Has(flatten[1], x) <=> \E k \in {1} : Has(seqs[k], x)
      BY <3>1
    <3>4. 0 \in Nat /\ 0 + 1 = 1 /\ 1..1 = {1}
      OBVIOUS
    <3>5. /\ flatten[0 + 1] \in A
          /\ \A x : Has(flatten[0 + 1], x) <=> \E k \in 1..(0 + 1) : Has(seqs[k], x)
      <4> HIDE DEF A
      <4> QED
        BY <3>2, <3>3, <3>4
    <3> QED
      BY <3>4, <3>5
  <2>3. ASSUME NEW n \in Nat, n \in Holds PROVE n + 1 \in Holds
    <3> SUFFICES ASSUME n + 1 < N
                 PROVE  /\ flatten[n + 2] \in A
                        /\ \A x : Has(flatten[n + 2], x) <=> \E k \in 1..(n + 2) : Has(seqs[k], x)
      <4>1. (n + 1) + 1 = n + 2
        OBVIOUS
      <4> HIDE DEF Has, A, N
      <4> QED
        BY <4>1
    <3> DEFINE before == flatten[n + 1]
               after == flatten[n + 2]
               more == seqs[n + 2]
    <3>1. before \in A /\ \A x : Has(before, x) <=> \E k \in 1..(n + 1) : Has(seqs[k], x)
      <4>1. n < N
        BY <1>1
      <4> HIDE DEF A, N, Has
      <4> QED
        BY <2>3, <4>1
    <3>2. after = before \o more /\ more \in A
      <4>1. n + 2 \in 1..N /\ n + 2 # 1 /\ (n + 2) - 1 = n + 1
        BY <1>1
      <4> HIDE DEF N, A
      <4> QED
        BY <1>1, <2>1, <4>1
    <3>3. \A x : (\E k \in 1..(n + 2) : Has(seqs[k], x))
                   <=> (\E k \in 1..(n + 1) : Has(seqs[k], x)) \/ Has(more, x)
      <4> HIDE DEF Has
      <4> QED
        OBVIOUS
    <3> HIDE DEF before, after, more
    <3>4. after \in A /\ \A x : Has(after, x) <=> Has(before, x) \/ Has(more, x)
      <4>1. after \in A
        BY <3>1, <3>2
      <4>2. /\ Len(before) \in Nat /\ Len(more) \in Nat
            /\ DOMAIN before = 1..Len(before) /\ DOMAIN more = 1..Len(more)
            /\ DOMAIN after = 1..(Len(before) + Len(more))
            /\ \A i \in 1..Len(before) : after[i] = before[i]
            /\ \A i \in 1..Len(more) : after[Len(before) + i] = more[i]
        BY <3>1, <3>2
      <4>3. \A i \in DOMAIN after : i \in DOMAIN before \/ i - Len(before) \in DOMAIN more
        BY <4>2
      <4>4. \A i \in DOMAIN after : i \notin DOMAIN before => after[i] = more[i - Len(before)]
        BY <4>2
      <4> QED
        <5>1. ASSUME NEW i \in DOMAIN after PROVE Has(before, after[i]) \/ Has(more, after[i])
          BY <4>2, <4>3, <4>4
        <5>2. ASSUME NEW i \in DOMAIN before PROVE Has(after, before[i])
          BY <4>2
        <5>3. ASSUME NEW i \in DOMAIN more PROVE Has(after, more[i])
          <6>1. Len(before) + i \in DOMAIN after /\ after[Len(before) + i] = more[i]
            BY <4>2
          <6> QED
            BY <6>1
        <5>4. ASSUME NEW x, Has(after, x) PROVE Has(before, x) \/ Has(more, x)
          <6>1. PICK i \in DOMAIN after : after[i] = x
            BY <5>4
          <6> HIDE DEF Has
          <6> QED
            BY <5>1, <6>1
        <5>5. ASSUME NEW x, Has(before, x) PROVE Has(after, x)
          <6>1. PICK i \in DOMAIN before : before[i] = x
            BY <5>5
          <6> HIDE DEF Has
          <6> QED
            BY <5>2, <6>1
        <5>6. ASSUME NEW x, Has(more, x) PROVE Has(after, x)
          <6>1. PICK i \in DOMAIN more : more[i] = x
            BY <5>6
          <6> HIDE DEF Has
          <6> QED
            BY <5>3, <6>1
        <5> HIDE DEF Has, A
        <5> QED
          BY <4>1, <5>4, <5>5, <5>6
    <3> QED
      BY <3>1, <3>3, <3>4 DEF after
  <2> HIDE DEF Holds
  <2>4. Nat \subseteq Holds
    BY <2>2, <2>3, SetInduction
  <2>5. /\ flatten[N] \in A
         /\ \A x : Has(flatten[N], x) <=> \E k \in 1..N : Has(seqs[k], x)
    <3>1. N - 1 \in Nat /\ N - 1 < N /\ (N - 1) + 1 = N
      BY <1>1, <1>3
    <3> HIDE DEF A, N, Has
    <3> QED
      BY <2>4, <3>1 DEF Holds
  <2> QED
    BY <1>1, <2>1, <2>5
<1> QED
  BY <1>2, <1>3

(***************************************************************************)
(* Induction on lists, from the empty one, by what is appended.            *)
(***************************************************************************)
LEMMA ListInduction ==
  ASSUME NEW S, NEW P, <<>> \in P, \A s \in Seq(S) : \A x \in S : s \in P => Append(s, x) \in P
  PROVE  Seq(S) \subseteq P
<1> DEFINE Holds == {n \in Nat : \A s \in Seq(S) : Len(s) = n => s \in P}
<1>1. 0 \in Holds
  <2>1. \A s \in Seq(S) : Len(s) = 0 => s = <<>>
    OBVIOUS
  <2> QED
    BY <2>1
<1>2. ASSUME NEW n \in Nat, n \in Holds PROVE n + 1 \in Holds
  <2> SUFFICES ASSUME NEW s \in Seq(S), Len(s) = n + 1 PROVE s \in P
    OBVIOUS
  <2> DEFINE front == [i \in 1..n |-> s[i]]
             last == s[n + 1]
  <2>1. front \in Seq(S) /\ Len(front) = n /\ last \in S
    OBVIOUS
  <2>2. Append(front, last) = s
    <3>1. \A i \in 1..n : front[i] = s[i]
      OBVIOUS
    <3> HIDE DEF front
    <3>2. /\ Append(front, last) \in Seq(S) /\ Len(Append(front, last)) = n + 1
          /\ \A i \in 1..n : Append(front, last)[i] = front[i]
          /\ Append(front, last)[n + 1] = last
      BY <2>1
    <3> DEFINE whole == Append(front, last)
    <3>3. /\ whole \in Seq(S) /\ Len(whole) = n + 1
          /\ \A i \in 1..(n + 1) : whole[i] = s[i]
      BY <3>1, <3>2
    <3> HIDE DEF whole
    <3>4. whole = s
      BY <3>3
    <3> QED
      BY <3>4 DEF whole
  <2> HIDE DEF front, last
  <2>3. front \in P
    BY <1>2, <2>1
  <2> QED
    BY <2>1, <2>2, <2>3
<1> HIDE DEF Holds
<1>3. Nat \subseteq Holds
  BY <1>1, <1>2, SetInduction
<1>4. \A s \in Seq(S) : Len(s) \in Nat
  OBVIOUS
<1> QED
  BY <1>3, <1>4 DEF Holds

(***************************************************************************)
(* What a loop keeps, element by element.                                  *)
(***************************************************************************)
LEMMA OnlyGrows ==
  ASSUME NEW S, NEW kept
  PROVE  /\ Only(<<>>, kept) = <<>>
         /\ \A s \in Seq(S) : \A x \in S :
              Only(Append(s, x), kept) = IF x \in kept THEN Append(Only(s, kept), x) ELSE Only(s, kept)
<1>1. Only(<<>>, kept) = <<>>
  <2>1. <<>> \in Seq(S) /\ Len(<<>>) = 0
    OBVIOUS
  <2> DEFINE t == <<>>
  <2> HIDE DEF t
  <2>2. t \in Seq(S) /\ Len(t) = 0
    BY <2>1 DEF t
  <2>3. PICK u : /\ u[0] = <<>>
                 /\ \A n \in 1..Len(t) :
                      u[n] = IF t[n] \in kept THEN Append(u[n - 1], t[n]) ELSE u[n - 1]
                 /\ Only(t, kept) = u[Len(t)]
    BY <2>2, OnlyRuns
  <2> QED
    BY <2>2, <2>3 DEF t
<1>2. ASSUME NEW s \in Seq(S), NEW x \in S
      PROVE  Only(Append(s, x), kept) = IF x \in kept THEN Append(Only(s, kept), x) ELSE Only(s, kept)
  <2> DEFINE N == Len(s)
             t == Append(s, x)
  <2>1. /\ N \in Nat /\ t \in Seq(S) /\ Len(t) = N + 1
        /\ \A n \in 1..N : t[n] = s[n]
        /\ t[N + 1] = x
    OBVIOUS
  <2>2. PICK u : /\ u[0] = <<>>
                 /\ \A n \in 1..N : u[n] = IF s[n] \in kept THEN Append(u[n - 1], s[n]) ELSE u[n - 1]
                 /\ Only(s, kept) = u[N]
    BY OnlyRuns
  <2> HIDE DEF t, N
  <2>3. PICK v : /\ v[0] = <<>>
                 /\ \A n \in 1..Len(t) :
                      v[n] = IF t[n] \in kept THEN Append(v[n - 1], t[n]) ELSE v[n - 1]
                 /\ Only(t, kept) = v[Len(t)]
    BY <2>1, OnlyRuns
  <2> DEFINE Same == {n \in Nat : n <= N => u[n] = v[n]}
  <2>4. 0 \in Same
    BY <2>2, <2>3
  <2>5. ASSUME NEW n \in Nat, n \in Same PROVE n + 1 \in Same
    <3> SUFFICES ASSUME n + 1 <= N PROVE u[n + 1] = v[n + 1]
      OBVIOUS
    <3>1. n + 1 \in 1..N /\ n + 1 \in 1..Len(t) /\ (n + 1) - 1 = n /\ u[n] = v[n]
      BY <2>1, <2>5
    <3>2. t[n + 1] = s[n + 1]
      BY <2>1, <3>1
    <3>3. u[n + 1] = IF s[n + 1] \in kept THEN Append(u[n], s[n + 1]) ELSE u[n]
      BY <2>2, <3>1
    <3>4. v[n + 1] = IF t[n + 1] \in kept THEN Append(v[n], t[n + 1]) ELSE v[n]
      BY <2>3, <3>1
    <3> QED
      BY <3>1, <3>2, <3>3, <3>4
  <2>6. u[N] = v[N]
    <3> HIDE DEF Same
    <3>1. Nat \subseteq Same
      BY <2>4, <2>5, SetInduction
    <3> QED
      BY <2>1, <3>1 DEF Same
  <2>7. v[N + 1] = IF x \in kept THEN Append(v[N], x) ELSE v[N]
    <3>1. N + 1 \in 1..Len(t) /\ (N + 1) - 1 = N
      BY <2>1
    <3> QED
      BY <2>1, <2>3, <3>1
  <2>8. Only(t, kept) = IF x \in kept THEN Append(Only(s, kept), x) ELSE Only(s, kept)
    BY <2>1, <2>2, <2>3, <2>6, <2>7
  <2> QED
    BY <2>8 DEF t
<1> QED
  BY <1>1, <1>2

(***************************************************************************)
(* What is kept of two lists that are appended.                            *)
(***************************************************************************)
LEMMA OnlyJoins ==
  ASSUME NEW S, NEW s \in Seq(S), NEW t \in Seq(S), NEW kept
  PROVE  Only(s \o t, kept) = Only(s, kept) \o Only(t, kept)
<1>1. \A q \in Seq(S) : \A x \in S :
        Only(Append(q, x), kept) = IF x \in kept THEN Append(Only(q, kept), x) ELSE Only(q, kept)
  BY OnlyGrows
<1> DEFINE P == {q \in Seq(S) : Only(s \o q, kept) = Only(s, kept) \o Only(q, kept)}
<1>2. Only(s, kept) \in Seq(S)
  BY OnlyKept
<1>3. <<>> \in P
  <2>1. <<>> \in Seq(S) /\ s \o <<>> = s /\ \A q \in Seq(S) : q \o <<>> = q
    OBVIOUS
  <2>2. Only(<<>>, kept) = <<>>
    BY OnlyGrows
  <2> QED
    BY <1>2, <2>1, <2>2
<1>4. ASSUME NEW q \in Seq(S), NEW x \in S, q \in P PROVE Append(q, x) \in P
  <2>1. s \o Append(q, x) = Append(s \o q, x) /\ s \o q \in Seq(S) /\ Append(q, x) \in Seq(S)
    OBVIOUS
  <2>2. Only(Append(q, x), kept) = IF x \in kept THEN Append(Only(q, kept), x) ELSE Only(q, kept)
    BY <1>1
  <2>3. Only(Append(s \o q, x), kept)
          = IF x \in kept THEN Append(Only(s \o q, kept), x) ELSE Only(s \o q, kept)
    BY <1>1, <2>1
  <2>4. Only(q, kept) \in Seq(S)
    BY OnlyKept
  <2>5. \A a, b \in Seq(S) : a \o Append(b, x) = Append(a \o b, x)
    OBVIOUS
  <2>6. Only(s \o q, kept) = Only(s, kept) \o Only(q, kept)
    BY <1>4
  <2>7. Only(s \o Append(q, x), kept) = Only(s, kept) \o Only(Append(q, x), kept)
    <3>1. Only(s, kept) \o Append(Only(q, kept), x) = Append(Only(s, kept) \o Only(q, kept), x)
      BY <1>2, <2>4, <2>5
    <3> QED
      BY <2>1, <2>2, <2>3, <2>6, <3>1
  <2> QED
    BY <2>1, <2>7
<1> HIDE DEF P
<1>5. Seq(S) \subseteq P
  BY <1>3, <1>4, ListInduction
<1> QED
  BY <1>5 DEF P

(***************************************************************************)
(* Only what is said of the elements counts for what is kept.              *)
(***************************************************************************)
LEMMA OnlyAlike ==
  ASSUME NEW S, NEW s \in Seq(S), NEW kept, NEW other, \A x \in S : x \in kept <=> x \in other
  PROVE  Only(s, kept) = Only(s, other)
<1>1. \A q \in Seq(S) : \A x \in S :
        Only(Append(q, x), kept) = IF x \in kept THEN Append(Only(q, kept), x) ELSE Only(q, kept)
  BY OnlyGrows
<1>2. \A q \in Seq(S) : \A x \in S :
        Only(Append(q, x), other) = IF x \in other THEN Append(Only(q, other), x) ELSE Only(q, other)
  BY OnlyGrows
<1> DEFINE P == {q \in Seq(S) : Only(q, kept) = Only(q, other)}
<1>3. <<>> \in P
  <2>1. Only(<<>>, kept) = <<>> /\ Only(<<>>, other) = <<>>
    BY OnlyGrows
  <2> QED
    BY <2>1
<1>4. ASSUME NEW q \in Seq(S), NEW x \in S, q \in P PROVE Append(q, x) \in P
  <2>1. Only(Append(q, x), kept) = IF x \in kept THEN Append(Only(q, kept), x) ELSE Only(q, kept)
    BY <1>1
  <2>2. Only(Append(q, x), other) = IF x \in other THEN Append(Only(q, other), x) ELSE Only(q, other)
    BY <1>2
  <2>3. Append(q, x) \in Seq(S) /\ (x \in kept <=> x \in other)
    OBVIOUS
  <2> QED
    BY <1>4, <2>1, <2>2, <2>3
<1> HIDE DEF P
<1>5. Seq(S) \subseteq P
  BY <1>3, <1>4, ListInduction
<1> QED
  BY <1>5 DEF P

(***************************************************************************)
(* If all of a list is to be kept it is, and if nothing is then it is not. *)
(***************************************************************************)
LEMMA OnlyWhole ==
  ASSUME NEW S, NEW s \in Seq(S), NEW kept
  PROVE  /\ S \subseteq kept => Only(s, kept) = s
         /\ S \cap kept = {} => Only(s, kept) = <<>>
<1>1. \A q \in Seq(S) : \A x \in S :
        Only(Append(q, x), kept) = IF x \in kept THEN Append(Only(q, kept), x) ELSE Only(q, kept)
  BY OnlyGrows
<1> DEFINE P == {q \in Seq(S) : /\ S \subseteq kept => Only(q, kept) = q
                                /\ S \cap kept = {} => Only(q, kept) = <<>>}
<1>2. <<>> \in P
  <2>1. Only(<<>>, kept) = <<>>
    BY OnlyGrows
  <2> QED
    BY <2>1
<1>3. ASSUME NEW q \in Seq(S), NEW x \in S, q \in P PROVE Append(q, x) \in P
  <2>1. Only(Append(q, x), kept) = IF x \in kept THEN Append(Only(q, kept), x) ELSE Only(q, kept)
    BY <1>1
  <2>2. Append(q, x) \in Seq(S)
    OBVIOUS
  <2> QED
    BY <1>3, <2>1, <2>2
<1> HIDE DEF P
<1>4. Seq(S) \subseteq P
  BY <1>2, <1>3, ListInduction
<1> QED
  BY <1>4 DEF P

(***************************************************************************)
(* What lists make when they are appended, list by list.                   *)
(***************************************************************************)
LEMMA FlattenGrows ==
  ASSUME NEW S
  PROVE  /\ FlattenSeq(<<>>) = <<>>
         /\ \A seqs \in Seq(Seq(S)) : \A x \in Seq(S) :
              FlattenSeq(Append(seqs, x)) = FlattenSeq(seqs) \o x
<1>1. FlattenSeq(<<>>) = <<>>
  <2>1. Len(<<>>) = 0
    OBVIOUS
  <2> QED
    BY <2>1, Zenon DEF FlattenSeq
<1>2. ASSUME NEW seqs \in Seq(Seq(S)), NEW x \in Seq(S)
      PROVE  FlattenSeq(Append(seqs, x)) = FlattenSeq(seqs) \o x
  <2> DEFINE A == Seq(S)
             N == Len(seqs)
             t == Append(seqs, x)
  <2>1. /\ N \in Nat /\ t \in Seq(A) /\ Len(t) = N + 1 /\ Len(t) # 0
        /\ \A n \in 1..N : t[n] = seqs[n]
        /\ t[N + 1] = x
    <3> HIDE DEF A
    <3>1. seqs \in Seq(A) /\ x \in A
      BY DEF A
    <3> QED
      BY <3>1
  <2> HIDE DEF t
  <2>2. PICK v : /\ \A i \in 1..Len(t) : v[i] = IF i = 1 THEN t[i] ELSE v[i - 1] \o t[i]
                 /\ FlattenSeq(t) = v[Len(t)]
    BY <2>1, FlattenRuns
  <2>3. CASE N = 0
    <3>1. seqs = <<>>
      BY <2>3
    <3>2. FlattenSeq(seqs) = <<>>
      BY <1>1, <3>1
    <3> HIDE DEF N
    <3>3. FlattenSeq(t) = x
      BY <2>1, <2>2, <2>3
    <3>4. <<>> \o x = x
      OBVIOUS
    <3> QED
      BY <3>2, <3>3, <3>4 DEF t
  <2>4. CASE N # 0
    <3>1. PICK u : /\ \A i \in 1..N : u[i] = IF i = 1 THEN seqs[i] ELSE u[i - 1] \o seqs[i]
                   /\ FlattenSeq(seqs) = u[N]
      BY <2>4, FlattenRuns
    <3> HIDE DEF N, A
    <3> DEFINE Same == {n \in Nat : n < N => u[n + 1] = v[n + 1]}
    <3>2. 0 \in Same
      <4>1. 1 \in 1..N /\ 1 \in 1..Len(t)
        BY <2>1, <2>4
      <4>2. u[1] = seqs[1] /\ v[1] = t[1] /\ t[1] = seqs[1]
        BY <2>1, <2>2, <3>1, <4>1
      <4> QED
        BY <4>2
    <3>3. ASSUME NEW n \in Nat, n \in Same PROVE n + 1 \in Same
      <4> SUFFICES ASSUME n + 1 < N PROVE u[n + 2] = v[n + 2]
        <5>1. (n + 1) + 1 = n + 2
          OBVIOUS
        <5> QED
          BY <5>1
      <4>1. /\ n + 2 \in 1..N /\ n + 2 \in 1..Len(t) /\ n + 2 # 1 /\ (n + 2) - 1 = n + 1
            /\ u[n + 1] = v[n + 1]
        BY <2>1, <3>3
      <4>2. t[n + 2] = seqs[n + 2]
        BY <2>1, <4>1
      <4>3. u[n + 2] = u[n + 1] \o seqs[n + 2]
        BY <3>1, <4>1
      <4>4. v[n + 2] = v[n + 1] \o t[n + 2]
        BY <2>2, <4>1
      <4> QED
        BY <4>1, <4>2, <4>3, <4>4
    <3> HIDE DEF Same
    <3>4. Nat \subseteq Same
      BY <3>2, <3>3, SetInduction
    <3>5. u[N] = v[N]
      <4>1. N - 1 \in Nat /\ N - 1 < N /\ (N - 1) + 1 = N
        BY <2>1, <2>4
      <4> QED
        BY <3>4, <4>1 DEF Same
    <3>6. v[N + 1] = v[N] \o x
      <4>1. N + 1 \in 1..Len(t) /\ N + 1 # 1 /\ (N + 1) - 1 = N
        BY <2>1, <2>4
      <4> QED
        BY <2>1, <2>2, <4>1
    <3> QED
      BY <2>1, <2>2, <3>1, <3>5, <3>6 DEF t
  <2> QED
    BY <2>3, <2>4
<1> QED
  BY <1>1, <1>2

(***************************************************************************)
(* Lists that are appended are a list.                                     *)
(***************************************************************************)
LEMMA FlattenTyped == ASSUME NEW S, NEW seqs \in Seq(Seq(S)) PROVE FlattenSeq(seqs) \in Seq(S)
  BY FlattenJoins

(***************************************************************************)
(* The first of lists that are appended comes first.                       *)
(***************************************************************************)
LEMMA FlattenHead ==
  ASSUME NEW S, NEW first \in Seq(S), NEW seqs \in Seq(Seq(S))
  PROVE  FlattenSeq(<<first>> \o seqs) = first \o FlattenSeq(seqs)
<1> DEFINE A == Seq(S)
           P == {q \in Seq(A) : FlattenSeq(<<first>> \o q) = first \o FlattenSeq(q)}
<1>1. <<>> \in P
  <2>1. <<first>> \o <<>> = Append(<<>>, first) /\ first \o <<>> = first /\ <<>> \o first = first
    OBVIOUS
  <2>2. <<>> \in Seq(A) /\ first \in A
    <3> HIDE DEF A
    <3>1. <<>> \in Seq(A)
      OBVIOUS
    <3> QED
      BY <3>1 DEF A
  <2>3. FlattenSeq(<<>>) = <<>> /\ FlattenSeq(Append(<<>>, first)) = FlattenSeq(<<>>) \o first
    BY <2>2, FlattenGrows
  <2> QED
    BY <2>1, <2>2, <2>3
<1>2. ASSUME NEW q \in Seq(A), NEW x \in A, q \in P PROVE Append(q, x) \in P
  <2>1. /\ <<first>> \o Append(q, x) = Append(<<first>> \o q, x)
        /\ <<first>> \o q \in Seq(A) /\ Append(q, x) \in Seq(A)
    <3>1. first \in A
      OBVIOUS
    <3> HIDE DEF A
    <3> QED
      BY <3>1
  <2>2. FlattenSeq(Append(q, x)) = FlattenSeq(q) \o x
    BY FlattenGrows
  <2>3. FlattenSeq(Append(<<first>> \o q, x)) = FlattenSeq(<<first>> \o q) \o x
    BY <2>1, FlattenGrows
  <2>4. FlattenSeq(q) \in A
    BY FlattenTyped
  <2>5. \A a, b, c \in Seq(S) : (a \o b) \o c = a \o (b \o c)
    OBVIOUS
  <2>6. (first \o FlattenSeq(q)) \o x = first \o (FlattenSeq(q) \o x)
    BY <2>4, <2>5
  <2>7. FlattenSeq(<<first>> \o q) = first \o FlattenSeq(q)
    BY <1>2
  <2>8. FlattenSeq(<<first>> \o Append(q, x)) = first \o FlattenSeq(Append(q, x))
    BY <2>1, <2>2, <2>3, <2>6, <2>7
  <2> QED
    BY <2>1, <2>8
<1> HIDE DEF P
<1>3. Seq(A) \subseteq P
  <2> HIDE DEF A
  <2> QED
    BY <1>1, <1>2, ListInduction
<1> QED
  BY <1>3 DEF P

\* What F gives for each of a list.
Mapped(q, F) == [i \in DOMAIN q |-> F[q[i]]]

(***************************************************************************)
(* Two lists of the same elements are the same.                            *)
(***************************************************************************)
LEMMA SameList ==
  ASSUME NEW S, NEW s \in Seq(S), NEW t \in Seq(S), Len(s) = Len(t),
         \A i \in 1..Len(s) : s[i] = t[i]
  PROVE  s = t
  OBVIOUS

\* What a list gives has as many elements, each of which is of B.
Gives(q, F, B) ==
  /\ Mapped(q, F) \in Seq(B) /\ Len(Mapped(q, F)) = Len(q)
  /\ \A i \in 1..Len(q) : Mapped(q, F)[i] = F[q[i]]

(***************************************************************************)
(* What the elements of a list give, one by one.                           *)
(***************************************************************************)
LEMMA MappedTyped ==
  ASSUME NEW S, NEW B, NEW F \in [S -> B], NEW q \in Seq(S)
  PROVE  Gives(q, F, B)
<1>1. /\ DOMAIN q = 1..Len(q) /\ Len(q) \in Nat /\ \A i \in 1..Len(q) : q[i] \in S
  OBVIOUS
<1>2. Mapped(q, F) \in [1..Len(q) -> B] /\ \A i \in 1..Len(q) : Mapped(q, F)[i] = F[q[i]]
  BY <1>1 DEF Mapped
<1> QED
  BY <1>1, <1>2 DEF Gives

\* What a list gives is a list, and grows with it by what the new element gives.
Grows(F, S, A) ==
  /\ FlattenSeq(Mapped(<<>>, F)) = <<>>
  /\ \A q \in Seq(S) : Mapped(q, F) \in Seq(Seq(A)) /\ FlattenSeq(Mapped(q, F)) \in Seq(A)
  /\ \A q \in Seq(S) : \A x \in S :
       FlattenSeq(Mapped(Append(q, x), F)) = FlattenSeq(Mapped(q, F)) \o F[x]

(***************************************************************************)
(* What the elements of a list give, appended, element by element.         *)
(***************************************************************************)
LEMMA MappedGrows ==
  ASSUME NEW S, NEW A, NEW F \in [S -> Seq(A)]
  PROVE  Grows(F, S, A)
<1> DEFINE B == Seq(A)
<1>1. \A seqs \in Seq(B) : \A x \in B : FlattenSeq(Append(seqs, x)) = FlattenSeq(seqs) \o x
  BY FlattenGrows
<1>2. \A q \in Seq(S) : Mapped(q, F) \in Seq(B)
  <2>1. \A q \in Seq(S) : Gives(q, F, B)
    BY MappedTyped
  <2> QED
    BY <2>1 DEF Gives
<1>3. FlattenSeq(Mapped(<<>>, F)) = <<>>
  <2>1. Mapped(<<>>, F) = <<>>
    BY DEF Mapped
  <2>2. FlattenSeq(<<>>) = <<>>
    BY FlattenGrows
  <2> QED
    BY <2>1, <2>2
<1>4. ASSUME NEW q \in Seq(S) PROVE FlattenSeq(Mapped(q, F)) \in Seq(A)
  <2> DEFINE seqs == Mapped(q, F)
  <2>1. seqs \in Seq(Seq(A))
    BY <1>2
  <2> HIDE DEF seqs
  <2>2. FlattenSeq(seqs) \in Seq(A)
    BY <2>1, FlattenTyped
  <2> QED
    BY <2>2 DEF seqs
<1>5. ASSUME NEW q \in Seq(S), NEW x \in S
      PROVE  FlattenSeq(Mapped(Append(q, x), F)) = FlattenSeq(Mapped(q, F)) \o F[x]
  <2>1. F \in [S -> B] /\ F[x] \in B
    OBVIOUS
  <2> HIDE DEF B
  <2> DEFINE longer == Append(q, x)
             whole == Mapped(longer, F)
             front == Mapped(q, F)
             parts == Append(front, F[x])
  <2>2. /\ longer \in Seq(S) /\ Len(longer) = Len(q) + 1 /\ Len(q) \in Nat
        /\ \A i \in 1..Len(q) : longer[i] = q[i]
        /\ longer[Len(q) + 1] = x
    OBVIOUS
  <2> HIDE DEF longer
  <2>3. /\ whole \in Seq(B) /\ Len(whole) = Len(longer)
        /\ \A i \in 1..Len(longer) : whole[i] = F[longer[i]]
    <3>1. Gives(longer, F, B)
      BY <2>1, <2>2, MappedTyped
    <3> QED
      BY <3>1 DEF Gives
  <2>4. front \in Seq(B) /\ Len(front) = Len(q) /\ \A i \in 1..Len(q) : front[i] = F[q[i]]
    <3>1. Gives(q, F, B)
      BY <2>1, MappedTyped
    <3> QED
      BY <3>1 DEF Gives
  <2> HIDE DEF whole, front
  <2>5. /\ parts \in Seq(B) /\ Len(parts) = Len(q) + 1
        /\ \A i \in 1..Len(q) : parts[i] = front[i]
        /\ parts[Len(q) + 1] = F[x]
    BY <2>1, <2>2, <2>4
  <2> HIDE DEF parts
  <2>6. \A i \in 1..Len(whole) : whole[i] = parts[i]
    <3> SUFFICES ASSUME NEW i \in 1..(Len(q) + 1) PROVE whole[i] = parts[i]
      BY <2>2, <2>3
    <3>1. i \in 1..Len(q) \/ i = Len(q) + 1
      BY <2>2
    <3> QED
      BY <2>2, <2>3, <2>4, <2>5, <3>1
  <2>7. whole = parts
    BY <2>2, <2>3, <2>5, <2>6, SameList
  <2>8. FlattenSeq(Append(front, F[x])) = FlattenSeq(front) \o F[x]
    BY <1>1, <2>1, <2>4
  <2> QED
    BY <2>7, <2>8 DEF whole, front, parts, longer
<1> QED
  BY <1>2, <1>3, <1>4, <1>5 DEF Grows

(***************************************************************************)
(* What the first of a list gives comes first.                             *)
(***************************************************************************)
LEMMA MappedHead ==
  ASSUME NEW S, NEW A, NEW F \in [S -> Seq(A)], NEW q \in Seq(S), q # <<>>
  PROVE  FlattenSeq(Mapped(q, F)) = F[Head(q)] \o FlattenSeq(Mapped(Tail(q), F))
<1> DEFINE first == F[Head(q)]
           rest == Mapped(Tail(q), F)
<1>1. Head(q) \in S /\ Tail(q) \in Seq(S) /\ first \in Seq(A)
  OBVIOUS
<1>2. rest \in Seq(Seq(A))
  BY <1>1, MappedGrows DEF Grows
<1>3. Mapped(q, F) = <<first>> \o rest
  <2> DEFINE B == Seq(A)
             whole == Mapped(q, F)
             parts == <<first>> \o rest
  <2> HIDE DEF B
  <2>1. F \in [S -> B] /\ first \in B
    BY <1>1 DEF B
  <2>2. /\ whole \in Seq(B) /\ Len(whole) = Len(q) /\ Len(q) \in Nat /\ Len(q) > 0
        /\ \A i \in 1..Len(q) : whole[i] = F[q[i]]
    <3>1. Len(q) > 0
      OBVIOUS
    <3>2. Gives(q, F, B)
      BY <2>1, MappedTyped
    <3> QED
      BY <3>1, <3>2 DEF Gives
  <2>3. /\ rest \in Seq(B) /\ Len(rest) = Len(q) - 1
        /\ \A i \in 1..(Len(q) - 1) : rest[i] = F[q[i + 1]]
    <3> DEFINE t == Tail(q)
    <3>1. t \in Seq(S) /\ Len(t) = Len(q) - 1 /\ \A i \in 1..(Len(q) - 1) : t[i] = q[i + 1]
      OBVIOUS
    <3> HIDE DEF t
    <3>2. Gives(t, F, B)
      BY <2>1, <3>1, MappedTyped
    <3> QED
      BY <3>1, <3>2 DEF t, Gives
  <2>4. F[q[1]] = first
    OBVIOUS
  <2> HIDE DEF whole, rest, first
  <2>5. /\ parts \in Seq(B) /\ Len(parts) = Len(q)
        /\ parts[1] = first
        /\ \A i \in 2..Len(q) : parts[i] = rest[i - 1]
    BY <2>1, <2>2, <2>3
  <2> HIDE DEF parts
  <2>6. \A i \in 1..Len(q) : whole[i] = parts[i]
    <3> SUFFICES ASSUME NEW i \in 1..Len(q) PROVE whole[i] = parts[i]
      OBVIOUS
    <3>1. CASE i = 1
      BY <2>2, <2>4, <2>5, <3>1
    <3>2. CASE i # 1
      <4>1. i \in 2..Len(q) /\ i - 1 \in 1..(Len(q) - 1) /\ (i - 1) + 1 = i
        BY <2>2, <3>2
      <4> QED
        BY <2>2, <2>3, <2>5, <4>1
    <3> QED
      BY <3>1, <3>2
  <2>7. whole = parts
    BY <2>2, <2>5, <2>6, SameList
  <2> QED
    BY <2>7 DEF whole, parts
<1> HIDE DEF first, rest
<1>4. FlattenSeq(<<first>> \o rest) = first \o FlattenSeq(rest)
  BY <1>1, <1>2, FlattenHead
<1> QED
  BY <1>3, <1>4 DEF first, rest

\* As F, of those kept only.
Without(F, S, kept) == [x \in S |-> IF x \in kept THEN F[x] ELSE <<>>]

(***************************************************************************)
(* To leave elements out is to have them give nothing.                     *)
(***************************************************************************)
LEMMA MappedOnly ==
  ASSUME NEW S, NEW A, NEW F \in [S -> Seq(A)], NEW kept, NEW s \in Seq(S)
  PROVE  FlattenSeq(Mapped(Only(s, kept), F)) = FlattenSeq(Mapped(s, Without(F, S, kept)))
<1> DEFINE G == Without(F, S, kept)
<1>1. G \in [S -> Seq(A)] /\ \A x \in S : G[x] = IF x \in kept THEN F[x] ELSE <<>>
  <2> DEFINE B == Seq(A)
  <2>1. <<>> \in B
    OBVIOUS
  <2> HIDE DEF B
  <2>2. F \in [S -> B]
    BY DEF B
  <2>3. G \in [S -> B] /\ \A x \in S : G[x] = IF x \in kept THEN F[x] ELSE <<>>
    BY <2>1, <2>2 DEF Without
  <2> QED
    BY <2>3 DEF B
<1> HIDE DEF G
<1>2. /\ Only(<<>>, kept) = <<>>
      /\ \A q \in Seq(S) : \A x \in S :
           Only(Append(q, x), kept) = IF x \in kept THEN Append(Only(q, kept), x) ELSE Only(q, kept)
  BY OnlyGrows, Zenon
<1>3. \A q \in Seq(S) : Only(q, kept) \in Seq(S)
  BY OnlyKept
<1>4. Grows(F, S, A) /\ Grows(G, S, A)
  BY <1>1, MappedGrows
<1> USE DEF Grows
<1> DEFINE P == {q \in Seq(S) : FlattenSeq(Mapped(Only(q, kept), F)) = FlattenSeq(Mapped(q, G))}
<1>5. <<>> \in P
  BY <1>2, <1>4
<1>6. ASSUME NEW q \in Seq(S), NEW x \in S, q \in P PROVE Append(q, x) \in P
  <2>1. Append(q, x) \in Seq(S) /\ Only(q, kept) \in Seq(S)
    BY <1>3
  <2>2. FlattenSeq(Mapped(Append(q, x), G)) = FlattenSeq(Mapped(q, G)) \o G[x]
    BY <1>4
  <2>3. FlattenSeq(Mapped(Only(q, kept), F)) = FlattenSeq(Mapped(q, G))
    BY <1>6
  <2>4. FlattenSeq(Mapped(Only(Append(q, x), kept), F)) = FlattenSeq(Mapped(Append(q, x), G))
    <3>1. CASE x \in kept
      <4>1. Only(Append(q, x), kept) = Append(Only(q, kept), x) /\ G[x] = F[x]
        BY <1>1, <1>2, <3>1
      <4>2. FlattenSeq(Mapped(Append(Only(q, kept), x), F))
              = FlattenSeq(Mapped(Only(q, kept), F)) \o F[x]
        BY <1>4, <2>1
      <4> QED
        BY <2>2, <2>3, <4>1, <4>2
    <3>2. CASE x \notin kept
      <4>1. Only(Append(q, x), kept) = Only(q, kept) /\ G[x] = <<>>
        BY <1>1, <1>2, <3>2
      <4>2. FlattenSeq(Mapped(q, G)) \o <<>> = FlattenSeq(Mapped(q, G))
        <5>1. FlattenSeq(Mapped(q, G)) \in Seq(A) /\ \A t \in Seq(A) : t \o <<>> = t
          BY <1>4
        <5> QED
          BY <5>1
      <4> QED
        BY <2>2, <2>3, <4>1, <4>2
    <3> QED
      BY <3>1, <3>2
  <2> QED
    BY <2>1, <2>4
<1> HIDE DEF P
<1>7. Seq(S) \subseteq P
  BY <1>5, <1>6, ListInduction
<1> QED
  BY <1>7 DEF P, G

(***************************************************************************)
(* The elements of what a loop keeps, as a set.                            *)
(***************************************************************************)
LEMMA OnlyElements ==
  ASSUME NEW s, IsList(s), NEW kept
  PROVE  /\ Only(s, kept) \in Seq(Range(s))
         /\ Range(Only(s, kept)) = kept \cap Range(s)
         /\ DOMAIN Only(s, kept) = 1..Len(Only(s, kept)) /\ Len(Only(s, kept)) \in Nat
<1>1. s \in Seq(Range(s))
  BY DEF IsList
<1>2. /\ Only(s, kept) \in Seq(Range(s))
      /\ \A x : (\E i \in DOMAIN Only(s, kept) : Only(s, kept)[i] = x)
                  <=> x \in kept /\ \E i \in DOMAIN s : s[i] = x
  BY <1>1, OnlyKept
<1> DEFINE o == Only(s, kept)
<1> HIDE DEF o
<1>3. /\ o \in Seq(Range(s))
      /\ \A x : (\E i \in DOMAIN o : o[i] = x) <=> x \in kept /\ \E i \in DOMAIN s : s[i] = x
  BY <1>2 DEF o
<1>4. DOMAIN o = 1..Len(o) /\ Len(o) \in Nat
  BY <1>3
<1>5. Range(o) = kept \cap Range(s)
  BY <1>3 DEF Range
<1> QED
  BY <1>3, <1>4, <1>5 DEF o

(***************************************************************************)
(* The elements of lists that are appended, as a set.                      *)
(***************************************************************************)
LEMMA FlattenElements ==
  ASSUME NEW all, IsList(all), \A n \in DOMAIN all : IsList(all[n])
  PROVE  /\ IsList(FlattenSeq(all))
         /\ Range(FlattenSeq(all)) = UNION {Range(all[n]) : n \in DOMAIN all}
<1> DEFINE S == UNION {Range(all[n]) : n \in DOMAIN all}
<1>1. \A n \in DOMAIN all : all[n] \in Seq(S)
  BY DEF IsList
<1>2. all \in Seq(Seq(S))
  <2>1. all \in Seq(Range(all)) /\ \A x \in Range(all) : x \in Seq(S)
    BY <1>1 DEF IsList, Range
  <2> HIDE DEF S
  <2> QED
    BY <2>1
<1> HIDE DEF S
<1> DEFINE f == FlattenSeq(all)
<1>3. /\ f \in Seq(S)
      /\ \A x : (\E i \in DOMAIN f : f[i] = x)
                  <=> \E k \in DOMAIN all : \E i \in DOMAIN all[k] : all[k][i] = x
  BY <1>2, FlattenJoins
<1> HIDE DEF f
<1>4. Range(f) = S
  BY <1>3 DEF Range, S
<1>5. f \in Seq(Range(f))
  BY <1>3, <1>4
<1> QED
  BY <1>4, <1>5 DEF f, S, IsList

(***************************************************************************)
(* The elements of two lists that are appended, as a set.                  *)
(***************************************************************************)
LEMMA JoinElements ==
  ASSUME NEW s, IsList(s), NEW t, IsList(t)
  PROVE  IsList(s \o t) /\ Range(s \o t) = Range(s) \cup Range(t)
<1> DEFINE S == Range(s) \cup Range(t)
           st == s \o t
<1>1. s \in Seq(S) /\ t \in Seq(S)
  BY DEF IsList
<1>2. /\ DOMAIN s = 1..Len(s) /\ DOMAIN t = 1..Len(t) /\ Len(s) \in Nat /\ Len(t) \in Nat
      /\ st \in Seq(S) /\ DOMAIN st = 1..(Len(s) + Len(t))
      /\ \A i \in 1..Len(s) : st[i] = s[i]
      /\ \A i \in 1..Len(t) : st[Len(s) + i] = t[i]
  <2> HIDE DEF S
  <2> QED
    BY <1>1
<1> HIDE DEF st
<1>3. ASSUME NEW x \in Range(st) PROVE x \in S
  <2> HIDE DEF S
  <2> QED
    BY <1>2 DEF Range
<1>4. ASSUME NEW x \in S PROVE x \in Range(st)
  <2>1. CASE x \in Range(s)
    <3>1. PICK i \in DOMAIN s : x = s[i]
      BY <2>1 DEF Range
    <3>2. i \in DOMAIN st /\ st[i] = x
      BY <1>2, <3>1
    <3> QED
      BY <3>2 DEF Range
  <2>2. CASE x \in Range(t)
    <3>1. PICK i \in DOMAIN t : x = t[i]
      BY <2>2 DEF Range
    <3>2. Len(s) + i \in DOMAIN st /\ st[Len(s) + i] = x
      BY <1>2, <3>1
    <3> QED
      BY <3>2 DEF Range
  <2> QED
    BY <1>4, <2>1, <2>2
<1>5. Range(st) = S
  BY <1>3, <1>4
<1>6. st \in Seq(Range(st))
  BY <1>2, <1>5
<1> QED
  BY <1>5, <1>6 DEF IsList, st

(***************************************************************************)
(* The elements of the rest of a list, as a set.                           *)
(***************************************************************************)
LEMMA HeadAndTail ==
  ASSUME NEW s, IsList(s), s # <<>>
  PROVE  /\ IsList(Tail(s)) /\ Head(s) \in Range(s)
         /\ Range(s) = {Head(s)} \cup Range(Tail(s))
         /\ Len(s) = 1 => Range(s) = {Head(s)}
         /\ Len(s) # 1 => Tail(s) # <<>>
<1> DEFINE S == Range(s)
           t == Tail(s)
<1>1. s \in Seq(S) /\ DOMAIN s = 1..Len(s) /\ Len(s) \in Nat /\ Len(s) # 0
  BY DEF IsList
<1>2. /\ t \in Seq(S) /\ Len(t) = Len(s) - 1 /\ DOMAIN t = 1..Len(t)
      /\ \A n \in 1..Len(t) : t[n] = s[n + 1]
  <2> HIDE DEF S
  <2> QED
    BY <1>1
<1>3. Head(s) = s[1] /\ 1 \in DOMAIN s
  BY <1>1
<1> HIDE DEF t
<1>4. Range(t) = {s[n] : n \in 2..Len(s)}
  <2>1. ASSUME NEW n \in 1..Len(t) PROVE n + 1 \in 2..Len(s) /\ t[n] = s[n + 1]
    BY <1>1, <1>2
  <2>2. ASSUME NEW n \in 2..Len(s) PROVE n - 1 \in 1..Len(t) /\ t[n - 1] = s[n]
    BY <1>1, <1>2
  <2>3. Range(t) = {t[n] : n \in 1..Len(t)}
    BY <1>2 DEF Range
  <2> QED
    BY <2>1, <2>2, <2>3
<1>5. S = {s[n] : n \in 1..Len(s)} /\ 1..Len(s) = {1} \cup 2..Len(s)
  BY <1>1 DEF Range
<1>6. t \in Seq(Range(t))
  BY <1>2 DEF Range
<1>7. Len(s) # 1 => t # <<>>
  BY <1>1, <1>2
<1>8. S = {Head(s)} \cup Range(t)
  <2> HIDE DEF S
  <2> QED
    BY <1>3, <1>4, <1>5
<1>9. Len(s) = 1 => S = {Head(s)}
  <2> HIDE DEF S
  <2> QED
    BY <1>3, <1>5
<1> QED
  BY <1>3, <1>6, <1>7, <1>8, <1>9 DEF IsList, t

(***************************************************************************)
(* A function of the numbers from 1 is a list.                             *)
(***************************************************************************)
LEMMA ListOf ==
  ASSUME NEW N \in Nat, NEW s, s = [n \in 1..N |-> s[n]]
  PROVE  IsList(s) /\ DOMAIN s = 1..N /\ Range(s) = {s[n] : n \in 1..N}
<1>1. DOMAIN s = 1..N
  OBVIOUS
<1>2. Range(s) = {s[n] : n \in 1..N}
  BY <1>1 DEF Range
<1>3. \A n \in 1..N : s[n] \in Range(s)
  BY <1>1 DEF Range
<1>4. s \in Seq(Range(s))
  <2> DEFINE S == Range(s)
  <2> HIDE DEF S
  <2>1. \A n \in 1..N : s[n] \in S
    BY <1>3 DEF S
  <2>2. s \in Seq(S)
    BY <2>1
  <2> QED
    BY <2>2 DEF S
<1> QED
  BY <1>1, <1>2, <1>4 DEF IsList

(***************************************************************************)
(* The loop that keeps the first of each key has a result, step by step.   *)
(***************************************************************************)
LEMMA FirstRuns ==
  ASSUME NEW S, NEW s \in Seq(S), NEW key
  PROVE  \E upTo : /\ upTo[0] = <<>>
                   /\ \A n \in 1..Len(s) :
                        upTo[n] = IF \E x \in Range(upTo[n - 1]) : key[x] = key[s[n]] THEN upTo[n - 1]
                                  ELSE Append(upTo[n - 1], s[n])
                   /\ FirstOfEach(s, key) = upTo[Len(s)]
<1> DEFINE N == Len(s)
           A == Seq(S)
           grow(n, before) == IF \E x \in Range(before) : key[x] = key[s[n]] THEN before
                              ELSE Append(before, s[n])
           loop(g) == [n \in 0..N |-> IF n = 0 THEN <<>> ELSE grow(n, g[n - 1])]
           upTo == CHOOSE g : g = loop(g)
           h == [p \in (1..N) \X A |-> grow(p[1], p[2])]
<1>1. N \in Nat /\ <<>> \in A /\ DOMAIN s = 1..N /\ \A n \in 1..N : s[n] \in S
  OBVIOUS
<1>2. \A n \in 1..N, q \in A : grow(n, q) \in A
  BY <1>1
<1>3. h \in [(1..N) \X A -> A]
  <2> HIDE DEF grow, A
  <2> QED
    BY <1>2
<1>4. PICK g \in [0..N -> A] : Loop(g, N, <<>>, h)
  <2> HIDE DEF h, A, N
  <2>1. <<>> \in A /\ N \in Nat
    BY <1>1
  <2> QED
    BY <1>3, <2>1, LoopRuns
<1>5. g = loop(g)
  <2>1. \A n \in 1..N : g[n] = grow(n, g[n - 1])
    <3>1. ASSUME NEW n \in 1..N PROVE g[n] = grow(n, g[n - 1])
      <4>1. g[n - 1] \in A
        <5>1. n - 1 \in 0..N
          BY <1>1
        <5> HIDE DEF A, grow, loop, upTo, h
        <5> QED
          BY <1>4, <5>1
      <4>2. <<n, g[n - 1]>> \in (1..N) \X A
        BY <4>1, Zenon
      <4>3. h[<<n, g[n - 1]>>] = grow(n, g[n - 1])
        <5> HIDE DEF grow
        <5> QED
          BY <4>2
      <4> QED
        BY <1>4, <4>3 DEF Loop
    <3> QED
      BY <3>1
  <2> HIDE DEF grow
  <2> QED
    BY <1>4, <2>1 DEF Loop
<1>6. upTo = loop(upTo)
  <2> HIDE DEF loop
  <2> QED
    BY <1>5, Zenon
<1>7. FirstOfEach(s, key) = upTo[N]
  BY DEF FirstOfEach
<1> HIDE DEF upTo
<1>8. upTo[0] = <<>> /\ \A n \in 1..N : upTo[n] = grow(n, upTo[n - 1])
  <2> HIDE DEF grow
  <2>1. upTo[0] = <<>>
    BY <1>1, <1>6
  <2>2. ASSUME NEW n \in 1..N PROVE upTo[n] = grow(n, upTo[n - 1])
    <3>1. n \in 0..N /\ n # 0
      BY <1>1
    <3>2. \A q : q = loop(upTo) => q[n] = IF n = 0 THEN <<>> ELSE grow(n, upTo[n - 1])
      BY <3>1
    <3> QED
      BY <1>6, <3>1, <3>2
  <2> QED
    BY <2>1, <2>2
<1> QED
  BY <1>7, <1>8

(***************************************************************************)
(* The elements of a list that one appends to.                             *)
(***************************************************************************)
LEMMA AppendElements ==
  ASSUME NEW S, NEW s \in Seq(S), NEW x \in S
  PROVE  Append(s, x) \in Seq(S) /\ Range(Append(s, x)) = Range(s) \cup {x}
<1> DEFINE t == Append(s, x)
<1>1. /\ DOMAIN s = 1..Len(s) /\ Len(s) \in Nat
      /\ t \in Seq(S) /\ DOMAIN t = 1..(Len(s) + 1)
      /\ \A i \in 1..Len(s) : t[i] = s[i]
      /\ t[Len(s) + 1] = x
  OBVIOUS
<1> HIDE DEF t
<1>2. Range(t) = Range(s) \cup {x}
  BY <1>1 DEF Range
<1> QED
  BY <1>1, <1>2 DEF t

(***************************************************************************)
(* Of each key one element is kept, and it is one of the list.             *)
(***************************************************************************)
LEMMA FirstElements ==
  ASSUME NEW s, IsList(s), NEW key
  PROVE  /\ IsList(FirstOfEach(s, key))
         /\ Range(FirstOfEach(s, key)) \subseteq Range(s)
         /\ \A x \in Range(s) : \E y \in Range(FirstOfEach(s, key)) : key[y] = key[x]
<1> DEFINE S == Range(s)
           N == Len(s)
           A == Seq(S)
<1>1. s \in Seq(S) /\ N \in Nat /\ <<>> \in A /\ DOMAIN s = 1..N /\ \A n \in 1..N : s[n] \in S
  BY DEF IsList, Range
<1> HIDE DEF S
<1>2. PICK upTo : /\ upTo[0] = <<>>
                  /\ \A n \in 1..N :
                       upTo[n] = IF \E x \in Range(upTo[n - 1]) : key[x] = key[s[n]] THEN upTo[n - 1]
                                 ELSE Append(upTo[n - 1], s[n])
                  /\ FirstOfEach(s, key) = upTo[N]
  BY <1>1, FirstRuns
<1> HIDE DEF N
<1> DEFINE Has(q, i) == \E y \in Range(q) : key[y] = key[s[i]]
           Holds == {n \in Nat : n <= N => upTo[n] \in A /\ \A i \in 1..n : Has(upTo[n], i)}
<1>3. 0 \in Holds
  <2>1. upTo[0] \in A /\ 1..0 = {}
    BY <1>1, <1>2
  <2> HIDE DEF A, Has
  <2> QED
    BY <2>1
<1>4. ASSUME NEW n \in Nat, n \in Holds PROVE n + 1 \in Holds
  <2> SUFFICES ASSUME n + 1 <= N
               PROVE  upTo[n + 1] \in A /\ \A i \in 1..(n + 1) : Has(upTo[n + 1], i)
    OBVIOUS
  <2> DEFINE before == upTo[n]
             after == upTo[n + 1]
  <2>1. before \in A /\ \A i \in 1..n : Has(before, i)
    <3>1. n <= N
      BY <1>1
    <3> HIDE DEF A, Has
    <3> QED
      BY <1>4, <3>1
  <2>2. after = (IF Has(before, n + 1) THEN before ELSE Append(before, s[n + 1])) /\ s[n + 1] \in S
    <3>1. n + 1 \in 1..N /\ (n + 1) - 1 = n
      BY <1>1
    <3> QED
      BY <1>1, <1>2, <3>1
  <2> HIDE DEF before, after
  <2>3. after \in A /\ Range(before) \subseteq Range(after)
    BY <2>1, <2>2, AppendElements
  <2>4. Has(after, n + 1)
    <3>1. CASE Has(before, n + 1)
      BY <2>2, <3>1
    <3>2. CASE ~Has(before, n + 1)
      <4>1. after = Append(before, s[n + 1])
        <5> HIDE DEF Has
        <5> QED
          BY <2>2, <3>2
      <4>2. s[n + 1] \in Range(after)
        BY <2>1, <2>2, <4>1, AppendElements
      <4> QED
        BY <4>2
    <3> QED
      BY <3>1, <3>2
  <2>5. ASSUME NEW i \in 1..(n + 1) PROVE Has(after, i)
    <3>1. i \in 1..n \/ i = n + 1
      OBVIOUS
    <3> QED
      BY <2>1, <2>3, <2>4, <3>1
  <2> QED
    BY <2>3, <2>5 DEF after
<1> HIDE DEF Holds
<1>5. Nat \subseteq Holds
  BY <1>3, <1>4, SetInduction
<1> DEFINE whole == upTo[N]
<1>6. whole \in A /\ \A i \in 1..N : Has(whole, i)
  <2> HIDE DEF A, Has
  <2> QED
    BY <1>1, <1>5 DEF Holds
<1> HIDE DEF whole
<1>7. IsList(whole) /\ Range(whole) \subseteq S
  BY <1>6 DEF IsList, Range
<1>8. \A x \in S : \E y \in Range(whole) : key[y] = key[x]
  <2>1. ASSUME NEW x \in S PROVE \E y \in Range(whole) : key[y] = key[x]
    <3>1. PICK i \in 1..N : s[i] = x
      BY <1>1, <2>1 DEF S, Range
    <3> QED
      BY <1>6, <3>1
  <2> QED
    BY <2>1
<1>9. FirstOfEach(s, key) = whole
  BY <1>2 DEF whole
<1> QED
  BY <1>7, <1>8, <1>9 DEF S

-----------------------------------------------------------------------------
(* Reading a Swarm over SSM                                                *)

Staging(d) == [op |-> "stage", doc |-> d, n |-> 0]
Removal(d) == [op |-> "remove", doc |-> d, n |-> 0]

Commands == [op : {"stage", "cut", "remove"}, doc : Nat, n : Nat]

\* What was sent; a removal is no request that could come back odd.
SentTyped ==
  /\ DOMAIN agent \subseteq Commands
  /\ \A c \in DOMAIN agent :
       /\ c.op # "cut" => c.n = 0
       /\ agent[c] \in {"queued", "ran", "odd", "broke", "lost"}
       /\ c.op = "remove" => agent[c] # "odd"

\* A file the client was told of was staged by a command that has run; only such
\* a file is removed, and it is gone when its removal has run.
FilesOfAgent ==
  /\ \A d \in known : Staging(d) \in DOMAIN agent /\ agent[Staging(d)] = "ran"
  /\ \A d \in Nat : Removal(d) \in DOMAIN agent => d \in known
  /\ \A d \in known : Removal(d) \in DOMAIN agent /\ agent[Removal(d)] = "ran" => d \notin staged

\* Where the client is, and the command it waits for.
ClientTyped ==
  /\ step \in {"find", "stage", "cut", "remove", "ended", "failed"}
  /\ doc \in Nat \ {0} /\ broken \in BOOLEAN
  /\ received \in Seq({"whole", "short"})
  /\ ~Idle => command \in DOMAIN agent /\ command.op = step /\ command.doc = doc
  /\ step \in {"find", "ended", "failed"} => Idle

\* The files are those of the documents before the present one, and of this one
\* once it is staged; none is left behind without its removal being asked for.
FilesOfClient ==
  /\ known \subseteq 1 .. doc
  /\ step \in {"cut", "remove"} => doc \in known
  /\ step \in {"find", "stage"} => doc \notin known
  /\ \A d \in known : d < doc \/ SSMEnded => Removal(d) \in DOMAIN agent

SSMInv == SentTyped /\ FilesOfAgent /\ ClientTyped /\ FilesOfClient

USE DEF Idle, NoCommand, Command, Staging, Removal, SSMEnded

(***************************************************************************)
(* The collection over SSM starts with nothing sent.                       *)
(***************************************************************************)
LEMMA SSMInitInv == SSMInit => SSMInv
<1> SUFFICES ASSUME SSMInit PROVE SSMInv
  OBVIOUS
<1>1. DOMAIN agent = {} /\ received \in Seq({"whole", "short"})
  BY DEF SSMInit
<1>2. SentTyped /\ FilesOfAgent
  BY <1>1 DEF SSMInit, SentTyped, FilesOfAgent
<1>3. ClientTyped
  <2>1. step = "find" /\ doc \in Nat \ {0} /\ Idle
    BY DEF SSMInit
  <2>2. broken \in BOOLEAN
    BY DEF SSMInit
  <2> QED
    BY <1>1, <2>1, <2>2 DEF ClientTyped
<1>4. FilesOfClient
  BY <1>1 DEF SSMInit, FilesOfClient
<1> QED
  BY <1>2, <1>3, <1>4 DEF SSMInv

(***************************************************************************)
(* The agent changes no client's state; of the files the client knows, it  *)
(* makes none again, and takes away the ones it removes.                   *)
(***************************************************************************)
LEMMA AgentInv == ASSUME SSMInv, Agent PROVE SSMInv'
<1> USE DEF SSMInv
<1>1. PICK c \in DOMAIN agent, result \in {"ran", "odd", "broke"} : RunCommand(c, result)
  BY DEF Agent
<1> USE DEF RunCommand
<1>2. DOMAIN agent' = DOMAIN agent /\ agent'[c] = result /\ \A e \in DOMAIN agent \ {c} : agent'[e] = agent[e]
  BY <1>1
<1>3. SentTyped'
  BY <1>1, <1>2 DEF SentTyped
<1>4. FilesOfAgent'
  <2>1. ASSUME NEW d \in known, Removal(d) \in DOMAIN agent, agent'[Removal(d)] = "ran"
        PROVE  d \notin staged'
    <3>1. CASE c = Removal(d)
      BY <1>1, <1>2, <2>1, <3>1
    <3>2. CASE c.op = "stage"
      <4>1. c = Staging(c.doc)
        BY <3>2 DEF SentTyped, Commands
      <4>2. c.doc # d
        BY <1>1, <4>1 DEF FilesOfAgent
      <4> QED
        BY <1>1, <1>2, <2>1, <3>2, <4>2 DEF FilesOfAgent
    <3>3. CASE c # Removal(d) /\ c.op # "stage"
      BY <1>1, <1>2, <2>1, <3>3 DEF FilesOfAgent
    <3> QED
      BY <3>1, <3>2, <3>3
  <2> QED
    BY <1>1, <1>2, <2>1 DEF FilesOfAgent
<1>5. ClientTyped' /\ FilesOfClient'
  BY <1>1, <1>2 DEF ClientTyped, FilesOfClient
<1> QED
  BY <1>3, <1>4, <1>5

(***************************************************************************)
(* What a step sends is a command of that step for the present document.   *)
(***************************************************************************)
LEMMA DueTyped ==
  ASSUME SSMInv, Sending
  PROVE  /\ step \in {"stage", "cut", "remove"} /\ Due \in Commands
         /\ Due.op = step /\ Due.doc = doc /\ (step # "cut" => Due.n = 0)
  BY DEF SSMInv, ClientTyped, Sending, Due, Commands

(***************************************************************************)
(* Sending a command, or failing to, disturbs no earlier one that matters. *)
(***************************************************************************)
LEMMA SentInv ==
  ASSUME SSMInv, Sending, NEW answer \in {"queued", "lost"}, UNCHANGED <<staged, known>>,
         agent' = [c \in DOMAIN agent \cup {Due} |-> IF c = Due THEN answer ELSE agent[c]]
  PROVE  SentTyped' /\ FilesOfAgent'
<1>1. SentTyped'
  BY DueTyped DEF SSMInv, SentTyped
<1>2. \A d \in known : Staging(d) # Due
  BY DueTyped DEF SSMInv, FilesOfClient
<1>3. \A d \in Nat : Due = Removal(d) => d \in known
  BY DueTyped DEF SSMInv, FilesOfClient
<1>4. FilesOfAgent'
  BY <1>2, <1>3 DEF SSMInv, FilesOfAgent
<1> QED
  BY <1>1, <1>4

(***************************************************************************)
(* The client ends, or turns to the next document, only when the present   *)
(* one was not staged or its removal was asked for.                        *)
(***************************************************************************)
LEMMA FinishInv ==
  ASSUME SSMInv, SentTyped', FilesOfAgent', DOMAIN agent \subseteq DOMAIN agent',
         UNCHANGED known, command' = NoCommand,
         NEW failed \in BOOLEAN, Finish(failed),
         \/ step = "stage" /\ failed
         \/ step = "remove" /\ Removal(doc) \in DOMAIN agent'
  PROVE  SSMInv'
<1> USE DEF SSMInv, Finish
<1>a. <<>> \in Seq({"whole", "short"})
  OBVIOUS
<1>b. received' \in Seq({"whole", "short"}) /\ broken' \in BOOLEAN
  BY <1>a DEF ClientTyped
<1>1. ClientTyped'
  BY <1>b DEF ClientTyped
<1>2. FilesOfClient'
  BY DEF ClientTyped, FilesOfClient
<1> QED
  BY <1>1, <1>2

(***************************************************************************)
(* A command that failed leads to the removal of what was staged, or was   *)
(* that removal.                                                           *)
(***************************************************************************)
LEMMA AbandonInv ==
  ASSUME SSMInv, SentTyped', FilesOfAgent', DOMAIN agent \subseteq DOMAIN agent',
         UNCHANGED known, command' = NoCommand, Abandon,
         step \in {"stage", "cut", "remove"},
         step = "remove" => Removal(doc) \in DOMAIN agent'
  PROVE  SSMInv'
<1>1. CASE step = "stage"
  BY <1>1, FinishInv DEF Abandon
<1>2. CASE step = "cut"
  BY <1>2 DEF Abandon, SSMInv, ClientTyped, FilesOfClient
<1>3. CASE step = "remove"
  <2>1. broken \in BOOLEAN
    BY DEF SSMInv, ClientTyped
  <2> QED
    BY <1>3, <2>1, FinishInv DEF Abandon
<1> QED
  BY <1>1, <1>2, <1>3

(***************************************************************************)
(* Every step of the client preserves the invariant.                       *)
(***************************************************************************)
LEMMA ClientInv == ASSUME SSMInv, Client PROVE SSMInv'
<1> USE DEF SSMInv
<1>1. ASSUME NEW found \in BOOLEAN, FindManager(found) PROVE SSMInv'
  BY <1>1 DEF FindManager, SentTyped, FilesOfAgent, ClientTyped, FilesOfClient
<1>2. CASE Send
  <2>1. SentTyped' /\ FilesOfAgent'
    BY <1>2, SentInv DEF Send
  <2>2. ClientTyped' /\ FilesOfClient'
    BY <1>2, DueTyped DEF Send, ClientTyped, FilesOfClient, Commands
  <2> QED
    BY <2>1, <2>2
<1>3. CASE SendFails
  <2>1. SentTyped' /\ FilesOfAgent' /\ DOMAIN agent \subseteq DOMAIN agent'
    BY <1>3, SentInv DEF SendFails
  <2>2. step = "remove" => Removal(doc) \in DOMAIN agent'
    BY <1>3, DueTyped DEF SendFails, Due
  <2>3. command' = NoCommand
    BY <1>3 DEF SendFails, Sending
  <2> QED
    BY <1>3, <2>1, <2>2, <2>3, DueTyped, AbandonInv DEF SendFails
<1>4. ASSUME ~Idle PROVE /\ command \in DOMAIN agent /\ step \in {"stage", "cut", "remove"}
                         /\ step = "remove" => command = Removal(doc)
  BY <1>4 DEF ClientTyped, SentTyped, Commands
<1>5. ASSUME UNCHANGED <<agent, staged, known>> PROVE SentTyped' /\ FilesOfAgent'
  BY <1>5 DEF SentTyped, FilesOfAgent
<1>6. CASE GiveUp
  BY <1>4, <1>5, <1>6, AbandonInv DEF GiveUp
<1>7. CASE Read
  <2>1. command' = NoCommand /\ ~Idle /\ agent[command] \in {"ran", "odd", "broke"} /\ UNCHANGED <<agent, staged>>
    BY <1>7 DEF Read
  <2>2. CASE agent[command] = "broke" \/ (step = "stage" /\ agent[command] = "odd")
    BY <1>4, <1>5, <1>7, <2>1, <2>2, AbandonInv DEF Read
  <2>3. CASE step = "stage" /\ agent[command] = "ran"
    <3>1. known' = known \cup {doc} /\ step' = "cut" /\ UNCHANGED <<doc, received, broken>>
      BY <1>7, <2>3 DEF Read
    <3>2. command = Staging(doc)
      BY <1>4, <2>1, <2>3 DEF ClientTyped, SentTyped, Commands
    <3>3. Removal(doc) \notin DOMAIN agent
      BY <2>3 DEF ClientTyped, FilesOfAgent, FilesOfClient
    <3>4. SentTyped' /\ FilesOfAgent'
      BY <1>4, <2>1, <2>3, <3>1, <3>2, <3>3 DEF SentTyped, FilesOfAgent
    <3>5. ClientTyped' /\ FilesOfClient'
      BY <2>1, <2>3, <3>1 DEF ClientTyped, FilesOfClient
    <3> QED
      BY <3>4, <3>5
  <2>4. CASE step = "cut" /\ agent[command] # "broke"
    <3>1. /\ received' \in Seq({"whole", "short"}) /\ UNCHANGED <<step, doc, known, broken>>
      BY <1>7, <2>4 DEF Read, ClientTyped
    <3> QED
      BY <1>5, <2>1, <2>4, <3>1 DEF ClientTyped, FilesOfClient
  <2>5. CASE step = "remove" /\ agent[command] # "broke"
    <3>1. Finish(broken) /\ UNCHANGED known /\ broken \in BOOLEAN
      BY <1>7, <2>5 DEF Read, ClientTyped
    <3> QED
      BY <1>4, <1>5, <2>1, <2>5, <3>1, FinishInv
  <2> QED
    BY <1>4, <2>1, <2>2, <2>3, <2>4, <2>5
<1>8. CASE Decode
  <2>1. broken' \in BOOLEAN
    BY <1>8 DEF Decode, Unusable
  <2> QED
    BY <1>5, <1>8, <2>1 DEF Decode, ClientTyped, FilesOfClient
<1> QED
  BY <1>1, <1>2, <1>3, <1>6, <1>7, <1>8 DEF Client

(***************************************************************************)
(* Every step of the client or the agent preserves the invariant.          *)
(***************************************************************************)
LEMMA SSMNextInv == SSMInv /\ [SSMNext]_ssmVars => SSMInv'
<1>1. ASSUME SSMInv, UNCHANGED ssmVars PROVE SSMInv'
  BY <1>1 DEF ssmVars, SSMInv, SentTyped, FilesOfAgent, ClientTyped, FilesOfClient
<1> QED
  BY <1>1, AgentInv, ClientInv DEF SSMNext

(***************************************************************************)
(* The invariant gives the property of the staged files.                   *)
(***************************************************************************)
LEMMA SSMInvRemoves == SSMInv => StagedFileRemoved
<1> SUFFICES ASSUME SSMInv, SSMEnded, NEW d \in known \cap staged
             PROVE  \E c \in DOMAIN agent :
                      c.op = "remove" /\ c.doc = d /\ agent[c] \in {"queued", "broke", "lost"}
  BY DEF StagedFileRemoved
<1>1. Removal(d) \in DOMAIN agent /\ agent[Removal(d)] # "ran"
  BY DEF SSMInv, FilesOfAgent, FilesOfClient
<1>2. agent[Removal(d)] \in {"queued", "broke", "lost"}
  BY <1>1 DEF SSMInv, SentTyped
<1> QED
  BY <1>1, <1>2

-----------------------------------------------------------------------------
(* The services and what is said of them                                   *)

\* The verdicts are those of the parsed services under the config, and there are
\* none before the last stage.
CollectionInv ==
  /\ swarmStage \in {"config", "exposure", "collected"} =>
       /\ swarm \in Swarms
       /\ services = {Parsed(r, swarm) : r \in {x \in swarm.services : "" \notin {x.name, x.image}}}
  /\ swarmStage # "collected" => DOMAIN exposureOf = {}
  /\ \A x \in DOMAIN exposureOf : x \in services /\ exposureOf[x] = AnalyzeService(x, exposureConfig)

(***************************************************************************)
(* A declaration that counts is the service's label or a rule.             *)
(***************************************************************************)
LEMMA DeclaredBy ==
  ASSUME NEW s \in Swarms, NEW r \in s.services, NEW config,
         NEW d \in Declarations(Parsed(r, s), config), ~d.reachable, d.justification # ""
  PROVE  \/ r.reachable = "false" /\ r.justification # ""
         \/ \E e \in Range(config.rules) : ~e.reachable /\ e.justification # ""
<1>1. r.reachable \in {"", "true", "false"}
  BY SwarmsAssumption
<1>2. Parsed(r, s).reachable = r.reachable /\ Parsed(r, s).justification = r.justification
  BY DEF Parsed
<1>3. CASE r.reachable # ""
  <2>1. d = [reachable |-> r.reachable = "true", justification |-> r.justification]
    BY <1>2, <1>3 DEF Declarations
  <2> QED
    BY <1>1, <1>3, <2>1
<1>4. CASE r.reachable = ""
  <2>1. PICK i \in DOMAIN config.rules :
          d = [reachable |-> config.rules[i].reachable, justification |-> config.rules[i].justification]
    BY <1>2, <1>4 DEF Declarations, MatchingRules
  <2>2. config.rules[i] \in Range(config.rules)
    BY DEF Range
  <2> QED
    BY <2>1, <2>2
<1> QED
  BY <1>3, <1>4

(***************************************************************************)
(* A service whose networks are all known is on no host network, neither   *)
(* of those the document tells of nor of those it does not.                *)
(***************************************************************************)
LEMMA NotOnHostNetwork ==
  ASSUME NEW s \in Swarms, NEW r \in s.services,
         ~Parsed(r, s).hostNetwork, Parsed(r, s).resolved
  PROVE  r.networks \cap ({"host"} \cup s.hosts) = {}
<1>1. r.networks \cap HostNetworks(s) = {}
  BY DEF Parsed
<1>2. r.networks \ {"host"} \subseteq {n.id : n \in {x \in NetworkList(s) : x.name # ""}}
  BY DEF Parsed
<1>3. ASSUME NEW id \in r.networks, id \in s.hosts PROVE FALSE
  <2>1. PICK n \in NetworkList(s) : n.id = id
    BY <1>1, <1>2, <1>3 DEF HostNetworks
  <2>2. n \in s.networks
    BY <2>1 DEF NetworkList
  <2>3. id \in HostNetworks(s)
    BY <1>3, <2>1, <2>2, SwarmsAssumption DEF HostNetworks
  <2> QED
    BY <1>1, <1>3, <2>3
<1> QED
  BY <1>1, <1>3 DEF HostNetworks

\* A verdict has a justified declaration behind it, or what the service is.
HasGround(r, s, config, verdict) ==
  IF verdict.basis = "attested"
  THEN \/ r.reachable = "false" /\ r.justification # ""
       \/ \E d \in Range(config.rules) : ~d.reachable /\ d.justification # ""
  ELSE /\ r.endpoint = {} /\ r.spec = {}
       /\ r.labels \cap config.prefixes = {}
       /\ r.networks \cap ({"host"} \cup s.hosts) = {}

(***************************************************************************)
(* A negative verdict on a service rests on a justified declaration or on  *)
(* what the service is.                                                    *)
(***************************************************************************)
LEMMA NegativeRests ==
  ASSUME NEW s \in Swarms, NEW r \in s.services, NEW config, NEW verdict,
         verdict = AnalyzeService(Parsed(r, s), config),
         verdict.status = "assessed", ~verdict.reachable
  PROVE  HasGround(r, s, config, verdict)
<1> USE DEF HasGround
<1> DEFINE x == Parsed(r, s)
           declared == Declarations(x, config)
           d == CHOOSE e \in declared : TRUE
<1> HIDE DEF x, declared, d
<1>1. verdict = IF declared # {}
                THEN IF ~d.reachable /\ d.justification = "" THEN Unknown
                     ELSE Reached("assessed", "attested", d.reachable)
                ELSE IF Signals(x, config) # {} \/ ~x.resolved THEN Unknown
                ELSE Reached("assessed", "observed", FALSE)
  BY DEF AnalyzeService, x, declared, d
<1>2. Unknown.status # "assessed"
  BY DEF Unknown, Reached
<1>3. CASE declared # {}
  <2>1. d \in declared
    BY <1>3 DEF d
  <2>2. ~(~d.reachable /\ d.justification = "")
    BY <1>1, <1>2, <1>3
  <2>3. verdict = Reached("assessed", "attested", d.reachable)
    BY <1>1, <1>3, <2>2
  <2>4. verdict.basis = "attested" /\ verdict.reachable = d.reachable
    BY <2>3 DEF Reached
  <2>5. ~d.reachable
    BY <2>4
  <2>6. d.justification # ""
    BY <2>2, <2>5
  <2> QED
    BY <2>1, <2>4, <2>5, <2>6, DeclaredBy DEF declared, x
<1>4. CASE declared = {}
  <2>1. Signals(x, config) = {} /\ x.resolved
    BY <1>1, <1>2, <1>4
  <2>2. verdict.basis = "observed"
    BY <1>1, <1>4, <2>1 DEF Reached
  <2>3. x.ports = {} /\ x.labels \cap config.prefixes = {} /\ ~x.hostNetwork
    BY <2>1 DEF Signals
  <2>4. r.endpoint = {} /\ r.spec = {} /\ r.labels \cap config.prefixes = {}
    BY <2>3 DEF x, Parsed
  <2>5. r.networks \cap ({"host"} \cup s.hosts) = {}
    BY <2>1, <2>3, NotOnHostNetwork DEF x
  <2> QED
    BY <2>2, <2>4, <2>5
<1> QED
  BY <1>3, <1>4

(***************************************************************************)
(* The run starts without verdicts.                                        *)
(***************************************************************************)
LEMMA CollectionInitInv == ASSUME NEW optionSets, SwarmInit(optionSets) PROVE SSMInv /\ CollectionInv
<1>1. SSMInv
  BY SSMInitInv DEF SwarmInit
<1>2. DOMAIN exposureOf = {}
  BY DEF SwarmInit
<1> QED
  BY <1>1, <1>2 DEF SwarmInit, CollectionInv

(***************************************************************************)
(* Every step of the run preserves both invariants.                        *)
(***************************************************************************)
LEMMA SwarmNextInv == SSMInv /\ CollectionInv /\ [SwarmNext]_swarmVars => SSMInv' /\ CollectionInv'
<1> SUFFICES ASSUME SSMInv, CollectionInv, [SwarmNext]_swarmVars PROVE SSMInv' /\ CollectionInv'
  OBVIOUS
<1> USE DEF Goto
<1>1. ASSUME UNCHANGED collectionVars PROVE CollectionInv'
  BY <1>1 DEF collectionVars, CollectionInv
<1>2. ASSUME UNCHANGED ssmVars PROVE SSMInv'
  BY <1>2, SSMNextInv
<1>3. CASE OverSSM \/ LateAgent \/ UNCHANGED swarmVars
  BY <1>1, <1>3, SSMNextInv DEF OverSSM, LateAgent, SSMNext, swarmVars
<1>4. CASE EndSSM \/ \E ok \in BOOLEAN : ReadServicesFile(ok) \/ ReadConfigFile(ok)
  BY <1>2, <1>4 DEF EndSSM, ReadServicesFile, ReadConfigFile, CollectionInv
<1>5. ASSUME NEW s \in Swarms, ParseServices(s) PROVE SSMInv' /\ CollectionInv'
  BY <1>2, <1>5 DEF ParseServices, CollectionInv
<1>6. ASSUME NEW config \in FedRAMPConfigs, UseConfig(config) PROVE SSMInv' /\ CollectionInv'
  BY <1>2, <1>6 DEF UseConfig, CollectionInv
<1>7. CASE AnalyzeServices
  <2>1. /\ DOMAIN exposureOf' \subseteq services
        /\ \A x \in DOMAIN exposureOf' : exposureOf'[x] = AnalyzeService(x, exposureConfig)
    <3>1. CASE swarmOptions.skipExposure
      BY <1>7, <3>1 DEF AnalyzeServices
    <3>2. CASE ~swarmOptions.skipExposure
      BY <1>7, <3>2 DEF AnalyzeServices
    <3> QED
      BY <3>1, <3>2
  <2> QED
    BY <1>2, <1>7, <2>1 DEF AnalyzeServices, CollectionInv
<1> QED
  BY <1>3, <1>4, <1>5, <1>6, <1>7 DEF SwarmNext, RunSwarm

(***************************************************************************)
(* The invariant gives the property of the negative verdicts.              *)
(***************************************************************************)
LEMMA CollectionInvProves == CollectionInv => SwarmNegativeIsProved
<1> SUFFICES ASSUME CollectionInv, NEW x \in DOMAIN exposureOf,
                    exposureOf[x].status = "assessed", ~exposureOf[x].reachable
             PROVE  \E r \in swarm.services :
                      /\ r.name = x.name /\ r.stack = x.stack
                      /\ HasGround(r, swarm, exposureConfig, exposureOf[x])
  BY DEF SwarmNegativeIsProved, HasGround
<1>1. swarmStage = "collected" /\ swarm \in Swarms /\ x \in services
  BY DEF CollectionInv
<1>2. PICK r \in swarm.services : x = Parsed(r, swarm)
  BY <1>1 DEF CollectionInv
<1>3. x.name = r.name /\ x.stack = r.stack
  BY <1>2 DEF Parsed
<1>4. exposureOf[x] = AnalyzeService(Parsed(r, swarm), exposureConfig)
  BY <1>2 DEF CollectionInv
<1>5. HasGround(r, swarm, exposureConfig, exposureOf[x])
  BY <1>1, <1>4, NegativeRests
<1> QED
  BY <1>3, <1>5

-----------------------------------------------------------------------------
(* Cloud Run                                                               *)

RunStages == {"labels", "services", "jobs", "routes", "policies", "collected", "failed"}

\* The regions to come are regions of the project, and there is one to read
\* wherever one is read.
RegionsToCome ==
  /\ project \in Projects
  /\ runStage \in RunStages
  /\ toList \in Seq(DOMAIN project.in)
  /\ runStage \in {"labels", "services", "jobs"} => toList # <<>>

\* What waits for its verdict is a service of its region.
ServicesOfRegions ==
  \A t \in toJudge :
    /\ t.region \in DOMAIN project.in
    /\ \E s \in project.in[t.region].services, version \in {"v1", "v2"} : t = InRegion(s, t.region, version)

\* The routes are complete, unless a warning says they were not read, or nothing
\* depends on them.
RoutesKnown ==
  /\ routes \subseteq RoutesOf(project)
  /\ runStage = "policies" =>
       \/ routes = RoutesOf(project) \/ <<"routes">> \in runWarned
       \/ \A t \in toJudge : t.ingress # ByLoadBalancer

\* No resource is forgotten between the inventory and its verdict.
ResourcesAccounted ==
  /\ \A r \in resources : r.kind \in {"Service", "Function", "Job"}
  /\ runStage \notin {"policies", "collected"} => DOMAIN runExposureOf = {}
  /\ runStage = "policies" =>
       \A r \in resources : r.kind = "Job" => r \in DOMAIN runExposureOf
  /\ runStage \notin {"collected", "failed"} =>
       \A r \in resources :
         r.kind = "Service" =>
           \/ r \in DOMAIN runExposureOf
           \/ \E t \in toJudge : KeyedAs("Service", t) = r

RunInv ==
  RegionsToCome /\ ServicesOfRegions /\ RoutesKnown /\ ResourcesAccounted /\ CloudRunGapIsWarned

\* What the property says of one verdict, with what warnings name.
VerdictHolds(p, key, verdict, named) ==
  LET s == ServiceNamed(key.name, p.in[key.region].services)
  IN  /\ verdict.reachable => OpenByAddress(s) \/ OpenByRoute(p, s, key.region)
      /\ OpenByAddress(s) => \/ verdict.reachable
                            \/ <<"policy", key.region, key.name>> \in named
                            \/ (SaysNothing(s) /\ verdict.ingress = "unspecified")
      /\ OpenInSight(p, s, key.region) => verdict.reachable \/ <<"routes">> \in named

(***************************************************************************)
(* An unprotected route of the project leads to a service if there is a    *)
(* way to it that the program does not overlook, and only if there is one  *)
(* (the lists of global and of regional load balancers in                  *)
(* internal/cloudrun/gcp.go).                                              *)
(***************************************************************************)
LEMMA RoutesOpen ==
  ASSUME project \in Projects, NEW s, s.name # "", s.ingress = ByLoadBalancer, NEW region
  PROVE  LET found == \E r \in RoutesOf(project) : r.service = s.name /\ r.region = region /\ ~r.iap
         IN  (OpenInSight(project, s, region) => found) /\ (found => OpenByRoute(project, s, region))
<1>1. ASSUME OpenInSight(project, s, region)
      PROVE  \E r \in RoutesOf(project) : r.service = s.name /\ r.region = region /\ ~r.iap
  <2>1. PICK rule \in project.rules, b \in DOMAIN project.backends :
          \E g \in project.backends[b].groups :
            Way(project, s, region, rule, b, g) /\ ~Overlooked(project.maps[rule.map], b, g)
    BY <1>1 DEF OpenInSight
  <2>2. PICK g \in project.backends[b].groups :
          Way(project, s, region, rule, b, g) /\ ~Overlooked(project.maps[rule.map], b, g)
    BY <2>1
  <2>3. /\ rule.external /\ rule.map # "" /\ ~project.backends[b].iap
        /\ \/ b = project.maps[rule.map].default \/ b \in project.maps[rule.map].paths
           \/ b \in project.maps[rule.map].rules \/ b \in project.maps[rule.map].weighted
    BY <2>2, Zenon DEF Way, Overlooked
  <2>4. /\ g.serverless /\ g.service = s.name /\ g.region # ""
        /\ region = IF g.serviceRegion = "" THEN g.region ELSE g.serviceRegion
    BY <2>2, Zenon DEF Way, Overlooked, LeadsTo
  <2>5. b \in BackendsOf(project.maps[rule.map])
    <3>1. b # ""
      BY ProjectsAssumption
    <3> QED
      BY <2>3, <3>1 DEF BackendsOf
  <2> DEFINE r == [service |-> g.service,
                   region |-> IF g.serviceRegion = "" THEN g.region ELSE g.serviceRegion,
                   iap |-> project.backends[b].iap]
  <2>6. r \in TargetsOf(project.backends[b])
    BY <2>4 DEF TargetsOf
  <2>7. r \in RoutesOf(project)
    BY <2>3, <2>5, <2>6 DEF RoutesOf
  <2>8. r.service = s.name /\ r.region = region /\ ~r.iap
    BY <2>3, <2>4
  <2> QED
    BY <2>7, <2>8
<1>2. ASSUME NEW r \in RoutesOf(project), r.service = s.name, r.region = region, ~r.iap
      PROVE  OpenByRoute(project, s, region)
  <2>0. PICK rule \in project.rules :
          /\ rule.external /\ rule.map # ""
          /\ \E b \in BackendsOf(project.maps[rule.map]) : r \in TargetsOf(project.backends[b])
    BY <1>2 DEF RoutesOf
  <2>1. PICK b \in BackendsOf(project.maps[rule.map]) : r \in TargetsOf(project.backends[b])
    BY <2>0
  <2>2. b \in DOMAIN project.backends
    <3>1. project.maps[rule.map] \in
            {project.maps[y.map] : y \in {x \in project.rules : x.map # ""}}
      BY <2>0
    <3>2. b \in {""} \cup DOMAIN project.backends /\ b # ""
      BY <2>1, <3>1, ProjectsAssumption DEF BackendsOf
    <3> QED
      BY <3>2
  <2>3. PICK g \in project.backends[b].groups :
          /\ g.region # "" /\ g.serverless /\ g.service # ""
          /\ r = [service |-> g.service,
                  region |-> IF g.serviceRegion = "" THEN g.region ELSE g.serviceRegion,
                  iap |-> project.backends[b].iap]
    BY <2>1 DEF TargetsOf
  <2>4. /\ ~project.backends[b].iap /\ g.service = s.name
        /\ region = IF g.serviceRegion = "" THEN g.region ELSE g.serviceRegion
    BY <1>2, <2>3
  <2>5. b = project.maps[rule.map].default
          \/ b \in project.maps[rule.map].paths \cup project.maps[rule.map].rules
                     \cup project.maps[rule.map].weighted \cup project.maps[rule.map].actions
    BY <2>1 DEF BackendsOf
  <2>6. LeadsTo(g, s, region)
    BY <2>3, <2>4 DEF LeadsTo
  <2>7. Way(project, s, region, rule, b, g)
    BY <2>0, <2>4, <2>5, <2>6 DEF Way
  <2> QED
    BY <2>2, <2>7 DEF OpenByRoute
<1> QED
  BY <1>1, <1>2

(***************************************************************************)
(* A name is that of one service of a region.                              *)
(***************************************************************************)
LEMMA NamesUnique ==
  \A p \in Projects : \A region \in DOMAIN p.in :
    \A s, t \in p.in[region].services : s.name = t.name => s = t
BY ProjectsAssumption, Zenon

(***************************************************************************)
(* The verdict of a service holds for the service of its name in its       *)
(* region, with the warnings that go with it (AnalyzeExposure).            *)
(***************************************************************************)
LEMMA JudgeHolds ==
  ASSUME RegionsToCome, ServicesOfRegions, RoutesKnown, runStage = "policies",
         NEW t \in toJudge, NEW read \in BOOLEAN, NEW named, runWarned \subseteq named,
         NeedsPolicy(t) /\ ~read => <<"policy", t.region, t.name>> \in named
  PROVE  VerdictHolds(project, KeyedAs("Service", t), Judge(t, read), named)
<1>1. PICK s \in project.in[t.region].services, version \in {"v1", "v2"} : t = InRegion(s, t.region, version)
  BY DEF ServicesOfRegions
<1>2. t.region \in DOMAIN project.in /\ project \in Projects
  BY DEF ServicesOfRegions, RegionsToCome
<1>3. /\ t.name = s.name /\ t.ingress = IngressOf(s, version) /\ t.allUsers = s.allUsers
      /\ t.invokerIAMDisabled = s.invokerIAMDisabled
  <2> HIDE DEF IngressOf
  <2> QED
    BY <1>1 DEF InRegion
<1>4. /\ t.ingress = "all" => SaysNothing(s) \/ s.ingress = "all"
      /\ t.ingress = ByLoadBalancer => s.ingress = ByLoadBalancer /\ ~SaysNothing(s)
      /\ ~SaysNothing(s) => t.ingress = s.ingress
      /\ SaysNothing(s) => t.ingress \in {"all", "unspecified"}
  BY <1>3 DEF IngressOf, ByLoadBalancer
<1>5. s = ServiceNamed(t.name, project.in[t.region].services)
  <2>1. \A x \in project.in[t.region].services : x.name = t.name => x = s
    BY <1>1, <1>2, <1>3, NamesUnique
  <2> QED
    BY <1>1, <1>3, <2>1 DEF ServiceNamed
<1>6. s.name # ""
  BY <1>2, ProjectsAssumption
<1> DEFINE verdict == Judge(t, read)
<1>7. s.ingress # ByLoadBalancer =>
        ~OpenByRoute(project, s, t.region) /\ ~OpenInSight(project, s, t.region)
  BY DEF OpenByRoute, OpenInSight, Way
<1>8. CASE t.ingress = "all"
  <2>1. verdict = Judged(t.ingress, t.invokerIAMDisabled \/ (read /\ t.allUsers), "none")
    BY <1>8 DEF Judge, ByPolicy
  <2>2. verdict.reachable <=> s.invokerIAMDisabled \/ (read /\ s.allUsers)
    <3>1. \A i, b : Judged(i, b, "none").reachable = b
      BY DEF Judged
    <3>2. verdict.reachable = (t.invokerIAMDisabled \/ (read /\ t.allUsers))
      BY <2>1, <3>1
    <3> QED
      BY <1>3, <3>2
  <2>3. ~OpenByRoute(project, s, t.region) /\ ~OpenInSight(project, s, t.region)
    <3>1. s.ingress # ByLoadBalancer
      BY <1>4, <1>8 DEF SaysNothing, ByLoadBalancer
    <3> QED
      BY <1>7, <3>1
  <2>4. OpenByAddress(s) <=> s.invokerIAMDisabled \/ s.allUsers
    BY <1>4, <1>8 DEF OpenByAddress
  <2>5. ~s.invokerIAMDisabled /\ ~read => <<"policy", t.region, t.name>> \in named
    BY <1>3, <1>8 DEF NeedsPolicy
  <2> HIDE DEF verdict
  <2>6. /\ verdict.reachable => OpenByAddress(s)
        /\ OpenByAddress(s) => verdict.reachable \/ <<"policy", t.region, t.name>> \in named
    BY <2>2, <2>4, <2>5
  <2> QED
    BY <1>5, <2>3, <2>6 DEF VerdictHolds, KeyedAs, verdict
<1>9. CASE t.ingress = ByLoadBalancer
  <2>1. verdict = LoadBalanced(t)
    BY <1>9 DEF Judge, ByLoadBalancer
  <2>2. verdict.reachable <=> \E r \in RoutesTo(t) : ~r.iap
    BY <2>1 DEF LoadBalanced, Judged
  <2>3. ~OpenByAddress(s)
    BY <1>4, <1>9 DEF OpenByAddress, ByLoadBalancer
  <2>4. RoutesTo(t) = {r \in routes : r.service = s.name /\ r.region = t.region}
    BY <1>3 DEF RoutesTo
  <2>5. verdict.reachable => OpenByRoute(project, s, t.region)
    BY <1>2, <1>4, <1>6, <1>9, <2>2, <2>4, RoutesOpen DEF RoutesKnown
  <2>6. OpenInSight(project, s, t.region) => verdict.reachable \/ <<"routes">> \in named
    BY <1>2, <1>4, <1>6, <1>9, <2>2, <2>4, RoutesOpen DEF RoutesKnown
  <2> QED
    BY <1>5, <2>3, <2>5, <2>6 DEF VerdictHolds, KeyedAs
<1>10. CASE t.ingress # "all" /\ t.ingress # ByLoadBalancer
  <2>1. ~verdict.reachable /\ verdict.ingress = t.ingress
    BY <1>10 DEF Judge, Judged
  <2>2. OpenByAddress(s) => SaysNothing(s) /\ t.ingress = "unspecified"
    BY <1>4, <1>10 DEF OpenByAddress
  <2>3. ~OpenByRoute(project, s, t.region) /\ ~OpenInSight(project, s, t.region)
    <3>1. s.ingress # ByLoadBalancer
      BY <1>4, <1>10 DEF SaysNothing, ByLoadBalancer
    <3> QED
      BY <1>7, <3>1
  <2> QED
    BY <1>5, <2>1, <2>2, <2>3 DEF VerdictHolds, KeyedAs
<1> QED
  BY <1>8, <1>9, <1>10

(***************************************************************************)
(* The property, verdict by verdict.                                       *)
(***************************************************************************)
LEMMA GapParts ==
  CloudRunGapIsWarned <=>
    /\ \A key \in DOMAIN runExposureOf :
         /\ key.kind = "Job" => ~runExposureOf[key].reachable
         /\ key.kind = "Service" => VerdictHolds(project, key, runExposureOf[key], runWarned)
    /\ runStage = "collected" /\ ~runOptions.skipExposure =>
         {r \in resources : r.kind # "Function"} \subseteq DOMAIN runExposureOf
BY DEF CloudRunGapIsWarned, VerdictHolds

\* The same of the next state.
LEMMA GapPartsPrimed ==
  CloudRunGapIsWarned' <=>
    /\ \A key \in DOMAIN runExposureOf' :
         /\ key.kind = "Job" => ~runExposureOf'[key].reachable
         /\ key.kind = "Service" => VerdictHolds(project', key, runExposureOf'[key], runWarned')
    /\ runStage' = "collected" /\ ~runOptions'.skipExposure =>
         {r \in resources' : r.kind # "Function"} \subseteq DOMAIN runExposureOf'
BY DEF CloudRunGapIsWarned, VerdictHolds

(***************************************************************************)
(* A run on Cloud Run starts with all the regions before it.               *)
(***************************************************************************)
LEMMA RunInitInv == RunInit(Projects, RunOptionSets) => RunInv
<1> SUFFICES ASSUME RunInit(Projects, RunOptionSets) PROVE RunInv
  OBVIOUS
<1>1. DOMAIN runExposureOf = {} /\ runStage = "labels" /\ resources = {} /\ toJudge = {} /\ routes = {}
  BY DEF RunInit
<1>2. RegionsToCome
  BY <1>1, ProjectsAssumption DEF RunInit, RegionsToCome, RunStages
<1>3. ServicesOfRegions /\ RoutesKnown /\ ResourcesAccounted
  BY <1>1 DEF ServicesOfRegions, RoutesKnown, ResourcesAccounted
<1>4. CloudRunGapIsWarned
  BY <1>1, GapParts
<1> QED
  BY <1>2, <1>3, <1>4 DEF RunInv

(***************************************************************************)
(* The labels of the project bear on no verdict.                           *)
(***************************************************************************)
LEMMA LabelsInv == ASSUME RunInv, NEW ok \in BOOLEAN, GetProjectLabels(ok) PROVE RunInv'
<1> USE DEF RunInv, GetProjectLabels, runInputs
<1>1. RegionsToCome' /\ ServicesOfRegions'
  BY DEF RegionsToCome, RunStages, ServicesOfRegions
<1>2. RoutesKnown' /\ ResourcesAccounted'
  BY DEF RoutesKnown, ResourcesAccounted
<1>3. CloudRunGapIsWarned'
  BY DEF ResourcesAccounted, CloudRunGapIsWarned
<1> QED
  BY <1>1, <1>2, <1>3

(***************************************************************************)
(* A region's services enter the inventory together with what has to judge *)
(* them; a function left out enters neither.                               *)
(***************************************************************************)
LEMMA ServicesInv ==
  ASSUME RunInv, NEW version \in {"v1", "v2", "neither"}, ListServices(version) PROVE RunInv'
<1> USE DEF RunInv, ListServices, runInputs
<1> DEFINE region == Head(toList)
           all == project.in[region].services
           listed == {s \in all : runOptions.includeFunctions \/ s.kind # "Function"}
<1>1. region \in DOMAIN project.in /\ project \in Projects
  BY DEF RegionsToCome
<1>2. CASE version # "neither"
  <2>1. /\ runStage = "services" /\ runStage' = "jobs" /\ UNCHANGED <<project, toList, routes, runExposureOf>>
        /\ resources' = resources \cup Inventoried(listed, region)
        /\ toJudge' = toJudge \cup {InRegion(s, region, version) : s \in listed}
        /\ version \in {"v1", "v2"}
    BY <1>2
  <2> HIDE DEF ListServices
  <2>2. RegionsToCome'
    BY <2>1 DEF RegionsToCome, RunStages
  <2>3. ServicesOfRegions'
    <3>1. ASSUME NEW s \in listed
          PROVE  InRegion(s, region, version).region = region /\ s \in all
      BY DEF InRegion
    <3> QED
      BY <1>1, <2>1, <3>1 DEF ServicesOfRegions
  <2>4. RoutesKnown'
    BY <2>1 DEF RoutesKnown
  <2>5. ASSUME NEW r \in Inventoried(listed, region)
        PROVE  /\ r.kind \in {"Service", "Function"}
               /\ r.kind = "Service" => \E t \in toJudge' : KeyedAs("Service", t) = r
    <3>1. PICK x \in listed : r = KeyedAs(x.kind, [region |-> region, name |-> x.name])
      BY DEF Inventoried
    <3>2. /\ x.kind \in {"Service", "Function"}
          /\ r = [kind |-> x.kind, region |-> region, name |-> x.name]
      BY <1>1, <3>1, ProjectsAssumption DEF KeyedAs
    <3>3. InRegion(x, region, version) \in toJudge'
      BY <2>1
    <3>4. KeyedAs("Service", InRegion(x, region, version)) = [kind |-> "Service", region |-> region, name |-> x.name]
      BY DEF KeyedAs, InRegion
    <3> QED
      BY <3>2, <3>3, <3>4
  <2>6. ResourcesAccounted'
    BY <2>1, <2>5 DEF ResourcesAccounted
  <2>7. CloudRunGapIsWarned'
    BY <2>1 DEF ResourcesAccounted, CloudRunGapIsWarned
  <2> QED
    BY <2>2, <2>3, <2>4, <2>6, <2>7
<1>3. CASE version = "neither"
  <2>1. /\ runStage = "services" /\ runStage' = "failed" /\ UNCHANGED <<runInputs, toList, routes, runExposureOf>>
        /\ UNCHANGED <<resources, toJudge, runWarned>>
    BY <1>3
  <2>2. RegionsToCome' /\ ServicesOfRegions' /\ RoutesKnown'
    BY <2>1 DEF RegionsToCome, RunStages, ServicesOfRegions, RoutesKnown
  <2>3. ResourcesAccounted' /\ CloudRunGapIsWarned'
    BY <2>1 DEF ResourcesAccounted, CloudRunGapIsWarned
  <2> QED
    BY <2>2, <2>3
<1> QED
  BY <1>2, <1>3

(***************************************************************************)
(* A region's jobs need no verdict of their own; the next region is read,  *)
(* or the inventory is whole.                                              *)
(***************************************************************************)
LEMMA JobsInv == ASSUME RunInv, NEW ok \in BOOLEAN, ListJobs(ok) PROVE RunInv'
<1> USE DEF RunInv, ListJobs, runInputs
<1> DEFINE region == Head(toList)
           listed == project.in[region].jobs
<1>1. region \in DOMAIN project.in /\ project \in Projects
  BY DEF RegionsToCome
<1>2. CASE ok
  <2>1. /\ runStage = "jobs" /\ UNCHANGED <<project, runOptions, toJudge, routes, runExposureOf, runWarned>>
        /\ resources' = resources \cup Inventoried(listed, region)
        /\ toList' = Tail(toList)
        /\ runStage' = IF toList' # <<>> THEN "services"
                       ELSE IF runOptions.skipExposure THEN "collected" ELSE "routes"
    BY <1>2
  <2> HIDE DEF ListJobs
  <2>2. RegionsToCome'
    <3>1. toList' \in Seq(DOMAIN project.in)
      BY <2>1 DEF RegionsToCome
    <3> QED
      BY <2>1, <3>1 DEF RegionsToCome, RunStages
  <2>3. ServicesOfRegions' /\ RoutesKnown'
    BY <2>1 DEF ServicesOfRegions, RoutesKnown
  <2>4. \A r \in Inventoried(listed, region) : r.kind = "Job"
    <3>1. \A x \in listed : x.kind = "Job"
      BY <1>1, ProjectsAssumption
    <3>2. ASSUME NEW r \in Inventoried(listed, region)
          PROVE  r.kind = "Job"
      <4>1. PICK x \in listed : r = KeyedAs(x.kind, [region |-> region, name |-> x.name])
        BY DEF Inventoried
      <4> QED
        BY <3>1, <4>1 DEF KeyedAs
    <3> QED
      BY <3>2
  <2>5. ResourcesAccounted'
    BY <2>1, <2>4 DEF ResourcesAccounted
  <2>6. CloudRunGapIsWarned'
    BY <2>1 DEF ResourcesAccounted, CloudRunGapIsWarned
  <2> QED
    BY <2>2, <2>3, <2>5, <2>6
<1>3. CASE ~ok
  <2>1. /\ runStage = "jobs" /\ runStage' = "failed" /\ UNCHANGED <<runInputs, toList, routes, runExposureOf>>
        /\ UNCHANGED <<resources, toJudge, runWarned>>
    BY <1>3
  <2>2. RegionsToCome' /\ ServicesOfRegions' /\ RoutesKnown'
    BY <2>1 DEF RegionsToCome, RunStages, ServicesOfRegions, RoutesKnown
  <2>3. ResourcesAccounted' /\ CloudRunGapIsWarned'
    BY <2>1 DEF ResourcesAccounted, CloudRunGapIsWarned
  <2> QED
    BY <2>2, <2>3
<1> QED
  BY <1>2, <1>3

(***************************************************************************)
(* The jobs have their verdicts at once, and the routes are read when some *)
(* service depends on them, or a warning says they were not.               *)
(***************************************************************************)
LEMMA LoadBalancersInv ==
  ASSUME RunInv, NEW ok \in BOOLEAN, ListLoadBalancerRoutes(ok) PROVE RunInv'
<1> USE DEF RunInv, ListLoadBalancerRoutes, runInputs
<1>1. RegionsToCome' /\ ServicesOfRegions'
  BY DEF RegionsToCome, RunStages, ServicesOfRegions
<1>2. RoutesKnown'
  <2>1. project' = project /\ toJudge' = toJudge
    OBVIOUS
  <2>2. CASE \E s \in toJudge : s.ingress = ByLoadBalancer
    BY <2>1, <2>2 DEF RoutesKnown
  <2>3. CASE ~\E s \in toJudge : s.ingress = ByLoadBalancer
    BY <2>1, <2>3 DEF RoutesKnown
  <2> QED
    BY <2>2, <2>3
<1>3. /\ DOMAIN runExposureOf' = {r \in resources : r.kind = "Job"}
      /\ \A key \in DOMAIN runExposureOf' : key.kind = "Job" /\ ~runExposureOf'[key].reachable
  BY DEF Judged
<1>4. ResourcesAccounted'
  BY <1>3 DEF ResourcesAccounted
<1>5. CloudRunGapIsWarned'
  BY <1>3 DEF CloudRunGapIsWarned
<1> QED
  BY <1>1, <1>2, <1>4, <1>5

(***************************************************************************)
(* A service is judged by the policy and the routes as they were read, and *)
(* what was said of others stays.                                          *)
(***************************************************************************)
LEMMA VerdictInv ==
  ASSUME RunInv, NEW ok \in BOOLEAN, NEW t \in toJudge, AnalyzeServiceExposure(t, ok) PROVE RunInv'
<1> DEFINE key == KeyedAs("Service", t)
<1>1. /\ runStage = "policies" /\ runStage' = "policies" /\ toJudge' = toJudge \ {t}
      /\ runWarned \subseteq runWarned'
      /\ NeedsPolicy(t) /\ ~ok => <<"policy", t.region, t.name>> \in runWarned'
      /\ UNCHANGED <<runOptions, project, toList, resources, routes>>
  BY DEF AnalyzeServiceExposure, runInputs
<1>2. /\ DOMAIN runExposureOf' = DOMAIN runExposureOf \cup ({key} \cap resources)
      /\ key \in DOMAIN runExposureOf' => runExposureOf'[key] = Judge(t, ok)
      /\ \A k \in DOMAIN runExposureOf' : k # key => k \in DOMAIN runExposureOf /\ runExposureOf'[k] = runExposureOf[k]
  BY DEF AnalyzeServiceExposure, Enter
<1>3. key.kind = "Service"
  BY DEF KeyedAs
<1> HIDE DEF key
<1>4. RegionsToCome' /\ ServicesOfRegions'
  BY <1>1 DEF RunInv, RegionsToCome, RunStages, ServicesOfRegions
<1>5. RoutesKnown'
  BY <1>1 DEF RunInv, RoutesKnown
<1>6. ResourcesAccounted'
  BY <1>1, <1>2 DEF RunInv, ResourcesAccounted, key
<1>7. VerdictHolds(project, key, Judge(t, ok), runWarned')
  BY <1>1, JudgeHolds DEF RunInv, key
<1>8. CloudRunGapIsWarned'
  <2>1. ASSUME NEW k \in DOMAIN runExposureOf', k # key
        PROVE  /\ k.kind = "Job" => ~runExposureOf'[k].reachable
               /\ k.kind = "Service" => VerdictHolds(project, k, runExposureOf'[k], runWarned')
    BY <1>1, <1>2, <2>1, GapParts DEF RunInv, VerdictHolds
  <2>2. ASSUME NEW k \in DOMAIN runExposureOf'
        PROVE  /\ k.kind = "Job" => ~runExposureOf'[k].reachable
               /\ k.kind = "Service" => VerdictHolds(project, k, runExposureOf'[k], runWarned')
    BY <1>2, <1>3, <1>7, <2>1
  <2> QED
    BY <1>1, <2>2, GapPartsPrimed
<1> QED
  BY <1>4, <1>5, <1>6, <1>8 DEF RunInv

(***************************************************************************)
(* Once nothing waits for its verdict, every resource has one.             *)
(***************************************************************************)
LEMMA EndRunInv == ASSUME RunInv, EndCloudRun PROVE RunInv'
<1> USE DEF RunInv, EndCloudRun, runInputs
<1>1. RegionsToCome' /\ ServicesOfRegions' /\ RoutesKnown' /\ ResourcesAccounted'
  BY DEF RegionsToCome, RunStages, ServicesOfRegions, RoutesKnown, ResourcesAccounted
<1>2. {r \in resources : r.kind # "Function"} \subseteq DOMAIN runExposureOf
  BY DEF ResourcesAccounted
<1>3. CloudRunGapIsWarned'
  BY <1>2, GapParts, GapPartsPrimed
<1> QED
  BY <1>1, <1>3

(***************************************************************************)
(* Every step of a run on Cloud Run keeps its invariant.                   *)
(***************************************************************************)
LEMMA RunNextInv == RunInv /\ [RunNext]_runVars => RunInv'
<1> SUFFICES ASSUME RunInv, [RunNext]_runVars PROVE RunInv'
  OBVIOUS
<1>1. CASE RunNext
  BY <1>1, LabelsInv, ServicesInv, JobsInv, LoadBalancersInv, VerdictInv, EndRunInv DEF RunNext
<1>2. CASE UNCHANGED runVars
  <2> USE <1>2 DEF runVars, runInputs, RunInv
  <2>1. RegionsToCome' /\ ServicesOfRegions' /\ RoutesKnown' /\ ResourcesAccounted'
    BY DEF RegionsToCome, ServicesOfRegions, RoutesKnown, ResourcesAccounted
  <2>2. CloudRunGapIsWarned'
    BY GapParts, GapPartsPrimed
  <2> QED
    BY <2>1, <2>2
<1> QED
  BY <1>1, <1>2

-----------------------------------------------------------------------------
(* ECS                                                                     *)

\* The task definitions of a region as they are listed, and all of them.
ListingOf(r) ==
  {[region |-> r, arn |-> d.arn, name |-> d.name, containers |-> d.containers] :
     d \in Range(In(r).definitions)}
AllDefinitions == UNION {ListingOf(r) : r \in Range(estate.regions)}

\* What a run holds is what the estate has.
ECSTyped ==
  /\ estate \in Estates
  /\ regionsLeft \in Seq(Range(estate.regions)) /\ graph \in Seq(Range(estate.regions))
  /\ definitions \in Seq(AllDefinitions)
  /\ signals \subseteq UNION {SignalsOf(r) : r \in Range(estate.regions)}
  /\ IsList(secretsLeft)
  /\ ecsStage \in {"definitions", "runtime", "graph", "secrets", "collected", "failed"}

(***************************************************************************)
(* The regions of an estate are among those it has something in.           *)
(***************************************************************************)
LEMMA RegionsTyped ==
  ASSUME estate \in Estates
  PROVE  /\ estate.regions \in Seq(Range(estate.regions))
         /\ Range(estate.regions) \subseteq DOMAIN estate.in
<1>1. estate.regions \in Seq(DOMAIN estate.in)
  BY EstatesAssumption
<1>2. \A i \in DOMAIN estate.regions : estate.regions[i] \in DOMAIN estate.in
  BY <1>1
<1>3. Range(estate.regions) \subseteq DOMAIN estate.in
  BY <1>2 DEF Range
<1>4. estate.regions \in Seq(Range(estate.regions))
  <2>1. \A i \in 1..Len(estate.regions) : estate.regions[i] \in Range(estate.regions)
    BY <1>1 DEF Range
  <2> DEFINE S == Range(estate.regions)
             s == estate.regions
  <2> HIDE DEF S
  <2>2. s \in Seq(S)
    BY <1>1, <2>1 DEF S
  <2> QED
    BY <2>2 DEF S
<1> QED
  BY <1>3, <1>4

(***************************************************************************)
(* What a definition that was listed is: one of its region.                *)
(***************************************************************************)
LEMMA DefinitionTyped ==
  ASSUME ECSTyped, NEW d \in Range(definitions)
  PROVE  /\ d.region \in Range(estate.regions) /\ d.region \in DOMAIN estate.in
         /\ \E p \in Range(In(d.region).definitions) :
              d = [region |-> d.region, arn |-> p.arn, name |-> p.name, containers |-> p.containers]
         /\ IsList(d.containers)
         /\ \A c, x \in Range(d.containers) : c.name = x.name => c = x
         /\ \A c \in Range(d.containers) : \A port \in c.ports : port.number # 0 /\ port.protocol # "-1"
<1>1. d \in AllDefinitions
  BY DEF ECSTyped, Range
<1>2. PICK r \in Range(estate.regions) : d \in ListingOf(r)
  BY <1>1 DEF AllDefinitions
<1>3. PICK p \in Range(In(r).definitions) :
        d = [region |-> r, arn |-> p.arn, name |-> p.name, containers |-> p.containers]
  BY <1>2 DEF ListingOf
<1>4. r \in DOMAIN estate.in
  BY RegionsTyped DEF ECSTyped
<1>5. /\ IsList(p.containers)
      /\ \A c, x \in Range(p.containers) : c.name = x.name => c = x
      /\ \A c \in Range(p.containers) : \A port \in c.ports : port.number # 0 /\ port.protocol # "-1"
  BY <1>3, <1>4, EstatesAssumption DEF ECSTyped, In
<1>6. d.region = r /\ d.containers = p.containers
  BY <1>3
<1> QED
  BY <1>3, <1>4, <1>5, <1>6

(***************************************************************************)
(* A name that no other region has denotes one definition.                 *)
(***************************************************************************)
LEMMA OneOfName ==
  ASSUME ECSTyped, NEW d \in Range(definitions), Own(d),
         NEW e \in Range(definitions), e.name = d.name
  PROVE  e = d
<1>1. e.region = d.region
  BY DEF Own
<1>2. PICK p \in Range(In(d.region).definitions) :
        d = [region |-> d.region, arn |-> p.arn, name |-> p.name, containers |-> p.containers]
  BY DefinitionTyped
<1>3. PICK q \in Range(In(d.region).definitions) :
        e = [region |-> d.region, arn |-> q.arn, name |-> q.name, containers |-> q.containers]
  BY <1>1, DefinitionTyped
<1>4. p.name = q.name
  <2>1. d.name = p.name
    BY <1>2
  <2>2. e.name = q.name
    BY <1>3
  <2> QED
    BY <2>1, <2>2
<1>5. d.region \in DOMAIN estate.in
  BY DefinitionTyped
<1>6. p = q
  BY <1>4, <1>5, EstatesAssumption DEF ECSTyped, In
<1> QED
  BY <1>2, <1>3, <1>6

(***************************************************************************)
(* What a region runs of a definition is run in the definition's region.   *)
(***************************************************************************)
LEMMA RunsAtHome ==
  ASSUME ECSTyped, NEW d \in Range(definitions),
         NEW r \in DOMAIN estate.in, NEW s \in In(r).services \cup In(r).tasks, s.arn = d.arn
  PROVE  r = d.region
<1>1. PICK p \in Range(In(d.region).definitions) :
        d = [region |-> d.region, arn |-> p.arn, name |-> p.name, containers |-> p.containers]
  BY DefinitionTyped
<1>2. d.arn = p.arn /\ d.region \in DOMAIN estate.in
  <2>1. d.arn = p.arn
    BY <1>1
  <2> QED
    BY <2>1, DefinitionTyped
<1>3. SUFFICES ASSUME r # d.region PROVE FALSE
  OBVIOUS
<1>4. s.arn # p.arn
  BY <1>2, <1>3, EstatesAssumption DEF ECSTyped, In
<1> QED
  BY <1>2, <1>4

(***************************************************************************)
(* A name that no other region has is that of what runs of its definition. *)
(***************************************************************************)
LEMMA KnownAs ==
  ASSUME ECSTyped, NEW d \in Range(definitions), Own(d),
         NEW r \in DOMAIN estate.in, NEW s \in In(r).services \cup In(r).tasks
  PROVE  d.name \in KnownName(r, s) <=> r = d.region /\ s.arn = d.arn
<1>1. ASSUME d.name \in KnownName(r, s) PROVE r = d.region /\ s.arn = d.arn
  <2>1. PICK e \in Range(definitions) : e.region = r /\ e.arn = s.arn /\ d.name = e.name
    BY <1>1 DEF KnownName
  <2>2. e = d
    BY <2>1, OneOfName
  <2> QED
    BY <2>1, <2>2
<1>2. ASSUME r = d.region, s.arn = d.arn PROVE d.name \in KnownName(r, s)
  BY <1>2 DEF KnownName
<1> QED
  BY <1>1, <1>2

(***************************************************************************)
(* Of all that carries the name and has the container, the last is the     *)
(* definition itself, so its ports are those of the container.             *)
(***************************************************************************)
LEMMA PortsAreOwn ==
  ASSUME ECSTyped, NEW d \in Range(definitions), Own(d), NEW c \in Range(d.containers)
  PROVE  PortsOf(d.name, c.name) = c.ports
<1> DEFINE of(i) == {x \in Range(definitions) : x.region = graph[i]}
           lists == [i \in DOMAIN graph |-> Only(definitions, of(i))]
           more == FlattenSeq(lists)
           all == definitions \o more
           kept == {x \in Range(all) :
                      x.name = d.name /\ \E y \in Range(x.containers) : y.name = c.name}
           named == Only(all, kept)
<1>1. IsList(definitions)
  BY DEF ECSTyped, IsList, Range
<1>2. IsList(more) /\ Range(more) \subseteq Range(definitions)
  <2>1. ASSUME NEW i \in DOMAIN graph
        PROVE  IsList(lists[i]) /\ Range(lists[i]) \subseteq Range(definitions)
    <3> DEFINE k == of(i)
               o == Only(definitions, k)
    <3>1. lists[i] = o
      OBVIOUS
    <3> HIDE DEF k
    <3>2. o \in Seq(Range(definitions)) /\ Range(o) \subseteq Range(definitions)
      BY <1>1, OnlyElements
    <3> HIDE DEF o
    <3>3. IsList(o)
      BY <3>2 DEF IsList, Range
    <3> QED
      BY <3>1, <3>2, <3>3, Zenon
  <2>2. DOMAIN lists = DOMAIN graph /\ IsList(lists)
    <3>1. DOMAIN lists = DOMAIN graph /\ DOMAIN graph = 1..Len(graph) /\ Len(graph) \in Nat
      BY DEF ECSTyped
    <3>2. lists = [n \in 1..Len(graph) |-> lists[n]]
      BY <3>1
    <3> HIDE DEF lists
    <3> QED
      BY <3>1, <3>2, ListOf
  <2> HIDE DEF lists
  <2>3. IsList(FlattenSeq(lists)) /\ Range(FlattenSeq(lists)) = UNION {Range(lists[n]) : n \in DOMAIN lists}
    BY <2>1, <2>2, FlattenElements
  <2> QED
    BY <2>1, <2>2, <2>3
<1> HIDE DEF more
<1>3. IsList(all) /\ Range(all) = Range(definitions)
  BY <1>1, <1>2, JoinElements
<1>4. d \in kept
  BY <1>3
<1> HIDE DEF all, kept
<1>5. /\ Range(named) = kept \cap Range(all)
      /\ DOMAIN named = 1..Len(named) /\ Len(named) \in Nat
  BY <1>3, OnlyElements
<1>6. Last(named) = d
  <2>1. d \in Range(named)
    BY <1>3, <1>4, <1>5
  <2> HIDE DEF named
  <2>2. Len(named) \in DOMAIN named
    BY <1>5, <2>1 DEF Range
  <2>3. named[Len(named)] \in Range(named)
    BY <2>2 DEF Range
  <2>4. named[Len(named)].name = d.name /\ named[Len(named)] \in Range(definitions)
    BY <1>3, <1>5, <2>3 DEF kept
  <2>5. named[Len(named)] = d
    BY <2>4, OneOfName
  <2> QED
    BY <2>5 DEF Last
<1>7. PortsOf(d.name, c.name) = UNION {x.ports : x \in {y \in Range(Last(named).containers) : y.name = c.name}}
  BY DEF PortsOf, named, all, kept, more
<1>8. {y \in Range(d.containers) : y.name = c.name} = {c}
  BY DefinitionTyped
<1> HIDE DEF named
<1> QED
  BY <1>6, <1>7, <1>8

\* The status of a name, of those that it may have.
Statuses == {"defined_only", "standalone_recent", "service_desired", "observed_running"}

(***************************************************************************)
(* A definition whose name is its own is known to run if a signal of it    *)
(* says so (AnalyzeRuntime).                                               *)
(***************************************************************************)
LEMMA StatusTells ==
  ASSUME ECSTyped, NEW d \in Range(definitions), Own(d)
  PROVE  AnalyzeRuntime(definitions, signals)[d.name] # "defined_only"
           <=> \E g \in signals : g.arn = d.arn /\ g.status # "defined_only"
<1> DEFINE mine == {g \in signals : g.arn = d.arn}
           statuses == {"defined_only"} \cup {g.status : g \in mine}
           best == CHOOSE st \in statuses : \A other \in statuses : Precedence[other] <= Precedence[st]
<1>1. {x \in signals : \E e \in Range(definitions) : e.arn = x.arn /\ e.name = d.name} = mine
  <2>1. \A x \in signals : (\E e \in Range(definitions) : e.arn = x.arn /\ e.name = d.name)
                              <=> x.arn = d.arn
    BY OneOfName
  <2> QED
    BY <2>1
<1>2. d.name \in {e.name : e \in Range(definitions)}
  OBVIOUS
<1>3. AnalyzeRuntime(definitions, signals)[d.name] = best
  BY <1>1, <1>2 DEF AnalyzeRuntime
<1>4. statuses \subseteq Statuses /\ "defined_only" \in statuses
  <2>1. \A g \in signals : g.status \in Statuses
    BY DEF ECSTyped, SignalsOf, ServiceStatus, Statuses
  <2> QED
    BY <2>1 DEF Statuses
<1>5. \E st \in statuses : \A other \in statuses : Precedence[other] <= Precedence[st]
  <2> HIDE DEF statuses
  <2>1. CASE "observed_running" \in statuses
    BY <1>4, <2>1 DEF Precedence, Statuses
  <2>2. CASE "observed_running" \notin statuses /\ "service_desired" \in statuses
    BY <1>4, <2>2 DEF Precedence, Statuses
  <2>3. CASE "observed_running" \notin statuses /\ "service_desired" \notin statuses
    <3>1. CASE "standalone_recent" \in statuses
      BY <1>4, <2>3, <3>1 DEF Precedence, Statuses
    <3>2. CASE "standalone_recent" \notin statuses
      BY <1>4, <2>3, <3>2 DEF Precedence, Statuses
    <3> QED
      BY <3>1, <3>2
  <2> QED
    BY <2>1, <2>2, <2>3
<1>6. best \in statuses /\ \A other \in statuses : Precedence[other] <= Precedence[best]
  <2> HIDE DEF statuses
  <2> QED
    BY <1>5
<1>7. best # "defined_only" <=> \E st \in statuses : st # "defined_only"
  <2> HIDE DEF best, statuses
  <2>1. ASSUME best = "defined_only", NEW st \in statuses PROVE st = "defined_only"
    BY <1>4, <1>6, <2>1 DEF Precedence, Statuses
  <2> QED
    BY <1>6, <2>1
<1> QED
  BY <1>3, <1>7

\* A region was read, or a warning names it.
RuntimeKnown(r) == SignalsOf(r) \subseteq signals \/ <<"runtime", r>> \in ecsWarned
GraphKnown(r) == r \in Range(graph) \/ <<"exposure", r>> \in ecsWarned

(***************************************************************************)
(* A signal says of a definition that it runs only if something runs of    *)
(* it, and does so wherever the region's signals were collected.           *)
(***************************************************************************)
LEMMA SignalsTell ==
  ASSUME ECSTyped, NEW d \in Range(definitions)
  PROVE  /\ (\E g \in signals : g.arn = d.arn /\ g.status # "defined_only") => RunsOf(d) # {}
         /\ RunsOf(d) # {} /\ SignalsOf(d.region) \subseteq signals =>
              \E g \in signals : g.arn = d.arn /\ g.status # "defined_only"
<1>0. d.region \in DOMAIN estate.in
  BY DefinitionTyped
<1>1. ASSUME NEW r \in DOMAIN estate.in, NEW s \in In(r).services
      PROVE  ServiceStatus(s) # "defined_only" <=> s.running + s.desired > 0
  <2>1. s.desired \in Nat /\ s.running \in Nat
    BY EstatesAssumption DEF ECSTyped, In
  <2> QED
    BY <2>1 DEF ServiceStatus
<1>2. ASSUME NEW g \in signals, g.arn = d.arn, g.status # "defined_only" PROVE RunsOf(d) # {}
  <2>1. PICK r \in Range(estate.regions) : g \in SignalsOf(r)
    BY DEF ECSTyped
  <2>2. r \in DOMAIN estate.in
    BY RegionsTyped DEF ECSTyped
  <2>3. CASE g \in {[arn |-> s.arn, status |-> ServiceStatus(s)] : s \in In(r).services}
    <3>1. PICK s \in In(r).services : g = [arn |-> s.arn, status |-> ServiceStatus(s)]
      BY <2>3
    <3>2. s.arn = d.arn /\ ServiceStatus(s) # "defined_only"
      BY <1>2, <3>1
    <3>3. r = d.region
      BY <2>2, <3>2, RunsAtHome
    <3>4. s.running + s.desired > 0
      BY <1>1, <2>2, <3>2
    <3> QED
      BY <3>2, <3>3, <3>4 DEF RunsOf
  <2>4. CASE g \in {[arn |-> t.arn, status |-> "standalone_recent"] : t \in In(r).tasks}
    <3>1. PICK t \in In(r).tasks : g = [arn |-> t.arn, status |-> "standalone_recent"]
      BY <2>4
    <3>2. t.arn = d.arn
      BY <1>2, <3>1
    <3>3. r = d.region
      BY <2>2, <3>2, RunsAtHome
    <3> QED
      BY <3>2, <3>3 DEF RunsOf
  <2> QED
    BY <2>1, <2>3, <2>4 DEF SignalsOf
<1>3. ASSUME NEW x \in RunsOf(d), SignalsOf(d.region) \subseteq signals
      PROVE  \E g \in signals : g.arn = d.arn /\ g.status # "defined_only"
  <2>1. CASE x \in In(d.region).services /\ x.arn = d.arn /\ x.running + x.desired > 0
    <3> DEFINE g == [arn |-> x.arn, status |-> ServiceStatus(x)]
    <3>1. g \in SignalsOf(d.region)
      BY <2>1 DEF SignalsOf
    <3>2. g.arn = d.arn /\ g.status # "defined_only"
      BY <1>0, <1>1, <2>1
    <3> QED
      BY <1>3, <3>1, <3>2
  <2>2. CASE x \in In(d.region).tasks /\ x.arn = d.arn
    <3> DEFINE g == [arn |-> x.arn, status |-> "standalone_recent"]
    <3>1. g \in SignalsOf(d.region)
      BY <2>2 DEF SignalsOf
    <3>2. g.arn = d.arn /\ g.status # "defined_only"
      BY <2>2
    <3> QED
      BY <1>3, <3>1, <3>2
  <2> QED
    BY <1>3, <2>1, <2>2 DEF RunsOf
<1> QED
  BY <1>2, <1>3

\* The services of a definition in its region.
ServicesOf(d) == {s \in In(d.region).services : s.arn = d.arn}

(***************************************************************************)
(* The load balancers that lead to a name are those of the definition's    *)
(* services, and they are seen if its region was read                      *)
(* (loadBalancerExposure).                                                 *)
(***************************************************************************)
LEMMA BalancedTells ==
  ASSUME ECSTyped, NEW d \in Range(definitions), Own(d)
  PROVE  Balanced(d.name) <=> d.region \in Range(graph) /\ ServedBy(d, ServicesOf(d)) # {}
<1>0. Range(graph) \subseteq DOMAIN estate.in
  <2>1. Range(graph) \subseteq Range(estate.regions)
    BY DEF ECSTyped, Range
  <2> QED
    BY <2>1, RegionsTyped DEF ECSTyped
<1>1. ASSUME Balanced(d.name) PROVE d.region \in Range(graph) /\ ServedBy(d, ServicesOf(d)) # {}
  <2>0. PICK r \in Range(graph), q \in Range(graph) : \E s \in In(r).services, b \in In(q).balancers :
          d.name \in KnownName(r, s) /\ b.targetGroup \in s.targetGroups /\ b.internetFacing
    BY <1>1 DEF Balanced
  <2>1. PICK s \in In(r).services, b \in In(q).balancers :
          d.name \in KnownName(r, s) /\ b.targetGroup \in s.targetGroups /\ b.internetFacing
    BY <2>0
  <2>2. r = d.region /\ s.arn = d.arn
    BY <1>0, <2>1, KnownAs
  <2>3. r = q
    BY <1>0, <2>1, EstatesAssumption DEF ECSTyped, In
  <2>4. b \in ServedBy(d, ServicesOf(d))
    BY <2>1, <2>2, <2>3 DEF ServedBy, ServicesOf
  <2> QED
    BY <2>2, <2>4
<1>2. ASSUME d.region \in Range(graph), NEW b \in ServedBy(d, ServicesOf(d)) PROVE Balanced(d.name)
  <2>1. PICK s \in In(d.region).services : s.arn = d.arn /\ b.targetGroup \in s.targetGroups
    BY DEF ServedBy, ServicesOf
  <2>2. b \in In(d.region).balancers /\ b.internetFacing
    BY DEF ServedBy
  <2>3. d.name \in KnownName(d.region, s)
    BY <1>0, <1>2, <2>1, KnownAs
  <2> QED
    BY <1>2, <2>1, <2>2, <2>3 DEF Balanced
<1> QED
  BY <1>1, <1>2

(***************************************************************************)
(* A public task opens a port of a container exactly if a rule names that  *)
(* port; a rule for all traffic opens none, as no port has the number 0    *)
(* (publicTaskExposure).                                                   *)
(***************************************************************************)
LEMMA PublicTells ==
  ASSUME ECSTyped, NEW d \in Range(definitions), Own(d), NEW c \in Range(d.containers)
  PROVE  PublicTask(d.name, c.name) <=> d.region \in Range(graph) /\ OpenTasks(d, c) # {}
<1>0. Range(graph) \subseteq DOMAIN estate.in
  <2>1. Range(graph) \subseteq Range(estate.regions)
    BY DEF ECSTyped, Range
  <2> QED
    BY <2>1, RegionsTyped DEF ECSTyped
<1>1. ASSUME NEW port \in c.ports, NEW rule
      PROVE  Opens(rule, port) <=> rule.world /\ rule.protocol = port.protocol /\ port.number \in rule.ports
  <2>1. port.number # 0 /\ port.protocol # "-1"
    BY DefinitionTyped
  <2> QED
    BY <2>1 DEF Opens
<1>2. PortsOf(d.name, c.name) = c.ports
  BY PortsAreOwn
<1>3. ASSUME PublicTask(d.name, c.name) PROVE d.region \in Range(graph) /\ OpenTasks(d, c) # {}
  <2>0. PICK r \in Range(graph) : \E t \in In(r).tasks :
          /\ d.name \in KnownName(r, t) /\ t.public
          /\ \E rule \in In(r).rules, port \in PortsOf(d.name, c.name) :
               rule.group \in t.groups /\ Opens(rule, port)
    BY <1>3 DEF PublicTask
  <2>1. PICK t \in In(r).tasks :
          /\ d.name \in KnownName(r, t) /\ t.public
          /\ \E rule \in In(r).rules, port \in PortsOf(d.name, c.name) :
               rule.group \in t.groups /\ Opens(rule, port)
    BY <2>0
  <2>2. r = d.region /\ t.arn = d.arn
    BY <1>0, <2>1, KnownAs
  <2>3. PICK rule \in In(r).rules, port \in c.ports : rule.group \in t.groups /\ Opens(rule, port)
    BY <1>2, <2>1
  <2>4. rule.world /\ rule.protocol = port.protocol /\ port.number \in rule.ports
    BY <1>1, <2>3
  <2>5. t \in OpenTasks(d, c)
    BY <2>1, <2>2, <2>3, <2>4 DEF OpenTasks
  <2> QED
    BY <2>2, <2>5
<1>4. ASSUME d.region \in Range(graph), NEW t \in OpenTasks(d, c) PROVE PublicTask(d.name, c.name)
  <2>1. t \in In(d.region).tasks /\ t.arn = d.arn /\ t.public
    BY DEF OpenTasks
  <2>2. PICK rule \in In(d.region).rules, port \in c.ports :
          /\ rule.group \in t.groups /\ rule.world
          /\ rule.protocol = port.protocol /\ port.number \in rule.ports
    BY DEF OpenTasks
  <2>3. Opens(rule, port)
    BY <1>1, <2>2
  <2>4. d.name \in KnownName(d.region, t)
    BY <1>0, <1>4, <2>1, KnownAs
  <2> QED
    BY <1>2, <1>4, <2>1, <2>2, <2>3, <2>4 DEF PublicTask
<1> QED
  BY <1>3, <1>4

\* What a verdict on a container tells (the first part of ECSGapIsWarned).
VerdictTells(x, verdict) ==
  LET d == x.definition
      active == {s \in In(d.region).services : s.arn = d.arn /\ s.running + s.desired > 0}
      path == ServedBy(d, active) # {} \/ OpenTasks(d, x.container) # {}
  IN  Own(d) =>
        /\ path /\ verdict = "none" =>
             {<<"runtime", d.region>>, <<"exposure", d.region>>} \cap ecsWarned # {}
        /\ verdict # "none" =>
             /\ RunsOf(d) # {}
             /\ \/ ServedBy(d, {s \in In(d.region).services : s.arn = d.arn}) # {}
                \/ OpenTasks(d, x.container) # {}

\* Every region has been asked for its signals, and the statuses are of them.
RuntimeRead ==
  /\ \A r \in Range(estate.regions) : RuntimeKnown(r)
  /\ runtimeOf = AnalyzeRuntime(definitions, signals)

(***************************************************************************)
(* When every region was read or named, the paths that were read tell of a *)
(* container what is so (AnalyzeExposureFromGraph).                        *)
(***************************************************************************)
LEMMA GraphTells ==
  ASSUME ECSTyped, RuntimeRead, \A r \in Range(estate.regions) : GraphKnown(r),
         NEW x \in ECSContainers
  PROVE  VerdictTells(x, AnalyzeGraph[x])
<1> DEFINE d == x.definition
           c == x.container
           active == {s \in In(d.region).services : s.arn = d.arn /\ s.running + s.desired > 0}
           verdict == AnalyzeGraph[x]
<1>1. d \in Range(definitions) /\ c \in Range(d.containers)
  <2>0. PICK e \in Range(definitions) : \E k \in Range(e.containers) : x = [definition |-> e, container |-> k]
    BY DEF ECSContainers
  <2>1. PICK k \in Range(e.containers) : x = [definition |-> e, container |-> k]
    BY <2>0
  <2>2. d = e /\ c = k
    BY <2>1
  <2> QED
    BY <2>1, <2>2
<1>2. d.region \in Range(estate.regions)
  BY <1>1, DefinitionTyped
<1>3. verdict = IF runtimeOf[d.name] = "defined_only" THEN "none"
                ELSE IF PublicTask(d.name, c.name) THEN "TaskENI"
                ELSE IF Balanced(d.name) THEN "LoadBalancer" ELSE "none"
  BY DEF AnalyzeGraph
<1>4. SUFFICES ASSUME Own(d)
               PROVE  /\ (ServedBy(d, active) # {} \/ OpenTasks(d, c) # {}) /\ verdict = "none" =>
                           {<<"runtime", d.region>>, <<"exposure", d.region>>} \cap ecsWarned # {}
                      /\ verdict # "none" =>
                           /\ RunsOf(d) # {}
                           /\ ServedBy(d, ServicesOf(d)) # {} \/ OpenTasks(d, c) # {}
  BY DEF VerdictTells, ServicesOf
<1> HIDE DEF verdict, d, c
<1>5. /\ runtimeOf[d.name] # "defined_only" => RunsOf(d) # {}
      /\ RunsOf(d) # {} /\ SignalsOf(d.region) \subseteq signals => runtimeOf[d.name] # "defined_only"
  BY <1>1, <1>4, StatusTells, SignalsTell DEF RuntimeRead
<1>6. Balanced(d.name) <=> d.region \in Range(graph) /\ ServedBy(d, ServicesOf(d)) # {}
  BY <1>1, <1>4, BalancedTells
<1>7. PublicTask(d.name, c.name) <=> d.region \in Range(graph) /\ OpenTasks(d, c) # {}
  BY <1>1, <1>4, PublicTells
<1>8. ASSUME verdict # "none"
      PROVE  RunsOf(d) # {} /\ (ServedBy(d, ServicesOf(d)) # {} \/ OpenTasks(d, c) # {})
  BY <1>3, <1>5, <1>6, <1>7, <1>8
<1>9. ASSUME ServedBy(d, active) # {} \/ OpenTasks(d, c) # {}, verdict = "none"
      PROVE  {<<"runtime", d.region>>, <<"exposure", d.region>>} \cap ecsWarned # {}
  <2>1. RunsOf(d) # {}
    BY <1>9 DEF RunsOf, ServedBy, OpenTasks
  <2>2. ServedBy(d, ServicesOf(d)) # {} \/ OpenTasks(d, c) # {}
    BY <1>9 DEF ServedBy, ServicesOf
  <2>3. RuntimeKnown(d.region) /\ GraphKnown(d.region)
    BY <1>2 DEF RuntimeRead
  <2>4. runtimeOf[d.name] = "defined_only" \/ d.region \notin Range(graph)
    BY <1>3, <1>6, <1>7, <1>9, <2>2
  <2> QED
    BY <1>5, <2>1, <2>3, <2>4 DEF RuntimeKnown, GraphKnown
<1> QED
  BY <1>8, <1>9

\* The verdicts tell what is so, and none is reached before the paths are read.
VerdictsTell ==
  /\ ecsStage \in {"definitions", "runtime", "graph"} => DOMAIN ecsExposureOf = {}
  /\ \A x \in DOMAIN ecsExposureOf : VerdictTells(x, ecsExposureOf[x])

\* A region that has not been read is still to be read, or a warning names it.
RegionsRead ==
  /\ ecsStage = "runtime" =>
       \A r \in Range(estate.regions) : r \in Range(regionsLeft) \/ RuntimeKnown(r)
  /\ ecsStage = "graph" =>
       RuntimeRead /\ \A r \in Range(estate.regions) : r \in Range(regionsLeft) \/ GraphKnown(r)

\* A secret that is not in use is still to be asked for, or a warning names it.
SecretsAsked ==
  /\ ecsStage \in {"graph", "secrets", "collected"} /\ ReadsSecrets =>
       \A c \in Range(SecretsOf(definitions)) :
         \/ c \in Range(secretsLeft)
         \/ c.host \in secretAuths \/ <<"secret", c.host>> \in ecsWarned
  /\ ecsStage = "collected" => secretsLeft = <<>>

ECSInv == ECSTyped /\ VerdictsTell /\ RegionsRead /\ SecretsAsked

(***************************************************************************)
(* What a verdict tells is so still as long as the definitions stay and    *)
(* the warnings are kept.                                                  *)
(***************************************************************************)
LEMMA StillTells ==
  ASSUME UNCHANGED <<estate, definitions>>, ecsWarned \subseteq ecsWarned',
         \A x \in DOMAIN ecsExposureOf' : VerdictTells(x, ecsExposureOf'[x])
  PROVE  (\A x \in DOMAIN ecsExposureOf : VerdictTells(x, ecsExposureOf[x]))'
<1>1. \A d : (Own(d)' <=> Own(d)) /\ RunsOf(d)' = RunsOf(d)
  BY DEF Own, RunsOf, In
<1>2. \A d, c : ServedBy(d, c)' = ServedBy(d, c) /\ OpenTasks(d, c)' = OpenTasks(d, c)
  BY DEF ServedBy, OpenTasks, In
<1>3. \A r : In(r)' = In(r)
  BY DEF In
<1> QED
  BY <1>1, <1>2, <1>3 DEF VerdictTells

(***************************************************************************)
(* The secrets of a list of definitions are a list.                        *)
(***************************************************************************)
LEMMA SecretsTyped == ASSUME ECSTyped PROVE IsList(SecretsOf(definitions))
<1> DEFINE lists == [i \in DOMAIN definitions |-> definitions[i].containers]
           all == FlattenSeq(lists)
           kept == {c \in Range(all) : c.secret /\ c.image # ""}
<1>1. \A i \in DOMAIN definitions : IsList(definitions[i].containers)
  BY DefinitionTyped DEF Range
<1>2. DOMAIN lists = DOMAIN definitions /\ IsList(lists)
  <2>1. DOMAIN lists = DOMAIN definitions /\ DOMAIN definitions = 1..Len(definitions) /\ Len(definitions) \in Nat
    BY DEF ECSTyped
  <2>2. lists = [n \in 1..Len(definitions) |-> lists[n]]
    BY <2>1
  <2> HIDE DEF lists
  <2> QED
    BY <2>1, <2>2, ListOf
<1>3. \A i \in DOMAIN lists : IsList(lists[i])
  BY <1>1
<1> HIDE DEF lists
<1>4. IsList(all)
  BY <1>2, <1>3, FlattenElements
<1> HIDE DEF all, kept
<1>5. Only(all, kept) \in Seq(Range(all)) /\ DOMAIN Only(all, kept) = 1..Len(Only(all, kept))
  BY <1>4, OnlyElements
<1>6. IsList(Only(all, kept))
  <2> DEFINE o == Only(all, kept)
  <2> HIDE DEF o
  <2>1. o \in Seq(Range(all)) => IsList(o)
    BY DEF IsList, Range
  <2> QED
    BY <1>5, <2>1 DEF o
<1>7. SecretsOf(definitions) = Only(all, kept)
  BY DEF SecretsOf, all, kept, lists
<1> QED
  BY <1>6, <1>7

(***************************************************************************)
(* What is left of the regions is part of them.                            *)
(***************************************************************************)
LEMMA NextRegion ==
  ASSUME ECSTyped, regionsLeft # <<>>
  PROVE  /\ Tail(regionsLeft) \in Seq(Range(estate.regions))
         /\ Head(regionsLeft) \in Range(estate.regions) /\ Head(regionsLeft) \in DOMAIN estate.in
         /\ Range(regionsLeft) = {Head(regionsLeft)} \cup Range(Tail(regionsLeft))
<1>1. IsList(regionsLeft)
  BY DEF ECSTyped, IsList, Range
<1>2. Range(regionsLeft) = {Head(regionsLeft)} \cup Range(Tail(regionsLeft))
  BY <1>1, HeadAndTail
<1>3. /\ Tail(regionsLeft) \in Seq(Range(estate.regions))
      /\ Head(regionsLeft) \in Range(estate.regions)
  <2> DEFINE S == Range(estate.regions)
  <2>1. regionsLeft \in Seq(S)
    BY DEF ECSTyped
  <2> HIDE DEF S
  <2>2. Tail(regionsLeft) \in Seq(S) /\ Head(regionsLeft) \in S
    BY <2>1
  <2> QED
    BY <2>2 DEF S
<1> QED
  BY <1>2, <1>3, RegionsTyped DEF ECSTyped

(***************************************************************************)
(* At first nothing is read.                                               *)
(***************************************************************************)
LEMMA ECSInitInv == ECSInit(Estates, ECSOptionSets) => ECSInv
<1> SUFFICES ASSUME ECSInit(Estates, ECSOptionSets) PROVE ECSInv
  OBVIOUS
<1>1. /\ ecsStage = "definitions" /\ estate \in Estates /\ regionsLeft = estate.regions
      /\ definitions = <<>> /\ signals = {} /\ graph = <<>> /\ secretsLeft = <<>> /\ ecsExposureOf = <<>>
  BY DEF ECSInit
<1>2. ECSTyped
  <2>1. estate.regions \in Seq(Range(estate.regions))
    BY <1>1, RegionsTyped
  <2>2. \A S : <<>> \in Seq(S)
    OBVIOUS
  <2>3. IsList(<<>>)
    BY <2>2 DEF IsList
  <2> QED
    BY <1>1, <2>1, <2>2, <2>3 DEF ECSTyped
<1>3. DOMAIN ecsExposureOf = {}
  BY <1>1
<1> QED
  BY <1>1, <1>2, <1>3 DEF ECSInv, VerdictsTell, RegionsRead, SecretsAsked

(***************************************************************************)
(* What is listed of a region are its definitions; a region that cannot be *)
(* listed ends the run with nothing said.                                  *)
(***************************************************************************)
LEMMA ListDefinitionsInv == ASSUME ECSInv, NEW ok \in BOOLEAN, ListDefinitions(ok) PROVE ECSInv'
<1> DEFINE region == Head(regionsLeft)
           listed == [i \in DOMAIN In(region).definitions |->
                        LET d == In(region).definitions[i] IN
                        [region |-> region, arn |-> d.arn, name |-> d.name, containers |-> d.containers]]
<1>0. /\ ecsStage = "definitions" /\ regionsLeft # <<>> /\ ecsStage' \in {"definitions", "runtime", "failed"}
      /\ definitions' = IF ok THEN definitions \o listed ELSE definitions
      /\ ecsStage' = "runtime" => regionsLeft' = estate.regions
      /\ regionsLeft' \in {estate.regions, Tail(regionsLeft)}
      /\ UNCHANGED <<estate, graph, signals, secretsLeft, ecsExposureOf>>
  BY DEF ListDefinitions, ecsInputs
<1>1. ECSTyped /\ DOMAIN ecsExposureOf = {}
  BY <1>0 DEF ECSInv, VerdictsTell
<1>2. region \in Range(estate.regions) /\ region \in DOMAIN estate.in /\ Tail(regionsLeft) \in Seq(Range(estate.regions))
  BY <1>0, <1>1, NextRegion
<1>3. listed \in Seq(AllDefinitions)
  <2> DEFINE defs == In(region).definitions
  <2>1. IsList(defs)
    BY <1>1, <1>2, EstatesAssumption DEF ECSTyped, In
  <2>2. DOMAIN defs = 1..Len(defs) /\ Len(defs) \in Nat
    BY <2>1 DEF IsList
  <2>3. \A i \in DOMAIN defs : listed[i] \in ListingOf(region)
    BY DEF ListingOf, Range
  <2>4. \A i \in DOMAIN defs : listed[i] \in AllDefinitions
    BY <1>2, <2>3 DEF AllDefinitions
  <2>5. DOMAIN listed = 1..Len(defs) /\ listed = [i \in 1..Len(defs) |-> listed[i]]
    BY <2>2
  <2> HIDE DEF listed, defs
  <2> QED
    BY <2>2, <2>4, <2>5
<1> HIDE DEF listed
<1>4. definitions' \in Seq(AllDefinitions)
  BY <1>0, <1>1, <1>3 DEF ECSTyped
<1>5. AllDefinitions' = AllDefinitions /\ \A r : SignalsOf(r)' = SignalsOf(r)
  BY <1>0 DEF AllDefinitions, ListingOf, SignalsOf, In
<1>6. ECSTyped'
  <2>1. regionsLeft' \in Seq(Range(estate.regions))
    BY <1>0, <1>1, <1>2, RegionsTyped DEF ECSTyped
  <2> QED
    BY <1>0, <1>1, <1>4, <1>5, <2>1 DEF ECSTyped
<1>7. VerdictsTell' /\ RegionsRead' /\ SecretsAsked'
  BY <1>0, <1>1 DEF VerdictsTell, RegionsRead, SecretsAsked
<1> QED
  BY <1>6, <1>7 DEF ECSInv

(***************************************************************************)
(* Once a region was asked for its signals they are collected, or a        *)
(* warning names it.                                                       *)
(***************************************************************************)
LEMMA CollectRuntimeInv == ASSUME ECSInv, NEW ok \in BOOLEAN, CollectRuntime(ok) PROVE ECSInv'
<1>0. /\ ecsStage = "runtime" /\ ecsStage' = "runtime" /\ regionsLeft # <<>> /\ regionsLeft' = Tail(regionsLeft)
      /\ signals' = signals \cup (IF ok THEN SignalsOf(Head(regionsLeft)) ELSE {})
      /\ ecsWarned' = ecsWarned \cup (IF ok THEN {} ELSE {<<"runtime", Head(regionsLeft)>>})
      /\ UNCHANGED <<estate, definitions, graph, secretsLeft, ecsExposureOf>>
  BY DEF CollectRuntime, ecsInputs
<1>1. ECSTyped /\ VerdictsTell /\ DOMAIN ecsExposureOf = {}
  BY <1>0 DEF ECSInv, VerdictsTell
<1>2. /\ Tail(regionsLeft) \in Seq(Range(estate.regions))
      /\ Head(regionsLeft) \in Range(estate.regions)
      /\ Range(regionsLeft) = {Head(regionsLeft)} \cup Range(Tail(regionsLeft))
  BY <1>0, <1>1, NextRegion
<1>3. AllDefinitions' = AllDefinitions /\ \A r : SignalsOf(r)' = SignalsOf(r)
  BY <1>0 DEF AllDefinitions, ListingOf, SignalsOf, In
<1>4. ECSTyped'
  BY <1>0, <1>1, <1>2, <1>3 DEF ECSTyped
<1>5. RegionsRead'
  <2>1. ASSUME NEW r \in Range(estate.regions), r \notin Range(Tail(regionsLeft)) PROVE RuntimeKnown(r)'
    <3>1. r = Head(regionsLeft) \/ RuntimeKnown(r)
      BY <1>0, <1>2, <2>1 DEF ECSInv, RegionsRead
    <3>2. CASE r = Head(regionsLeft)
      BY <1>0, <1>3, <3>2 DEF RuntimeKnown
    <3>3. CASE RuntimeKnown(r)
      BY <1>0, <1>3, <3>3 DEF RuntimeKnown
    <3> QED
      BY <3>1, <3>2, <3>3
  <2> QED
    BY <1>0, <2>1 DEF RegionsRead
<1>6. VerdictsTell' /\ SecretsAsked'
  BY <1>0, <1>1 DEF VerdictsTell, SecretsAsked
<1> QED
  BY <1>4, <1>5, <1>6 DEF ECSInv

(***************************************************************************)
(* When the last region was asked, the statuses are of all that is known,  *)
(* and the secrets of all definitions are to be asked for.                 *)
(***************************************************************************)
LEMMA EndRuntimeInv == ASSUME ECSInv, EndECSRuntime PROVE ECSInv'
<1>0. /\ ecsStage = "runtime" /\ ecsStage' \in {"graph", "secrets"} /\ regionsLeft = <<>>
      /\ runtimeOf' = AnalyzeRuntime(definitions, signals)
      /\ ecsStage' = "graph" => regionsLeft' = estate.regions
      /\ regionsLeft' \in {<<>>, estate.regions}
      /\ secretsLeft' = IF ReadsSecrets THEN SecretsOf(definitions) ELSE <<>>
      /\ UNCHANGED <<ecsOptions, estate, definitions, signals, graph, ecsExposureOf, secretAuths, ecsWarned>>
  BY DEF EndECSRuntime, ecsInputs
<1>1. ECSTyped /\ DOMAIN ecsExposureOf = {}
  BY <1>0 DEF ECSInv, VerdictsTell
<1>2. AllDefinitions' = AllDefinitions /\ \A r : SignalsOf(r)' = SignalsOf(r)
  BY <1>0 DEF AllDefinitions, ListingOf, SignalsOf, In
<1>3. ECSTyped'
  <2>1. \A S : <<>> \in Seq(S)
    OBVIOUS
  <2>2. regionsLeft' \in Seq(Range(estate.regions))
    BY <1>0, <1>1, <2>1, RegionsTyped DEF ECSTyped
  <2>3. IsList(secretsLeft')
    BY <1>0, <1>1, <2>1, SecretsTyped DEF IsList
  <2> QED
    BY <1>0, <1>1, <1>2, <2>2, <2>3 DEF ECSTyped
<1>4. RegionsRead'
  <2>1. Range(regionsLeft) = {}
    BY <1>0 DEF Range
  <2>2. \A r \in Range(estate.regions) : RuntimeKnown(r)'
    BY <1>0, <1>2, <2>1 DEF ECSInv, RegionsRead, RuntimeKnown
  <2>3. RuntimeRead'
    BY <1>0, <2>2 DEF RuntimeRead, AnalyzeRuntime
  <2> QED
    BY <1>0, <2>3 DEF RegionsRead
<1>5. VerdictsTell'
  BY <1>0, <1>1 DEF VerdictsTell
<1>6. SecretsAsked'
  <2>1. SecretsOf(definitions)' = SecretsOf(definitions) /\ (ReadsSecrets' <=> ReadsSecrets)
    BY <1>0 DEF SecretsOf, ReadsSecrets
  <2> QED
    BY <1>0, <2>1 DEF SecretsAsked
<1> QED
  BY <1>3, <1>4, <1>5, <1>6 DEF ECSInv

(***************************************************************************)
(* Once a region was asked for its paths they are read, or a warning names *)
(* it.                                                                     *)
(***************************************************************************)
LEMMA CollectGraphInv == ASSUME ECSInv, NEW ok \in BOOLEAN, CollectGraph(ok) PROVE ECSInv'
<1>0. /\ ecsStage = "graph" /\ ecsStage' = "graph" /\ regionsLeft # <<>> /\ regionsLeft' = Tail(regionsLeft)
      /\ graph' = IF ok THEN Append(graph, Head(regionsLeft)) ELSE graph
      /\ ecsWarned' = ecsWarned \cup (IF ok THEN {} ELSE {<<"exposure", Head(regionsLeft)>>})
      /\ UNCHANGED <<ecsOptions, estate, definitions, signals, runtimeOf, secretsLeft, secretAuths, ecsExposureOf>>
  BY DEF CollectGraph, ecsInputs
<1>1. ECSTyped /\ VerdictsTell /\ DOMAIN ecsExposureOf = {}
  BY <1>0 DEF ECSInv, VerdictsTell
<1>2. /\ Tail(regionsLeft) \in Seq(Range(estate.regions))
      /\ Head(regionsLeft) \in Range(estate.regions)
      /\ Range(regionsLeft) = {Head(regionsLeft)} \cup Range(Tail(regionsLeft))
  BY <1>0, <1>1, NextRegion
<1>3. AllDefinitions' = AllDefinitions /\ \A r : SignalsOf(r)' = SignalsOf(r)
  BY <1>0 DEF AllDefinitions, ListingOf, SignalsOf, In
<1>4. graph' \in Seq(Range(estate.regions)) /\ Range(graph') = Range(graph) \cup (IF ok THEN {Head(regionsLeft)} ELSE {})
  <2> DEFINE S == Range(estate.regions)
             h == Head(regionsLeft)
  <2>1. graph \in Seq(S) /\ h \in S
    BY <1>1, <1>2 DEF ECSTyped
  <2> HIDE DEF S, h
  <2>2. Append(graph, h) \in Seq(S)
    BY <2>1
  <2>3. Range(Append(graph, h)) = Range(graph) \cup {h}
    <3>1. /\ DOMAIN graph = 1..Len(graph) /\ Len(graph) \in Nat
          /\ DOMAIN Append(graph, h) = 1..(Len(graph) + 1)
          /\ \A i \in 1..Len(graph) : Append(graph, h)[i] = graph[i]
          /\ Append(graph, h)[Len(graph) + 1] = h
      BY <2>1
    <3> QED
      BY <3>1 DEF Range
  <2> QED
    BY <1>0, <2>1, <2>2, <2>3 DEF S, h
<1>5. ECSTyped'
  BY <1>0, <1>1, <1>2, <1>3, <1>4 DEF ECSTyped
<1>6. RegionsRead'
  <2>1. ASSUME NEW r \in Range(estate.regions), r \notin Range(Tail(regionsLeft)) PROVE GraphKnown(r)'
    <3>1. r = Head(regionsLeft) \/ GraphKnown(r)
      BY <1>0, <1>2, <2>1 DEF ECSInv, RegionsRead
    <3>2. CASE r = Head(regionsLeft)
      BY <1>0, <1>4, <3>2 DEF GraphKnown
    <3>3. CASE GraphKnown(r)
      BY <1>0, <1>4, <3>3 DEF GraphKnown
    <3> QED
      BY <3>1, <3>2, <3>3
  <2>2. RuntimeRead'
    <3>1. RuntimeRead
      BY <1>0 DEF ECSInv, RegionsRead
    <3>2. \A r \in Range(estate.regions) : RuntimeKnown(r)'
      BY <1>0, <1>3, <3>1 DEF RuntimeRead, RuntimeKnown
    <3>3. AnalyzeRuntime(definitions, signals)' = AnalyzeRuntime(definitions, signals)
      BY <1>0 DEF AnalyzeRuntime
    <3> QED
      BY <1>0, <3>1, <3>2, <3>3 DEF RuntimeRead
  <2> QED
    BY <1>0, <2>1, <2>2 DEF RegionsRead
<1>7. VerdictsTell'
  BY <1>0, <1>1 DEF VerdictsTell
<1>8. SecretsAsked'
  <2>1. SecretsOf(definitions)' = SecretsOf(definitions) /\ (ReadsSecrets' <=> ReadsSecrets)
    BY <1>0 DEF SecretsOf, ReadsSecrets
  <2> QED
    BY <1>0, <2>1 DEF ECSInv, SecretsAsked
<1> QED
  BY <1>5, <1>6, <1>7, <1>8 DEF ECSInv

(***************************************************************************)
(* The verdicts are reached when every region was read or named.           *)
(***************************************************************************)
LEMMA ECSVerdictsInv == ASSUME ECSInv, AnalyzeECSExposure PROVE ECSInv'
<1>0. /\ ecsStage = "graph" /\ ecsStage' = "secrets" /\ regionsLeft = <<>> /\ ecsExposureOf' = AnalyzeGraph
      /\ UNCHANGED <<ecsOptions, estate, regionsLeft, definitions, signals, graph, runtimeOf, secretsLeft,
                     secretAuths, ecsWarned>>
  BY DEF AnalyzeECSExposure, ecsInputs
<1>1. ECSTyped /\ RuntimeRead /\ \A r \in Range(estate.regions) : GraphKnown(r)
  <2>1. Range(regionsLeft) = {}
    BY <1>0 DEF Range
  <2> QED
    BY <1>0, <2>1 DEF ECSInv, RegionsRead
<1>2. ECSTyped'
  <2>1. AllDefinitions' = AllDefinitions /\ \A r : SignalsOf(r)' = SignalsOf(r)
    BY <1>0 DEF AllDefinitions, ListingOf, SignalsOf, In
  <2> QED
    BY <1>0, <1>1, <2>1 DEF ECSTyped
<1>3. VerdictsTell'
  <2>1. DOMAIN AnalyzeGraph = ECSContainers
    BY DEF AnalyzeGraph
  <2>2. \A x \in DOMAIN ecsExposureOf' : VerdictTells(x, ecsExposureOf'[x])
    BY <1>0, <1>1, <2>1, GraphTells
  <2>3. (\A x \in DOMAIN ecsExposureOf : VerdictTells(x, ecsExposureOf[x]))'
    BY <1>0, <2>2, StillTells
  <2> QED
    BY <1>0, <2>3 DEF VerdictsTell
<1>4. RegionsRead'
  BY <1>0 DEF RegionsRead
<1>5. SecretsAsked'
  <2>1. SecretsOf(definitions)' = SecretsOf(definitions) /\ (ReadsSecrets' <=> ReadsSecrets)
    BY <1>0 DEF SecretsOf, ReadsSecrets
  <2> QED
    BY <1>0, <2>1 DEF ECSInv, SecretsAsked
<1> QED
  BY <1>2, <1>3, <1>4, <1>5 DEF ECSInv

(***************************************************************************)
(* A secret that was asked for is in use, or a warning names its host.     *)
(***************************************************************************)
LEMMA ReadSecretInv == ASSUME ECSInv, NEW good \in BOOLEAN, ReadSecret(good) PROVE ECSInv'
<1> DEFINE host == Head(secretsLeft).host
<1>0. /\ ecsStage = "secrets" /\ ecsStage' = "secrets" /\ secretsLeft # <<>> /\ secretsLeft' = Tail(secretsLeft)
      /\ secretAuths \subseteq secretAuths' /\ ecsWarned \subseteq ecsWarned'
      /\ host \in secretAuths' \/ <<"secret", host>> \in ecsWarned'
      /\ UNCHANGED <<ecsOptions, estate, regionsLeft, definitions, signals, graph, runtimeOf, ecsExposureOf>>
  BY DEF ReadSecret, ecsInputs
<1> HIDE DEF host
<1>1. ECSTyped /\ VerdictsTell
  BY DEF ECSInv
<1>2. IsList(Tail(secretsLeft)) /\ Range(secretsLeft) = {Head(secretsLeft)} \cup Range(Tail(secretsLeft))
  BY <1>0, <1>1, HeadAndTail DEF ECSTyped
<1>3. ECSTyped'
  <2>1. AllDefinitions' = AllDefinitions /\ \A r : SignalsOf(r)' = SignalsOf(r)
    BY <1>0 DEF AllDefinitions, ListingOf, SignalsOf, In
  <2> QED
    BY <1>0, <1>1, <1>2, <2>1 DEF ECSTyped
<1>4. VerdictsTell'
  <2>1. (\A x \in DOMAIN ecsExposureOf : VerdictTells(x, ecsExposureOf[x]))'
    BY <1>0, <1>1, StillTells DEF VerdictsTell
  <2> QED
    BY <1>0, <2>1 DEF VerdictsTell
<1>5. RegionsRead'
  BY <1>0 DEF RegionsRead
<1>6. SecretsAsked'
  <2>1. SecretsOf(definitions)' = SecretsOf(definitions) /\ (ReadsSecrets' <=> ReadsSecrets)
    BY <1>0 DEF SecretsOf, ReadsSecrets
  <2> QED
    BY <1>0, <1>2, <2>1 DEF ECSInv, SecretsAsked, host
<1> QED
  BY <1>3, <1>4, <1>5, <1>6 DEF ECSInv

(***************************************************************************)
(* Every step of a run against ECS, and no step, keeps the invariant.      *)
(***************************************************************************)
LEMMA ECSNextInv == ECSInv /\ [ECSNext]_ecsVars => ECSInv'
<1> SUFFICES ASSUME ECSInv, [ECSNext]_ecsVars PROVE ECSInv'
  OBVIOUS
<1>1. ASSUME /\ UNCHANGED <<ecsOptions, estate, regionsLeft, definitions, signals, graph, runtimeOf,
                            ecsExposureOf, secretsLeft, secretAuths, ecsWarned>>
             /\ \/ ecsStage' = ecsStage
                \/ ecsStage = "secrets" /\ secretsLeft = <<>> /\ ecsStage' = "collected"
      PROVE  ECSInv'
  <2>1. AllDefinitions' = AllDefinitions /\ \A r : SignalsOf(r)' = SignalsOf(r)
    BY <1>1 DEF AllDefinitions, ListingOf, SignalsOf, In
  <2>2. ECSTyped'
    BY <1>1, <2>1 DEF ECSInv, ECSTyped
  <2>3. VerdictsTell'
    <3>1. (\A x \in DOMAIN ecsExposureOf : VerdictTells(x, ecsExposureOf[x]))'
      BY <1>1, StillTells DEF ECSInv, VerdictsTell
    <3> QED
      BY <1>1, <3>1 DEF ECSInv, VerdictsTell
  <2>4. RegionsRead'
    <3>1. \A r : (RuntimeKnown(r)' <=> RuntimeKnown(r)) /\ (GraphKnown(r)' <=> GraphKnown(r))
      BY <1>1, <2>1 DEF RuntimeKnown, GraphKnown
    <3>2. RuntimeRead' <=> RuntimeRead
      BY <1>1, <3>1 DEF RuntimeRead, AnalyzeRuntime
    <3> QED
      BY <1>1, <3>1, <3>2 DEF ECSInv, RegionsRead
  <2>5. SecretsAsked'
    <3>1. SecretsOf(definitions)' = SecretsOf(definitions) /\ (ReadsSecrets' <=> ReadsSecrets)
      BY <1>1 DEF SecretsOf, ReadsSecrets
    <3> QED
      BY <1>1, <3>1 DEF ECSInv, SecretsAsked
  <2> QED
    BY <2>2, <2>3, <2>4, <2>5 DEF ECSInv
<1>2. CASE EndECSSecrets
  BY <1>1, <1>2 DEF EndECSSecrets, ecsInputs, ecsResults
<1>3. CASE UNCHANGED ecsVars
  BY <1>1, <1>3 DEF ecsVars, ecsInputs, ecsResults
<1> QED
  BY <1>2, <1>3, ListDefinitionsInv, CollectRuntimeInv, EndRuntimeInv, CollectGraphInv, ECSVerdictsInv,
     ReadSecretInv DEF ECSNext

(***************************************************************************)
(* The invariant says that no gap of a run is kept silent.                 *)
(***************************************************************************)
LEMMA ECSInvWarns == ECSInv => ECSGapIsWarned
<1> SUFFICES ASSUME ECSInv PROVE ECSGapIsWarned
  OBVIOUS
<1>1. \A x \in DOMAIN ecsExposureOf : VerdictTells(x, ecsExposureOf[x])
  BY DEF ECSInv, VerdictsTell
<1>2. ecsStage = "collected" /\ ReadsSecrets =>
        \A c \in Range(SecretsOf(definitions)) :
          c.host \in secretAuths \/ <<"secret", c.host>> \in ecsWarned
  <2>1. ecsStage = "collected" => Range(secretsLeft) = {}
    BY DEF ECSInv, SecretsAsked, Range
  <2> QED
    BY <2>1 DEF ECSInv, SecretsAsked
<1> QED
  BY <1>1, <1>2 DEF ECSGapIsWarned, VerdictTells
=============================================================================
