--------------------------- MODULE CodegenProofs ---------------------------
(* What the generator promises, for headers of any length whose forms it   *)
(* understands one by one.                                                 *)
EXTENDS Codegen, SequenceTheorems, WellFoundedInduction, TLAPS

-----------------------------------------------------------------------------
(* Induction.                                                              *)

\* A set of numbers has a least.
LEMMA Least ==
  ASSUME NEW P \in SUBSET Nat, P # {}
  PROVE  \E i \in P : \A j \in P : i <= j
<1> DEFINE R == {p \in Nat \X Nat : p[1] < p[2]}
<1>1. R = OpToRel(<, Nat)
  BY DEF OpToRel
<1>2. IsWellFoundedOn(R, Nat)
  BY <1>1, NatLessThanWellFounded
<1> HIDE DEF R
<1>3. PICK i \in P : \A j \in P : ~ (<<j, i>> \in R)
  BY <1>2, WFMin
<1>4. \A j \in P : ~ (j < i)
  BY <1>3 DEF R
<1> QED
  BY <1>4

\* What holds of 0 and of each number after one it holds of.
LEMMA Upwards ==
  ASSUME NEW n \in Nat, NEW P, 0 \in P, \A k \in 1 .. n : k - 1 \in P => k \in P
  PROVE  \A k \in 0 .. n : k \in P
<1> DEFINE Bad == (0 .. n) \ P
<1> SUFFICES ASSUME Bad # {} PROVE FALSE
  OBVIOUS
<1>1. Bad \in SUBSET Nat
  OBVIOUS
<1> HIDE DEF Bad
<1>2. PICK k \in Bad : \A j \in Bad : k <= j
  BY <1>1, Least
<1>3. k \in 1 .. n /\ k \notin P
  BY <1>2 DEF Bad
<1>4. k - 1 \in 0 .. n /\ ~ (k <= k - 1)
  BY <1>3
<1>5. k - 1 \in P
  BY <1>2, <1>4 DEF Bad
<1> QED
  BY <1>3, <1>5

-----------------------------------------------------------------------------
(* FlattenSeq.                                                             *)

\* One more sequence at the end: how FlattenSeq goes on.
Adds(s, u, i) == IF i = 1 THEN s[i] ELSE u[i - 1] \o s[i]

\* What FlattenSeq computes of the beginnings of s.
Flattened(s) == CHOOSE flatten : flatten = [i \in 1 .. Len(s) |-> IF i = 1 THEN s[i] ELSE flatten[i - 1] \o s[i]]

LEMMA FlattenedIs ==
  ASSUME NEW X, NEW s \in Seq(Seq(X))
  PROVE  /\ \A i \in 1 .. Len(s) : Flattened(s)[i] = Adds(s, Flattened(s), i) /\ Flattened(s)[i] \in Seq(X)
         /\ s = <<>> => FlattenSeq(s) = <<>>
         /\ s # <<>> => FlattenSeq(s) = Flattened(s)[Len(s)]
<1> PICK n \in Nat : n = Len(s)
  OBVIOUS
<1>1. \A i \in 1 .. n : s[i] \in Seq(X)
  OBVIOUS
<1> DEFINE Rec(g, m) == \A i \in 1 .. m : g[i] = Adds(s, g, i)
           P == {m \in 0 .. n : \E g \in [1 .. m -> Seq(X)] : Rec(g, m)}
<1>2. PICK g \in [1 .. n -> Seq(X)] : Rec(g, n)
  <2>1. 0 \in P
    <3>1. [i \in 1 .. 0 |-> <<>>] \in [1 .. 0 -> Seq(X)] /\ 0 \in 0 .. n
      OBVIOUS
    <3>2. Rec([i \in 1 .. 0 |-> <<>>], 0)
      OBVIOUS
    <3> QED
      BY <3>1, <3>2
  <2>2. ASSUME NEW m \in 1 .. n, m - 1 \in P PROVE m \in P
    <3>1. PICK g \in [1 .. m - 1 -> Seq(X)] : Rec(g, m - 1)
      BY <2>2
    <3>2. PICK x \in Seq(X) : x = Adds(s, g, m)
      <4>1. CASE m = 1
        BY <1>1, <4>1 DEF Adds
      <4>2. CASE m # 1
        <5>1. m - 1 \in 1 .. m - 1 /\ g[m - 1] \in Seq(X) /\ s[m] \in Seq(X)
          BY <1>1, <4>2
        <5>2. g[m - 1] \o s[m] \in Seq(X)
          BY <5>1, ConcatProperties
        <5> QED
          BY <4>2, <5>2 DEF Adds
      <4> QED
        BY <4>1, <4>2
    <3>3. PICK h : h = [i \in 1 .. m |-> IF i = m THEN x ELSE g[i]]
      OBVIOUS
    <3>4. h \in [1 .. m -> Seq(X)]
      BY <3>3
    <3>5. ASSUME NEW i \in 1 .. m PROVE h[i] = Adds(s, h, i)
      <4>1. i # 1 => i - 1 \in 1 .. m - 1 /\ h[i - 1] = g[i - 1]
        BY <3>3
      <4>2. Adds(s, h, i) = Adds(s, g, i)
        BY <4>1 DEF Adds
      <4>3. CASE i = m
        BY <3>2, <3>3, <4>2, <4>3
      <4>4. CASE i # m
        <5>1. i \in 1 .. m - 1 /\ h[i] = g[i]
          BY <3>3, <4>4
        <5> QED
          BY <3>1, <4>2, <5>1
      <4> QED
        BY <4>3, <4>4
    <3>6. Rec(h, m)
      BY <3>5
    <3>7. m \in 0 .. n
      OBVIOUS
    <3> HIDE DEF Rec
    <3> QED
      BY <3>4, <3>6, <3>7
  <2> HIDE DEF P
  <2>3. \A m \in 0 .. n : m \in P
    BY <2>1, <2>2, Upwards
  <2>4. n \in 0 .. n
    OBVIOUS
  <2> QED
    BY <2>3, <2>4 DEF P
<1> DEFINE Q(h) == h = [i \in 1 .. Len(s) |-> IF i = 1 THEN s[i] ELSE h[i - 1] \o s[i]]
<1>3. Q(g)
  BY <1>2 DEF Adds
<1> PICK v : v = Flattened(s)
  OBVIOUS
<1>4. Q(v)
  <2> HIDE DEF Q
  <2>1. Flattened(s) = CHOOSE h : Q(h)
    BY DEF Flattened, Q
  <2> QED
    BY Zenon, <1>3, <2>1
<1>5. \A i \in 1 .. n : v[i] = Adds(s, v, i)
  BY <1>4 DEF Adds
<1> HIDE DEF Q
<1>6. \A i \in 1 .. n : v[i] \in Seq(X)
  <2> DEFINE S == {i \in 0 .. n : i = 0 \/ v[i] \in Seq(X)}
  <2>1. 0 \in S
    OBVIOUS
  <2>2. ASSUME NEW i \in 1 .. n, i - 1 \in S PROVE i \in S
    <3>1. CASE i = 1
      BY <1>1, <1>5, <3>1 DEF Adds
    <3>2. CASE i # 1
      <4>1. v[i - 1] \in Seq(X) /\ s[i] \in Seq(X)
        BY <1>1, <2>2, <3>2
      <4>2. v[i - 1] \o s[i] \in Seq(X)
        BY <4>1, ConcatProperties
      <4>3. v[i] = v[i - 1] \o s[i]
        BY <1>5, <3>2 DEF Adds
      <4>4. v[i] \in Seq(X)
        BY <4>2, <4>3, Zenon
      <4> QED
        BY <4>4
    <3> QED
      BY <3>1, <3>2
  <2> HIDE DEF S
  <2>3. \A i \in 0 .. n : i \in S
    BY <2>1, <2>2, Upwards
  <2> QED
    BY <2>3 DEF S
<1>7. Len(s) = 0 <=> s = <<>>
  OBVIOUS
<1>8. FlattenSeq(s) = IF Len(s) = 0 THEN s ELSE Flattened(s)[Len(s)]
  BY DEF FlattenSeq, Flattened
<1> QED
  BY <1>5, <1>6, <1>7, <1>8

\* A sequence of sequences flattened is a sequence.
LEMMA FlattenType ==
  ASSUME NEW X, NEW s \in Seq(Seq(X))
  PROVE  FlattenSeq(s) \in Seq(X)
<1>1. CASE s = <<>>
  <2>1. FlattenSeq(s) = <<>>
    BY <1>1, FlattenedIs, Zenon
  <2> QED
    BY <2>1
<1>2. CASE s # <<>>
  <2>1. Len(s) \in 1 .. Len(s)
    BY <1>2
  <2> QED
    BY <1>2, <2>1, FlattenedIs
<1> QED
  BY <1>1, <1>2

\* One more at the end is one more at the end of what is flattened.
LEMMA FlattenAppend ==
  ASSUME NEW X, NEW s \in Seq(Seq(X)), NEW x \in Seq(X)
  PROVE  FlattenSeq(Append(s, x)) = FlattenSeq(s) \o x
<1> PICK n \in Nat : n = Len(s)
  OBVIOUS
<1> PICK t : t = Append(s, x)
  OBVIOUS
<1>1. /\ t \in Seq(Seq(X)) /\ Len(t) = n + 1 /\ t[n + 1] = x /\ t # <<>>
      /\ \A i \in 1 .. n : t[i] = s[i]
  <2>1. /\ t \in Seq(Seq(X)) /\ Len(t) = n + 1 /\ t[n + 1] = x
        /\ \A i \in 1 .. n : t[i] = s[i]
    BY AppendProperties
  <2> QED
    BY <2>1
<1> PICK u : u = Flattened(s)
  OBVIOUS
<1> PICK v : v = Flattened(t)
  OBVIOUS
<1>2. /\ \A i \in 1 .. n : u[i] = Adds(s, u, i)
      /\ \A i \in 1 .. n + 1 : v[i] = Adds(t, v, i)
      /\ FlattenSeq(t) = v[n + 1]
  BY <1>1, FlattenedIs
<1>3. \A i \in 1 .. n : u[i] = v[i]
  <2> DEFINE S == {i \in 0 .. n : i = 0 \/ u[i] = v[i]}
  <2>1. 0 \in S
    OBVIOUS
  <2>2. ASSUME NEW i \in 1 .. n, i - 1 \in S PROVE i \in S
    <3>1. Adds(s, u, i) = Adds(t, v, i)
      BY <1>1, <2>2 DEF Adds
    <3>2. u[i] = Adds(s, u, i) /\ v[i] = Adds(t, v, i)
      BY <1>2
    <3> QED
      BY <3>1, <3>2
  <2> HIDE DEF S
  <2>3. \A i \in 0 .. n : i \in S
    BY <2>1, <2>2, Upwards
  <2> QED
    BY <2>3 DEF S
<1>4. v[n + 1] = IF n = 0 THEN x ELSE v[n] \o x
  <2>1. n + 1 \in 1 .. n + 1
    OBVIOUS
  <2>2. v[n + 1] = Adds(t, v, n + 1)
    BY <1>2, <2>1
  <2> QED
    BY <1>1, <2>2 DEF Adds
<1>5. CASE n = 0
  <2>1. Len(s) = 0 => s = <<>>
    OBVIOUS
  <2>2. s = <<>>
    BY <1>5, <2>1
  <2>3. FlattenSeq(s) = <<>>
    BY <2>2, FlattenedIs, Zenon
  <2>4. <<>> \o x = x
    BY ConcatEmptySeq
  <2> QED
    BY <1>2, <1>4, <1>5, <2>3, <2>4
<1>6. CASE n # 0
  <2>1. s # <<>> /\ FlattenSeq(s) = u[n]
    BY <1>6, FlattenedIs
  <2>2. u[n] = v[n]
    BY <1>3, <1>6
  <2> QED
    BY <1>2, <1>4, <1>6, <2>1, <2>2
<1> QED
  BY <1>5, <1>6

-----------------------------------------------------------------------------
(* A form is read alike whatever comes after it.                           *)

\* The lines w, and others behind them.
Begins(ls, w) == Len(w) <= Len(ls) /\ \A i \in 1 .. Len(w) : ls[i] = w[i]

\* Where Min is.
LEMMA MinIs ==
  ASSUME NEW S \in SUBSET Nat, NEW m \in S, \A j \in S : m <= j
  PROVE  Min(S) = m
<1> DEFINE Q(x) == x \in S /\ \A j \in S : x <= j
<1>1. Q(m)
  OBVIOUS
<1> PICK v : v = Min(S)
  OBVIOUS
<1>2. Min(S) = CHOOSE x : Q(x)
  BY DEF Min
<1>3. Q(v)
  <2> HIDE DEF Q
  <2> QED
    BY <1>1, <1>2, Zenon
<1>4. v <= m /\ m <= v /\ v \in Nat /\ m \in Nat
  BY <1>1, <1>3
<1> QED
  BY <1>4

\* That there is one.
LEMMA MinOf ==
  ASSUME NEW S \in SUBSET Nat, S # {}
  PROVE  Min(S) \in S /\ \A j \in S : Min(S) <= j
<1>1. PICK m \in S : \A j \in S : m <= j
  BY Least
<1>2. Min(S) = m
  BY <1>1, MinIs
<1> QED
  BY <1>1, <1>2

LEMMA MinPair ==
  ASSUME NEW b \in Nat, NEW n \in Nat, b <= n
  PROVE  Min({b, n}) = b
<1>1. {b, n} \in SUBSET Nat /\ b \in {b, n} /\ \A j \in {b, n} : b <= j
  OBVIOUS
<1> QED
  BY <1>1, MinIs

\* What is up to a line of the form is the same.
LEMMA BeginningsSame ==
  ASSUME NEW L, NEW ls \in Seq(L), NEW w \in Seq(L), Begins(ls, w), NEW b \in 0 .. Len(w)
  PROVE  /\ SubSeq(ls, 1, b) = SubSeq(w, 1, b) /\ Joined(ls, b) = Joined(w, b)
         /\ Started(ls, b) = Started(w, b) /\ Balanced(ls, b) = Balanced(w, b)
<1>1. b \in Nat /\ b <= Len(w) /\ b <= Len(ls) /\ Len(w) \in Nat /\ Len(ls) \in Nat
  BY DEF Begins
<1>2. SubSeq(ls, 1, b) = SubSeq(w, 1, b)
  <2>1. /\ SubSeq(ls, 1, b) \in Seq(L) /\ Len(SubSeq(ls, 1, b)) = b
        /\ SubSeq(w, 1, b) \in Seq(L) /\ Len(SubSeq(w, 1, b)) = b
    BY <1>1
  <2>2. \A i \in 1 .. b : SubSeq(ls, 1, b)[i] = ls[i] /\ SubSeq(w, 1, b)[i] = w[i] /\ ls[i] = w[i]
    BY <1>1 DEF Begins
  <2>3. \A i \in 1 .. b : SubSeq(ls, 1, b)[i] = SubSeq(w, 1, b)[i]
    BY <2>2
  <2> QED
    BY <2>1, <2>3, SeqEqual
<1>3. Joined(ls, b) = Joined(w, b)
  BY <1>2 DEF Joined
<1> QED
  BY <1>2, <1>3 DEF Started, Balanced

\* The first of n lines that is in P, or one past the end.
FirstIn(n, P) == Min({b \in 1 .. n : b \in P} \cup {n + 1})

\* It is the same if there are more lines behind it.
LEMMA FirstSame ==
  ASSUME NEW n \in Nat, NEW m \in Nat, n <= m, NEW P, NEW R, \A b \in 1 .. n : b \in P <=> b \in R,
         FirstIn(n, P) <= n
  PROVE  FirstIn(m, R) = FirstIn(n, P)
<1> USE DEF FirstIn
<1> PICK S : S = {b \in 1 .. n : b \in P} \cup {n + 1}
  OBVIOUS
<1> PICK T : T = {b \in 1 .. m : b \in R} \cup {m + 1}
  OBVIOUS
<1>1. S \in SUBSET Nat /\ S # {} /\ T \in SUBSET Nat
  OBVIOUS
<1> PICK x : x = Min(S)
  OBVIOUS
<1>2. x \in S /\ \A j \in S : x <= j
  BY <1>1, MinOf
<1>3. x \in 1 .. n /\ x \in P
  BY <1>2
<1>4. x \in T
  BY <1>3
<1>5. ASSUME NEW j \in T PROVE x <= j
  <2>1. CASE j \in 1 .. n
    BY <1>2, <2>1
  <2>2. CASE j \notin 1 .. n
    BY <1>3, <2>2
  <2> QED
    BY <2>1, <2>2
<1>6. Min(T) = x
  BY <1>1, <1>4, <1>5, MinIs
<1> QED
  BY <1>6

\* An entity that ends, ends on the same line.
LEMMA LastLineSame ==
  ASSUME NEW L, NEW ls \in Seq(L), NEW w \in Seq(L), Begins(ls, w), LastLine(w) <= Len(w)
  PROVE  LastLine(ls) = LastLine(w)
<1> DEFINE Ends(s, b) == IF Started(s, b) THEN Balanced(s, b) ELSE EndsWith(s[b], ";")
<1>1. Len(w) \in Nat /\ Len(ls) \in Nat /\ Len(w) <= Len(ls)
  BY DEF Begins
<1>2. ASSUME NEW b \in 1 .. Len(w) PROVE b \in 1 .. Len(ls) /\ (Ends(w, b) <=> Ends(ls, b))
  <2>1. b \in 0 .. Len(w)
    BY <1>1
  <2>2. Started(ls, b) = Started(w, b) /\ Balanced(ls, b) = Balanced(w, b)
    BY <2>1, BeginningsSame
  <2>3. ls[b] = w[b] /\ b \in 1 .. Len(ls)
    BY <1>1 DEF Begins
  <2> QED
    BY <2>2, <2>3
<1>3. /\ LastLine(w) = Min({b \in 1 .. Len(w) : Ends(w, b)} \cup {Len(w) + 1})
      /\ LastLine(ls) = Min({b \in 1 .. Len(ls) : Ends(ls, b)} \cup {Len(ls) + 1})
  BY DEF LastLine
<1> HIDE DEF Ends
<1> PICK P : P = {b \in 1 .. Len(w) : Ends(w, b)}
  OBVIOUS
<1> PICK R : R = {b \in 1 .. Len(ls) : Ends(ls, b)}
  OBVIOUS
<1>4. \A b \in 1 .. Len(w) : b \in P <=> b \in R
  BY <1>2
<1>5. P = {b \in 1 .. Len(w) : b \in P} /\ R = {b \in 1 .. Len(ls) : b \in R}
  OBVIOUS
<1>6. /\ LastLine(w) = FirstIn(Len(w), P)
      /\ LastLine(ls) = FirstIn(Len(ls), R)
  BY <1>3, <1>5, Zenon DEF FirstIn
<1>7. FirstIn(Len(w), P) <= Len(w)
  BY <1>6, Zenon
<1>8. FirstIn(Len(ls), R) = FirstIn(Len(w), P)
  BY <1>1, <1>4, <1>7, FirstSame
<1> QED
  BY <1>6, <1>8, Zenon

LEMMA LastLineOfTypeSame ==
  ASSUME NEW L, NEW ls \in Seq(L), NEW w \in Seq(L), Begins(ls, w), w # <<>>, LastLineOfType(w) <= Len(w)
  PROVE  LastLineOfType(ls) = LastLineOfType(w)
<1>1. Len(w) \in Nat /\ Len(ls) \in Nat /\ Len(w) <= Len(ls) /\ ls[1] = w[1]
  <2>1. 1 \in 1 .. Len(w)
    OBVIOUS
  <2> QED
    BY <2>1 DEF Begins
<1>2. CASE EndsWith(w[1], ";") /\ "{" \notin ToSet(w[1])
  BY <1>1, <1>2 DEF LastLineOfType
<1>3. CASE ~ (EndsWith(w[1], ";") /\ "{" \notin ToSet(w[1]))
  <2> DEFINE Ends(s, b) == Started(s, b) /\ Balanced(s, b)
  <2>1. ASSUME NEW b \in 1 .. Len(w) PROVE b \in 1 .. Len(ls) /\ (Ends(w, b) <=> Ends(ls, b))
    <3>1. b \in 0 .. Len(w) /\ b \in 1 .. Len(ls)
      BY <1>1
    <3>2. Started(ls, b) = Started(w, b) /\ Balanced(ls, b) = Balanced(w, b)
      BY <3>1, BeginningsSame
    <3> QED
      BY <3>1, <3>2
  <2>2. /\ LastLineOfType(w) = Min({b \in 1 .. Len(w) : Ends(w, b)} \cup {Len(w) + 1})
        /\ LastLineOfType(ls) = Min({b \in 1 .. Len(ls) : Ends(ls, b)} \cup {Len(ls) + 1})
    BY <1>1, <1>3 DEF LastLineOfType
  <2> HIDE DEF Ends
  <2> PICK P : P = {b \in 1 .. Len(w) : Ends(w, b)}
    OBVIOUS
  <2> PICK R : R = {b \in 1 .. Len(ls) : Ends(ls, b)}
    OBVIOUS
  <2>3. \A b \in 1 .. Len(w) : b \in P <=> b \in R
    BY <2>1
  <2>4. P = {b \in 1 .. Len(w) : b \in P} /\ R = {b \in 1 .. Len(ls) : b \in R}
    OBVIOUS
  <2>5. /\ LastLineOfType(w) = FirstIn(Len(w), P)
        /\ LastLineOfType(ls) = FirstIn(Len(ls), R)
    BY <2>2, <2>4, Zenon DEF FirstIn
  <2>6. FirstIn(Len(w), P) <= Len(w)
    BY <2>5, Zenon
  <2>7. FirstIn(Len(ls), R) = FirstIn(Len(w), P)
    BY <1>1, <2>3, <2>6, FirstSame
  <2> QED
    BY <2>5, <2>7, Zenon
<1> QED
  BY <1>2, <1>3

\* An end is a line, or one past them.
LEMMA LastLineType ==
  ASSUME NEW L, NEW w \in Seq(L), w # <<>>
  PROVE  LastLine(w) \in 1 .. Len(w) + 1 /\ LastLineOfType(w) \in 1 .. Len(w) + 1
<1>1. Len(w) \in Nat /\ Len(w) >= 1
  OBVIOUS
<1>2. ASSUME NEW P \in SUBSET (1 .. Len(w)) PROVE Min(P \cup {Len(w) + 1}) \in 1 .. Len(w) + 1
  <2> PICK S : S = P \cup {Len(w) + 1}
    OBVIOUS
  <2>1. S \subseteq 1 .. Len(w) + 1
    <3>1. 1 .. Len(w) \subseteq 1 .. Len(w) + 1 /\ Len(w) + 1 \in 1 .. Len(w) + 1
      BY <1>1
    <3> QED
      BY <3>1
  <2>2. S \in SUBSET Nat /\ S # {}
    BY <1>1, <2>1
  <2>3. Min(S) \in S
    BY <2>2, MinOf
  <2> QED
    BY <2>1, <2>3
<1>3. LastLine(w) \in 1 .. Len(w) + 1
  <2> PICK P : P = {b \in 1 .. Len(w) : IF Started(w, b) THEN Balanced(w, b) ELSE EndsWith(w[b], ";")}
    OBVIOUS
  <2>1. P \in SUBSET (1 .. Len(w)) /\ LastLine(w) = Min(P \cup {Len(w) + 1})
    BY DEF LastLine
  <2> QED
    BY <1>2, <2>1
<1>4. LastLineOfType(w) \in 1 .. Len(w) + 1
  <2> PICK P : P = {b \in 1 .. Len(w) : Started(w, b) /\ Balanced(w, b)}
    OBVIOUS
  <2>1. P \in SUBSET (1 .. Len(w)) /\ LastLineOfType(w) \in {1, Min(P \cup {Len(w) + 1})}
    BY DEF LastLineOfType
  <2>2. Min(P \cup {Len(w) + 1}) \in 1 .. Len(w) + 1
    BY <1>2, <2>1
  <2> QED
    BY <1>1, <2>1, <2>2
<1> QED
  BY <1>3, <1>4

\* What is taken of the form is the same.
LEMMA TakenSame ==
  ASSUME NEW L, NEW ls \in Seq(L), NEW w \in Seq(L), Begins(ls, w), NEW b \in 1 .. Len(w)
  PROVE  /\ Min({b, Len(ls)}) = b /\ Min({b, Len(w)}) = b /\ Joined(ls, b) = Joined(w, b)
         /\ \A kept, es : Reading(ls, b, kept, es) = Reading(w, b, kept, es)
         /\ \A es : Verbatim(ls, b, es) = Verbatim(w, b, es)
<1>1. Len(w) \in Nat /\ Len(ls) \in Nat /\ Len(w) <= Len(ls) /\ b \in Nat /\ b <= Len(w) /\ b <= Len(ls)
  BY DEF Begins
<1>2. Min({b, Len(ls)}) = b /\ Min({b, Len(w)}) = b
  BY <1>1, MinPair
<1>3. Joined(ls, b) = Joined(w, b) /\ SubSeq(ls, 1, b) = SubSeq(w, 1, b)
  BY <1>1, BeginningsSame
<1>4. \A kept, es : Reading(ls, b, kept, es) = Reading(w, b, kept, es)
  BY <1>2 DEF Reading
<1>5. \A es : Verbatim(ls, b, es) = Verbatim(w, b, es)
  BY <1>2, <1>3, <1>4 DEF Verbatim
<1> QED
  BY <1>2, <1>3, <1>4, <1>5

\* Whichever way the form is read, it is read the same.
LEMMA ReadSame ==
  ASSUME NEW L, NEW ls \in Seq(L), NEW w \in Seq(L), Begins(ls, w), w # <<>>
  PROVE  /\ ls # <<>> /\ ls[1] = w[1]
         /\ LastLine(w) <= Len(w) =>
              /\ LastLine(ls) <= Len(ls) /\ TemplateReading(ls) = TemplateReading(w)
              /\ ConstantReading(ls) = ConstantReading(w) /\ FunctionReading(ls) = FunctionReading(w)
              /\ VariableReading(ls) = VariableReading(w)
         /\ LastLineOfType(w) <= Len(w) => TypeReading(ls) = TypeReading(w)
         /\ AliasReading(ls) = AliasReading(w) /\ FreeReading(ls) = FreeReading(w)
<1>1. Len(w) \in Nat /\ Len(ls) \in Nat /\ Len(w) <= Len(ls) /\ 1 \in 1 .. Len(w)
  BY DEF Begins
<1>2. ls # <<>> /\ ls[1] = w[1]
  BY <1>1 DEF Begins
<1>3. ASSUME LastLine(w) <= Len(w)
      PROVE  /\ LastLine(ls) <= Len(ls) /\ TemplateReading(ls) = TemplateReading(w)
             /\ ConstantReading(ls) = ConstantReading(w) /\ FunctionReading(ls) = FunctionReading(w)
             /\ VariableReading(ls) = VariableReading(w)
  <2> PICK b \in 1 .. Len(w) : b = LastLine(w)
    BY <1>1, <1>3, LastLineType
  <2>1. LastLine(ls) = b /\ LastLine(ls) <= Len(ls)
    BY <1>1, <1>3, LastLineSame
  <2>2. Min({b, Len(ls)}) = b /\ Min({b, Len(w)}) = b /\ Joined(ls, b) = Joined(w, b)
    <3>1. Joined(ls, b) = Joined(w, b)
      BY TakenSame, Zenon
    <3>2. b \in Nat /\ b <= Len(w) /\ b <= Len(ls)
      BY <1>1
    <3>3. Min({b, Len(ls)}) = b /\ Min({b, Len(w)}) = b
      BY <1>1, <3>2, MinPair
    <3> QED
      BY <3>1, <3>3
  <2>3. /\ \A kept, es : Reading(ls, b, kept, es) = Reading(w, b, kept, es)
        /\ \A es : Verbatim(ls, b, es) = Verbatim(w, b, es)
    BY TakenSame, Zenon
  <2>4. TemplateReading(ls) = TemplateReading(w)
    BY <2>1, <2>2, <2>3 DEF TemplateReading
  <2>5. ConstantReading(ls) = ConstantReading(w)
    BY <1>2, <2>1, <2>3 DEF ConstantReading
  <2>6. FunctionReading(ls) = FunctionReading(w)
    BY <2>1, <2>2, <2>3 DEF FunctionReading
  <2>7. VariableReading(ls) = VariableReading(w)
    BY <1>2, <2>1, <2>3 DEF VariableReading
  <2> QED
    BY <2>1, <2>4, <2>5, <2>6, <2>7
<1>4. ASSUME LastLineOfType(w) <= Len(w) PROVE TypeReading(ls) = TypeReading(w)
  <2> PICK b \in 1 .. Len(w) : b = LastLineOfType(w)
    BY <1>1, <1>4, LastLineType
  <2>1. LastLineOfType(ls) = b
    BY <1>4, LastLineOfTypeSame
  <2>2. \A e : Verbatim(ls, b, e) = Verbatim(w, b, e)
    BY TakenSame, Zenon
  <2> QED
    BY <1>2, <2>1, <2>2 DEF TypeReading
<1>5. \A e : Verbatim(ls, 1, e) = Verbatim(w, 1, e)
  BY <1>1, TakenSame
<1>6. AliasReading(ls) = AliasReading(w) /\ FreeReading(ls) = FreeReading(w)
  BY <1>2, <1>5 DEF AliasReading, FreeReading
<1> QED
  BY <1>2, <1>3, <1>4, <1>6

-----------------------------------------------------------------------------
(* Headers.                                                                *)

IsText(t) == t \in Seq(ToSet(t)) /\ t # <<>>

LEMMA TextsOf ==
  /\ \A a : IsText(<<a>>)
  /\ \A a, b : IsText(<<a, b>>)
  /\ \A a, b, c : IsText(<<a, b, c>>)
  /\ \A a, b, c, d, e : IsText(<<a, b, c, d, e>>)
  /\ \A a, b, c, d, e, f : IsText(<<a, b, c, d, e, f>>)
<1>1. ASSUME NEW a PROVE IsText(<<a>>)
  BY DEF IsText, ToSet
<1>2. ASSUME NEW a, NEW b PROVE IsText(<<a, b>>)
  <2>1. a \in ToSet(<<a, b>>) /\ b \in ToSet(<<a, b>>)
    BY DEF ToSet
  <2> QED
    BY <2>1 DEF IsText
<1>3. ASSUME NEW a, NEW b, NEW c PROVE IsText(<<a, b, c>>)
  <2>1. a \in ToSet(<<a, b, c>>) /\ b \in ToSet(<<a, b, c>>) /\ c \in ToSet(<<a, b, c>>)
    BY DEF ToSet
  <2> QED
    BY <2>1 DEF IsText
<1>4. ASSUME NEW a, NEW b, NEW c, NEW d, NEW e PROVE IsText(<<a, b, c, d, e>>)
  <2> PICK t : t = <<a, b, c, d, e>>
    OBVIOUS
  <2>1. DOMAIN t = 1 .. 5 /\ t[1] = a /\ t[2] = b /\ t[3] = c /\ t[4] = d /\ t[5] = e
    OBVIOUS
  <2>2. {a, b, c, d, e} \subseteq ToSet(t)
    BY <2>1 DEF ToSet
  <2> QED
    BY <2>2 DEF IsText
<1>5. ASSUME NEW a, NEW b, NEW c, NEW d, NEW e, NEW f PROVE IsText(<<a, b, c, d, e, f>>)
  <2> PICK t : t = <<a, b, c, d, e, f>>
    OBVIOUS
  <2>1. DOMAIN t = 1 .. 6 /\ t[1] = a /\ t[2] = b /\ t[3] = c /\ t[4] = d /\ t[5] = e /\ t[6] = f
    OBVIOUS
  <2>2. {a, b, c, d, e, f} \subseteq ToSet(t)
    BY <2>1 DEF ToSet
  <2> QED
    BY <2>2 DEF IsText
<1> QED
  BY <1>1, <1>2, <1>3, <1>4, <1>5

\* Every form has lines, and is no namespace.
LEMMA FormsAre ==
  ASSUME NEW form \in DOMAIN Written
  PROVE  IsText(Written[form]) /\ form # "open" /\ form # "close"
<1>1. IsText(Written["short"])
  BY TextsOf DEF Written
<1>2. IsText(Written["long"])
  BY TextsOf DEF Written
<1>3. IsText(Written["variable"])
  BY TextsOf DEF Written
<1>4. IsText(Written["braced"])
  BY TextsOf DEF Written
<1>5. IsText(Written["bare"])
  BY TextsOf DEF Written
<1>6. IsText(Written["constant"])
  BY TextsOf DEF Written
<1>7. IsText(Written["constfn"])
  BY TextsOf DEF Written
<1>8. IsText(Written["forward"])
  BY TextsOf DEF Written
<1>9. IsText(Written["struct"])
  BY TextsOf DEF Written
<1>10. IsText(Written["alias"])
  BY TextsOf DEF Written
<1>11. IsText(Written["free"])
  BY TextsOf DEF Written
<1>12. IsText(Written["template"])
  BY TextsOf DEF Written
<1>13. IsText(Written["class"])
  BY TextsOf DEF Written
<1>14. IsText(Written["special"])
  BY TextsOf DEF Written
<1>15. IsText(Written["synonym"])
  BY TextsOf DEF Written
<1>16. IsText(Written["imports"])
  BY TextsOf DEF Written
<1>17. IsText(Written["brace"])
  BY TextsOf DEF Written
<1>18. IsText(Written["paren"])
  BY TextsOf DEF Written
<1>19. IsText(Written["noted"])
  BY TextsOf DEF Written
<1>20. IsText(Written["static"])
  BY TextsOf DEF Written
<1>21. IsText(Written["nothing"])
  BY TextsOf DEF Written
<1>22. IsText(Written["attribute"])
  BY TextsOf DEF Written
<1>23. IsText(Written["enum"])
  BY TextsOf DEF Written
<1>24. DOMAIN Written = {"short", "long", "variable", "braced", "bare", "constant", "constfn", "forward", "struct", "alias",
          "free", "template", "class", "special", "synonym", "imports", "nothing", "attribute", "enum",
          "brace", "paren", "noted", "static"}
  BY DEF Written
<1> QED
  BY <1>1, <1>2, <1>3, <1>4, <1>5, <1>6, <1>7, <1>8, <1>9, <1>10, <1>11, <1>12, <1>13, <1>14, <1>15, <1>16, <1>17, <1>18, <1>19, <1>20,
     <1>21, <1>22, <1>23, <1>24

\* The lines there are.
FormLines == UNION {ToSet(Written[form]) : form \in DOMAIN Written}
OpeningLines == {<<"namespace", ns, "{">> : ns \in Outer \cup Inner}
Line == FormLines \cup OpeningLines \cup {<<"}", "//">>}

Stacks == {st \in Seq(Outer \cup Inner) : st # <<>> => st[1] \in Outer}

Entries == [form : Forms \cup {"open", "close"}, stack : Stacks]

\* The namespaces that are open after k entries.
StackAt(h, k) == IF k = 0 THEN <<>> ELSE h[k].stack

\* What an entry does to them.
Follows(before, e) ==
  /\ e.form = "open" => e.stack # <<>> /\ e.stack = Append(before, Last(e.stack))
  /\ e.form = "close" => before # <<>> /\ e.stack = Front(before)
  /\ e.form \in Forms => before # <<>> /\ e.stack = before

\* What the author has written.
AuthorInv == header \in Seq(Entries) /\ \A k \in 1 .. Len(header) : Follows(StackAt(header, k - 1), header[k])

\* The lines of an entry.
LEMMA EntryLines ==
  ASSUME NEW e \in Entries, e.form = "open" => e.stack # <<>>
  PROVE  /\ e.form = "open" => LinesOf(e) = << <<"namespace", Last(e.stack), "{">> >>
         /\ e.form = "close" => LinesOf(e) = << <<"}", "//">> >>
         /\ e.form \in Forms => LinesOf(e) = Written[e.form]
         /\ LinesOf(e) \in Seq(Line) /\ LinesOf(e) # <<>>
<1>1. e.form \in Forms \cup {"open", "close"} /\ e.stack \in Seq(Outer \cup Inner)
  BY DEF Entries, Stacks
<1>2. ASSUME NEW l \in Line PROVE <<l>> \in Seq(Line) /\ <<l>> # <<>>
  OBVIOUS
<1>3. CASE e.form = "open"
  <2>1. PICK ns \in Outer \cup Inner : ns = Last(e.stack)
    BY <1>1, <1>3 DEF Last
  <2>2. <<"namespace", ns, "{">> \in OpeningLines
    BY DEF OpeningLines
  <2>3. LinesOf(e) = << <<"namespace", ns, "{">> >>
    BY <1>3, <2>1 DEF LinesOf
  <2>4. PICK l \in Line : l = <<"namespace", ns, "{">>
    BY <2>2 DEF Line
  <2> QED
    BY <1>2, <1>3, <2>1, <2>3, <2>4, FormsAre, FormsAssumption
<1>4. CASE e.form = "close"
  <2>1. PICK l \in Line : l = <<"}", "//">>
    BY DEF Line
  <2>2. LinesOf(e) = << <<"}", "//">> >>
    BY <1>4 DEF LinesOf
  <2> QED
    BY <1>2, <1>4, <2>1, <2>2, FormsAre, FormsAssumption
<1>5. CASE e.form \in Forms
  <2>1. e.form \in DOMAIN Written
    BY <1>5, FormsAssumption
  <2>2. IsText(Written[e.form]) /\ e.form # "open" /\ e.form # "close"
    BY <2>1, FormsAre
  <2>3. LinesOf(e) = Written[e.form]
    BY <2>2 DEF LinesOf
  <2>4. ToSet(Written[e.form]) \subseteq Line
    BY <2>1 DEF Line, FormLines
  <2>5. Written[e.form] \in Seq(Line)
    BY <2>2, <2>4, SeqMonotonic DEF IsText
  <2> QED
    BY <2>2, <2>3, <2>5 DEF IsText
<1> QED
  BY <1>1, <1>3, <1>4, <1>5

-----------------------------------------------------------------------------
(* Headers and their beginnings.                                           *)

\* What the first k sequences of f are together.
UpTo(f, k) == FlattenSeq(SubSeq(f, 1, k))

LEMMA UpToIs ==
  ASSUME NEW X, NEW f \in Seq(Seq(X))
  PROVE  /\ UpTo(f, 0) = <<>> /\ UpTo(f, Len(f)) = FlattenSeq(f)
         /\ \A k \in 0 .. Len(f) : UpTo(f, k) \in Seq(X)
         /\ \A k \in 1 .. Len(f) : UpTo(f, k) = UpTo(f, k - 1) \o f[k]
<1> PICK n \in Nat : n = Len(f)
  OBVIOUS
<1>1. UpTo(f, 0) = <<>>
  <2>1. SubSeq(f, 1, 0) = <<>> /\ <<>> \in Seq(Seq(X))
    OBVIOUS
  <2>2. FlattenSeq(SubSeq(f, 1, 0)) = <<>>
    BY <2>1, FlattenedIs, Zenon
  <2> QED
    BY <2>2 DEF UpTo
<1>2. UpTo(f, n) = FlattenSeq(f)
  <2>1. SubSeq(f, 1, n) = f
    BY SubSeqFull
  <2> QED
    BY <2>1 DEF UpTo
<1>3. ASSUME NEW k \in 0 .. n PROVE UpTo(f, k) \in Seq(X)
  <2>1. SubSeq(f, 1, k) \in Seq(Seq(X))
    OBVIOUS
  <2> QED
    BY <2>1, FlattenType DEF UpTo
<1>4. ASSUME NEW k \in 1 .. n PROVE UpTo(f, k) = UpTo(f, k - 1) \o f[k]
  <2>1. f[k] \in Seq(X) /\ SubSeq(f, 1, k - 1) \in Seq(Seq(X))
    OBVIOUS
  <2>2. SubSeq(f, 1, k) = Append(SubSeq(f, 1, k - 1), f[k])
    BY SubSeqRecursiveSecond
  <2>3. FlattenSeq(Append(SubSeq(f, 1, k - 1), f[k])) = FlattenSeq(SubSeq(f, 1, k - 1)) \o f[k]
    BY <2>1, FlattenAppend
  <2> QED
    BY <2>2, <2>3 DEF UpTo
<1> QED
  BY <1>1, <1>2, <1>3, <1>4

\* What the first k are begins what more of them are.
LEMMA UpToBegins ==
  ASSUME NEW X, NEW f \in Seq(Seq(X)), NEW k \in 0 .. Len(f)
  PROVE  Begins(FlattenSeq(f), UpTo(f, k))
<1> PICK n \in Nat : n = Len(f)
  OBVIOUS
<1> PICK m \in Nat : m = n - k
  <2>1. k \in 0 .. n
    OBVIOUS
  <2>2. n - k \in Nat
    BY <2>1
  <2> QED
    BY <2>2
<1> DEFINE S == {d \in 0 .. m : Begins(UpTo(f, k + d), UpTo(f, k))}
<1>1. 0 \in S
  <2> PICK x \in Seq(X) : x = UpTo(f, k)
    BY UpToIs
  <2>1. Begins(x, x) /\ k + 0 = k
    BY DEF Begins
  <2> QED
    BY <2>1
<1>2. ASSUME NEW d \in 1 .. m, d - 1 \in S PROVE d \in S
  <2> PICK x \in Seq(X) : x = UpTo(f, k)
    BY UpToIs
  <2> PICK u \in Seq(X) : u = UpTo(f, k + (d - 1))
    <3>1. k + (d - 1) \in 0 .. n
      OBVIOUS
    <3> QED
      BY <3>1, UpToIs
  <2> PICK v \in Seq(X) : v = f[k + d]
    OBVIOUS
  <2>1. UpTo(f, k + d) = u \o v
    <3>1. k + d \in 1 .. n /\ (k + d) - 1 = k + (d - 1)
      OBVIOUS
    <3> QED
      BY <3>1, UpToIs
  <2>2. Begins(u, x)
    BY <1>2
  <2>3. Len(u \o v) = Len(u) + Len(v) /\ \A i \in 1 .. Len(u) : (u \o v)[i] = u[i]
    BY ConcatProperties
  <2>4. Len(x) \in Nat /\ Len(u) \in Nat /\ Len(v) \in Nat
    OBVIOUS
  <2>5. Begins(u \o v, x)
    <3> PICK y : y = u \o v
      OBVIOUS
    <3>1. Len(x) <= Len(u) /\ \A i \in 1 .. Len(x) : u[i] = x[i]
      BY <2>2 DEF Begins
    <3>2. Len(y) = Len(u) + Len(v) /\ \A i \in 1 .. Len(u) : y[i] = u[i]
      BY <2>3
    <3>3. ASSUME NEW a \in Nat, NEW b \in Nat, NEW c \in Nat, a <= b
          PROVE  a <= b + c /\ 1 .. a \subseteq 1 .. b
      BY <3>3
    <3>4. Len(x) <= Len(y) /\ 1 .. Len(x) \subseteq 1 .. Len(u)
      BY <2>4, <3>1, <3>2, <3>3, Zenon
    <3>5. \A i \in 1 .. Len(x) : y[i] = x[i]
      BY <3>1, <3>2, <3>4, Zenon
    <3> QED
      BY <3>4, <3>5 DEF Begins
  <2>6. Begins(UpTo(f, k + d), UpTo(f, k))
    BY <2>1, <2>5
  <2> QED
    BY <2>6
<1> HIDE DEF S
<1>3. \A d \in 0 .. m : d \in S
  BY <1>1, <1>2, Upwards
<1>4. m \in 0 .. m /\ k + m = n
  OBVIOUS
<1>5. Begins(UpTo(f, n), UpTo(f, k))
  BY <1>3, <1>4 DEF S
<1> QED
  BY <1>5, UpToIs

\* What is left of them after k, and p of the next.
LeftOf(f, k, p) == SubSeq(FlattenSeq(f), Len(UpTo(f, k)) + p + 1, Len(FlattenSeq(f)))

\* It begins with the next.
LEMMA NextIs ==
  ASSUME NEW X, NEW f \in Seq(Seq(X)), NEW k \in 0 .. Len(f) - 1, NEW p \in 0 .. Len(f[k + 1]) - 1
  PROVE  /\ f[k + 1] \in Seq(X) /\ LeftOf(f, k, p) \in Seq(X) /\ LeftOf(f, k, p) # <<>>
         /\ FlattenSeq(f)[Len(UpTo(f, k)) + p + 1] = f[k + 1][p + 1] /\ LeftOf(f, k, p)[1] = f[k + 1][p + 1]
         /\ p = 0 => Begins(LeftOf(f, k, p), f[k + 1])
         /\ Len(UpTo(f, k + 1)) = Len(UpTo(f, k)) + Len(f[k + 1])
<1> PICK at : at = Len(UpTo(f, k)) + p + 1
  OBVIOUS
<1> PICK t : t = FlattenSeq(f)
  OBVIOUS
<1> PICK w : w = f[k + 1]
  OBVIOUS
<1> PICK u : u = UpTo(f, k)
  OBVIOUS
<1> PICK v : v = UpTo(f, k + 1)
  OBVIOUS
<1>1. k + 1 \in 1 .. Len(f) /\ k + 1 \in 0 .. Len(f) /\ k \in 0 .. Len(f) /\ (k + 1) - 1 = k
  OBVIOUS
<1>2. t \in Seq(X) /\ w \in Seq(X) /\ u \in Seq(X) /\ v \in Seq(X)
  <2>1. w \in Seq(X)
    BY <1>1
  <2> QED
    BY <1>1, <2>1, UpToIs, FlattenType
<1>3. v = u \o w
  BY <1>1, UpToIs
<1>4. Begins(t, v)
  BY <1>1, UpToBegins
<1>5. Len(v) = Len(u) + Len(w) /\ \A i \in 1 .. Len(w) : v[Len(u) + i] = w[i]
  BY <1>2, <1>3, ConcatProperties
<1>6. Len(u) \in Nat /\ Len(w) \in Nat /\ Len(t) \in Nat /\ Len(v) \in Nat /\ Len(v) <= Len(t)
  BY <1>2, <1>4 DEF Begins
<1>7. ASSUME NEW i \in 1 .. Len(w) PROVE t[Len(u) + i] = w[i]
  <2>1. ASSUME NEW a \in Nat, NEW b \in Nat, NEW j \in 1 .. b PROVE a + j \in 1 .. a + b
    BY <2>1
  <2>2. Len(u) + i \in 1 .. Len(v)
    BY <1>5, <1>6, <2>1, Zenon
  <2>3. t[Len(u) + i] = v[Len(u) + i]
    BY <1>4, <2>2 DEF Begins
  <2> QED
    BY <1>5, <2>3
<1>8. p \in Nat /\ p + 1 \in 1 .. Len(w) /\ at = Len(u) + (p + 1) /\ at \in Nat /\ at \in 1 .. Len(t)
  <2>1. p \in 0 .. Len(w) - 1
    OBVIOUS
  <2>2. p \in Nat /\ p + 1 \in 1 .. Len(w) /\ at = Len(u) + (p + 1)
    BY <1>6, <2>1
  <2> QED
    BY <1>5, <1>6, <2>2
<1>9. t[at] = w[p + 1]
  BY <1>7, <1>8
<1> PICK r : r = SubSeq(t, at, Len(t))
  OBVIOUS
<1>10. /\ r \in Seq(X) /\ Len(r) = Len(t) - at + 1
       /\ \A i \in 1 .. Len(t) - at + 1 : r[i] = t[at + i - 1]
  <2>1. at \in Int /\ Len(t) \in Int /\ at <= Len(t)
    BY <1>6, <1>8
  <2>2. \A i \in at .. Len(t) : t[i] \in X
    <3>1. \A i \in 1 .. Len(t) : t[i] \in X
      BY <1>2
    <3> QED
      BY <1>6, <1>8, <3>1
  <2>3. /\ SubSeq(t, at, Len(t)) \in Seq(X)
        /\ Len(SubSeq(t, at, Len(t))) = IF at <= Len(t) THEN Len(t) - at + 1 ELSE 0
        /\ \A i \in 1 .. Len(t) - at + 1 : SubSeq(t, at, Len(t))[i] = t[at + i - 1]
    BY <2>1, <2>2, SubSeqProperties
  <2> QED
    BY <2>1, <2>3
<1>11. r # <<>> /\ r[1] = w[p + 1]
  <2>1. ASSUME NEW a \in Nat, NEW b \in 1 .. a PROVE 1 \in 1 .. a - b + 1 /\ b + 1 - 1 = b /\ a - b + 1 # 0
    BY <2>1
  <2>2. 1 \in 1 .. Len(t) - at + 1 /\ at + 1 - 1 = at /\ Len(r) # 0
    BY <1>6, <1>8, <1>10, <2>1, Zenon
  <2>3. r[1] = t[at]
    BY <1>10, <2>2
  <2>4. r # <<>>
    BY <1>10, <2>2
  <2> QED
    BY <1>9, <2>3, <2>4
<1>12. ASSUME p = 0 PROVE Begins(r, w)
  <2>1. Len(w) <= Len(r)
    BY <1>5, <1>6, <1>8, <1>10, <1>12
  <2>2. ASSUME NEW i \in 1 .. Len(w) PROVE r[i] = w[i]
    <3>1. at + i - 1 = Len(u) + i /\ i \in 1 .. Len(t) - at + 1
      BY <1>5, <1>6, <1>8, <1>12
    <3> QED
      BY <1>7, <1>10, <3>1
  <2> QED
    BY <2>1, <2>2 DEF Begins
<1>13. LeftOf(f, k, p) = r
  BY DEF LeftOf
<1> QED
  BY <1>2, <1>5, <1>9, <1>10, <1>11, <1>12, <1>13

-----------------------------------------------------------------------------
(* The scanner is between two entries, or between two lines of an entry    *)
(* that is passed through.                                                 *)

Parts(h) == [j \in 1 .. Len(h) |-> LinesOf(h[j])]
Keeps(h) == [j \in 1 .. Len(h) |-> Promised(h[j])]
CastsOf(h) == [j \in 1 .. Len(h) |-> PromisedCasts(h[j])]

\* The names of the first k entries, and of what is found.
NamesOf(h, k) ==
  {<<FullName(h[j].stack), NameOf[h[j].form]>> :
    j \in {j \in 1 .. k : h[j].form \in Forms /\ NameOf[h[j].form] # ""}}
NamesIn(es) == {<<e.ns, e.entity.name>> : e \in ToSet(es)}

\* The first k entries are read, and p lines of the next.
ReadUpTo(k, p) ==
  /\ k \in 0 .. Len(header) /\ p \in Nat
  /\ pos = Len(UpTo(Parts(header), k)) + p + 1
  /\ p # 0 => /\ k < Len(header) /\ p < Len(LinesOf(header[k + 1]))
              /\ header[k + 1].form \in Forms /\ PassedThrough(header[k + 1].form)
  /\ decls_lines = UpTo(Keeps(header), k) \o (IF p = 0 THEN <<>> ELSE SubSeq(LinesOf(header[k + 1]), 1, p))
  /\ ns_stack = StackAt(header, k)
  /\ \E S : found \in Seq(S)
  /\ NamesIn(found) = NamesOf(header, k)
  /\ emitted = UpTo(CastsOf(header), k)

\* Whatever has been written is read in order, if its forms are understood.
GenInv ==
  /\ AuthorInv
  /\ verdict = "writing" => pos = 1 /\ ns_stack = <<>> /\ found = <<>> /\ decls_lines = <<>>
  /\ FormsUnderstood =>
       /\ verdict = "scanning" => \E k, p : ReadUpTo(k, p)
       /\ verdict = "done" => ReadUpTo(Len(header), 0)

\* The lines kept of an entry.
KeptLine == Line \cup {Promised(Entry(form, <<>>))[1] : form \in Forms}

\* What is promised of an entry depends on its form only.
LEMMA PromisedIs ==
  ASSUME NEW e \in Entries, e.form = "open" => e.stack # <<>>
  PROVE  /\ e.form \in {"open", "close"} => Promised(e) = LinesOf(e) /\ PromisedCasts(e) = <<>>
         /\ e.form \in Forms => Promised(e) = Promised(Entry(e.form, <<>>))
         /\ Promised(e) \in Seq(KeptLine)
<1>1. e.form \in Forms \cup {"open", "close"}
  BY DEF Entries
<1>2. LinesOf(e) \in Seq(KeptLine)
  <2>1. LinesOf(e) \in Seq(Line) /\ Line \subseteq KeptLine
    BY EntryLines DEF KeptLine
  <2> QED
    BY <2>1, SeqMonotonic
<1>3. CASE e.form \in {"open", "close"}
  <2>1. Promised(e) = LinesOf(e) /\ e.form \notin DOMAIN Signature
    BY <1>3 DEF Promised, Signature
  <2>2. e.form \notin Forms
    BY <1>3, FormsAre, FormsAssumption
  <2> QED
    BY <1>2, <2>1, <2>2 DEF PromisedCasts
<1>4. CASE e.form \in Forms
  <2>1. e.form \in DOMAIN Written /\ e.form # "open" /\ e.form # "close"
    BY <1>4, FormsAre, FormsAssumption
  <2>2. LinesOf(e) = Written[e.form] /\ LinesOf(Entry(e.form, <<>>)) = Written[e.form]
    BY <2>1 DEF LinesOf, Entry
  <2>3. Promised(e) = Promised(Entry(e.form, <<>>))
    BY <2>2 DEF Promised, Entry
  <2>4. Promised(e) = LinesOf(e) \/ \E x : Promised(e) = <<x>>
    <3>1. CASE e.form \in DOMAIN Signature
      <4> PICK x : x = Signature[e.form].return_type \o <<Signature[e.form].name, "(">>
                         \o Signature[e.form].params \o <<")", ";">>
        OBVIOUS
      <4> PICK form : form = e.form
        OBVIOUS
      <4>1. form \in DOMAIN Signature /\ form # "paren" /\ form \notin {"variable", "braced"}
        BY <3>1 DEF Signature
      <4>2. Promised(e) = <<x>>
        BY <4>1 DEF Promised
      <4> QED
        BY <4>2
    <3>2. CASE e.form \notin DOMAIN Signature /\ e.form = "paren"
      <4> PICK x : x = <<"extern", "A", "<", "T", "(", ")", ">", "z", ";">>
        OBVIOUS
      <4>1. Promised(e) = <<x>>
        BY <3>2 DEF Promised
      <4> QED
        BY <4>1
    <3>3. CASE e.form \notin DOMAIN Signature /\ e.form \in {"variable", "braced"}
      <4> PICK x : x = <<"extern", "T", NameOf[e.form], ";">>
        OBVIOUS
      <4>1. Promised(e) = <<x>>
        BY <3>3 DEF Promised
      <4> QED
        BY <4>1
    <3>4. CASE e.form \notin DOMAIN Signature /\ e.form \notin {"paren", "variable", "braced"}
      BY <3>4 DEF Promised
    <3> QED
      BY <3>1, <3>2, <3>3, <3>4
  <2>5. ASSUME NEW x, Promised(e) = <<x>> PROVE Promised(e) \in Seq(KeptLine)
    <3>1. x = Promised(Entry(e.form, <<>>))[1]
      BY <2>3, <2>5
    <3>2. x \in KeptLine
      BY <1>4, <3>1 DEF KeptLine
    <3> QED
      BY <2>5, <3>2
  <2> QED
    BY <1>2, <2>1, <2>3, <2>4, <2>5
<1> QED
  BY <1>1, <1>3, <1>4

\* Casts of entries.
Cast == {[ns |-> FullName(e.stack), sig |-> {Signature[e.form]}] : e \in Entries}

LEMMA CastsIs == ASSUME NEW e \in Entries PROVE PromisedCasts(e) \in Seq(Cast)
<1>1. [ns |-> FullName(e.stack), sig |-> {Signature[e.form]}] \in Cast
  BY DEF Cast
<1> PICK c \in Cast : c = [ns |-> FullName(e.stack), sig |-> {Signature[e.form]}]
  BY <1>1
<1>2. <<c>> \in Seq(Cast) /\ <<>> \in Seq(Cast)
  OBVIOUS
<1> QED
  BY <1>2 DEF PromisedCasts

\* The parts of a header.
LEMMA PartsOf ==
  ASSUME AuthorInv
  PROVE  /\ Len(header) \in Nat /\ lines = FlattenSeq(Parts(header))
         /\ Parts(header) \in Seq(Seq(Line)) /\ Len(Parts(header)) = Len(header)
         /\ Keeps(header) \in Seq(Seq(KeptLine)) /\ Len(Keeps(header)) = Len(header)
         /\ CastsOf(header) \in Seq(Seq(Cast)) /\ Len(CastsOf(header)) = Len(header)
         /\ \A k \in 1 .. Len(header) :
              /\ header[k] \in Entries /\ Follows(StackAt(header, k - 1), header[k])
              /\ header[k].form = "open" => header[k].stack # <<>>
              /\ Parts(header)[k] = LinesOf(header[k]) /\ LinesOf(header[k]) # <<>>
              /\ Keeps(header)[k] = Promised(header[k]) /\ CastsOf(header)[k] = PromisedCasts(header[k])
<1> PICK n \in Nat : n = Len(header)
  BY DEF AuthorInv
<1>1. ASSUME NEW k \in 1 .. n
      PROVE  /\ header[k] \in Entries /\ Follows(StackAt(header, k - 1), header[k])
             /\ header[k].form = "open" => header[k].stack # <<>>
  <2>1. header[k] \in Entries /\ Follows(StackAt(header, k - 1), header[k])
    BY DEF AuthorInv
  <2> QED
    BY <2>1 DEF Follows
<1>2. ASSUME NEW k \in 1 .. n
      PROVE  /\ LinesOf(header[k]) \in Seq(Line) /\ LinesOf(header[k]) # <<>>
             /\ Promised(header[k]) \in Seq(KeptLine) /\ PromisedCasts(header[k]) \in Seq(Cast)
  BY <1>1, EntryLines, PromisedIs, CastsIs
<1>3. Parts(header) \in Seq(Seq(Line)) /\ Len(Parts(header)) = n
  BY <1>2 DEF Parts
<1>4. Keeps(header) \in Seq(Seq(KeptLine)) /\ Len(Keeps(header)) = n
  BY <1>2 DEF Keeps
<1>5. CastsOf(header) \in Seq(Seq(Cast)) /\ Len(CastsOf(header)) = n
  BY <1>2 DEF CastsOf
<1>6. \A k \in 1 .. n : /\ Parts(header)[k] = LinesOf(header[k]) /\ Keeps(header)[k] = Promised(header[k])
                        /\ CastsOf(header)[k] = PromisedCasts(header[k])
  BY DEF Parts, Keeps, CastsOf
<1>7. lines = FlattenSeq(Parts(header))
  BY DEF lines, Parts
<1> QED
  BY <1>1, <1>2, <1>3, <1>4, <1>5, <1>6, <1>7

\* The lines that are left, of lines.
LEMMA NextLine ==
  ASSUME NEW f \in Seq(Seq(Line)), NEW k, NEW p, k \in 0 .. Len(f) - 1, p \in 0 .. Len(f[k + 1]) - 1
  PROVE  /\ LeftOf(f, k, p) \in Seq(Line) /\ LeftOf(f, k, p) # <<>>
         /\ FlattenSeq(f)[Len(UpTo(f, k)) + p + 1] = f[k + 1][p + 1] /\ LeftOf(f, k, p)[1] = f[k + 1][p + 1]
         /\ p = 0 => Begins(LeftOf(f, k, p), f[k + 1])
         /\ Len(UpTo(f, k + 1)) = Len(UpTo(f, k)) + Len(f[k + 1])
<1>1. LeftOf(f, k, p) \in Seq(Line) /\ LeftOf(f, k, p) # <<>>
  BY NextIs, Zenon
<1>2. FlattenSeq(f)[Len(UpTo(f, k)) + p + 1] = f[k + 1][p + 1]
  BY NextIs, Zenon
<1>3. LeftOf(f, k, p)[1] = f[k + 1][p + 1]
  BY NextIs, Zenon
<1>4. p = 0 => Begins(LeftOf(f, k, p), f[k + 1])
  BY NextIs, Zenon
<1>5. Len(UpTo(f, k + 1)) = Len(UpTo(f, k)) + Len(f[k + 1])
  BY NextIs, Zenon
<1> QED
  BY <1>1, <1>2, <1>3, <1>4, <1>5

\* Where the scanner is.
LEMMA Here ==
  ASSUME AuthorInv, NEW k, NEW p, ReadUpTo(k, p), pos <= Len(lines)
  PROVE  LET e == header[k + 1]  w == LinesOf(e) IN
         /\ k \in 0 .. Len(header) - 1 /\ p \in 0 .. Len(w) - 1 /\ e \in Entries /\ w \in Seq(Line)
         /\ Follows(StackAt(header, k), e) /\ (e.form = "open" => e.stack # <<>>)
         /\ rest \in Seq(Line) /\ rest # <<>> /\ rest[1] = w[p + 1] /\ line = w[p + 1]
         /\ p = 0 => Begins(rest, w)
         /\ Len(UpTo(Parts(header), k + 1)) = Len(UpTo(Parts(header), k)) + Len(w)
<1> PICK n \in Nat : n = Len(header)
  BY DEF AuthorInv
<1> PICK f \in Seq(Seq(Line)) : f = Parts(header)
  BY PartsOf
<1>1. Len(f) = n /\ lines = FlattenSeq(f) /\ k \in 0 .. n /\ p \in Nat /\ pos = Len(UpTo(f, k)) + p + 1
  BY PartsOf DEF ReadUpTo
<1>2. k # n
  <2> SUFFICES ASSUME k = n PROVE FALSE
    OBVIOUS
  <2>1. p = 0
    BY <1>1 DEF ReadUpTo
  <2>2. UpTo(f, k) = lines /\ UpTo(f, k) \in Seq(Line)
    BY <1>1, UpToIs
  <2>3. Len(lines) \in Nat /\ pos = Len(lines) + 1
    BY <1>1, <2>1, <2>2
  <2> QED
    BY <2>3
<1>3. k \in 0 .. n - 1 /\ k + 1 \in 1 .. n /\ (k + 1) - 1 = k
  BY <1>1, <1>2
<1> PICK e : e = header[k + 1]
  OBVIOUS
<1> PICK w : w = LinesOf(e)
  OBVIOUS
<1>4. /\ e \in Entries /\ Follows(StackAt(header, k), e) /\ (e.form = "open" => e.stack # <<>>)
      /\ f[k + 1] = w /\ w # <<>>
  BY <1>3, PartsOf
<1>5. w \in Seq(Line)
  BY <1>4, EntryLines
<1>6. p \in 0 .. Len(w) - 1
  <2>1. Len(w) \in Nat /\ Len(w) # 0
    BY <1>4, <1>5
  <2>2. p # 0 => p < Len(w)
    BY DEF ReadUpTo
  <2> QED
    BY <1>1, <2>1, <2>2
<1>7. /\ rest \in Seq(Line) /\ rest # <<>> /\ rest[1] = w[p + 1] /\ line = w[p + 1]
      /\ p = 0 => Begins(rest, w)
      /\ Len(UpTo(f, k + 1)) = Len(UpTo(f, k)) + Len(w)
  <2>1. k \in 0 .. Len(f) - 1 /\ p \in 0 .. Len(f[k + 1]) - 1
    BY <1>1, <1>3, <1>4, <1>6
  <2>2. /\ LeftOf(f, k, p) \in Seq(Line) /\ LeftOf(f, k, p) # <<>>
        /\ FlattenSeq(f)[Len(UpTo(f, k)) + p + 1] = f[k + 1][p + 1] /\ LeftOf(f, k, p)[1] = f[k + 1][p + 1]
        /\ p = 0 => Begins(LeftOf(f, k, p), f[k + 1])
        /\ Len(UpTo(f, k + 1)) = Len(UpTo(f, k)) + Len(f[k + 1])
    BY <2>1, NextLine
  <2>3. rest = LeftOf(f, k, p) /\ line = FlattenSeq(f)[Len(UpTo(f, k)) + p + 1]
    BY <1>1 DEF rest, line, LeftOf
  <2> QED
    BY <1>4, <2>2, <2>3
<1> QED
  BY <1>3, <1>4, <1>5, <1>6, <1>7

-----------------------------------------------------------------------------
(* What is found of an entry.                                              *)

EmissionsOf(es) == FlattenSeq([k \in DOMAIN es |-> Casts(es[k])])

\* One more that is found.
LEMMA OneMore ==
  ASSUME NEW S, NEW es \in Seq(S), NEW x
  PROVE  /\ \E T : Append(es, x) \in Seq(T)
         /\ NamesIn(Append(es, x)) = NamesIn(es) \cup {<<x.ns, x.entity.name>>}
         /\ EmissionsOf(Append(es, x)) = EmissionsOf(es) \o Casts(x)
<1> PICK T : T = S \cup {x}
  OBVIOUS
<1> PICK n \in Nat : n = Len(es)
  OBVIOUS
<1> PICK fs : fs = Append(es, x)
  OBVIOUS
<1>1. es \in Seq(T) /\ x \in T
  <2>1. S \subseteq T /\ x \in T
    OBVIOUS
  <2> QED
    BY <2>1, SeqMonotonic
<1>2. /\ fs \in Seq(T) /\ Len(fs) = n + 1 /\ fs[n + 1] = x
      /\ \A i \in 1 .. n : fs[i] = es[i]
  BY <1>1, AppendProperties
<1>3. DOMAIN fs = 1 .. n + 1 /\ DOMAIN es = 1 .. n
  BY <1>1, <1>2
<1>4. NamesIn(fs) = NamesIn(es) \cup {<<x.ns, x.entity.name>>}
  <2>1. ToSet(fs) = ToSet(es) \cup {x}
    <3>1. ASSUME NEW i \in 1 .. n + 1 PROVE fs[i] \in ToSet(es) \cup {x}
      <4>1. i = n + 1 \/ i \in 1 .. n
        OBVIOUS
      <4> QED
        BY <1>2, <1>3, <4>1 DEF ToSet
    <3>2. ASSUME NEW i \in 1 .. n PROVE es[i] \in ToSet(fs)
      <4>1. i \in 1 .. n + 1
        OBVIOUS
      <4> QED
        BY <1>2, <1>3, <4>1 DEF ToSet
    <3>3. x \in ToSet(fs)
      <4>1. n + 1 \in 1 .. n + 1
        OBVIOUS
      <4> QED
        BY <1>2, <1>3, <4>1 DEF ToSet
    <3> QED
      BY <1>3, <3>1, <3>2, <3>3 DEF ToSet
  <2> QED
    BY <2>1 DEF NamesIn
<1>5. EmissionsOf(fs) = EmissionsOf(es) \o Casts(x)
  <2> DEFINE C == {[ns |-> e.ns, sig |-> e.entity.sig] : e \in T}
  <2>1. ASSUME NEW e \in T PROVE Casts(e) \in Seq(C)
    <3> PICK c \in C : c = [ns |-> e.ns, sig |-> e.entity.sig]
      OBVIOUS
    <3> HIDE DEF C
    <3>1. <<c>> \in Seq(C) /\ <<>> \in Seq(C)
      OBVIOUS
    <3> QED
      BY <3>1 DEF Casts
  <2> HIDE DEF C
  <2> PICK cs : cs = [k \in 1 .. n |-> Casts(es[k])]
    OBVIOUS
  <2>2. cs \in Seq(Seq(C)) /\ Casts(x) \in Seq(C) /\ Len(cs) = n
    BY <1>1, <2>1
  <2> PICK ds : ds = [k \in 1 .. n + 1 |-> Casts(fs[k])]
    OBVIOUS
  <2>3. ds \in Seq(Seq(C)) /\ Len(ds) = n + 1
    BY <1>2, <2>1
  <2> PICK bs : bs = Append(cs, Casts(x))
    OBVIOUS
  <2>4. /\ bs \in Seq(Seq(C)) /\ Len(bs) = n + 1 /\ bs[n + 1] = Casts(x)
        /\ \A i \in 1 .. n : bs[i] = cs[i]
    BY <2>2, AppendProperties
  <2>5. \A i \in 1 .. n + 1 : ds[i] = bs[i]
    <3> SUFFICES ASSUME NEW i \in 1 .. n + 1 PROVE ds[i] = bs[i]
      OBVIOUS
    <3>1. CASE i = n + 1
      BY <1>2, <2>4, <3>1
    <3>2. CASE i \in 1 .. n
      BY <1>2, <2>4, <3>2
    <3> QED
      BY <3>1, <3>2
  <2>6. ds = bs
    BY <2>3, <2>4, <2>5, SeqEqual
  <2>7. FlattenSeq(bs) = FlattenSeq(cs) \o Casts(x)
    BY <2>2, FlattenAppend
  <2> QED
    BY <1>3, <2>6, <2>7 DEF EmissionsOf
<1> QED
  BY <1>2, <1>4, <1>5

\* What is found of the entry e, if it is read as promised.
Finds(e, es) ==
  IF e.form \in Forms /\ NameOf[e.form] # ""
  THEN \E x : /\ es = <<x>> /\ x.name = NameOf[e.form]
             /\ IF e.form \in DOMAIN Signature THEN x.list = "functions" /\ x.sig = {Signature[e.form]}
                ELSE x.list # "functions"
  ELSE es = <<>>

\* It is what the properties count of it.
LEMMA FoundNext ==
  ASSUME AuthorInv, NEW k \in 0 .. Len(header) - 1, NEW es, Finds(header[k + 1], es),
         \E S : found \in Seq(S), NamesIn(found) = NamesOf(header, k), emitted = UpTo(CastsOf(header), k),
         header[k + 1].form \in Forms => current_ns = FullName(header[k + 1].stack),
         found' = found \o [i \in DOMAIN es |-> [ns |-> current_ns, entity |-> es[i]]]
  PROVE  /\ \E S : found' \in Seq(S)
         /\ NamesIn(found') = NamesOf(header, k + 1) /\ emitted' = UpTo(CastsOf(header), k + 1)
<1> PICK e : e = header[k + 1]
  OBVIOUS
<1> PICK S : found \in Seq(S)
  OBVIOUS
<1>1. emitted = EmissionsOf(found) /\ emitted' = EmissionsOf(found')
  BY DEF emitted, EmissionsOf
<1> PICK n \in Nat : n = Len(header)
  BY PartsOf
<1>2. k + 1 \in 1 .. Len(header) /\ (k + 1) - 1 = k /\ k \in 0 .. Len(header) /\ Len(header) \in Nat
  <2>1. k \in 0 .. n - 1
    OBVIOUS
  <2> QED
    BY <2>1
<1>3. UpTo(CastsOf(header), k + 1) = UpTo(CastsOf(header), k) \o PromisedCasts(e)
  <2>1. /\ CastsOf(header) \in Seq(Seq(Cast)) /\ Len(CastsOf(header)) = Len(header)
        /\ CastsOf(header)[k + 1] = PromisedCasts(e)
    BY <1>2, PartsOf
  <2> QED
    BY <1>2, <2>1, UpToIs
<1>4. NamesOf(header, k + 1) =
        NamesOf(header, k) \cup (IF e.form \in Forms /\ NameOf[e.form] # ""
                                THEN {<<FullName(e.stack), NameOf[e.form]>>} ELSE {})
  <2>1. 1 .. k + 1 = (1 .. k) \cup {k + 1}
    BY <1>2
  <2> QED
    BY <2>1 DEF NamesOf
<1>5. CASE e.form \in Forms /\ NameOf[e.form] # ""
  <2>1. PICK y : /\ es = <<y>> /\ y.name = NameOf[e.form]
                 /\ IF e.form \in DOMAIN Signature THEN y.list = "functions" /\ y.sig = {Signature[e.form]}
                    ELSE y.list # "functions"
    BY <1>5 DEF Finds
  <2> PICK x : x = [ns |-> FullName(e.stack), entity |-> y]
    OBVIOUS
  <2>2. [i \in DOMAIN es |-> [ns |-> current_ns, entity |-> es[i]]] = <<x>>
    <3> PICK c : c = current_ns
      OBVIOUS
    <3>1. c = FullName(e.stack) /\ x = [ns |-> c, entity |-> y]
      BY <1>5
    <3>2. [i \in DOMAIN <<y>> |-> [ns |-> c, entity |-> <<y>>[i]]] = <<[ns |-> c, entity |-> y]>>
      OBVIOUS
    <3> QED
      BY <2>1, <3>1, <3>2
  <2>3. found' = Append(found, x)
    BY <2>2, AppendIsConcat
  <2>4. /\ \E T : found' \in Seq(T)
        /\ NamesIn(found') = NamesIn(found) \cup {<<x.ns, x.entity.name>>}
        /\ EmissionsOf(found') = EmissionsOf(found) \o Casts(x)
    <3>1. \E R : Append(found, x) \in Seq(R)
      BY OneMore, Zenon
    <3>2. NamesIn(Append(found, x)) = NamesIn(found) \cup {<<x.ns, x.entity.name>>}
      BY OneMore, Zenon
    <3>3. EmissionsOf(Append(found, x)) = EmissionsOf(found) \o Casts(x)
      BY OneMore, Zenon
    <3> QED
      BY <2>3, <3>1, <3>2, <3>3, Zenon
  <2>5. x.ns = FullName(e.stack) /\ x.entity = y
    OBVIOUS
  <2>6. Casts(x) = PromisedCasts(e)
    BY <2>1, <2>5 DEF Casts, PromisedCasts
  <2> QED
    BY <1>1, <1>3, <1>4, <1>5, <2>1, <2>4, <2>5, <2>6
<1>6. CASE ~ (e.form \in Forms /\ NameOf[e.form] # "")
  <2>1. es = <<>>
    BY <1>6 DEF Finds
  <2>2. found' = found
    <3>1. [i \in DOMAIN es |-> [ns |-> current_ns, entity |-> es[i]]] = <<>>
      BY <2>1
    <3> QED
      BY <3>1, ConcatEmptySeq
  <2>3. e.form \notin DOMAIN Signature
    <3>1. \A form \in DOMAIN Signature : NameOf[form] # ""
      <4>1. DOMAIN Signature = {"short", "long", "nothing", "attribute", "brace"}
        BY DEF Signature
      <4>2. /\ NameOf["short"] # "" /\ NameOf["long"] # "" /\ NameOf["brace"] # ""
            /\ NameOf["nothing"] # "" /\ NameOf["attribute"] # ""
        BY DEF NameOf
      <4> QED
        BY <4>1, <4>2
    <3>2. e.form \notin Forms => e.form \in {"open", "close"}
      BY <1>2, PartsOf DEF Entries
    <3>3. "open" \notin DOMAIN Signature /\ "close" \notin DOMAIN Signature
      BY DEF Signature
    <3> QED
      BY <1>6, <3>1, <3>2, <3>3
  <2>4. PromisedCasts(e) = <<>> /\ UpTo(CastsOf(header), k) \in Seq(Cast)
    <3>1. /\ CastsOf(header) \in Seq(Seq(Cast)) /\ Len(CastsOf(header)) = Len(header)
      BY PartsOf
    <3> QED
      BY <1>2, <2>3, <3>1, UpToIs DEF PromisedCasts
  <2>5. UpTo(CastsOf(header), k + 1) = UpTo(CastsOf(header), k)
    BY <1>3, <2>4, ConcatEmptySeq
  <2> QED
    BY <1>1, <1>4, <1>6, <2>2, <2>5
<1> QED
  BY <1>5, <1>6

-----------------------------------------------------------------------------
(* One entry read.                                                         *)

\* What a reading finds is one entity, or none.
FindsOne(reading) == reading.entities = <<>> \/ \E x : reading.entities = <<x>>

LEMMA EveryReading ==
  ASSUME NEW ls
  PROVE  /\ FindsOne(TemplateReading(ls)) /\ FindsOne(TypeReading(ls)) /\ FindsOne(ConstantReading(ls))
         /\ FindsOne(FunctionReading(ls)) /\ FindsOne(VariableReading(ls))
         /\ FindsOne(AliasReading(ls)) /\ FindsOne(FreeReading(ls))
<1>1. ASSUME NEW last, NEW kept, NEW es, es = <<>> \/ \E x : es = <<x>>
      PROVE  FindsOne(Reading(ls, last, kept, es)) /\ FindsOne(Verbatim(ls, last, es))
  BY <1>1 DEF FindsOne, Reading, Verbatim
<1>2. ASSUME NEW list, NEW name, NEW sig
      PROVE  Entity(list, name, sig) = <<>> \/ \E x : Entity(list, name, sig) = <<x>>
  BY DEF Entity
<1>3. ASSUME NEW last, NEW kept, NEW list, NEW name, NEW sig
      PROVE  /\ FindsOne(Reading(ls, last, kept, Entity(list, name, sig)))
             /\ FindsOne(Verbatim(ls, last, Entity(list, name, sig)))
  BY <1>1, <1>2
<1>4. FindsOne(TemplateReading(ls))
  BY <1>3 DEF TemplateReading
<1>5. FindsOne(TypeReading(ls))
  BY <1>3 DEF TypeReading
<1>6. FindsOne(ConstantReading(ls))
  BY <1>3 DEF ConstantReading
<1>7. FindsOne(FunctionReading(ls))
  <2> PICK b : b = LastLine(ls)
    OBVIOUS
  <2> PICK fns : fns = InlineFunctions(Joined(ls, b))
    OBVIOUS
  <2>1. CASE fns = {}
    <3>1. FunctionReading(ls) = Reading(ls, b, <<>>, <<>>)
      BY <2>1 DEF FunctionReading
    <3> QED
      BY <1>1, <3>1
  <2>2. CASE fns # {}
    <3> PICK fn : fn = CHOOSE g \in fns : TRUE
      OBVIOUS
    <3>1. FunctionReading(ls) =
            Reading(ls, b, << fn.return_type \o <<fn.name, "(">> \o fn.params \o <<")", ";">> >>,
                    Entity("functions", fn.name, fns))
      BY <2>2 DEF FunctionReading
    <3> QED
      BY <1>3, <3>1
  <2> QED
    BY <2>1, <2>2
<1>8. FindsOne(VariableReading(ls))
  BY <1>1, <1>3 DEF VariableReading
<1>9. FindsOne(AliasReading(ls))
  BY <1>3 DEF AliasReading
<1>10. FindsOne(FreeReading(ls))
  BY <1>3 DEF FreeReading
<1> QED
  BY <1>4, <1>5, <1>6, <1>7, <1>8, <1>9, <1>10

LEMMA Ahead ==
  \A a, b \in Nat : (a + 0 + 1) + b = (a + b) + 0 + 1
OBVIOUS

\* An entry is read to its end, and as promised.
LEMMA EntryRead ==
  ASSUME AuthorInv, NEW k \in 0 .. Len(header) - 1, ReadUpTo(k, 0), NEW reading, Take(reading),
         reading.size = Len(LinesOf(header[k + 1])), reading.kept = Promised(header[k + 1]),
         Finds(header[k + 1], reading.entities), ns_stack' = header[k + 1].stack
  PROVE  ReadUpTo(k + 1, 0)'
<1> PICK n \in Nat : n = Len(header)
  BY PartsOf
<1>1. k + 1 \in 1 .. n /\ (k + 1) - 1 = k /\ k \in 0 .. n /\ k + 1 \in 0 .. n /\ k + 1 # 0
  <2>1. k \in 0 .. n - 1
    OBVIOUS
  <2> QED
    BY <2>1
<1> PICK e : e = header[k + 1]
  OBVIOUS
<1> PICK f \in Seq(Seq(Line)) : f = Parts(header)
  BY PartsOf
<1> PICK g \in Seq(Seq(KeptLine)) : g = Keeps(header)
  BY PartsOf
<1>2. /\ Len(f) = n /\ f[k + 1] = LinesOf(e) /\ Len(g) = n /\ g[k + 1] = Promised(e)
      /\ e \in Entries /\ Follows(StackAt(header, k), e)
  BY <1>1, PartsOf
<1>3. header' = header /\ pos' = pos + Len(LinesOf(e)) /\ decls_lines' = decls_lines \o Promised(e)
  BY DEF Take
<1>4. UpTo(f, k + 1) = UpTo(f, k) \o f[k + 1] /\ UpTo(f, k) \in Seq(Line) /\ f[k + 1] \in Seq(Line)
  <2>1. f[k + 1] \in Seq(Line)
    BY <1>1, <1>2
  <2>2. UpTo(f, k) \in Seq(Line)
    BY <1>1, <1>2, UpToIs
  <2>3. UpTo(f, k + 1) = UpTo(f, k) \o f[k + 1]
    BY <1>1, <1>2, UpToIs
  <2> QED
    BY <2>1, <2>2, <2>3
<1>5. pos' = Len(UpTo(f, k + 1)) + 0 + 1
  <2> PICK u \in Seq(Line) : u = UpTo(f, k)
    BY <1>4
  <2> PICK w \in Seq(Line) : w = f[k + 1]
    BY <1>4
  <2>1. Len(u \o w) = Len(u) + Len(w) /\ Len(u) \in Nat /\ Len(w) \in Nat
    BY ConcatProperties
  <2>2. pos = Len(u) + 0 + 1
    BY DEF ReadUpTo
  <2>3. pos' = pos + Len(w) /\ Len(UpTo(f, k + 1)) = Len(u \o w)
    BY <1>2, <1>3, <1>4
  <2> PICK a \in Nat : a = Len(u)
    BY <2>1
  <2> PICK b \in Nat : b = Len(w)
    BY <2>1
  <2> PICK c : c = Len(UpTo(f, k + 1))
    OBVIOUS
  <2>4. c = a + b /\ pos' = (a + 0 + 1) + b
    BY <2>1, <2>2, <2>3
  <2>5. (a + 0 + 1) + b = (a + b) + 0 + 1
    BY Ahead
  <2>6. pos' = (a + b) + 0 + 1
    BY <2>4, <2>5, Zenon
  <2> QED
    BY <2>4, <2>6
<1>6. decls_lines' = UpTo(g, k + 1) \o <<>>
  <2>1. UpTo(g, k + 1) = UpTo(g, k) \o g[k + 1] /\ UpTo(g, k) \in Seq(KeptLine) /\ UpTo(g, k + 1) \in Seq(KeptLine)
    BY <1>1, <1>2, UpToIs
  <2>2. decls_lines = UpTo(g, k) \o <<>>
    BY DEF ReadUpTo
  <2>3. decls_lines = UpTo(g, k)
    BY <2>1, <2>2, ConcatEmptySeq
  <2> QED
    BY <1>2, <1>3, <2>1, <2>3, ConcatEmptySeq
<1>7. e.form \in Forms => current_ns = FullName(e.stack)
  <2>1. ns_stack = StackAt(header, k)
    BY DEF ReadUpTo
  <2>2. e.form \in Forms => e.stack = StackAt(header, k)
    BY <1>2 DEF Follows
  <2> QED
    BY <2>1, <2>2 DEF current_ns
<1>8. /\ \E S : found' \in Seq(S)
      /\ NamesIn(found') = NamesOf(header, k + 1) /\ emitted' = UpTo(CastsOf(header), k + 1)
  <2> PICK es : es = reading.entities
    OBVIOUS
  <2>1. found' = found \o [i \in DOMAIN es |-> [ns |-> current_ns, entity |-> es[i]]]
    BY DEF Take
  <2>2. \E S : found \in Seq(S)
    BY DEF ReadUpTo
  <2>3. NamesIn(found) = NamesOf(header, k) /\ emitted = UpTo(CastsOf(header), k)
    BY DEF ReadUpTo
  <2>4. Finds(header[k + 1], es)
    OBVIOUS
  <2>5. /\ \E S : found' \in Seq(S)
        /\ NamesIn(found') = NamesOf(header, k + 1) /\ emitted' = UpTo(CastsOf(header), k + 1)
    BY <1>7, <2>1, <2>2, <2>3, <2>4, FoundNext, Zenon
  <2> QED
    BY <2>5
<1>9. ns_stack' = StackAt(header, k + 1)
  BY <1>1 DEF StackAt
<1> QED
  BY <1>1, <1>3, <1>5, <1>6, <1>8, <1>9 DEF ReadUpTo

\* So is a declaration, by a reading of it that is as promised.
LEMMA FormRead ==
  ASSUME AuthorInv, NEW k \in 0 .. Len(header) - 1, ReadUpTo(k, 0), NEW reading, Take(reading),
         UNCHANGED ns_stack, header[k + 1].form \in Forms, AsPromised(header[k + 1].form, reading),
         FindsOne(reading)
  PROVE  ReadUpTo(k + 1, 0)'
<1> PICK n \in Nat : n = Len(header)
  BY PartsOf
<1>1. k + 1 \in 1 .. n /\ (k + 1) - 1 = k
  <2>1. k \in 0 .. n - 1
    OBVIOUS
  <2> QED
    BY <2>1
<1> PICK e : e = header[k + 1]
  OBVIOUS
<1>2. e \in Entries /\ Follows(StackAt(header, k), e) /\ (e.form = "open" => e.stack # <<>>)
  BY <1>1, PartsOf
<1>3. LinesOf(e) = Written[e.form] /\ Promised(e) = Promised(Entry(e.form, <<>>))
  BY <1>2, EntryLines, PromisedIs
<1>4. reading.size = Len(LinesOf(e)) /\ reading.kept = Promised(e)
  BY <1>3 DEF AsPromised
<1>5. Finds(e, reading.entities)
  <2>1. CASE NameOf[e.form] = ""
    BY <2>1 DEF AsPromised, Finds
  <2>2. CASE NameOf[e.form] # ""
    <3>1. Len(reading.entities) = 1
      BY <2>2 DEF AsPromised
    <3>2. PICK x : reading.entities = <<x>>
      <4>1. Len(<<>>) # 1
        OBVIOUS
      <4> QED
        BY <3>1, <4>1 DEF FindsOne
    <3>3. reading.entities[1] = x
      BY <3>2
    <3>4. /\ x.name = NameOf[e.form]
          /\ IF e.form \in DOMAIN Signature THEN x.list = "functions" /\ x.sig = {Signature[e.form]}
             ELSE x.list # "functions"
      BY <2>2, <3>3 DEF AsPromised
    <3> QED
      BY <2>2, <3>2, <3>4 DEF Finds
  <2> QED
    BY <2>1, <2>2
<1>6. ns_stack' = e.stack
  BY <1>2 DEF Follows, ReadUpTo
<1> QED
  BY <1>4, <1>5, <1>6, EntryRead

-----------------------------------------------------------------------------
(* One line read.                                                          *)

LEMMA OneLine ==
  ASSUME NEW L, NEW ls \in Seq(L), ls # <<>>
  PROVE  LET r == Verbatim(ls, 1, <<>>) IN r.size = 1 /\ r.kept = <<ls[1]>> /\ r.entities = <<>>
<1>1. Len(ls) \in Nat /\ 1 <= Len(ls)
  OBVIOUS
<1>2. Min({1, Len(ls)}) = 1
  BY <1>1, MinPair
<1> PICK x \in L : x = ls[1]
  BY <1>1
<1>3. SubSeq(ls, 1, 1) \in Seq(L) /\ Len(SubSeq(ls, 1, 1)) = 1 /\ SubSeq(ls, 1, 1)[1] = x
  <2>1. 1 \in Int /\ Len(ls) \in Int /\ \A i \in 1 .. 1 : ls[i] \in L
    BY <1>1
  <2>2. 1 <= 1 /\ 1 - 1 + 1 = 1 /\ 1 + 1 - 1 = 1 /\ 1 \in 1 .. 1 - 1 + 1
    OBVIOUS
  <2> QED
    BY <2>1, <2>2, SubSeqProperties
<1>4. SubSeq(ls, 1, 1) = <<ls[1]>>
  <2> PICK s \in Seq(L) : s = SubSeq(ls, 1, 1)
    BY <1>3
  <2>1. <<x>> \in Seq(L) /\ Len(<<x>>) = 1 /\ <<x>>[1] = x
    OBVIOUS
  <2> PICK t \in Seq(L) : t = <<x>>
    BY <2>1
  <2>2. \A i \in 1 .. 1 : s[i] = t[i]
    BY <1>3, <2>1
  <2>3. s = t
    BY <1>3, <2>1, <2>2, SeqEqual
  <2> QED
    BY <2>3
<1> QED
  BY <1>2, <1>4 DEF Verbatim, Reading

LEMMA Tokens ==
  /\ \A l, a : l = <<a>> => Len(l) = 1 /\ l[1] = a
  /\ \A l, a, b : l = <<a, b>> => Len(l) = 2 /\ DOMAIN l = 1 .. 2 /\ l[1] = a /\ l[2] = b
  /\ \A l, a, b, c : l = <<a, b, c>> => Len(l) = 3 /\ DOMAIN l = 1 .. 3 /\ l[1] = a /\ l[2] = b /\ l[3] = c
<1>1. \A l, a : l = <<a>> => Len(l) = 1 /\ l[1] = a
  OBVIOUS
<1>2. \A l, a, b : l = <<a, b>> => Len(l) = 2 /\ DOMAIN l = 1 .. 2 /\ l[1] = a /\ l[2] = b
  OBVIOUS
<1>3. \A l, a, b, c : l = <<a, b, c>> => Len(l) = 3 /\ DOMAIN l = 1 .. 3 /\ l[1] = a /\ l[2] = b /\ l[3] = c
  OBVIOUS
<1> QED
  BY <1>1, <1>2, <1>3

\* The lines of namespaces are nothing else.
LEMMA NamespaceLines ==
  /\ \A ns : LET l == <<"namespace", ns, "{">> IN IsOpening(l) /\ l[2] = ns /\ ~ IsClosing(l) /\ IsOther(l)
  /\ LET l == <<"}", "//">> IN IsClosing(l) /\ ~ IsOpening(l) /\ IsOther(l)
<1>1. ASSUME NEW ns, NEW l, l = <<"namespace", ns, "{">>
      PROVE  IsOpening(l) /\ l[2] = ns /\ ~ IsClosing(l) /\ IsOther(l)
  <2>1. Len(l) = 3 /\ DOMAIN l = 1 .. 3 /\ l[1] = "namespace" /\ l[2] = ns /\ l[3] = "{"
    BY <1>1, Tokens, Zenon
  <2>2. At(l, 1) = "namespace"
    <3>1. 1 \in 1 .. 3 /\ 1 \in 1 .. 2
      OBVIOUS
    <3>2. 1 \in DOMAIN l
      BY <2>1, <3>1, Zenon
    <3> QED
      BY <2>1, <3>2 DEF At
  <2>3. l # <<"}">> /\ l # <<"}", "//">>
    <3>1. 3 # 1 /\ 3 # 2
      OBVIOUS
    <3>2. ASSUME l = <<"}">> PROVE Len(l) = 1
      BY <3>2, Tokens, Zenon
    <3>3. ASSUME l = <<"}", "//">> PROVE Len(l) = 2
      BY <3>3, Tokens, Zenon
    <3> QED
      BY <2>1, <3>1, <3>2, <3>3
  <2> QED
    BY <2>1, <2>2, <2>3 DEF IsOpening, IsClosing, IsOther, IsTemplate, IsType, IsInline, IsAlias
<1>2. ASSUME NEW l, l = <<"}", "//">> PROVE IsClosing(l) /\ ~ IsOpening(l) /\ IsOther(l)
  <2>1. Len(l) = 2 /\ DOMAIN l = 1 .. 2 /\ l[1] = "}"
    BY <1>2, Tokens, Zenon
  <2>2. At(l, 1) = "}"
    <3>1. 1 \in 1 .. 3 /\ 1 \in 1 .. 2
      OBVIOUS
    <3>2. 1 \in DOMAIN l
      BY <2>1, <3>1, Zenon
    <3> QED
      BY <2>1, <3>2 DEF At
  <2> QED
    BY <1>2, <2>1, <2>2 DEF IsOpening, IsClosing, IsOther, IsTemplate, IsType, IsInline, IsAlias
<1> QED
  BY <1>1, <1>2

LEMMA Grouped ==
  ASSUME NEW S, NEW s \in Seq(S), NEW t \in Seq(S), NEW u \in Seq(S)
  PROVE  (s \o t) \o u = s \o (t \o u)
OBVIOUS

\* One more line kept of w.
LEMMA OneMoreLine ==
  ASSUME NEW X, NEW u \in Seq(X), NEW w \in Seq(X), NEW p \in 0 .. Len(w) - 1
  PROVE  (u \o SubSeq(w, 1, p)) \o <<w[p + 1]>> = u \o SubSeq(w, 1, p + 1)
<1>0. \A s, t \in Seq(X) : (u \o s) \o t = u \o (s \o t)
  BY Grouped
<1> PICK n \in Nat : n = Len(w)
  OBVIOUS
<1>1. p \in 0 .. n - 1 /\ p \in Nat /\ p + 1 \in 1 .. n /\ (p + 1) - 1 = p
  <2>1. p \in 0 .. n - 1
    OBVIOUS
  <2> QED
    BY <2>1
<1> PICK x \in X : x = w[p + 1]
  BY <1>1
<1>2. SubSeq(w, 1, p + 1) = Append(SubSeq(w, 1, p), x)
  BY <1>1, SubSeqRecursiveSecond
<1>5. SubSeq(w, 1, p) \in Seq(X)
  BY <1>1
<1> PICK s \in Seq(X) : s = SubSeq(w, 1, p)
  BY <1>5
<1>3. Append(s, x) = s \o <<x>> /\ <<x>> \in Seq(X)
  BY AppendIsConcat
<1>4. (u \o s) \o <<x>> = u \o (s \o <<x>>)
  <2> PICK t \in Seq(X) : t = <<x>>
    BY <1>3
  <2>1. (u \o s) \o t = u \o (s \o t)
    BY <1>0, Zenon
  <2> QED
    BY <2>1
<1> QED
  BY <1>2, <1>3, <1>4

\* A line that is passed through is one more of its declaration, or the last.
LEMMA LinePassed ==
  ASSUME AuthorInv, NEW k, NEW p, ReadUpTo(k, p), pos <= Len(lines),
         header[k + 1].form \in Forms, PassedThrough(header[k + 1].form),
         Take(Verbatim(rest, 1, <<>>)), UNCHANGED ns_stack
  PROVE  \E j, q : ReadUpTo(j, q)'
<1> PICK n \in Nat : n = Len(header)
  BY PartsOf
<1> PICK e : e = header[k + 1]
  OBVIOUS
<1> PICK w : w = LinesOf(e)
  OBVIOUS
<1>1. /\ k \in 0 .. n - 1 /\ p \in 0 .. Len(w) - 1 /\ e \in Entries /\ w \in Seq(Line)
      /\ Follows(StackAt(header, k), e) /\ (e.form = "open" => e.stack # <<>>)
      /\ rest \in Seq(Line) /\ rest # <<>> /\ rest[1] = w[p + 1]
      /\ Len(UpTo(Parts(header), k + 1)) = Len(UpTo(Parts(header), k)) + Len(w)
  BY Here
<1>2. k + 1 \in 1 .. n /\ (k + 1) - 1 = k /\ k \in 0 .. n /\ k + 1 \in 0 .. n /\ k + 1 # 0 /\ k < n
  BY <1>1
<1>3. p \in Nat /\ Len(w) \in Nat /\ p + 1 \in Nat /\ p + 1 # 0 /\ p < Len(w)
  BY <1>1
<1>4. w = Written[e.form] /\ Promised(e) = w
  BY <1>1, EntryLines, PromisedIs DEF PassedThrough
<1> PICK f \in Seq(Seq(Line)) : f = Parts(header)
  BY PartsOf
<1> PICK g \in Seq(Seq(KeptLine)) : g = Keeps(header)
  BY PartsOf
<1>5. Len(g) = n /\ g[k + 1] = w
  BY <1>2, <1>4, PartsOf
<1>6. UpTo(g, k) \in Seq(KeptLine)
  BY <1>2, <1>5, UpToIs
<1>7. w \in Seq(KeptLine)
  BY <1>2, <1>5
<1>8. UpTo(g, k + 1) = UpTo(g, k) \o w
  BY <1>2, <1>5, UpToIs
<1>9. header' = header /\ pos' = pos + 1 /\ decls_lines' = decls_lines \o <<w[p + 1]>> /\ found' = found
  <2> PICK r : r = Verbatim(rest, 1, <<>>)
    OBVIOUS
  <2>1. r.size = 1 /\ r.kept = <<w[p + 1]>> /\ r.entities = <<>>
    BY <1>1, OneLine
  <2> PICK es : es = r.entities
    OBVIOUS
  <2>2. [i \in DOMAIN es |-> [ns |-> current_ns, entity |-> es[i]]] = <<>>
    BY <2>1
  <2>3. \E S : found \in Seq(S)
    BY DEF ReadUpTo
  <2>4. found \o <<>> = found
    BY <2>3, ConcatEmptySeq
  <2>5. found' = found \o [i \in DOMAIN es |-> [ns |-> current_ns, entity |-> es[i]]]
    BY DEF Take
  <2>6. header' = header /\ pos' = pos + r.size /\ decls_lines' = decls_lines \o r.kept
    BY DEF Take
  <2> QED
    BY <2>1, <2>2, <2>4, <2>5, <2>6
<1>10. decls_lines = UpTo(g, k) \o SubSeq(w, 1, p)
  <2>1. SubSeq(w, 1, 0) = <<>>
    BY <1>7
  <2>2. decls_lines = UpTo(g, k) \o (IF p = 0 THEN <<>> ELSE SubSeq(w, 1, p))
    BY DEF ReadUpTo
  <2> QED
    BY <2>1, <2>2
<1>11. decls_lines' = UpTo(g, k) \o SubSeq(w, 1, p + 1)
  <2> PICK u \in Seq(KeptLine) : u = UpTo(g, k)
    BY <1>6
  <2>1. p \in 0 .. Len(w) - 1 /\ w \in Seq(KeptLine)
    BY <1>1, <1>7
  <2>2. (u \o SubSeq(w, 1, p)) \o <<w[p + 1]>> = u \o SubSeq(w, 1, p + 1)
    BY <2>1, OneMoreLine
  <2> QED
    BY <1>9, <1>10, <2>2
<1>12. (\E S : found' \in Seq(S)) /\ NamesIn(found') = NamesOf(header, k) /\ emitted' = UpTo(CastsOf(header), k)
  <2>1. (\E S : found \in Seq(S)) /\ NamesIn(found) = NamesOf(header, k) /\ emitted = UpTo(CastsOf(header), k)
    BY DEF ReadUpTo
  <2>2. emitted' = emitted
    BY <1>9 DEF emitted
  <2> QED
    BY <1>9, <2>1, <2>2
<1>13. pos = Len(UpTo(f, k)) + p + 1 /\ Len(UpTo(f, k)) \in Nat /\ ns_stack' = StackAt(header, k)
  <2>1. UpTo(f, k) \in Seq(Line)
    BY <1>2, PartsOf, UpToIs
  <2> QED
    BY <2>1 DEF ReadUpTo
<1>14. CASE p + 1 < Len(w)
  <2>1. pos' = Len(UpTo(f, k)) + (p + 1) + 1
    BY <1>3, <1>9, <1>13
  <2>2. ReadUpTo(k, p + 1)'
    BY <1>2, <1>3, <1>9, <1>11, <1>12, <1>13, <1>14, <2>1 DEF ReadUpTo
  <2> QED
    BY <2>2
<1>15. CASE p + 1 = Len(w)
  <2>1. pos' = Len(UpTo(f, k + 1)) + 0 + 1
    <3> PICK a \in Nat : a = Len(UpTo(f, k))
      BY <1>13
    <3>1. pos' = a + p + 1 + 1
      BY <1>9, <1>13
    <3>2. Len(UpTo(f, k + 1)) = a + (p + 1)
      BY <1>1, <1>15
    <3>3. a + p + 1 + 1 = (a + (p + 1)) + 0 + 1
      BY <1>3
    <3> QED
      BY <3>1, <3>2, <3>3, Zenon
  <2>2. decls_lines' = UpTo(g, k + 1) \o <<>>
    <3>1. SubSeq(w, 1, p + 1) = w
      BY <1>7, <1>15, SubSeqFull
    <3>2. UpTo(g, k + 1) \in Seq(KeptLine)
      BY <1>2, <1>5, UpToIs
    <3> QED
      BY <1>8, <1>11, <3>1, <3>2, ConcatEmptySeq
  <2>3. /\ \E S : found' \in Seq(S)
        /\ NamesIn(found') = NamesOf(header, k + 1) /\ emitted' = UpTo(CastsOf(header), k + 1)
    <3>1. k \in 0 .. Len(header) - 1 /\ Finds(header[k + 1], <<>>)
      BY <1>1 DEF Finds, PassedThrough
    <3>2. (\E S : found \in Seq(S)) /\ NamesIn(found) = NamesOf(header, k) /\ emitted = UpTo(CastsOf(header), k)
      BY DEF ReadUpTo
    <3>3. header[k + 1].form \in Forms => current_ns = FullName(header[k + 1].stack)
      BY <1>1 DEF ReadUpTo, Follows, current_ns
    <3> PICK es : es = <<>>
      OBVIOUS
    <3>4. found' = found \o [i \in DOMAIN es |-> [ns |-> current_ns, entity |-> es[i]]]
      <4>1. [i \in DOMAIN es |-> [ns |-> current_ns, entity |-> es[i]]] = <<>>
        OBVIOUS
      <4> QED
        BY <1>9, <3>2, <4>1, ConcatEmptySeq
    <3>5. Finds(header[k + 1], es)
      BY <3>1
    <3>6. k \in 0 .. Len(header) - 1
      BY <3>1
    <3> QED
      BY <3>2, <3>3, <3>4, <3>5, <3>6, FoundNext, Zenon
  <2>4. ns_stack' = StackAt(header, k + 1)
    BY <1>1, <1>2, <1>13 DEF StackAt, Follows
  <2>5. ReadUpTo(k + 1, 0)'
    BY <1>2, <1>9, <2>1, <2>2, <2>3, <2>4 DEF ReadUpTo
  <2> QED
    BY <2>5
<1> QED
  BY <1>3, <1>14, <1>15

-----------------------------------------------------------------------------
(* One iteration of parse().                                               *)

\* What the scanner has before it.
OpeningNext(e, p) ==
  e.form = "open" /\ e.form \notin Forms /\ p = 0 /\ line = <<"namespace", Last(e.stack), "{">>
ClosingNext(e, p) == e.form = "close" /\ e.form \notin Forms /\ p = 0 /\ line = <<"}", "//">>
FormNext(e, p) == e.form \in Forms /\ Understood(e.form) /\ p = 0 /\ line = Written[e.form][1]
RestNext(e, p) ==
  /\ e.form \in Forms /\ PassedThrough(e.form) /\ p # 0
  /\ IsOther(line) /\ ~ IsOpening(line) /\ ~ IsClosing(line) /\ ~ IsFree(line)

LEMMA FormsHere ==
  ASSUME AuthorInv, FormsUnderstood, NEW k, NEW p, ReadUpTo(k, p), Scanning
  PROVE  LET e == header[k + 1] IN
         OpeningNext(e, p) \/ ClosingNext(e, p) \/ FormNext(e, p) \/ RestNext(e, p)
<1> PICK n \in Nat : n = Len(header)
  BY PartsOf
<1> PICK e : e = header[k + 1]
  OBVIOUS
<1> PICK w : w = LinesOf(e)
  OBVIOUS
<1>1. /\ k \in 0 .. n - 1 /\ p \in 0 .. Len(w) - 1 /\ e \in Entries /\ w \in Seq(Line)
      /\ Follows(StackAt(header, k), e) /\ (e.form = "open" => e.stack # <<>>) /\ line = w[p + 1]
  BY Here DEF Scanning
<1>2. k + 1 \in 1 .. n
  BY <1>1
<1>3. p # 0 => e.form \in Forms /\ PassedThrough(e.form)
  BY DEF ReadUpTo
<1>4. e.form \in Forms => e.form # "open" /\ e.form # "close" /\ e.form \in DOMAIN Written
  BY FormsAre, FormsAssumption
<1>5. CASE e.form = "open"
  <2>1. PICK x : x = <<"namespace", Last(e.stack), "{">>
    OBVIOUS
  <2>2. w = <<x>>
    <3>1. LinesOf(e) = << <<"namespace", Last(e.stack), "{">> >>
      BY <1>1, <1>5, EntryLines
    <3> QED
      BY <2>1, <3>1
  <2>3. p = 0 /\ e.form \notin Forms
    BY <1>3, <1>4, <1>5
  <2>4. line = x
    <3>1. w[1] = x
      BY <2>2, Tokens, Zenon
    <3>2. line = w[1]
      <4>1. 0 + 1 = 1
        OBVIOUS
      <4> QED
        BY <1>1, <2>3, <4>1
    <3> QED
      BY <2>2, <3>1, <3>2, Zenon
  <2> QED
    BY <1>5, <2>1, <2>3, <2>4 DEF OpeningNext
<1>6. CASE e.form = "close"
  <2>1. PICK x : x = <<"}", "//">>
    OBVIOUS
  <2>2. w = <<x>>
    <3>1. LinesOf(e) = << <<"}", "//">> >>
      BY <1>1, <1>6, EntryLines
    <3> QED
      BY <2>1, <3>1
  <2>3. p = 0 /\ e.form \notin Forms
    BY <1>3, <1>4, <1>6
  <2>4. line = x
    <3>1. w[1] = x
      BY <2>2, Tokens, Zenon
    <3>2. line = w[1]
      <4>1. 0 + 1 = 1
        OBVIOUS
      <4> QED
        BY <1>1, <2>3, <4>1
    <3> QED
      BY <2>2, <3>1, <3>2, Zenon
  <2> QED
    BY <1>6, <2>1, <2>3, <2>4 DEF ClosingNext
<1>7. CASE e.form \in Forms
  <2>1. w = Written[e.form]
    BY <1>1, <1>7, EntryLines
  <2>2. CASE p = 0
    <3>1. k + 1 \in Declared
      <4>1. DOMAIN header = 1 .. n
        BY DEF AuthorInv
      <4> QED
        BY <1>2, <1>4, <1>7, <4>1 DEF Declared
    <3>2. Understood(e.form)
      BY <3>1 DEF FormsUnderstood
    <3>3. line = w[1]
      BY <1>1, <2>2
    <3> QED
      BY <1>7, <2>1, <2>2, <3>2, <3>3 DEF FormNext
  <2>3. CASE p # 0
    <3>1. p + 1 \in DOMAIN w
      BY <1>1
    <3>2. IsOther(line) /\ ~ IsOpening(line) /\ ~ IsClosing(line) /\ ~ IsFree(line)
      BY <1>1, <1>3, <2>1, <2>3, <3>1 DEF PassedThrough
    <3> QED
      BY <1>3, <2>3, <3>2 DEF RestNext
  <2> QED
    BY <2>2, <2>3
<1>8. e.form \in Forms \cup {"open", "close"}
  BY <1>1 DEF Entries
<1> QED
  BY <1>5, <1>6, <1>7, <1>8

\* The lines that are neither namespaces nor passed through begin a declaration.
LEMMA FormBegins ==
  ASSUME AuthorInv, FormsUnderstood, NEW k, NEW p, ReadUpTo(k, p), Scanning,
         IF IsOther(line) THEN ~ IsOpening(line) /\ ~ (IsClosing(line) /\ ns_stack # <<>>) /\ IsFree(line)
         ELSE TRUE
  PROVE  LET e == header[k + 1]  w == Written[e.form] IN
         /\ k \in 0 .. Len(header) - 1 /\ p = 0 /\ e.form \in Forms /\ Understood(e.form) /\ line = w[1]
         /\ rest \in Seq(Line) /\ w \in Seq(Line) /\ Begins(rest, w) /\ w # <<>>
<1> PICK e : e = header[k + 1]
  OBVIOUS
<1>1. OpeningNext(e, p) \/ ClosingNext(e, p) \/ FormNext(e, p) \/ RestNext(e, p)
  BY FormsHere
<1>2. /\ k \in 0 .. Len(header) - 1 /\ p \in 0 .. Len(LinesOf(e)) - 1 /\ e \in Entries
      /\ Follows(StackAt(header, k), e) /\ (e.form = "open" => e.stack # <<>>)
      /\ rest \in Seq(Line) /\ (p = 0 => Begins(rest, LinesOf(e)))
  BY Here DEF Scanning
<1>3. ~ OpeningNext(e, p)
  BY NamespaceLines DEF OpeningNext
<1>4. ~ ClosingNext(e, p)
  <2> SUFFICES ASSUME ClosingNext(e, p) PROVE FALSE
    OBVIOUS
  <2>1. ns_stack # <<>>
    BY <1>2 DEF ClosingNext, Follows, ReadUpTo
  <2>2. IsOther(line) /\ IsClosing(line)
    BY NamespaceLines DEF ClosingNext
  <2> QED
    BY <2>1, <2>2
<1>5. ~ RestNext(e, p)
  BY DEF RestNext
<1>6. FormNext(e, p)
  BY <1>1, <1>3, <1>4, <1>5
<1>7. LinesOf(e) = Written[e.form] /\ LinesOf(e) \in Seq(Line) /\ LinesOf(e) # <<>>
  BY <1>2, <1>6, EntryLines DEF FormNext
<1> QED
  BY <1>2, <1>6, <1>7 DEF FormNext

\* Whichever branch takes a declaration, all of it is read.
LEMMA DeclarationRead ==
  ASSUME AuthorInv, FormsUnderstood, NEW k, NEW p, ReadUpTo(k, p),
         Template \/ Type \/ InlineConstant \/ InlineFunction \/ InlineVariable \/ Alias \/ FreeDeclaration
  PROVE  ReadUpTo(k + 1, 0)'
<1>1. Scanning /\ UNCHANGED ns_stack
  BY DEF Template, Type, InlineConstant, InlineFunction, InlineVariable, Alias, FreeDeclaration
<1>2. IF IsOther(line) THEN ~ IsOpening(line) /\ ~ (IsClosing(line) /\ ns_stack # <<>>) /\ IsFree(line)
      ELSE TRUE
  BY DEF Template, Type, InlineConstant, InlineFunction, InlineVariable, Alias, FreeDeclaration, IsOther
<1> PICK form : form = header[k + 1].form
  OBVIOUS
<1> PICK w : w = Written[form]
  OBVIOUS
<1>3. /\ k \in 0 .. Len(header) - 1 /\ p = 0 /\ form \in Forms /\ Understood(form) /\ line = w[1]
      /\ rest \in Seq(Line) /\ w \in Seq(Line) /\ Begins(rest, w) /\ w # <<>>
  BY <1>1, <1>2, FormBegins
<1>4. /\ LastLine(w) <= Len(w) =>
           /\ TemplateReading(rest) = TemplateReading(w)
           /\ ConstantReading(rest) = ConstantReading(w) /\ FunctionReading(rest) = FunctionReading(w)
           /\ VariableReading(rest) = VariableReading(w)
      /\ LastLineOfType(w) <= Len(w) => TypeReading(rest) = TypeReading(w)
      /\ AliasReading(rest) = AliasReading(w) /\ FreeReading(rest) = FreeReading(w)
  BY <1>3, ReadSame
<1>5. ASSUME NEW r, Take(r), FindsOne(r), AsPromised(form, r) PROVE ReadUpTo(k + 1, 0)'
  BY <1>1, <1>3, <1>5, FormRead
<1>6. CASE Template
  <2>1. LastLine(w) <= Len(w) /\ AsPromised(form, TemplateReading(w))
    BY <1>3, <1>6 DEF Understood, Template
  <2> QED
    BY <1>4, <1>5, <1>6, <2>1, EveryReading DEF Template
<1>7. CASE Type
  <2>1. LastLineOfType(w) <= Len(w) /\ AsPromised(form, TypeReading(w))
    BY <1>3, <1>7 DEF Understood, Type
  <2> QED
    BY <1>4, <1>5, <1>7, <2>1, EveryReading DEF Type
<1>8. CASE InlineConstant
  <2>1. LastLine(w) <= Len(w) /\ AsPromised(form, ConstantReading(w))
    BY <1>3, <1>8 DEF Understood, InlineConstant
  <2> QED
    BY <1>4, <1>5, <1>8, <2>1, EveryReading DEF InlineConstant
<1>9. CASE InlineFunction
  <2>1. LastLine(w) <= Len(w) /\ AsPromised(form, FunctionReading(w))
    BY <1>3, <1>9 DEF Understood, InlineFunction
  <2> QED
    BY <1>4, <1>5, <1>9, <2>1, EveryReading DEF InlineFunction
<1>10. CASE InlineVariable
  <2>1. LastLine(w) <= Len(w) /\ AsPromised(form, VariableReading(w))
    BY <1>3, <1>10 DEF Understood, InlineVariable
  <2> QED
    BY <1>4, <1>5, <1>10, <2>1, EveryReading DEF InlineVariable
<1>11. CASE Alias
  <2>1. AsPromised(form, AliasReading(w))
    BY <1>3, <1>11 DEF Understood, Alias
  <2> QED
    BY <1>4, <1>5, <1>11, <2>1, EveryReading DEF Alias
<1>12. CASE FreeDeclaration
  <2>1. AsPromised(form, FreeReading(w))
    BY <1>3, <1>12 DEF Understood, FreeDeclaration
  <2> QED
    BY <1>4, <1>5, <1>12, <2>1, EveryReading DEF FreeDeclaration
<1> QED
  BY <1>6, <1>7, <1>8, <1>9, <1>10, <1>11, <1>12

\* What is in no branch of parse() is passed through.
LEMMA OtherRead ==
  ASSUME AuthorInv, FormsUnderstood, NEW k, NEW p, ReadUpTo(k, p), PassThrough
  PROVE  \E j, q : ReadUpTo(j, q)'
<1>1. /\ Scanning /\ IsOther(line) /\ ~ IsOpening(line) /\ ~ (IsClosing(line) /\ ns_stack # <<>>) /\ ~ IsFree(line)
      /\ Take(Verbatim(rest, 1, <<>>)) /\ UNCHANGED ns_stack
  BY DEF PassThrough
<1> PICK e : e = header[k + 1]
  OBVIOUS
<1>2. OpeningNext(e, p) \/ ClosingNext(e, p) \/ FormNext(e, p) \/ RestNext(e, p)
  BY <1>1, FormsHere
<1>3. ~ OpeningNext(e, p)
  BY <1>1, NamespaceLines DEF OpeningNext
<1>4. ~ ClosingNext(e, p)
  <2> SUFFICES ASSUME ClosingNext(e, p) PROVE FALSE
    OBVIOUS
  <2>1. Follows(StackAt(header, k), e)
    BY <1>1, Here DEF Scanning
  <2>2. ns_stack # <<>>
    BY <2>1 DEF ClosingNext, Follows, ReadUpTo
  <2>3. IsClosing(line)
    BY NamespaceLines DEF ClosingNext
  <2> QED
    BY <1>1, <2>2, <2>3
<1>5. e.form \in Forms /\ PassedThrough(e.form)
  BY <1>1, <1>2, <1>3, <1>4 DEF FormNext, RestNext, Understood
<1> QED
  BY <1>1, <1>5, LinePassed DEF Scanning

\* The scanner is in the namespaces the author was in.
LEMMA NamespaceRead ==
  ASSUME AuthorInv, FormsUnderstood, NEW k, NEW p, ReadUpTo(k, p), NamespaceOpen \/ NamespaceClose
  PROVE  ReadUpTo(k + 1, 0)'
<1>1. /\ Scanning /\ (IsOpening(line) \/ IsClosing(line)) /\ Take(Verbatim(rest, 1, <<>>))
  BY DEF NamespaceOpen, NamespaceClose
<1> PICK e : e = header[k + 1]
  OBVIOUS
<1>2. OpeningNext(e, p) \/ ClosingNext(e, p) \/ FormNext(e, p) \/ RestNext(e, p)
  BY <1>1, FormsHere
<1>3. OpeningNext(e, p) \/ ClosingNext(e, p)
  BY <1>1, <1>2 DEF FormNext, RestNext, Understood
<1>4. /\ k \in 0 .. Len(header) - 1 /\ e \in Entries /\ Follows(StackAt(header, k), e)
      /\ (e.form = "open" => e.stack # <<>>) /\ rest \in Seq(Line) /\ rest # <<>>
      /\ rest[1] = LinesOf(e)[p + 1] /\ line = LinesOf(e)[p + 1]
  BY <1>1, Here DEF Scanning
<1>5. p = 0 /\ e.form \in {"open", "close"} /\ e.form \notin Forms
  BY <1>3 DEF OpeningNext, ClosingNext
<1>6. LinesOf(e) = <<line>> /\ Promised(e) = <<line>>
  <2>1. LinesOf(e) = <<line>>
    BY <1>3, <1>4, EntryLines DEF OpeningNext, ClosingNext
  <2> QED
    BY <1>4, <1>5, <2>1, PromisedIs
<1>7. Finds(e, <<>>)
  BY <1>5 DEF Finds
<1>8. ns_stack = StackAt(header, k)
  BY DEF ReadUpTo
<1>9. ns_stack' = e.stack
  <2>1. CASE OpeningNext(e, p)
    <3>1. IsOpening(line) /\ ~ IsClosing(line) /\ line[2] = Last(e.stack)
      BY <2>1, NamespaceLines DEF OpeningNext
    <3>2. ns_stack' = Append(ns_stack, line[2])
      BY <3>1 DEF NamespaceOpen, NamespaceClose
    <3> QED
      BY <1>4, <1>8, <2>1, <3>1, <3>2 DEF OpeningNext, Follows
  <2>2. CASE ClosingNext(e, p)
    <3>1. ~ IsOpening(line)
      BY <2>2, NamespaceLines DEF ClosingNext
    <3>2. ns_stack' = Front(ns_stack)
      BY <3>1 DEF NamespaceOpen, NamespaceClose
    <3> QED
      BY <1>4, <1>8, <2>2, <3>2 DEF ClosingNext, Follows
  <2> QED
    BY <1>3, <2>1, <2>2
<1> PICK r : r = Verbatim(rest, 1, <<>>)
  OBVIOUS
<1>10. r.size = Len(LinesOf(e)) /\ r.kept = Promised(e) /\ Finds(e, r.entities)
  <2>1. r.size = 1 /\ r.kept = <<rest[1]>> /\ r.entities = <<>>
    BY <1>4, OneLine
  <2>2. rest[1] = line
    BY <1>4
  <2>3. \A x : Len(<<x>>) = 1
    OBVIOUS
  <2> QED
    BY <1>6, <1>7, <2>1, <2>2, <2>3
<1>11. ReadUpTo(k, 0)
  BY <1>5
<1> QED
  BY <1>1, <1>4, <1>9, <1>10, <1>11, EntryRead

-----------------------------------------------------------------------------
(* The author.                                                             *)

\* One more entry.
LEMMA Written1 ==
  ASSUME AuthorInv, NEW e \in Entries, header' = Append(header, e),
         Follows(StackAt(header, Len(header)), e)
  PROVE  AuthorInv'
<1> PICK n \in Nat : n = Len(header)
  BY PartsOf
<1> PICK h : h = header'
  OBVIOUS
<1>1. /\ h \in Seq(Entries) /\ Len(h) = n + 1 /\ h[n + 1] = e
      /\ \A i \in 1 .. n : h[i] = header[i]
  BY AppendProperties DEF AuthorInv
<1>2. ASSUME NEW k \in 1 .. n + 1 PROVE Follows(StackAt(h, k - 1), h[k])
  <2>1. CASE k = n + 1
    <3>1. k - 1 = n /\ n \in 0 .. n /\ (n # 0 => n \in 1 .. n)
      BY <2>1
    <3>2. StackAt(h, n) = StackAt(header, n)
      BY <1>1, <3>1 DEF StackAt
    <3> QED
      BY <1>1, <2>1, <3>1, <3>2
  <2>2. CASE k \in 1 .. n
    <3>1. k - 1 # 0 => k - 1 \in 1 .. n
      BY <2>2
    <3>2. StackAt(h, k - 1) = StackAt(header, k - 1)
      BY <1>1, <3>1 DEF StackAt
    <3>3. Follows(StackAt(header, k - 1), header[k])
      BY <2>2 DEF AuthorInv
    <3> QED
      BY <1>1, <2>2, <3>2, <3>3
  <2> QED
    BY <2>1, <2>2
<1> QED
  BY <1>1, <1>2 DEF AuthorInv

\* The namespaces that are open are those of the last entry.
LEMMA OpenedIs ==
  ASSUME AuthorInv
  PROVE  opened = StackAt(header, Len(header)) /\ opened \in Stacks
<1> PICK n \in Nat : n = Len(header)
  BY PartsOf
<1>1. CASE n = 0
  <2>1. header = <<>>
    <3>1. header \in Seq(Entries) /\ Len(header) = 0
      BY <1>1 DEF AuthorInv
    <3> QED
      BY <3>1, EmptySeq
  <2> QED
    BY <1>1, <2>1 DEF opened, StackAt, Stacks
<1>2. CASE n # 0
  <2>1. n \in 1 .. n /\ header # <<>>
    BY <1>2 DEF AuthorInv
  <2>2. opened = header[n].stack /\ header[n] \in Entries
    BY <2>1 DEF opened, Last, AuthorInv
  <2> QED
    BY <1>2, <2>2 DEF StackAt, Entries
<1> QED
  BY <1>1, <1>2

LEMMA AuthorStep ==
  ASSUME AuthorInv, OpenNamespace \/ CloseNamespace \/ Declare
  PROVE  AuthorInv' /\ UNCHANGED <<verdict, pos, ns_stack, found, decls_lines>>
<1>1. opened = StackAt(header, Len(header)) /\ opened \in Stacks
  BY OpenedIs
<1>2. ASSUME NEW e \in Entries, Follows(opened, e), Add(e)
      PROVE  AuthorInv' /\ UNCHANGED <<verdict, pos, ns_stack, found, decls_lines>>
  BY <1>1, <1>2, Written1 DEF Add
<1> PICK st \in Seq(Outer \cup Inner) : st = opened
  BY <1>1 DEF Stacks
<1>3. ASSUME NEW form \in Forms PROVE form # "open" /\ form # "close"
  BY FormsAre, FormsAssumption
<1>4. CASE OpenNamespace
  <2>1. PICK ns \in IF opened = <<>> THEN Outer ELSE Inner : Add(Entry("open", Append(opened, ns)))
    BY <1>4 DEF OpenNamespace
  <2>2. ns \in Outer \cup Inner
    BY <2>1
  <2>3. /\ Append(st, ns) \in Seq(Outer \cup Inner) /\ Append(st, ns) # <<>> /\ Last(Append(st, ns)) = ns
        /\ Append(st, ns)[1] = IF st = <<>> THEN ns ELSE st[1]
    <3> PICK t : t = Append(st, ns)
      OBVIOUS
    <3>1. /\ t \in Seq(Outer \cup Inner) /\ Len(t) = Len(st) + 1 /\ t[Len(st) + 1] = ns
          /\ \A i \in 1 .. Len(st) : t[i] = st[i]
      BY <2>2, AppendProperties
    <3>2. Len(st) \in Nat /\ (st = <<>> <=> Len(st) = 0)
      OBVIOUS
    <3>3. t # <<>> /\ Last(t) = ns
      BY <3>1, <3>2 DEF Last
    <3>4. CASE st = <<>>
      BY <3>1, <3>2, <3>3, <3>4
    <3>5. CASE st # <<>>
      <4>1. 1 \in 1 .. Len(st)
        BY <3>2, <3>5
      <4> QED
        BY <3>1, <3>3, <3>5, <4>1
    <3> QED
      BY <3>4, <3>5
  <2>4. Append(st, ns) \in Stacks
    BY <1>1, <2>1, <2>3 DEF Stacks
  <2> PICK e : e = Entry("open", Append(opened, ns))
    OBVIOUS
  <2>5. e.form = "open" /\ e.stack = Append(st, ns) /\ e \in Entries
    BY <2>4 DEF Entry, Entries
  <2>6. Follows(opened, e)
    BY <1>3, <2>3, <2>5 DEF Follows
  <2> QED
    BY <1>2, <2>1, <2>5, <2>6
<1>5. CASE CloseNamespace
  <2>1. opened # <<>> /\ Add(Entry("close", Front(opened)))
    BY <1>5 DEF CloseNamespace
  <2>2. Front(st) \in Seq(Outer \cup Inner) /\ (Front(st) # <<>> => Front(st)[1] = st[1])
    BY <2>1 DEF Front
  <2>3. Front(st) \in Stacks
    BY <1>1, <2>1, <2>2 DEF Stacks
  <2> PICK e : e = Entry("close", Front(opened))
    OBVIOUS
  <2>4. e.form = "close" /\ e.stack = Front(opened) /\ e \in Entries
    BY <2>3 DEF Entry, Entries
  <2>5. Follows(opened, e)
    BY <1>3, <2>1, <2>4 DEF Follows
  <2> QED
    BY <1>2, <2>1, <2>4, <2>5
<1>6. CASE Declare
  <2>1. PICK form \in Forms : opened # <<>> /\ Add(Entry(form, opened))
    BY <1>6 DEF Declare
  <2> PICK e : e = Entry(form, opened)
    OBVIOUS
  <2>2. e.form = form /\ e.stack = opened /\ e \in Entries
    BY <1>1 DEF Entry, Entries
  <2>3. Follows(opened, e)
    BY <1>3, <2>1, <2>2 DEF Follows
  <2> QED
    BY <1>2, <2>1, <2>2, <2>3
<1> QED
  BY <1>4, <1>5, <1>6

-----------------------------------------------------------------------------
(* Headers are read from their first line to their last.                   *)

\* Before the first.
LEMMA NothingRead ==
  ASSUME AuthorInv, pos = 1, ns_stack = <<>>, found = <<>>, decls_lines = <<>>
  PROVE  ReadUpTo(0, 0)
<1> PICK n \in Nat : n = Len(header)
  BY PartsOf
<1>1. UpTo(Parts(header), 0) = <<>> /\ UpTo(Keeps(header), 0) = <<>> /\ UpTo(CastsOf(header), 0) = <<>>
  BY PartsOf, UpToIs
<1>2. pos = Len(UpTo(Parts(header), 0)) + 0 + 1
  <2>1. Len(<<>>) = 0 /\ 0 + 0 + 1 = 1
    OBVIOUS
  <2> QED
    BY <1>1, <2>1
<1>3. decls_lines = UpTo(Keeps(header), 0) \o <<>>
  <2>1. <<>> \o <<>> = <<>>
    OBVIOUS
  <2> QED
    BY <1>1, <2>1
<1>4. (\E S : found \in Seq(S)) /\ NamesIn(found) = NamesOf(header, 0)
  <2>1. found \in Seq({}) /\ ToSet(found) = {}
    BY DEF ToSet
  <2>2. 1 .. 0 = {}
    OBVIOUS
  <2> QED
    BY <2>1, <2>2 DEF NamesIn, NamesOf
<1>5. emitted = UpTo(CastsOf(header), 0)
  <2> PICK cs : cs = [k \in DOMAIN found |-> Casts(found[k])]
    OBVIOUS
  <2>1. cs = <<>>
    OBVIOUS
  <2>2. FlattenSeq(cs) = <<>>
    <3>1. <<>> \in Seq(Seq({}))
      OBVIOUS
    <3>2. FlattenSeq(<<>>) = <<>>
      BY <3>1, FlattenedIs, Zenon
    <3> QED
      BY <2>1, <3>2
  <2> QED
    BY <1>1, <2>2 DEF emitted
<1>6. 0 \in 0 .. n /\ 0 \in Nat /\ ns_stack = StackAt(header, 0)
  BY DEF StackAt
<1> QED
  BY <1>2, <1>3, <1>4, <1>5, <1>6 DEF ReadUpTo

\* Behind the last.
LEMMA AllRead ==
  ASSUME AuthorInv, NEW k, NEW p, ReadUpTo(k, p), pos > Len(lines)
  PROVE  k = Len(header) /\ p = 0
<1> PICK n \in Nat : n = Len(header)
  BY PartsOf
<1> PICK f \in Seq(Seq(Line)) : f = Parts(header)
  BY PartsOf
<1>1. /\ k \in 0 .. n /\ p \in Nat /\ pos = Len(UpTo(f, k)) + p + 1
      /\ p # 0 => k < n /\ p < Len(LinesOf(header[k + 1]))
  BY DEF ReadUpTo
<1>2. Len(f) = n /\ lines = FlattenSeq(f)
  BY PartsOf
<1>3. CASE k = n
  BY <1>1, <1>3
<1>4. CASE k # n
  <2>1. k + 1 \in 1 .. n /\ k + 1 \in 0 .. n /\ k \in 0 .. n /\ (k + 1) - 1 = k
    BY <1>1, <1>4
  <2> PICK w : w = LinesOf(header[k + 1])
    OBVIOUS
  <2>2. f[k + 1] = w /\ w # <<>> /\ w \in Seq(Line)
    BY <1>2, <2>1, PartsOf
  <2>3. UpTo(f, k + 1) = UpTo(f, k) \o w /\ UpTo(f, k) \in Seq(Line)
    BY <1>2, <2>1, <2>2, UpToIs
  <2>4. Begins(FlattenSeq(f), UpTo(f, k + 1))
    BY <1>2, <2>1, UpToBegins
  <2> PICK u \in Seq(Line) : u = UpTo(f, k)
    BY <2>3
  <2>5. Len(u \o w) = Len(u) + Len(w) /\ Len(u) \in Nat /\ Len(w) \in Nat /\ Len(w) # 0
    BY <2>2, ConcatProperties
  <2>6. lines \in Seq(Line) /\ Len(lines) \in Nat
    BY <1>2, FlattenType
  <2>7. Len(u) + Len(w) <= Len(lines)
    BY <1>2, <2>3, <2>4, <2>5 DEF Begins
  <2>8. p < Len(w)
    BY <1>1, <2>5
  <2>9. pos = Len(u) + p + 1
    BY <1>1
  <2> QED
    BY <1>1, <2>5, <2>6, <2>7, <2>8, <2>9
<1> QED
  BY <1>3, <1>4

LEMMA GenInitially == GenInit => GenInv
<1> SUFFICES ASSUME GenInit PROVE GenInv
  OBVIOUS
<1>1. AuthorInv
  <2>1. header \in Seq(Entries) /\ Len(header) = 0
    BY DEF GenInit
  <2> QED
    BY <2>1 DEF AuthorInv
<1> QED
  BY <1>1 DEF GenInv, GenInit

\* Whatever the scanner takes, it has read up to an entry or to a line of one.
LEMMA GenStep == GenInv /\ [GenNext]_genVars => GenInv'
<1> SUFFICES ASSUME GenInv, [GenNext]_genVars PROVE GenInv'
  OBVIOUS
<1>1. AuthorInv
  BY DEF GenInv
<1>2. ASSUME UNCHANGED header
      PROVE  AuthorInv' /\ FormsUnderstood' = FormsUnderstood
  BY <1>1, <1>2 DEF AuthorInv, FormsUnderstood, Declared
<1>3. ASSUME verdict = "scanning", UNCHANGED <<header, verdict>>,
             ASSUME FormsUnderstood, NEW k, NEW p, ReadUpTo(k, p) PROVE \E j, q : ReadUpTo(j, q)'
      PROVE  GenInv'
  <2>1. AuthorInv' /\ FormsUnderstood' = FormsUnderstood
    BY <1>2, <1>3
  <2>2. verdict' = "scanning"
    BY <1>3
  <2>3. ASSUME FormsUnderstood PROVE (\E j, q : ReadUpTo(j, q))'
    <3>1. PICK k, p : ReadUpTo(k, p)
      BY <1>3, <2>3 DEF GenInv
    <3> QED
      BY <1>3, <2>3, <3>1
  <2> QED
    BY <2>1, <2>2, <2>3 DEF GenInv
<1>4. CASE OpenNamespace \/ CloseNamespace \/ Declare
  <2>1. verdict = "writing"
    BY <1>4 DEF OpenNamespace, CloseNamespace, Declare
  <2>2. AuthorInv' /\ UNCHANGED <<verdict, pos, ns_stack, found, decls_lines>>
    BY <1>1, <1>4, AuthorStep
  <2> QED
    BY <2>1, <2>2 DEF GenInv
<1>5. CASE StartScan
  <2>1. verdict = "writing" /\ verdict' = "scanning" /\ UNCHANGED <<header, pos, ns_stack, found, decls_lines>>
    BY <1>5 DEF StartScan
  <2>2. pos = 1 /\ ns_stack = <<>> /\ found = <<>> /\ decls_lines = <<>>
    BY <2>1 DEF GenInv
  <2>3. AuthorInv'
    BY <1>2, <2>1
  <2>4. ReadUpTo(0, 0)
    BY <1>1, <2>2, NothingRead
  <2>5. ReadUpTo(0, 0)'
    BY <2>1, <2>4 DEF ReadUpTo, emitted
  <2> QED
    BY <2>1, <2>3, <2>5 DEF GenInv
<1>6. CASE Template \/ Type \/ InlineConstant \/ InlineFunction \/ InlineVariable \/ Alias \/ FreeDeclaration
  <2>1. verdict = "scanning" /\ UNCHANGED <<header, verdict>>
    BY <1>6 DEF Template, Type, InlineConstant, InlineFunction, InlineVariable, Alias, FreeDeclaration,
             Scanning, Take
  <2>2. ASSUME FormsUnderstood, NEW k, NEW p, ReadUpTo(k, p) PROVE \E j, q : ReadUpTo(j, q)'
    BY <1>1, <1>6, <2>2, DeclarationRead
  <2> QED
    BY <1>3, <2>1, <2>2
<1>7. CASE NamespaceOpen \/ NamespaceClose
  <2>1. verdict = "scanning" /\ UNCHANGED <<header, verdict>>
    BY <1>7 DEF NamespaceOpen, NamespaceClose, Scanning, Take
  <2>2. ASSUME FormsUnderstood, NEW k, NEW p, ReadUpTo(k, p) PROVE \E j, q : ReadUpTo(j, q)'
    BY <1>1, <1>7, <2>2, NamespaceRead
  <2> QED
    BY <1>3, <2>1, <2>2
<1>8. CASE PassThrough
  <2>1. verdict = "scanning" /\ UNCHANGED <<header, verdict>>
    BY <1>8 DEF PassThrough, Scanning, Take
  <2>2. ASSUME FormsUnderstood, NEW k, NEW p, ReadUpTo(k, p) PROVE \E j, q : ReadUpTo(j, q)'
    BY <1>1, <1>8, <2>2, OtherRead
  <2> QED
    BY <1>3, <2>1, <2>2
<1>9. CASE Refuse
  <2>1. verdict' = "refused" /\ UNCHANGED header
    BY <1>9 DEF Refuse
  <2> QED
    BY <1>2, <2>1 DEF GenInv
<1>10. CASE Finish
  <2>1. /\ verdict = "scanning" /\ pos > Len(lines) /\ verdict' = "done"
        /\ UNCHANGED <<header, pos, ns_stack, found, decls_lines>>
    BY <1>10 DEF Finish
  <2>2. AuthorInv' /\ FormsUnderstood' = FormsUnderstood
    BY <1>2, <2>1
  <2>3. ASSUME FormsUnderstood PROVE ReadUpTo(Len(header), 0)'
    <3>1. PICK k, p : ReadUpTo(k, p)
      BY <2>1, <2>3 DEF GenInv
    <3>2. ReadUpTo(Len(header), 0)
      BY <1>1, <2>1, <3>1, AllRead
    <3> QED
      BY <2>1, <3>2 DEF ReadUpTo, emitted
  <2> QED
    BY <2>1, <2>2, <2>3 DEF GenInv
<1>11. CASE UNCHANGED genVars
  <2>1. UNCHANGED <<header, verdict, pos, ns_stack, found, decls_lines>>
    BY <1>11 DEF genVars
  <2>2. AuthorInv' /\ FormsUnderstood' = FormsUnderstood
    BY <1>2, <2>1
  <2>3. ASSUME NEW k, NEW p, ReadUpTo(k, p) PROVE ReadUpTo(k, p)'
    BY <2>1, <2>3 DEF ReadUpTo, emitted
  <2>4. ASSUME ReadUpTo(Len(header), 0) PROVE ReadUpTo(Len(header), 0)'
    BY <2>1, <2>4 DEF ReadUpTo, emitted
  <2> QED
    BY <2>1, <2>2, <2>3, <2>4 DEF GenInv
<1> QED
  BY <1>4, <1>5, <1>6, <1>7, <1>8, <1>9, <1>10, <1>11 DEF GenNext

LEMMA GenAlways == GenSpec => []GenInv
<1>1. GenInit => GenInv
  BY GenInitially
<1>2. GenInv /\ [GenNext]_genVars => GenInv'
  BY GenStep
<1> QED
  BY <1>1, <1>2, PTL DEF GenSpec

-----------------------------------------------------------------------------
(* What is written of the header.                                          *)

\* Where a namespace is not misleading, the test of its text is one of its names.
LEMMA HiddenIs ==
  ASSUME NEW ns, Len(ns) \in Nat, DOMAIN ns = 1 .. Len(ns), ~ Misleading(ns)
  PROVE  Hidden(ns) <=> InDetail(ns) \/ InStd(ns)
<1> PICK n \in Nat : n = Len(ns)
  OBVIOUS
<1> DEFINE Seen(k) == (k # 1 /\ ns[k - 1] = "::") \/ k = n
<1>1. EndsInDetail(ns) \/ (\E k \in 2 .. Len(ns) : ns[k - 1] = "::" /\ ns[k] = "detail")
        <=> \E k \in 1 .. n : ns[k] = "detail" /\ Seen(k)
  <2>1. EndsInDetail(ns) <=> n \in 1 .. n /\ ns[n] = "detail"
    <3>1. ns # <<>> <=> n \in 1 .. n
      OBVIOUS
    <3> QED
      BY <3>1 DEF EndsInDetail, Last
  <2>2. \A k : k \in 2 .. n <=> k \in 1 .. n /\ k # 1
    OBVIOUS
  <2> QED
    BY <2>1, <2>2
<1>2. ASSUME NEW k \in 1 .. n, ns[k] = "detail"
      PROVE  Seen(k) <=> NameBegins(ns, k) /\ NameEnds(ns, k)
  BY <1>2 DEF Misleading, NameBegins, NameEnds
<1>3. InDetail(ns) <=> \E k \in 1 .. n : ns[k] = "detail" /\ Seen(k)
  BY <1>2 DEF InDetail
<1> QED
  BY <1>1, <1>3 DEF Hidden

\* A sequence of one, and of none.
LEMMA Short == ASSUME NEW X, NEW x \in X PROVE <<x>> \in Seq(X) /\ <<>> \in Seq(X)
OBVIOUS

\* A full namespace is a text.
LEMMA FullNameIs ==
  ASSUME NEW st \in Stacks
  PROVE  Len(FullName(st)) \in Nat /\ DOMAIN FullName(st) = 1 .. Len(FullName(st))
<1> DEFINE part(k) == (IF k = 1 THEN <<>> ELSE <<"::">>) \o Spelling[st[k]]
<1> PICK n \in Nat : n = Len(st) /\ DOMAIN st = 1 .. n
  BY DEF Stacks
<1> PICK X : X = STRING \cup {"::"}
  OBVIOUS
<1>1. ASSUME NEW k \in 1 .. n PROVE part(k) \in Seq(X)
  <2>1. st[k] \in Outer \cup Inner
    BY DEF Stacks
  <2>2. Spelling[st[k]] \in Seq(X)
    BY <2>1, SpellingAssumption, SeqMonotonic
  <2>3. (IF k = 1 THEN <<>> ELSE <<"::">>) \in Seq(X)
    BY Short
  <2> QED
    BY <2>2, <2>3, ConcatProperties
<1>2. [k \in 1 .. n |-> part(k)] \in Seq(Seq(X))
  <2> HIDE DEF part
  <2> QED
    BY <1>1
<1>3. FlattenSeq([k \in 1 .. n |-> part(k)]) \in Seq(X)
  <2> HIDE DEF part
  <2> QED
    BY <1>2, FlattenType
<1>4. FullName(st) \in Seq(X)
  BY <1>3 DEF FullName
<1> QED
  BY <1>4

\* The declarations, and their names.
LEMMA DeclaredAre ==
  ASSUME AuthorInv
  PROVE  DeclaredNames = NamesOf(header, Len(header))
<1> PICK n \in Nat : n = Len(header)
  BY PartsOf
<1>1. DOMAIN header = 1 .. n
  BY DEF AuthorInv
<1>2. ASSUME NEW j \in 1 .. n PROVE header[j].form \in DOMAIN Written <=> header[j].form \in Forms
  <2>1. header[j] \in Entries
    BY PartsOf
  <2>2. header[j].form \in Forms \cup {"open", "close"}
    BY <2>1 DEF Entries
  <2>3. "open" \notin DOMAIN Written /\ "close" \notin DOMAIN Written
    BY FormsAre
  <2> QED
    BY <2>2, <2>3, FormsAssumption
<1>3. Declared = {j \in 1 .. n : header[j].form \in Forms}
  BY <1>1, <1>2 DEF Declared
<1>4. {j \in Declared : NameOf[header[j].form] # ""} =
        {j \in 1 .. n : header[j].form \in Forms /\ NameOf[header[j].form] # ""}
  BY <1>3
<1> QED
  BY <1>4 DEF DeclaredNames, NamesOf

\* The declarations header: however many namespaces and declarations a header has, each of
\* its lines that the scanner has no reason to remove stays where it is, and of each plain
\* inline function or variable its declaration stands in its place.
THEOREM DeclsAlwaysPromised == GenSpec => [](FormsUnderstood => DeclsArePromised)
<1>1. GenInv => (FormsUnderstood => DeclsArePromised)
  <2> SUFFICES ASSUME GenInv, FormsUnderstood, verdict = "done"
               PROVE  decls_lines = FlattenSeq([j \in DOMAIN header |-> Promised(header[j])])
    BY DEF DeclsArePromised
  <2>1. AuthorInv /\ ReadUpTo(Len(header), 0)
    BY DEF GenInv
  <2> PICK g \in Seq(Seq(KeptLine)) : g = Keeps(header)
    BY <2>1, PartsOf
  <2>2. Len(g) = Len(header)
    BY <2>1, PartsOf
  <2>3. UpTo(g, Len(g)) = FlattenSeq(g)
    BY UpToIs
  <2>4. FlattenSeq(g) \in Seq(KeptLine)
    BY FlattenType
  <2>5. decls_lines = UpTo(g, Len(header)) \o <<>>
    BY <2>1 DEF ReadUpTo
  <2>6. decls_lines = FlattenSeq(g)
    BY <2>2, <2>3, <2>4, <2>5, ConcatEmptySeq
  <2>7. g = [j \in DOMAIN header |-> Promised(header[j])]
    BY <2>1 DEF Keeps, AuthorInv
  <2> QED
    BY <2>6, <2>7
<1> QED
  BY <1>1, GenAlways, PTL

\* The exports: whatever namespaces a header has, joined, nested and named in any way, there is
\* a using-declaration for each declaration's name in its namespace, but for those inside of
\* detail and of std, and for nothing else, except in namespaces whose text misleads.
THEOREM ExportsAlwaysPromised == GenSpec => [](FormsUnderstood => ExportsArePromised)
<1>1. GenInv => (FormsUnderstood => ExportsArePromised)
  <2> SUFFICES ASSUME GenInv, FormsUnderstood, verdict = "done"
               PROVE  {x \in using_names : ~ Misleading(x[1])} =
                        {x \in DeclaredNames : ~ Misleading(x[1]) /\ ~ InDetail(x[1]) /\ ~ InStd(x[1])}
    BY DEF ExportsArePromised
  <2>1. AuthorInv /\ ReadUpTo(Len(header), 0)
    BY DEF GenInv
  <2>2. NamesIn(found) = DeclaredNames
    BY <2>1, DeclaredAre DEF ReadUpTo
  <2>3. using_names = {x \in NamesIn(found) : ~ Hidden(x[1])}
    BY DEF using_names, NamesIn
  <2>4. ASSUME NEW x \in DeclaredNames, ~ Misleading(x[1])
        PROVE  Hidden(x[1]) <=> InDetail(x[1]) \/ InStd(x[1])
    <3>1. PICK j \in Declared : x = <<FullName(header[j].stack), NameOf[header[j].form]>>
      BY DEF DeclaredNames
    <3>2. j \in 1 .. Len(header)
      BY <2>1 DEF Declared, AuthorInv
    <3>3. header[j].stack \in Stacks
      BY <2>1, <3>2, PartsOf DEF Entries
    <3>4. x[1] = FullName(header[j].stack)
      BY <3>1
    <3> QED
      BY <2>4, <3>3, <3>4, FullNameIs, HiddenIs
  <2> QED
    BY <2>2, <2>3, <2>4
<1> QED
  BY <1>1, GenAlways, PTL

\* The implementation unit: it has an entry for each plain inline function, in order and each
\* overload with its own signature, and for nothing else.
THEOREM EmissionsAlwaysPromised == GenSpec => [](FormsUnderstood => EmissionsArePromised)
<1>1. GenInv => (FormsUnderstood => EmissionsArePromised)
  <2> SUFFICES ASSUME GenInv, FormsUnderstood, verdict = "done"
               PROVE  emitted = FlattenSeq([j \in DOMAIN header |-> PromisedCasts(header[j])])
    BY DEF EmissionsArePromised
  <2>1. AuthorInv /\ ReadUpTo(Len(header), 0)
    BY DEF GenInv
  <2> PICK c \in Seq(Seq(Cast)) : c = CastsOf(header)
    BY <2>1, PartsOf
  <2>2. Len(c) = Len(header)
    BY <2>1, PartsOf
  <2>3. UpTo(c, Len(c)) = FlattenSeq(c)
    BY UpToIs
  <2>4. emitted = UpTo(c, Len(header))
    BY <2>1 DEF ReadUpTo
  <2>5. c = [j \in DOMAIN header |-> PromisedCasts(header[j])]
    BY <2>1 DEF CastsOf, AuthorInv
  <2> QED
    BY <2>2, <2>3, <2>4, <2>5
<1> QED
  BY <1>1, GenAlways, PTL

=============================================================================
