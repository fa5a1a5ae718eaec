---------------------------- MODULE SemverProofs ----------------------------
(* What collab::semver promises, for every set of versions, whatever their *)
(* fields hold, and every width of the integer identifiers are read into.  *)
EXTENDS Semver, SequenceTheorems, WellFoundedInduction, TLAPS

USE ModulusAssumption

-----------------------------------------------------------------------------
(* Induction.                                                              *)

\* A set of numbers has a least.
LEMMA Least ==
  ASSUME NEW P \in SUBSET Nat, P # {}
  PROVE  \E i \in P : \A j \in P : i <= j
<1> DEFINE R == {p \in Nat \X Nat : p[1] < p[2]}
<1>1. R = OpToRel(<, Nat)
  BY DEF OpToRel
<1>2. IsWellFoundedOn(R, Nat)
  BY <1>1, NatLessThanWellFounded
<1> HIDE DEF R
<1>3. PICK i \in P : \A j \in P : ~ (<<j, i>> \in R)
  BY <1>2, WFMin
<1>4. \A j \in P : ~ (j < i)
  BY <1>3 DEF R
<1> QED
  BY <1>4

\* What holds of 0 and of each number after one it holds of.
LEMMA Upwards ==
  ASSUME NEW n \in Nat, NEW P, 0 \in P, \A k \in 1 .. n : k - 1 \in P => k \in P
  PROVE  \A k \in 0 .. n : k \in P
<1> DEFINE Bad == (0 .. n) \ P
<1> SUFFICES ASSUME Bad # {} PROVE FALSE
  OBVIOUS
<1>1. Bad \in SUBSET Nat
  OBVIOUS
<1> HIDE DEF Bad
<1>2. PICK k \in Bad : \A j \in Bad : k <= j
  BY <1>1, Least
<1>3. k \in 1 .. n /\ k \notin P
  BY <1>2 DEF Bad
<1>4. k - 1 \in 0 .. n /\ ~ (k <= k - 1)
  BY <1>3
<1>5. k - 1 \in P
  BY <1>2, <1>4 DEF Bad
<1> QED
  BY <1>3, <1>5

\* A recursion that goes down from each number up to n, until it comes to Base, with values in S.
Descends(n, S, Base, first, down, step) ==
  /\ first \in [0 .. n -> S] /\ down \in [0 .. n -> Nat] /\ step \in [(0 .. n) \X S -> S]
  /\ \A k \in 0 .. n : k \notin Base => down[k] < k

Computes(g, n, Base, first, down, step) ==
  \A k \in 0 .. n : g[k] = IF k \in Base THEN first[k] ELSE step[<<k, g[down[k]]>>]

\* It gives a value to each of them: the loops of the code, and what the reference computes, are such.
LEMMA Recursion ==
  ASSUME NEW n \in Nat, NEW S, NEW Base, NEW first, NEW down, NEW step,
         Descends(n, S, Base, first, down, step)
  PROVE  \E g \in [0 .. n -> S] : Computes(g, n, Base, first, down, step)
<1> USE DEF Descends, Computes
<1> DEFINE Rec(g, m) == \A k \in 0 .. m : g[k] = IF k \in Base THEN first[k] ELSE step[<<k, g[down[k]]>>]
           Bad == {m \in 0 .. n : ~ \E g \in [0 .. m -> S] : Rec(g, m)}
<1> SUFFICES ASSUME Bad # {} PROVE FALSE
  BY n \in 0 .. n
<1>1. PICK m \in Bad : \A j \in Bad : m <= j
  <2>1. Bad \in SUBSET Nat
    OBVIOUS
  <2> HIDE DEF Bad
  <2> QED
    BY <2>1, Least
<1>2. m \in 0 .. n /\ ~ \E g \in [0 .. m -> S] : Rec(g, m)
  OBVIOUS
<1>3. CASE m = 0
  <2>1. 0 \in Base
    BY <1>2, <1>3
  <2> PICK h : h = [k \in 0 .. m |-> first[k]]
    OBVIOUS
  <2>2. h \in [0 .. m -> S] /\ Rec(h, m)
    BY <1>2, <1>3, <2>1
  <2> QED
    BY <1>2, <2>2
<1>4. CASE m > 0
  <2>1. m - 1 \in 0 .. n /\ m - 1 \notin Bad
    <3> HIDE DEF Bad
    <3>1. m \in Nat /\ m - 1 \in 0 .. n /\ ~ (m <= m - 1)
      BY <1>2, <1>4
    <3> QED
      BY <1>1, <3>1
  <2>2. PICK g \in [0 .. m - 1 -> S] : Rec(g, m - 1)
    BY <2>1
  <2> DEFINE v == IF m \in Base THEN first[m] ELSE step[<<m, g[down[m]]>>]
  <2>3. m \in Nat /\ (m \notin Base => down[m] \in 0 .. m - 1 /\ g[down[m]] \in S) /\ v \in S
    <3>1. m \in Nat /\ (m \notin Base => down[m] \in 0 .. m - 1)
      BY <1>2
    <3>2. m \notin Base => g[down[m]] \in S
      BY <3>1
    <3>3. m \notin Base => <<m, g[down[m]]>> \in (0 .. n) \X S
      BY <1>2, <3>2
    <3> QED
      BY <1>2, <3>1, <3>2, <3>3
  <2> HIDE DEF v
  <2> PICK h : h = [k \in 0 .. m |-> IF k < m THEN g[k] ELSE v]
    OBVIOUS
  <2>4. (\A k \in 0 .. m - 1 : h[k] = g[k] /\ g[k] \in S) /\ h[m] = v
    BY <2>3
  <2>5. h \in [0 .. m -> S]
    BY <2>3, <2>4
  <2>6. ASSUME NEW k \in 0 .. m PROVE h[k] = IF k \in Base THEN first[k] ELSE step[<<k, h[down[k]]>>]
    <3>1. CASE k = m
      <4>1. m \notin Base => h[down[m]] = g[down[m]]
        BY <2>3, <2>4
      <4> QED
        BY <2>4, <3>1, <4>1 DEF v
    <3>2. CASE k # m
      <4>1. k \in 0 .. m - 1 /\ k \in 0 .. n
        BY <1>2, <2>3, <3>2
      <4>2. h[k] = g[k] /\ (k \notin Base => down[k] \in 0 .. m - 1)
        BY <2>3, <2>4, <4>1
      <4>3. k \notin Base => h[down[k]] = g[down[k]]
        BY <2>4, <4>2
      <4> QED
        BY <2>2, <4>1, <4>2, <4>3
    <3> QED
      BY <3>1, <3>2
  <2> QED
    BY <1>2, <2>5, <2>6
<1> QED
  BY <1>2, <1>3, <1>4

\* Two functions that are alike wherever they are alike below.
Follows(g, h, n) == \A k \in 0 .. n : (\A j \in 0 .. k - 1 : g[j] = h[j]) => g[k] = h[k]

\* They are alike: only one function does what a recursion says.
LEMMA OneValue ==
  ASSUME NEW n \in Nat, NEW g, NEW h, Follows(g, h, n)
  PROVE  \A k \in 0 .. n : g[k] = h[k]
<1> DEFINE Bad == {k \in 0 .. n : g[k] # h[k]}
<1> SUFFICES ASSUME Bad # {} PROVE FALSE
  OBVIOUS
<1>1. Bad \in SUBSET Nat
  OBVIOUS
<1> HIDE DEF Bad
<1>2. PICK k \in Bad : \A j \in Bad : k <= j
  BY <1>1, Least
<1>3. k \in 0 .. n /\ \A j \in 0 .. k - 1 : g[j] = h[j]
  BY <1>2 DEF Bad
<1> QED
  BY <1>2, <1>3 DEF Bad, Follows

\* A loop over n characters computes a function of how many it has read.
Loops(g, n, b, step) == g[0] = b /\ \A k \in 1 .. n : g[k] = step[<<k, g[k - 1]>>]

Loopable(n, S, b, step) == b \in S /\ step \in [(1 .. n) \X S -> S]

\* Such a function there is.
LEMMA Loop ==
  ASSUME NEW n \in Nat, NEW S, NEW b, NEW step, Loopable(n, S, b, step)
  PROVE  \E g \in [0 .. n -> S] : Loops(g, n, b, step)
<1> USE DEF Loopable
<1> PICK first : first = [k \in 0 .. n |-> b]
  OBVIOUS
<1> PICK down : down = [k \in 0 .. n |-> IF k = 0 THEN 0 ELSE k - 1]
  OBVIOUS
<1> PICK next : next = [p \in (0 .. n) \X S |-> IF p[1] = 0 THEN b ELSE step[<<p[1], p[2]>>]]
  OBVIOUS
<1>1. \A k \in 0 .. n, v \in S : next[<<k, v>>] = IF k = 0 THEN b ELSE step[<<k, v>>]
  OBVIOUS
<1>2. \A k \in 0 .. n, v \in S : next[<<k, v>>] \in S
  <2> SUFFICES ASSUME NEW k \in 0 .. n, NEW v \in S PROVE next[<<k, v>>] \in S
    OBVIOUS
  <2>1. k # 0 => <<k, v>> \in (1 .. n) \X S
    OBVIOUS
  <2> QED
    BY <1>1, <2>1
<1>3. Descends(n, S, {0}, first, down, next)
  <2>1. first \in [0 .. n -> S] /\ down \in [0 .. n -> Nat]
    OBVIOUS
  <2>2. next \in [(0 .. n) \X S -> S]
    <3>1. \A p \in (0 .. n) \X S : p[1] \in 0 .. n /\ p[2] \in S /\ p = <<p[1], p[2]>>
      OBVIOUS
    <3>2. \A p \in (0 .. n) \X S : next[p] \in S
      BY <1>2, <3>1
    <3> QED
      BY <3>2
  <2>3. \A k \in 0 .. n : k \notin {0} => down[k] < k
    OBVIOUS
  <2> QED
    BY <2>1, <2>2, <2>3 DEF Descends
<1>4. PICK g \in [0 .. n -> S] : Computes(g, n, {0}, first, down, next)
  BY <1>3, Recursion
<1>5. g[0] = b
  <2>1. 0 \in 0 .. n /\ first[0] = b
    OBVIOUS
  <2> QED
    BY <1>4, <2>1 DEF Computes
<1>6. ASSUME NEW k \in 1 .. n PROVE g[k] = step[<<k, g[k - 1]>>]
  <2>1. k \in 0 .. n /\ k # 0 /\ k - 1 \in 0 .. n /\ down[k] = k - 1
    OBVIOUS
  <2> QED
    BY <1>1, <1>4, <2>1 DEF Computes
<1> QED
  BY <1>5, <1>6 DEF Loops
-----------------------------------------------------------------------------
(* The values numeric identifiers stand for.                               *)

\* Characters are numbers.
LEMMA ByteIsInt ==
  ASSUME NEW id \in Seq(Bytes)
  PROVE  Len(id) \in Nat /\ \A i \in 1 .. Len(id) : id[i] \in Int /\ id[i] \in Bytes
<1>1. \A c \in Bytes : c \in Int
  BY DEF Bytes
<1> QED
  BY <1>1

\* The values of the beginnings of an identifier, and what the code reads of them.
Values(id) ==
  CHOOSE value : value = [i \in 0 .. Len(id) |-> IF i = 0 THEN 0 ELSE value[i - 1] * 10 + (id[i] - 48)]

Results(id) ==
  CHOOSE result : result =
    [i \in 0 .. Len(id) |-> IF i = 0 THEN 0 ELSE (result[i - 1] * 10 + (id[i] - 48)) % Modulus]

\* Value adds one digit after the other.
LEMMA ValuesOf ==
  ASSUME NEW id \in Seq(Bytes)
  PROVE  /\ Values(id) \in [0 .. Len(id) -> Int] /\ Values(id)[0] = 0
         /\ \A i \in 1 .. Len(id) : Values(id)[i] = Values(id)[i - 1] * 10 + (id[i] - 48)
         /\ Value(id) = Values(id)[Len(id)] /\ Value(id) \in Int
<1> PICK n \in Nat : n = Len(id)
  BY ByteIsInt
<1>1. \A i \in 1 .. n : id[i] \in Int
  BY ByteIsInt
<1> PICK step : step = [p \in (1 .. n) \X Int |-> p[2] * 10 + (id[p[1]] - 48)]
  OBVIOUS
<1>2. Loopable(n, Int, 0, step)
  <2>1. step \in [(1 .. n) \X Int -> Int]
    BY <1>1
  <2>2. 0 \in Int
    OBVIOUS
  <2> QED
    BY <2>1, <2>2 DEF Loopable
<1>3. PICK g \in [0 .. n -> Int] : Loops(g, n, 0, step)
  BY <1>2, Loop
<1>4. g[0] = 0 /\ \A k \in 1 .. n : g[k] = g[k - 1] * 10 + (id[k] - 48)
  <2> SUFFICES ASSUME NEW k \in 1 .. n PROVE g[k] = g[k - 1] * 10 + (id[k] - 48)
    BY <1>3 DEF Loops
  <2>1. k - 1 \in 0 .. n
    OBVIOUS
  <2>2. <<k, g[k - 1]>> \in (1 .. n) \X Int
    BY <2>1
  <2> QED
    BY <1>3, <2>2 DEF Loops
<1> DEFINE P(h) == h = [i \in 0 .. n |-> IF i = 0 THEN 0 ELSE h[i - 1] * 10 + (id[i] - 48)]
<1>5. P(g)
  BY <1>4
<1> PICK v : v = Values(id)
  OBVIOUS
<1>6. P(v)
  <2> HIDE DEF P
  <2>1. Values(id) = CHOOSE h : P(h)
    BY DEF Values, P
  <2> QED
    BY Zenon, <1>5, <2>1
<1>7. \A k \in 0 .. n : v[k] = IF k = 0 THEN 0 ELSE v[k - 1] * 10 + (id[k] - 48)
  BY <1>6
<1>8. Follows(g, v, n)
  <2> HIDE DEF P
  <2> SUFFICES ASSUME NEW k \in 0 .. n, \A j \in 0 .. k - 1 : g[j] = v[j]
               PROVE  g[k] = v[k]
    BY DEF Follows
  <2>1. CASE k = 0
    BY <1>4, <1>7, <2>1
  <2>2. CASE k # 0
    <3>1. k \in 1 .. n /\ g[k - 1] = v[k - 1]
      BY <2>2
    <3>2. g[k] = g[k - 1] * 10 + (id[k] - 48)
      BY <1>4, <3>1
    <3>3. v[k] = v[k - 1] * 10 + (id[k] - 48)
      BY <1>7, <2>2
    <3> QED
      BY <3>1, <3>2, <3>3
  <2> QED
    BY <2>1, <2>2
<1>9. v = g
  <2> HIDE DEF P
  <2>1. \A k \in 0 .. n : g[k] = v[k]
    BY <1>8, OneValue
  <2> QED
    BY <1>6, <2>1 DEF P
<1>10. Value(id) = Values(id)[n]
  BY DEF Value, Values
<1>11. n \in 0 .. n /\ v \in [0 .. n -> Int] /\ v[n] \in Int
  BY <1>9
<1> HIDE DEF P
<1> QED
  BY <1>4, <1>9, <1>10, <1>11

\* parse_numeric does as much in an integer that wraps.
LEMMA ResultsOf ==
  ASSUME NEW id \in Seq(Bytes)
  PROVE  /\ Results(id) \in [0 .. Len(id) -> Int] /\ Results(id)[0] = 0
         /\ \A i \in 1 .. Len(id) : Results(id)[i] = (Results(id)[i - 1] * 10 + (id[i] - 48)) % Modulus
         /\ parse_numeric(id) = Results(id)[Len(id)] /\ parse_numeric(id) \in Int
<1> PICK n \in Nat : n = Len(id)
  BY ByteIsInt
<1>1. \A i \in 1 .. n : id[i] \in Int
  BY ByteIsInt
<1> PICK step : step = [p \in (1 .. n) \X Int |-> (p[2] * 10 + (id[p[1]] - 48)) % Modulus]
  OBVIOUS
<1>2. Loopable(n, Int, 0, step)
  <2>1. step \in [(1 .. n) \X Int -> Int]
    BY <1>1
  <2>2. 0 \in Int
    OBVIOUS
  <2> QED
    BY <2>1, <2>2 DEF Loopable
<1>3. PICK g \in [0 .. n -> Int] : Loops(g, n, 0, step)
  BY <1>2, Loop
<1>4. g[0] = 0 /\ \A k \in 1 .. n : g[k] = (g[k - 1] * 10 + (id[k] - 48)) % Modulus
  <2> SUFFICES ASSUME NEW k \in 1 .. n PROVE g[k] = (g[k - 1] * 10 + (id[k] - 48)) % Modulus
    BY <1>3 DEF Loops
  <2>1. k - 1 \in 0 .. n
    OBVIOUS
  <2>2. <<k, g[k - 1]>> \in (1 .. n) \X Int
    BY <2>1
  <2> QED
    BY <1>3, <2>2 DEF Loops
<1> DEFINE P(h) == h = [i \in 0 .. n |-> IF i = 0 THEN 0 ELSE (h[i - 1] * 10 + (id[i] - 48)) % Modulus]
<1>5. P(g)
  BY <1>4
<1> PICK v : v = Results(id)
  OBVIOUS
<1>6. P(v)
  <2> HIDE DEF P
  <2>1. Results(id) = CHOOSE h : P(h)
    BY DEF Results, P
  <2> QED
    BY Zenon, <1>5, <2>1
<1>7. \A k \in 0 .. n : v[k] = IF k = 0 THEN 0 ELSE (v[k - 1] * 10 + (id[k] - 48)) % Modulus
  BY <1>6
<1>8. Follows(g, v, n)
  <2> HIDE DEF P
  <2> SUFFICES ASSUME NEW k \in 0 .. n, \A j \in 0 .. k - 1 : g[j] = v[j]
               PROVE  g[k] = v[k]
    BY DEF Follows
  <2>1. CASE k = 0
    BY <1>4, <1>7, <2>1
  <2>2. CASE k # 0
    <3>1. k \in 1 .. n /\ g[k - 1] = v[k - 1]
      BY <2>2
    <3>2. g[k] = (g[k - 1] * 10 + (id[k] - 48)) % Modulus
      BY <1>4, <3>1
    <3>3. v[k] = (v[k - 1] * 10 + (id[k] - 48)) % Modulus
      BY <1>7, <2>2
    <3> QED
      BY <3>1, <3>2, <3>3
  <2> QED
    BY <2>1, <2>2
<1>9. v = g
  <2> HIDE DEF P
  <2>1. \A k \in 0 .. n : g[k] = v[k]
    BY <1>8, OneValue
  <2> QED
    BY <1>6, <2>1 DEF P
<1>10. parse_numeric(id) = Results(id)[n]
  BY DEF parse_numeric, Results
<1>11. n \in 0 .. n /\ v \in [0 .. n -> Int] /\ v[n] \in Int
  BY <1>9
<1> HIDE DEF P
<1> QED
  BY <1>4, <1>9, <1>10, <1>11
-----------------------------------------------------------------------------
(* Cutting at the dots.                                                    *)

\* What split_identifiers has when it has read each number of characters.
Cut == [out : Seq(Seq(Bytes)), piece : Seq(Bytes)]
Start == [out |-> <<>>, piece |-> <<>>]

Cuts(s) == CHOOSE cut : cut = [i \in 0 .. Len(s) |-> IF i = 0 THEN Start ELSE TakeChar(cut[i - 1], s[i])]

\* A character on, there are still pieces.
LEMMA TakeCharType ==
  ASSUME NEW acc \in Cut, NEW c \in Bytes
  PROVE  TakeChar(acc, c) \in Cut
<1>1. Append(acc.out, acc.piece) \in Seq(Seq(Bytes)) /\ Append(acc.piece, c) \in Seq(Bytes)
  BY AppendProperties DEF Cut
<1>2. <<>> \in Seq(Bytes)
  OBVIOUS
<1> QED
  BY <1>1, <1>2 DEF TakeChar, Cut

\* split_identifiers takes one character after the other.
LEMMA CutsOf ==
  ASSUME NEW s \in Seq(Bytes)
  PROVE  /\ Cuts(s) \in [0 .. Len(s) -> Cut] /\ Cuts(s)[0] = Start
         /\ \A i \in 1 .. Len(s) : Cuts(s)[i] = TakeChar(Cuts(s)[i - 1], s[i])
         /\ split_identifiers(s) = Append(Cuts(s)[Len(s)].out, Cuts(s)[Len(s)].piece)
         /\ split_identifiers(s) \in Seq(Seq(Bytes))
<1> PICK n \in Nat : n = Len(s)
  BY ByteIsInt
<1>1. \A i \in 1 .. n : s[i] \in Bytes
  BY ByteIsInt
<1> PICK step : step = [p \in (1 .. n) \X Cut |-> TakeChar(p[2], s[p[1]])]
  OBVIOUS
<1>2. Loopable(n, Cut, Start, step)
  <2>1. step \in [(1 .. n) \X Cut -> Cut]
    BY <1>1, TakeCharType
  <2>2. Start \in Cut
    BY DEF Start, Cut
  <2> QED
    BY <2>1, <2>2 DEF Loopable
<1>3. PICK g \in [0 .. n -> Cut] : Loops(g, n, Start, step)
  BY <1>2, Loop
<1>4. g[0] = Start /\ \A k \in 1 .. n : g[k] = TakeChar(g[k - 1], s[k])
  <2> SUFFICES ASSUME NEW k \in 1 .. n PROVE g[k] = TakeChar(g[k - 1], s[k])
    BY <1>3 DEF Loops
  <2>1. k - 1 \in 0 .. n
    OBVIOUS
  <2>2. <<k, g[k - 1]>> \in (1 .. n) \X Cut
    BY <2>1
  <2> QED
    BY <1>3, <2>2 DEF Loops
<1> DEFINE P(h) == h = [i \in 0 .. n |-> IF i = 0 THEN Start ELSE TakeChar(h[i - 1], s[i])]
<1>5. P(g)
  BY <1>4
<1> PICK v : v = Cuts(s)
  OBVIOUS
<1>6. P(v)
  <2> HIDE DEF P
  <2>1. Cuts(s) = CHOOSE h : P(h)
    BY DEF Cuts, P
  <2> QED
    BY Zenon, <1>5, <2>1
<1>7. \A k \in 0 .. n : v[k] = IF k = 0 THEN Start ELSE TakeChar(v[k - 1], s[k])
  BY <1>6
<1>8. Follows(g, v, n)
  <2> HIDE DEF P
  <2> SUFFICES ASSUME NEW k \in 0 .. n, \A j \in 0 .. k - 1 : g[j] = v[j]
               PROVE  g[k] = v[k]
    BY DEF Follows
  <2>1. CASE k = 0
    BY <1>4, <1>7, <2>1
  <2>2. CASE k # 0
    <3>1. k \in 1 .. n /\ g[k - 1] = v[k - 1]
      BY <2>2
    <3>2. g[k] = TakeChar(g[k - 1], s[k])
      BY <1>4, <3>1
    <3>3. v[k] = TakeChar(v[k - 1], s[k])
      BY <1>7, <2>2
    <3> QED
      BY <3>1, <3>2, <3>3
  <2> QED
    BY <2>1, <2>2
<1>9. v = g
  <2> HIDE DEF P
  <2>1. \A k \in 0 .. n : g[k] = v[k]
    BY <1>8, OneValue
  <2> QED
    BY <1>6, <2>1 DEF P
<1>10. split_identifiers(s) = Append(Cuts(s)[n].out, Cuts(s)[n].piece)
  BY DEF split_identifiers, Cuts, Start
<1>11. n \in 0 .. n /\ v \in [0 .. n -> Cut] /\ v[n] \in Cut
  BY <1>9
<1>12. Append(v[n].out, v[n].piece) \in Seq(Seq(Bytes))
  <2>1. v[n].out \in Seq(Seq(Bytes)) /\ v[n].piece \in Seq(Bytes)
    BY <1>11 DEF Cut
  <2> QED
    BY <2>1, AppendProperties
<1> HIDE DEF P
<1> QED
  BY <1>4, <1>9, <1>10, <1>11, <1>12
-----------------------------------------------------------------------------
(* Lexicographic order.                                                    *)

Signs == {-1, 0, 1}

\* The three outcomes of comparing two integers.
LEMMA SignIs ==
  ASSUME NEW a \in Int, NEW b \in Int
  PROVE  /\ Sign(a - b) \in Signs
         /\ Sign(a - b) = 0 <=> a = b
         /\ Sign(a - b) = -1 <=> a < b
         /\ Sign(a - b) = 1 <=> a > b
BY DEF Sign, Signs

\* As the properties say it.
LEMMA MinusIs == \A a, b \in Int : a = 0 - b => a = - b
<1> SUFFICES ASSUME NEW a \in Int, NEW b \in Int, a = 0 - b PROVE a = - b
  OBVIOUS
<1>1. - b = 0 - b
  OBVIOUS
<1> QED
  BY <1>1

\* A function that compares any two of X, as an ordering does.
IsOrder(c, X) ==
  /\ c \in [X \X X -> Signs]
  /\ \A p, q \in X : c[<<p, q>>] = 0 - c[<<q, p>>]
  /\ \A p, q, r \in X : c[<<p, q>>] <= 0 /\ c[<<q, r>>] <= 0 => c[<<p, r>>] <= 0

\* What the code does of two lists whose members c compares.
CompareLists(c, x, y) ==
  FirstDifference([i \in 1 .. Shorter(x, y) |-> c[<<x[i], y[i]>>]], Sign(Len(x) - Len(y)))

\* How they compare at a position: a list that has ended comes first.
Place(c, x, y, i) ==
  IF i <= Len(x) THEN IF i <= Len(y) THEN c[<<x[i], y[i]>>] ELSE 1
                 ELSE IF i <= Len(y) THEN -1 ELSE 0

Places == Nat \ {0}

\* Position k is the first at which they differ.
Found(c, x, y, k) == Place(c, x, y, k) # 0 /\ \A i \in 1 .. k - 1 : Place(c, x, y, i) = 0

\* At each position, lists are ordered.
LEMMA PlaceOrders ==
  ASSUME NEW X, NEW c, IsOrder(c, X), NEW x \in Seq(X), NEW y \in Seq(X), NEW z \in Seq(X), NEW i \in Places
  PROVE  /\ Place(c, x, y, i) \in Signs
         /\ Place(c, x, y, i) = 0 - Place(c, y, x, i)
         /\ Place(c, x, y, i) <= 0 /\ Place(c, y, z, i) <= 0 => Place(c, x, z, i) <= 0
<1>1. \A s \in Seq(X) : Len(s) \in Nat /\ (i <= Len(s) => s[i] \in X)
  BY DEF Places
<1>2. \A p, q \in X : c[<<p, q>>] \in Signs
  <2> SUFFICES ASSUME NEW p \in X, NEW q \in X PROVE c[<<p, q>>] \in Signs
    OBVIOUS
  <2>1. <<p, q>> \in X \X X
    OBVIOUS
  <2> QED
    BY <2>1 DEF IsOrder
<1>3. Place(c, x, y, i) \in Signs
  BY <1>1, <1>2 DEF Place, Signs
<1>4. Place(c, x, y, i) = 0 - Place(c, y, x, i)
  <2>1. CASE i <= Len(x) /\ i <= Len(y)
    BY <1>1, <2>1 DEF Place, IsOrder
  <2>2. CASE ~ (i <= Len(x) /\ i <= Len(y))
    BY <1>1, <2>2 DEF Place
  <2> QED
    BY <2>1, <2>2
<1>5. Place(c, x, y, i) <= 0 /\ Place(c, y, z, i) <= 0 => Place(c, x, z, i) <= 0
  <2>1. CASE i <= Len(x) /\ i <= Len(y) /\ i <= Len(z)
    BY <1>1, <2>1 DEF Place, IsOrder
  <2>2. CASE ~ (i <= Len(x) /\ i <= Len(y) /\ i <= Len(z))
    BY <1>1, <2>2 DEF Place
  <2> QED
    BY <2>1, <2>2
<1> QED
  BY <1>3, <1>4, <1>5

\* The code finds the first position at which they differ, or says that there is none.
LEMMA ListsFound ==
  ASSUME NEW X, NEW c \in [X \X X -> Signs], NEW x \in Seq(X), NEW y \in Seq(X)
  PROVE  \/ /\ CompareLists(c, x, y) = 0
            /\ \A i \in Places : Place(c, x, y, i) = 0
            /\ Len(x) = Len(y)
         \/ \E k \in Places : CompareLists(c, x, y) = Place(c, x, y, k) /\ Found(c, x, y, k)
<1>n. PICK n \in Nat : n = Shorter(x, y)
  BY DEF Shorter
<1>c. PICK cmp : cmp = [i \in 1 .. n |-> c[<<x[i], y[i]>>]]
  OBVIOUS
<1>d. PICK differ : differ = {i \in 1 .. n : cmp[i] # 0}
  OBVIOUS
<1>1. /\ Len(x) \in Nat /\ Len(y) \in Nat /\ n <= Len(x) /\ n <= Len(y) /\ (n = Len(x) \/ n = Len(y))
      /\ DOMAIN cmp = 1 .. n
  BY <1>n, <1>c DEF Shorter
<1>2. CompareLists(c, x, y) = IF differ = {} THEN Sign(Len(x) - Len(y)) ELSE cmp[Min(differ)]
  BY <1>n, <1>c, <1>d, <1>1 DEF CompareLists, FirstDifference
<1>3. \A i \in 1 .. n : Place(c, x, y, i) = cmp[i]
  BY <1>1, <1>c DEF Place
<1>4. CASE differ = {}
  <2>1. \A i \in 1 .. n : Place(c, x, y, i) = 0
    BY <1>3, <1>4, <1>d
  <2>2. CASE Len(x) = Len(y)
    <3>1. CompareLists(c, x, y) = 0
      BY <1>1, <1>2, <1>4, <2>2, SignIs
    <3>2. ASSUME NEW i \in Places PROVE Place(c, x, y, i) = 0
      <4>1. i \in 1 .. n \/ i > n
        BY DEF Places
      <4> QED
        BY <1>1, <2>1, <2>2, <4>1 DEF Place, Places
    <3> QED
      BY <2>2, <3>1, <3>2
  <2>3. CASE Len(x) # Len(y)
    <3>1. n + 1 \in Places /\ 1 .. (n + 1) - 1 = 1 .. n
      BY DEF Places
    <3>2. CompareLists(c, x, y) = Place(c, x, y, n + 1) /\ Place(c, x, y, n + 1) # 0
      <4> PICK d : d = Sign(Len(x) - Len(y))
        OBVIOUS
      <4>s. (d = -1 <=> Len(x) < Len(y)) /\ (d = 1 <=> Len(x) > Len(y))
        BY <1>1 DEF Sign
      <4>d. CompareLists(c, x, y) = d
        BY <1>2, <1>4
      <4>1. CASE n = Len(x)
        <5>1. Len(x) < Len(y) /\ Place(c, x, y, n + 1) = -1
          BY <1>1, <2>3, <4>1 DEF Place
        <5> QED
          BY <4>s, <4>d, <5>1
      <4>2. CASE n = Len(y)
        <5>1. Len(x) > Len(y) /\ Place(c, x, y, n + 1) = 1
          BY <1>1, <2>3, <4>2 DEF Place
        <5> QED
          BY <4>s, <4>d, <5>1
      <4> QED
        BY <1>1, <4>1, <4>2
    <3>3. Found(c, x, y, n + 1)
      BY <2>1, <3>1, <3>2 DEF Found
    <3> QED
      BY <3>1, <3>2, <3>3
  <2> QED
    BY <2>2, <2>3
<1>5. CASE differ # {}
  <2>1. differ \in SUBSET Nat /\ \A i \in differ : i \in 1 .. n /\ cmp[i] # 0
    BY <1>d
  <2>2. PICK k \in differ : \A j \in differ : k <= j
    BY <1>5, <2>1, Least
  <2>3. Min(differ) \in differ /\ \A j \in differ : Min(differ) <= j
    BY <2>2 DEF Min
  <2>m. PICK m : m = Min(differ)
    OBVIOUS
  <2>4. m \in 1 .. n /\ m \in Places /\ cmp[m] # 0 /\ \A i \in 1 .. m - 1 : i \in 1 .. n /\ i \notin differ
    <3>1. m \in differ /\ m \in 1 .. n /\ cmp[m] # 0
      BY <2>1, <2>3, <2>m
    <3>2. ASSUME NEW i \in 1 .. m - 1 PROVE i \in 1 .. n /\ i \notin differ
      <4>1. i \in 1 .. n /\ ~ (m <= i)
        BY <3>1
      <4> QED
        BY <2>3, <2>m, <4>1
    <3> QED
      BY <3>1, <3>2 DEF Places
  <2>5. Found(c, x, y, m)
    <3>1. \A i \in 1 .. m - 1 : cmp[i] = 0
      BY <1>d, <2>4
    <3> QED
      BY <1>3, <2>4, <3>1 DEF Found
  <2>6. CompareLists(c, x, y) = Place(c, x, y, m)
    BY <1>2, <1>3, <1>5, <2>4, <2>m
  <2> QED
    BY <2>4, <2>5, <2>6
<1> QED
  BY <1>4, <1>5

\* Lists are ordered when their members are.
LEMMA ListsOrder ==
  ASSUME NEW X, NEW c, IsOrder(c, X), NEW x \in Seq(X), NEW y \in Seq(X), NEW z \in Seq(X)
  PROVE  /\ CompareLists(c, x, y) \in Signs
         /\ CompareLists(c, x, y) = 0 - CompareLists(c, y, x)
         /\ CompareLists(c, x, y) <= 0 /\ CompareLists(c, y, z) <= 0 => CompareLists(c, x, z) <= 0
<1> DEFINE L(p, q) == CompareLists(c, p, q)
           D(p, q, i) == Place(c, p, q, i)
           S == {x, y, z}
<1>1. ASSUME NEW p \in S, NEW q \in S
      PROVE  \/ L(p, q) = 0 /\ \A i \in Places : D(p, q, i) = 0
             \/ \E k \in Places : L(p, q) = D(p, q, k) /\ D(p, q, k) # 0 /\ \A i \in 1 .. k - 1 : D(p, q, i) = 0
  <2>1. p \in Seq(X) /\ q \in Seq(X) /\ c \in [X \X X -> Signs]
    BY DEF IsOrder
  <2>2. \/ CompareLists(c, p, q) = 0 /\ \A i \in Places : Place(c, p, q, i) = 0
        \/ \E k \in Places : CompareLists(c, p, q) = Place(c, p, q, k) /\ Found(c, p, q, k)
    <3> HIDE DEF S
    <3> QED
      BY Zenon, <2>1, ListsFound
  <2> QED
    BY Zenon, <2>2 DEF Found
<1>2. ASSUME NEW p \in S, NEW q \in S, NEW t \in S, NEW i \in Places
      PROVE  /\ D(p, q, i) \in Signs /\ D(p, q, i) = 0 - D(q, p, i)
             /\ D(p, q, i) <= 0 /\ D(q, t, i) <= 0 => D(p, t, i) <= 0
  <2>1. p \in Seq(X) /\ q \in Seq(X) /\ t \in Seq(X)
    OBVIOUS
  <2> QED
    BY <2>1, PlaceOrders
<1>3. ASSUME NEW k \in Places, NEW m \in Places
      PROVE  /\ k \in Nat /\ m \in Nat /\ k >= 1 /\ m >= 1
             /\ k < m => k \in 1 .. m - 1
             /\ m < k => m \in 1 .. k - 1
  BY DEF Places
<1> HIDE DEF S, L, D
<1>4. ASSUME NEW p \in S, NEW q \in S PROVE L(p, q) \in Signs /\ L(p, q) = 0 - L(q, p)
  <2>1. CASE L(p, q) = 0 /\ \A i \in Places : D(p, q, i) = 0
    <3>1. \A i \in Places : D(q, p, i) = 0
      BY <1>2, <2>1 DEF Signs
    <3>2. L(q, p) = 0
      BY <1>1, <3>1
    <3>3. 0 \in Signs /\ 0 = 0 - 0
      BY DEF Signs
    <3> QED
      BY <2>1, <3>2, <3>3
  <2>2. ASSUME NEW k \in Places, L(p, q) = D(p, q, k), D(p, q, k) # 0,
               \A i \in 1 .. k - 1 : D(p, q, i) = 0
        PROVE  L(p, q) \in Signs /\ L(p, q) = 0 - L(q, p)
    <3>1. D(p, q, k) \in Signs /\ D(p, q, k) = 0 - D(q, p, k) /\ D(q, p, k) \in Signs
      BY <1>2
    <3>2. D(q, p, k) # 0
      BY <2>2, <3>1 DEF Signs
    <3>3. PICK m \in Places : L(q, p) = D(q, p, m) /\ D(q, p, m) # 0 /\ \A i \in 1 .. m - 1 : D(q, p, i) = 0
      BY <1>1, <3>2
    <3>4. D(p, q, m) \in Signs /\ D(p, q, m) = 0 - D(q, p, m) /\ D(q, p, m) \in Signs
      BY <1>2
    <3>5. ~ (k < m) /\ ~ (m < k)
      BY <1>3, <2>2, <3>2, <3>3, <3>4 DEF Signs
    <3>6. k = m
      BY <1>3, <3>5
    <3>7. L(q, p) = D(q, p, k)
      BY <3>3, <3>6
    <3>8. L(p, q) \in Signs /\ D(p, q, k) = 0 - L(q, p)
      BY <2>2, <3>1, <3>7
    <3> QED
      BY <2>2, <3>8
  <2> QED
    BY <1>1, <2>1, <2>2
<1>5. ASSUME NEW p \in S, NEW q \in S, NEW t \in S, L(p, q) <= 0, L(q, t) <= 0 PROVE L(p, t) <= 0
  <2> SUFFICES ASSUME ~ (L(p, t) <= 0) PROVE FALSE
    OBVIOUS
  <2>1. PICK k \in Places : D(p, t, k) = 1 /\ \A i \in 1 .. k - 1 : D(p, t, i) = 0
    BY <1>1, <1>2 DEF Signs
  \* Up to a place a, and to all of them if a is 0, nothing but what is in order.
  <2>2. ASSUME NEW u \in S, NEW w \in S, L(u, w) <= 0
        PROVE  \E a \in Nat : /\ \A i \in Places : a = 0 \/ i <= a => D(u, w, i) <= 0
                              /\ a # 0 => a \in Places /\ D(u, w, a) = -1
    <3>1. CASE L(u, w) = 0 /\ \A i \in Places : D(u, w, i) = 0
      BY <3>1
    <3>2. ASSUME NEW a \in Places, L(u, w) = D(u, w, a), D(u, w, a) # 0,
                 \A i \in 1 .. a - 1 : D(u, w, i) = 0
          PROVE  /\ a \in Nat /\ a # 0 /\ D(u, w, a) = -1
                 /\ \A i \in Places : i <= a => D(u, w, i) <= 0
      <4>1. D(u, w, a) = -1 /\ a \in Nat /\ a # 0
        BY <1>2, <1>3, <2>2, <3>2 DEF Signs
      <4>2. ASSUME NEW i \in Places, i <= a PROVE D(u, w, i) <= 0
        <5>1. i = a \/ i \in 1 .. a - 1
          BY <1>3, <4>2
        <5> QED
          BY <3>2, <4>1, <5>1
      <4> QED
        BY <4>1, <4>2
    <3> QED
      BY <1>1, <3>1, <3>2
  <2>3. PICK a \in Nat : /\ \A i \in Places : a = 0 \/ i <= a => D(p, q, i) <= 0
                         /\ a # 0 => a \in Places /\ D(p, q, a) = -1
    BY <1>5, <2>2
  <2>4. PICK b \in Nat : /\ \A i \in Places : b = 0 \/ i <= b => D(q, t, i) <= 0
                         /\ b # 0 => b \in Places /\ D(q, t, b) = -1
    BY <1>5, <2>2
  <2>5. k \in Nat
    BY <1>3
  <2>6. CASE (a = 0 \/ k <= a) /\ (b = 0 \/ k <= b)
    <3>1. D(p, q, k) <= 0 /\ D(q, t, k) <= 0
      BY <2>3, <2>4, <2>6
    <3> QED
      BY <1>2, <2>1, <3>1
  <2>7. CASE a # 0 /\ a < k /\ (b = 0 \/ a <= b)
    <3>1. D(p, q, a) = -1 /\ D(q, t, a) <= 0 /\ a \in Places
      BY <2>3, <2>4, <2>7
    <3>2. D(p, t, a) = 0
      BY <1>3, <2>1, <2>7, <3>1
    <3>3. D(t, p, a) <= 0 /\ D(q, p, a) = 1
      BY <1>2, <3>1, <3>2 DEF Signs
    <3> QED
      BY <1>2, <3>1, <3>3
  <2>8. CASE b # 0 /\ b < k /\ (a = 0 \/ b <= a)
    <3>1. D(q, t, b) = -1 /\ D(p, q, b) <= 0 /\ b \in Places
      BY <2>3, <2>4, <2>8
    <3>2. D(p, t, b) = 0
      BY <1>3, <2>1, <2>8, <3>1
    <3>3. D(t, p, b) <= 0 /\ D(t, q, b) = 1
      BY <1>2, <3>1, <3>2 DEF Signs
    <3> QED
      BY <1>2, <3>1, <3>3
  <2> QED
    BY <2>3, <2>4, <2>5, <2>6, <2>7, <2>8
<1>6. x \in S /\ y \in S /\ z \in S
  BY DEF S
<1> QED
  BY <1>4, <1>5, <1>6 DEF L
-----------------------------------------------------------------------------
(* OrderingLaws.                                                           *)

Identifiers == Seq(Bytes)

\* How characters compare, and how identifiers do.
CodeOrder == [p \in Bytes \X Bytes |-> Sign(p[1] - p[2])]
IdentifierOrder == [p \in Identifiers \X Identifiers |-> CompareIdentifier(p[1], p[2])]

\* Characters are ordered by their codes.
LEMMA CodesOrdered == IsOrder(CodeOrder, Bytes)
<1>1. \A a \in Bytes : a \in Int
  BY DEF Bytes
<1>2. \A a, b \in Bytes : CodeOrder[<<a, b>>] = Sign(a - b)
  BY DEF CodeOrder
<1>3. \A a, b \in Bytes : Sign(a - b) \in Signs
  BY <1>1, SignIs
<1>4. CodeOrder \in [Bytes \X Bytes -> Signs]
  <2>1. \A p \in Bytes \X Bytes : p[1] \in Bytes /\ p[2] \in Bytes
    OBVIOUS
  <2> QED
    BY <1>3, <2>1 DEF CodeOrder
<1>5. ASSUME NEW a \in Bytes, NEW b \in Bytes PROVE CodeOrder[<<a, b>>] = 0 - CodeOrder[<<b, a>>]
  <2>1. a \in Int /\ b \in Int
    BY <1>1
  <2>2. Sign(a - b) = 0 - Sign(b - a)
    BY <2>1 DEF Sign
  <2> QED
    BY <1>2, <2>2
<1>6. \A a, b, c \in Bytes :
        CodeOrder[<<a, b>>] <= 0 /\ CodeOrder[<<b, c>>] <= 0 => CodeOrder[<<a, c>>] <= 0
  BY <1>1, <1>2 DEF Sign
<1> QED
  BY <1>4, <1>5, <1>6 DEF IsOrder

\* string_view::compare is the comparison of two lists of characters.
LEMMA TextsAreLists ==
  ASSUME NEW x \in Identifiers, NEW y \in Identifiers
  PROVE  CompareText(x, y) = CompareLists(CodeOrder, x, y)
<1>1. PICK n \in Nat : n = Shorter(x, y) /\ n <= Len(x) /\ n <= Len(y)
  BY DEF Shorter, Identifiers
<1>2. \A i \in 1 .. n : x[i] \in Bytes /\ y[i] \in Bytes
  BY <1>1 DEF Identifiers
<1>3. \A i \in 1 .. n : CodeOrder[<<x[i], y[i]>>] = Sign(x[i] - y[i])
  BY <1>2 DEF CodeOrder
<1>4. [i \in 1 .. Shorter(x, y) |-> CodeOrder[<<x[i], y[i]>>]]
        = [i \in 1 .. Shorter(x, y) |-> Sign(x[i] - y[i])]
  BY <1>1, <1>3
<1> QED
  BY <1>4, Zenon DEF CompareText, CompareLists

\* So it is an ordering.
LEMMA TextsOrdered ==
  ASSUME NEW x \in Identifiers, NEW y \in Identifiers, NEW z \in Identifiers
  PROVE  /\ CompareText(x, y) \in Signs
         /\ CompareText(x, y) = 0 - CompareText(y, x)
         /\ CompareText(x, y) <= 0 /\ CompareText(y, z) <= 0 => CompareText(x, z) <= 0
BY TextsAreLists, CodesOrdered, ListsOrder DEF Identifiers

\* Whatever the identifiers hold, and whether their numbers fit or not.
LEMMA IdentifiersOrdered == IsOrder(IdentifierOrder, Identifiers)
<1>1. \A x, y \in Identifiers : IdentifierOrder[<<x, y>>] = CompareIdentifier(x, y)
  BY DEF IdentifierOrder
<1>2. \A x \in Identifiers : parse_numeric(x) \in Int
  BY ResultsOf DEF Identifiers
<1>3. ASSUME NEW x \in Identifiers, NEW y \in Identifiers
      PROVE  /\ CompareIdentifier(x, y) \in Signs
             /\ CompareIdentifier(x, y) = 0 - CompareIdentifier(y, x)
  <2>1. CompareText(x, y) \in Signs /\ CompareText(x, y) = 0 - CompareText(y, x)
    BY TextsOrdered
  <2>2. PICK a \in Int, b \in Int : a = parse_numeric(x) /\ b = parse_numeric(y)
    BY <1>2
  <2>3. Sign(a - b) \in Signs /\ Sign(a - b) = 0 - Sign(b - a)
    BY DEF Sign, Signs
  <2> QED
    BY <2>1, <2>2, <2>3 DEF CompareIdentifier, Signs
<1>4. ASSUME NEW x \in Identifiers, NEW y \in Identifiers, NEW z \in Identifiers,
             CompareIdentifier(x, y) <= 0, CompareIdentifier(y, z) <= 0
      PROVE  CompareIdentifier(x, z) <= 0
  <2>1. CompareText(x, y) <= 0 /\ CompareText(y, z) <= 0 => CompareText(x, z) <= 0
    BY TextsOrdered
  <2>2. PICK a \in Int, b \in Int, d \in Int :
          a = parse_numeric(x) /\ b = parse_numeric(y) /\ d = parse_numeric(z)
    BY <1>2
  <2>3. Sign(a - b) <= 0 /\ Sign(b - d) <= 0 => Sign(a - d) <= 0
    BY DEF Sign
  <2> QED
    BY <1>4, <2>1, <2>2, <2>3 DEF CompareIdentifier
<1>5. IdentifierOrder \in [Identifiers \X Identifiers -> Signs]
  <2>1. \A p \in Identifiers \X Identifiers : p[1] \in Identifiers /\ p[2] \in Identifiers
    OBVIOUS
  <2> QED
    BY <1>3, <2>1 DEF IdentifierOrder
<1> QED
  BY <1>1, <1>3, <1>4, <1>5 DEF IsOrder

\* compare_pre_release is the comparison of two lists of identifiers.
LEMMA PreReleasesAreLists ==
  ASSUME NEW a \in Seq(Bytes), NEW b \in Seq(Bytes)
  PROVE  /\ split_identifiers(a) \in Seq(Identifiers) /\ split_identifiers(b) \in Seq(Identifiers)
         /\ compare_pre_release(a, b) = CompareLists(IdentifierOrder, split_identifiers(a), split_identifiers(b))
<1>1. PICK x \in Seq(Identifiers), y \in Seq(Identifiers) : x = split_identifiers(a) /\ y = split_identifiers(b)
  BY CutsOf DEF Identifiers
<1>2. PICK n \in Nat : n = Shorter(x, y) /\ n <= Len(x) /\ n <= Len(y)
  <2>1. PICK l \in Nat, m \in Nat : l = Len(x) /\ m = Len(y)
    BY <1>1, LenProperties
  <2> QED
    BY <2>1 DEF Shorter
<1>3. \A i \in 1 .. n : x[i] \in Identifiers /\ y[i] \in Identifiers
  BY <1>2
<1>4. \A i \in 1 .. n : IdentifierOrder[<<x[i], y[i]>>] = CompareIdentifier(x[i], y[i])
  BY <1>3 DEF IdentifierOrder
<1>5. [i \in 1 .. Shorter(x, y) |-> IdentifierOrder[<<x[i], y[i]>>]]
        = [i \in 1 .. Shorter(x, y) |-> CompareIdentifier(x[i], y[i])]
  BY <1>2, <1>4
<1>6. compare_pre_release(a, b) = CompareLists(IdentifierOrder, x, y)
  BY <1>1, <1>5, Zenon DEF compare_pre_release, CompareLists
<1> QED
  BY <1>1, <1>6

\* So it is an ordering.
LEMMA PreReleasesOrdered ==
  ASSUME NEW a \in Seq(Bytes), NEW b \in Seq(Bytes), NEW c \in Seq(Bytes)
  PROVE  /\ compare_pre_release(a, b) \in Signs
         /\ compare_pre_release(a, b) = 0 - compare_pre_release(b, a)
         /\ compare_pre_release(a, b) <= 0 /\ compare_pre_release(b, c) <= 0
              => compare_pre_release(a, c) <= 0
BY PreReleasesAreLists, IdentifiersOrdered, ListsOrder

\* A version as the program may make it.
Version == [major : Int, minor : Int, patch : Int, pre_release : Seq(Bytes), build : Seq(Bytes)]

\* What is compared when the three numbers are equal.
Rest(v, w) ==
  CASE v.pre_release = <<>> /\ w.pre_release = <<>> -> 0
    [] v.pre_release = <<>> /\ w.pre_release # <<>> -> 1
    [] v.pre_release # <<>> /\ w.pre_release = <<>> -> -1
    [] OTHER -> compare_pre_release(v.pre_release, w.pre_release)

\* With a release after all its pre-releases, it still is one.
LEMMA RestOrdered ==
  ASSUME NEW u \in Version, NEW v \in Version, NEW w \in Version
  PROVE  /\ Rest(v, w) \in Signs
         /\ Rest(v, w) = 0 - Rest(w, v)
         /\ Rest(u, v) <= 0 /\ Rest(v, w) <= 0 => Rest(u, w) <= 0
<1>1. PICK a \in Seq(Bytes), b \in Seq(Bytes), c \in Seq(Bytes) :
        a = u.pre_release /\ b = v.pre_release /\ c = w.pre_release
  BY DEF Version
<1>2. /\ compare_pre_release(b, c) \in Signs
      /\ compare_pre_release(b, c) = 0 - compare_pre_release(c, b)
      /\ compare_pre_release(a, b) <= 0 /\ compare_pre_release(b, c) <= 0
           => compare_pre_release(a, c) <= 0
  BY PreReleasesOrdered
<1> QED
  BY <1>1, <1>2 DEF Rest, Signs

\* The numbers are compared one after the other.
LEMMA SpaceshipIs ==
  ASSUME NEW v \in Version, NEW w \in Version
  PROVE  Spaceship(v, w) = IF v.major # w.major THEN Sign(v.major - w.major)
                           ELSE IF v.minor # w.minor THEN Sign(v.minor - w.minor)
                           ELSE IF v.patch # w.patch THEN Sign(v.patch - w.patch)
                           ELSE Rest(v, w)
<1>1. PICK core : core = <<Sign(v.major - w.major), Sign(v.minor - w.minor), Sign(v.patch - w.patch)>>
  OBVIOUS
<1>2. PICK differ : differ = {i \in DOMAIN core : core[i] # 0}
  OBVIOUS
<1>3. Spaceship(v, w) = IF differ = {} THEN Rest(v, w) ELSE core[Min(differ)]
  BY <1>1, <1>2, Zenon DEF Spaceship, FirstDifference, Rest
<1>4. /\ DOMAIN core = 1 .. 3
      /\ core[1] = Sign(v.major - w.major) /\ core[2] = Sign(v.minor - w.minor) /\ core[3] = Sign(v.patch - w.patch)
  BY <1>1
<1>5. /\ core[1] = 0 <=> v.major = w.major
      /\ core[2] = 0 <=> v.minor = w.minor
      /\ core[3] = 0 <=> v.patch = w.patch
  <2>1. /\ v.major \in Int /\ v.minor \in Int /\ v.patch \in Int
        /\ w.major \in Int /\ w.minor \in Int /\ w.patch \in Int
    BY DEF Version
  <2> QED
    BY <1>4, <2>1, SignIs
<1>6. ASSUME NEW k \in differ, \A j \in differ : k <= j PROVE Min(differ) = k
  <2>1. \A j \in differ : j \in Int
    BY <1>2, <1>4
  <2>2. Min(differ) \in differ /\ \A j \in differ : Min(differ) <= j
    BY <1>6 DEF Min
  <2> QED
    BY <1>6, <2>1, <2>2
<1>7. \A i : i \in differ <=> i \in 1 .. 3 /\ core[i] # 0
  BY <1>2, <1>4
<1>8. CASE core[1] # 0
  <2>1. Min(differ) = 1 /\ 1 \in differ
    BY <1>6, <1>7, <1>8
  <2> QED
    BY <1>3, <1>4, <1>5, <1>8, <2>1
<1>9. CASE core[1] = 0 /\ core[2] # 0
  <2>1. Min(differ) = 2 /\ 2 \in differ
    BY <1>6, <1>7, <1>9
  <2> QED
    BY <1>3, <1>4, <1>5, <1>9, <2>1
<1>10. CASE core[1] = 0 /\ core[2] = 0 /\ core[3] # 0
  <2>1. Min(differ) = 3 /\ 3 \in differ
    BY <1>6, <1>7, <1>10
  <2> QED
    BY <1>3, <1>4, <1>5, <1>10, <2>1
<1>11. CASE core[1] = 0 /\ core[2] = 0 /\ core[3] = 0
  <2>1. differ = {}
    BY <1>7, <1>11
  <2> QED
    BY <1>3, <1>4, <1>5, <1>11, <2>1
<1> QED
  BY <1>8, <1>9, <1>10, <1>11

\* <=> is an ordering of all versions.
LEMMA SpaceshipOrders ==
  ASSUME NEW u \in Version, NEW v \in Version, NEW w \in Version
  PROVE  /\ Spaceship(v, w) \in Signs
         /\ Spaceship(v, w) = 0 - Spaceship(w, v)
         /\ Spaceship(u, v) <= 0 /\ Spaceship(v, w) <= 0 => Spaceship(u, w) <= 0
<1>1. /\ Rest(v, w) \in Signs /\ Rest(v, w) = 0 - Rest(w, v)
      /\ Rest(u, v) <= 0 /\ Rest(v, w) <= 0 => Rest(u, w) <= 0
  BY RestOrdered
<1>2. \A x \in {u, v, w} : x.major \in Int /\ x.minor \in Int /\ x.patch \in Int
  BY DEF Version
<1>3. Spaceship(v, w) \in Signs /\ Spaceship(v, w) = 0 - Spaceship(w, v)
  BY <1>1, <1>2, SpaceshipIs DEF Sign, Signs
<1>4. Spaceship(u, v) <= 0 /\ Spaceship(v, w) <= 0 => Spaceship(u, w) <= 0
  BY <1>1, <1>2, SpaceshipIs DEF Sign
<1> QED
  BY <1>3, <1>4

\* The pool holds only what the program makes.
PoolInv == pool \subseteq Version

\* The pool starts empty.
LEMMA PoolInit == SemverInit => PoolInv
BY DEF SemverInit, PoolInv

\* What is added to it is a version.
LEMMA PoolStep == PoolInv /\ [SemverNext]_pool => PoolInv'
BY VersionsAssumption DEF PoolInv, SemverNext, Make, Version

\* Of any three of them, the ordering laws hold.
LEMMA PoolOrders == PoolInv => OrderingLaws
<1> SUFFICES ASSUME PoolInv, NEW u \in pool, NEW v \in pool, NEW w \in pool
             PROVE  /\ Spaceship(v, w) = - Spaceship(w, v)
                    /\ Spaceship(u, v) <= 0 /\ Spaceship(v, w) <= 0 => Spaceship(u, w) <= 0
                    /\ Spaceship(u, v) = 0 /\ Spaceship(v, w) = 0 => Spaceship(u, w) = 0
  BY Zenon DEF OrderingLaws
<1>1. u \in Version /\ v \in Version /\ w \in Version
  BY DEF PoolInv
<1>2. ASSUME NEW x \in {u, v, w}, NEW y \in {u, v, w}, NEW z \in {u, v, w}
      PROVE  /\ Spaceship(x, y) \in Int
             /\ Spaceship(x, y) = 0 - Spaceship(y, x)
             /\ Spaceship(x, y) <= 0 /\ Spaceship(y, z) <= 0 => Spaceship(x, z) <= 0
  BY <1>1, SpaceshipOrders DEF Signs
<1>3. Spaceship(v, w) = - Spaceship(w, v)
  BY <1>2, MinusIs
<1>4. Spaceship(u, v) = 0 /\ Spaceship(v, w) = 0 => Spaceship(u, w) = 0
  BY <1>2
<1> QED
  BY <1>2, <1>3, <1>4

\* <=> is antisymmetric and transitive, and so is the equivalence it implies, whatever a
\* version's fields hold: identifiers that are empty or longer than the integer they are
\* read into, numbers below zero.  Versions can be sorted by it.
THEOREM AlwaysOrdered == SemverSpec => []OrderingLaws
BY PoolInit, PoolStep, PoolOrders, PTL DEF SemverSpec
-----------------------------------------------------------------------------
(* PrecedenceIsSemVer.                                                     *)

\* The orders of SemVer are those of lists: a list is before another that it begins, or
\* when the first of its members that is not the other's is before the other's.
ListBefore(c, x, y) ==
  \/ Len(x) < Len(y) /\ SubSeq(y, 1, Len(x)) = x
  \/ \E i \in 1 .. Shorter(x, y) : SubSeq(x, 1, i - 1) = SubSeq(y, 1, i - 1) /\ c[<<x[i], y[i]>>] = -1

\* Only equal members of the two are equivalent.
Separates(c, x, y) ==
  \A i \in Places : i <= Len(x) /\ i <= Len(y) => (c[<<x[i], y[i]>>] = 0 <=> x[i] = y[i])

\* Two beginnings are equal when all their members are.
LEMMA SameStart ==
  ASSUME NEW X, NEW x \in Seq(X), NEW y \in Seq(X), NEW m \in Nat, m <= Len(x), m <= Len(y)
  PROVE  SubSeq(x, 1, m) = SubSeq(y, 1, m) <=> \A i \in 1 .. m : x[i] = y[i]
<1>1. /\ SubSeq(x, 1, m) \in Seq(X) /\ Len(SubSeq(x, 1, m)) = m /\ \A i \in 1 .. m : SubSeq(x, 1, m)[i] = x[i]
      /\ SubSeq(y, 1, m) \in Seq(X) /\ Len(SubSeq(y, 1, m)) = m /\ \A i \in 1 .. m : SubSeq(y, 1, m)[i] = y[i]
  OBVIOUS
<1> QED
  BY <1>1, SeqEqual

\* What the code says of two lists is what SemVer does.
LEMMA ListsBefore ==
  ASSUME NEW X, NEW c \in [X \X X -> Signs], NEW x \in Seq(X), NEW y \in Seq(X), Separates(c, x, y)
  PROVE  /\ CompareLists(c, x, y) = 0 <=> x = y
         /\ CompareLists(c, x, y) = -1 <=> ListBefore(c, x, y)
<1> DEFINE L == CompareLists(c, x, y)
<1>d. PICK d : d = [i \in Places |-> Place(c, x, y, i)]
  OBVIOUS
<1>1. PICK m \in Nat, n \in Nat : m = Len(x) /\ n = Len(y)
  OBVIOUS
<1>p. (\A i \in Places : i \in Nat /\ i >= 1) /\ (\A i \in Nat : i >= 1 => i \in Places)
  BY DEF Places
<1>c. \A i \in Places : i <= m /\ i <= n => d[i] = c[<<x[i], y[i]>>]
  BY <1>1, <1>d DEF Place
<1>2. \A i \in Places : i <= m /\ i <= n => (d[i] = 0 <=> x[i] = y[i])
  BY <1>1, <1>c DEF Separates
<1>4. \A i \in Places : /\ i <= m /\ ~ (i <= n) => d[i] = 1
                        /\ ~ (i <= m) /\ ~ (i <= n) => d[i] = 0
  BY <1>1, <1>d, <1>p DEF Place
<1>3. \/ L = 0 /\ (\A i \in Places : d[i] = 0) /\ m = n
      \/ \E k \in Places : L = d[k] /\ d[k] # 0 /\ \A i \in 1 .. k - 1 : d[i] = 0
  <2>1. \/ CompareLists(c, x, y) = 0 /\ (\A i \in Places : Place(c, x, y, i) = 0) /\ Len(x) = Len(y)
        \/ \E k \in Places : CompareLists(c, x, y) = Place(c, x, y, k) /\ Found(c, x, y, k)
    BY Zenon, ListsFound
  <2> QED
    <3>1. \A i \in Places : d[i] = Place(c, x, y, i)
      BY <1>d
    <3>2. CASE CompareLists(c, x, y) = 0 /\ (\A i \in Places : Place(c, x, y, i) = 0) /\ Len(x) = Len(y)
      BY <1>1, <3>1, <3>2
    <3>3. ASSUME NEW k \in Places, CompareLists(c, x, y) = Place(c, x, y, k), Found(c, x, y, k)
          PROVE  L = d[k] /\ d[k] # 0 /\ \A i \in 1 .. k - 1 : d[i] = 0
      <4>1. \A i \in 1 .. k - 1 : i \in Places
        BY <1>p
      <4> QED
        BY <3>1, <3>3, <4>1 DEF Found
    <3> QED
      BY <2>1, <3>2, <3>3
<1> HIDE DEF L
<1>5. L = 0 <=> x = y
  <2>1. ASSUME L = 0 PROVE x = y
    <3>1. (\A i \in Places : d[i] = 0) /\ m = n
      BY <1>3, <2>1
    <3>2. ASSUME NEW i \in 1 .. m PROVE x[i] = y[i]
      <4>1. i \in Places /\ i <= m /\ i <= n /\ d[i] = 0
        BY <1>1, <1>p, <3>1
      <4> QED
        BY <1>2, <4>1
    <3> QED
      BY <1>1, <3>1, <3>2, SeqEqual
  <2>2. ASSUME x = y PROVE L = 0
    <3>1. \A i \in Places : d[i] = 0
      BY <1>1, <1>2, <1>4, <1>p, <2>2
    <3> QED
      BY <1>3, <3>1
  <2> QED
    BY <2>1, <2>2
\* The position at which they are found to differ is the only one.
<1>6. ASSUME NEW k \in Places, d[k] # 0, \A i \in 1 .. k - 1 : d[i] = 0 PROVE L = d[k]
  <2>1. PICK h \in Places : L = d[h] /\ d[h] # 0 /\ \A i \in 1 .. h - 1 : d[i] = 0
    BY <1>3, <1>6
  <2>2. h \in Nat /\ h >= 1 /\ k \in Nat /\ k >= 1
    BY <1>p
  <2>3. ~ (h < k) /\ ~ (k < h)
    BY <1>6, <2>1, <2>2
  <2> QED
    BY <2>1, <2>2, <2>3
<1>7. ASSUME L = -1 PROVE ListBefore(c, x, y)
  <2>1. PICK k \in Places : d[k] = -1 /\ \A i \in 1 .. k - 1 : d[i] = 0
    BY <1>3, <1>7
  <2>a. d[k] # 0 /\ d[k] # 1
    BY <2>1
  <2>b. k \in Nat /\ k >= 1
    BY <1>p
  <2>2. k \in Nat /\ k >= 1 /\ k <= n
    <3>1. (k <= m /\ ~ (k <= n) => d[k] = 1) /\ (~ (k <= m) /\ ~ (k <= n) => d[k] = 0)
      BY <1>4
    <3> QED
      BY <2>a, <2>b, <3>1
  <2>3. ASSUME NEW i \in 1 .. k - 1, i <= m PROVE x[i] = y[i]
    <3>1. i \in Places /\ i <= m /\ i <= n /\ d[i] = 0
      BY <1>p, <2>1, <2>2, <2>3
    <3> QED
      BY <1>2, <3>1
  <2>4. CASE k <= m
    <3>1. SubSeq(x, 1, k - 1) = SubSeq(y, 1, k - 1)
      BY <1>1, <2>2, <2>3, <2>4, SameStart
    <3>2. c[<<x[k], y[k]>>] = -1
      BY <1>c, <2>1, <2>2, <2>4
    <3>3. k \in 1 .. Shorter(x, y)
      BY <1>1, <2>2, <2>4 DEF Shorter
    <3> QED
      BY <3>1, <3>2, <3>3 DEF ListBefore
  <2>5. CASE ~ (k <= m)
    <3>1. m < n /\ \A i \in 1 .. m : y[i] = x[i]
      BY <2>2, <2>3, <2>5
    <3>2. SubSeq(y, 1, m) = SubSeq(x, 1, m)
      BY <1>1, <3>1, SameStart
    <3>3. SubSeq(x, 1, m) = x
      BY <1>1, SubSeqFull
    <3> QED
      BY <1>1, <3>1, <3>2, <3>3 DEF ListBefore
  <2> QED
    BY <2>4, <2>5
<1>8. ASSUME Len(x) < Len(y), SubSeq(y, 1, Len(x)) = x PROVE L = -1
  <2>1. SubSeq(x, 1, m) = x
    BY <1>1, SubSeqFull
  <2>2. \A i \in 1 .. m : x[i] = y[i]
    BY <1>1, <1>8, <2>1, SameStart
  <2>3. m + 1 \in Places /\ d[m + 1] = -1
    BY <1>1, <1>d, <1>p, <1>8 DEF Place
  <2>4. ASSUME NEW i \in 1 .. (m + 1) - 1 PROVE d[i] = 0
    <3>1. i \in Places /\ i <= m /\ i <= n /\ x[i] = y[i]
      BY <1>1, <1>p, <1>8, <2>2
    <3> QED
      BY <1>2, <3>1
  <2> QED
    BY <1>6, <2>3, <2>4
<1>9. ASSUME NEW i \in 1 .. Shorter(x, y), SubSeq(x, 1, i - 1) = SubSeq(y, 1, i - 1),
             c[<<x[i], y[i]>>] = -1
      PROVE  L = -1
  <2>1. i \in Nat /\ i >= 1 /\ i <= m /\ i <= n /\ i \in Places
    BY <1>1, <1>p DEF Shorter
  <2>2. \A j \in 1 .. i - 1 : x[j] = y[j]
    BY <1>1, <1>9, <2>1, SameStart
  <2>3. d[i] = -1
    BY <1>c, <1>9, <2>1
  <2>4. ASSUME NEW j \in 1 .. i - 1 PROVE d[j] = 0
    <3>1. j \in Places /\ j <= m /\ j <= n /\ x[j] = y[j]
      BY <1>1, <1>p, <2>1, <2>2
    <3> QED
      BY <1>2, <3>1
  <2> QED
    BY <1>6, <2>1, <2>3, <2>4
<1>10. L = -1 <=> ListBefore(c, x, y)
  BY <1>7, <1>8, <1>9 DEF ListBefore
<1> QED
  BY <1>5, <1>10 DEF L

\* string_view::compare is ASCII order.
LEMMA TextsBefore ==
  ASSUME NEW x \in Identifiers, NEW y \in Identifiers
  PROVE  /\ CompareText(x, y) = 0 <=> x = y
         /\ CompareText(x, y) = -1 <=> TextBefore(x, y)
<1>1. CodeOrder \in [Bytes \X Bytes -> Signs] /\ x \in Seq(Bytes) /\ y \in Seq(Bytes)
  BY CodesOrdered DEF IsOrder, Identifiers
<1>2. ASSUME NEW i \in Places, i <= Len(x), i <= Len(y)
      PROVE  /\ CodeOrder[<<x[i], y[i]>>] = 0 <=> x[i] = y[i]
             /\ CodeOrder[<<x[i], y[i]>>] = -1 <=> x[i] < y[i]
  <2>1. x[i] \in Int /\ y[i] \in Int /\ x[i] \in Bytes /\ y[i] \in Bytes
    BY <1>1, <1>2, ByteIsInt DEF Places
  <2>2. CodeOrder[<<x[i], y[i]>>] = Sign(x[i] - y[i])
    BY <2>1 DEF CodeOrder
  <2> QED
    BY <2>1, <2>2, SignIs
<1>3. Separates(CodeOrder, x, y)
  BY <1>2 DEF Separates
<1>4. ListBefore(CodeOrder, x, y) <=> TextBefore(x, y)
  <2>1. \A i \in 1 .. Shorter(x, y) : i \in Places /\ i <= Len(x) /\ i <= Len(y)
    BY <1>1 DEF Shorter, Places
  <2>2. \A i \in 1 .. Shorter(x, y) : CodeOrder[<<x[i], y[i]>>] = -1 <=> x[i] < y[i]
    BY <1>2, <2>1
  <2> QED
    BY <2>2, Zenon DEF ListBefore, TextBefore
<1>5. /\ CompareLists(CodeOrder, x, y) = 0 <=> x = y
      /\ CompareLists(CodeOrder, x, y) = -1 <=> ListBefore(CodeOrder, x, y)
  BY <1>1, <1>3, ListsBefore
<1> QED
  BY <1>4, <1>5, TextsAreLists
-----------------------------------------------------------------------------
(* Numeric identifiers: the order of their texts and of their values.      *)

\* A numeric identifier.
Numeric(id) == id \in Seq(Bytes) /\ is_numeric_identifier(id)

\* Its characters are digits, and there is one.
LEMMA DigitsOf ==
  ASSUME NEW id, Numeric(id)
  PROVE  /\ id \in Seq(Bytes) /\ Len(id) \in Nat /\ Len(id) >= 1
         /\ \A i \in 1 .. Len(id) : id[i] \in Int /\ 48 <= id[i] /\ id[i] <= 57
<1>1. id \in Seq(Bytes) /\ Len(id) \in Nat /\ Len(id) >= 1
  BY DEF Numeric, is_numeric_identifier
<1>2. ASSUME NEW i \in 1 .. Len(id) PROVE id[i] \in Digits
  BY <1>1 DEF Numeric, is_numeric_identifier, Range
<1>3. \A c \in Digits : c \in Int /\ 48 <= c /\ c <= 57
  BY DEF Digits
<1> QED
  BY <1>1, <1>2, <1>3

\* Each of its digits makes the value larger, or leaves it.
LEMMA ValuesRise ==
  ASSUME NEW id, Numeric(id)
  PROVE  \A k \in 0 .. Len(id) : /\ Values(id)[k] \in Nat
                                 /\ Values(id)[k] <= Value(id)
                                 /\ id[1] # 48 /\ k # 0 => Values(id)[k] >= 1
<1>1. PICK n \in Nat : n = Len(id) /\ n >= 1
  BY DigitsOf
<1>v. PICK v : v = Values(id)
  OBVIOUS
<1>2. \A i \in 1 .. n : id[i] \in Int /\ 48 <= id[i] /\ id[i] <= 57
  BY <1>1, DigitsOf
<1>3. v \in [0 .. n -> Int] /\ v[0] = 0 /\ Value(id) = v[n]
  BY <1>1, <1>v, DigitsOf, ValuesOf
<1>4. \A i \in 1 .. n : v[i] = v[i - 1] * 10 + (id[i] - 48)
  BY <1>1, <1>v, DigitsOf, ValuesOf
<1>5. ASSUME NEW i \in 1 .. n, v[i - 1] \in Nat
      PROVE  v[i] \in Nat /\ v[i - 1] <= v[i] /\ (v[i - 1] >= 1 => v[i] >= 1)
  BY <1>2, <1>4, <1>5
<1>6. \A k \in 0 .. n : v[k] \in Nat
  <2> PICK P : P = {k \in 0 .. n : v[k] \in Nat}
    OBVIOUS
  <2>1. 0 \in P
    BY <1>3
  <2>2. \A k \in 1 .. n : k - 1 \in P => k \in P
    BY <1>5
  <2>3. \A k \in 0 .. n : k \in P
    BY <2>1, <2>2, Upwards
  <2> QED
    BY <2>3
<1>7. \A k \in 0 .. n : v[k] <= v[n]
  <2> PICK P : P = {k \in 0 .. n : v[n - k] <= v[n]}
    OBVIOUS
  <2>1. 0 \in P
    BY <1>6
  <2>2. ASSUME NEW k \in 1 .. n, k - 1 \in P PROVE k \in P
    <3>1. PICK i \in 1 .. n : i = n - (k - 1) /\ i - 1 = n - k
      OBVIOUS
    <3>2. i \in 0 .. n /\ i - 1 \in 0 .. n /\ n \in 0 .. n
      OBVIOUS
    <3>3. v[i - 1] \in Nat /\ v[i] \in Nat /\ v[n] \in Nat
      BY <1>6, <3>2
    <3>4. v[i - 1] <= v[i]
      BY <1>5, <3>3
    <3>5. v[i] <= v[n]
      BY <2>2, <3>1
    <3>6. v[i - 1] <= v[n]
      BY <3>3, <3>4, <3>5
    <3> QED
      BY <3>1, <3>6
  <2>3. \A k \in 0 .. n : k \in P
    BY <2>1, <2>2, Upwards
  <2>4. ASSUME NEW k \in 0 .. n PROVE v[k] <= v[n]
    <3>1. n - k \in 0 .. n /\ n - (n - k) = k
      OBVIOUS
    <3> QED
      BY <2>3, <3>1
  <2> QED
    BY <2>4
<1>8. ASSUME id[1] # 48, NEW k \in 0 .. n, k # 0 PROVE v[k] >= 1
  <2> PICK P : P = {j \in 0 .. n : j # 0 => v[j] >= 1}
    OBVIOUS
  <2>1. 0 \in P
    OBVIOUS
  <2>2. ASSUME NEW j \in 1 .. n, j - 1 \in P PROVE j \in P
    <3>1. CASE j = 1
      <4>1. v[1] = id[1] - 48
        BY <1>2, <1>3, <1>4, <3>1
      <4>2. id[1] \in Int /\ 48 <= id[1]
        BY <1>2, <3>1
      <4> QED
        BY <1>8, <3>1, <4>1, <4>2
    <3>2. CASE j # 1
      <4>1. v[j - 1] \in Nat /\ v[j - 1] >= 1
        BY <1>6, <2>2, <3>2
      <4> QED
        BY <1>5, <4>1
    <3> QED
      BY <3>1, <3>2
  <2>3. \A j \in 0 .. n : j \in P
    BY <2>1, <2>2, Upwards
  <2> QED
    BY <1>8, <2>3
<1> QED
  BY <1>1, <1>v, <1>3, <1>6, <1>7, <1>8

\* What fits in the code's integer is read as what it stands for.
LEMMA FitsIsRead ==
  ASSUME NEW id, Numeric(id), Value(id) < Modulus
  PROVE  parse_numeric(id) = Value(id)
<1>1. PICK n \in Nat : n = Len(id)
  BY DigitsOf
<1>2. PICK v : v = Values(id)
  OBVIOUS
<1>3. PICK r : r = Results(id)
  OBVIOUS
<1>4. \A k \in 0 .. n : v[k] \in Nat /\ v[k] < Modulus
  <2>1. \A k \in 0 .. n : v[k] \in Nat /\ v[k] <= Value(id)
    BY <1>1, <1>2, ValuesRise
  <2>2. Value(id) \in Int
    BY DigitsOf, ValuesOf
  <2> QED
    BY <2>1, <2>2
<1>5. r[0] = 0 /\ v[0] = 0 /\ parse_numeric(id) = r[n] /\ Value(id) = v[n]
  BY <1>1, <1>2, <1>3, DigitsOf, ValuesOf, ResultsOf
<1>6. \A i \in 1 .. n : v[i] = v[i - 1] * 10 + (id[i] - 48) /\ r[i] = (r[i - 1] * 10 + (id[i] - 48)) % Modulus
  <2>1. \A i \in 1 .. n : v[i] = v[i - 1] * 10 + (id[i] - 48)
    BY <1>1, <1>2, DigitsOf, ValuesOf
  <2>2. \A i \in 1 .. n : r[i] = (r[i - 1] * 10 + (id[i] - 48)) % Modulus
    BY <1>1, <1>3, DigitsOf, ResultsOf
  <2> QED
    BY <2>1, <2>2
<1>7. Follows(r, v, n)
  <2> SUFFICES ASSUME NEW k \in 0 .. n, \A j \in 0 .. k - 1 : r[j] = v[j] PROVE r[k] = v[k]
    BY DEF Follows
  <2>1. CASE k = 0
    BY <1>5, <2>1
  <2>2. CASE k # 0
    <3>1. k \in 1 .. n /\ r[k - 1] = v[k - 1]
      BY <2>2
    <3>2. r[k] = v[k] % Modulus
      BY <1>6, <3>1
    <3>3. v[k] % Modulus = v[k]
      BY <1>4
    <3> QED
      BY <3>2, <3>3
  <2> QED
    BY <2>1, <2>2
<1>8. r[n] = v[n]
  BY <1>7, OneValue
<1> QED
  BY <1>5, <1>8

\* One digit on, less stays less.
LEMMA DigitOn ==
  ASSUME NEW a \in Int, NEW b \in Int, NEW c \in Int, NEW d \in Int, a < b, c <= 57, 48 <= d
  PROVE  a * 10 + (c - 48) < b * 10 + (d - 48)
<1>1. a + 1 <= b
  OBVIOUS
<1>2. a * 10 + 10 <= b * 10
  BY <1>1
<1> QED
  BY <1>2

\* Among numbers without a leading zero, the longer one is larger.
LEMMA LongerIsMore ==
  ASSUME NEW x, NEW y, Numeric(x), Numeric(y), Len(x) < Len(y), y[1] # 48
  PROVE  Value(x) < Value(y)
<1>1. PICK m \in Nat, n \in Nat : m = Len(x) /\ n = Len(y) /\ m < n
  BY DigitsOf
<1>2. PICK a, b : a = Values(x) /\ b = Values(y)
  OBVIOUS
<1>3. PICK d \in Nat : d = n - m /\ d >= 1
  BY <1>1
<1>4. /\ a[0] = 0 /\ Value(x) = a[m] /\ Value(y) = b[n]
      /\ \A i \in 1 .. m : a[i] = a[i - 1] * 10 + (x[i] - 48)
      /\ \A i \in 1 .. n : b[i] = b[i - 1] * 10 + (y[i] - 48)
  BY <1>1, <1>2, DigitsOf, ValuesOf
<1>5. (\A k \in 0 .. m : a[k] \in Nat) /\ (\A k \in 0 .. n : b[k] \in Nat /\ (k # 0 => b[k] >= 1))
  BY <1>1, <1>2, ValuesRise
<1>6. (\A i \in 1 .. m : x[i] \in Int /\ x[i] <= 57) /\ (\A i \in 1 .. n : y[i] \in Int /\ 48 <= y[i])
  BY <1>1, DigitsOf
<1> PICK P : P = {k \in 0 .. m : a[k] < b[k + d]}
  OBVIOUS
<1>7. 0 \in P
  <2>1. d \in 0 .. n /\ d # 0
    BY <1>1, <1>3
  <2>2. b[0 + d] >= 1 /\ b[0 + d] \in Nat
    BY <1>5, <2>1
  <2> QED
    BY <1>4, <2>2
<1>8. ASSUME NEW k \in 1 .. m, k - 1 \in P PROVE k \in P
  <2>1. PICK j \in 1 .. n : j = k + d /\ j - 1 = (k - 1) + d
    <3>1. k + d \in 1 .. n /\ (k + d) - 1 = (k - 1) + d
      BY <1>1, <1>3
    <3> QED
      BY <3>1
  <2>2. a[k - 1] < b[j - 1] /\ a[k - 1] \in Nat /\ b[j - 1] \in Nat
    BY <1>1, <1>5, <1>8, <2>1
  <2>3. x[k] \in Int /\ x[k] <= 57 /\ y[j] \in Int /\ 48 <= y[j]
    BY <1>6
  <2>4. a[k] = a[k - 1] * 10 + (x[k] - 48) /\ b[j] = b[j - 1] * 10 + (y[j] - 48)
    BY <1>4
  <2>5. a[k - 1] * 10 + (x[k] - 48) < b[j - 1] * 10 + (y[j] - 48)
    <3>1. PICK p \in Int, q \in Int : p = a[k - 1] /\ q = b[j - 1] /\ p < q
      BY <2>2
    <3>2. PICK c \in Int, e \in Int : c = x[k] /\ e = y[j] /\ c <= 57 /\ 48 <= e
      BY <2>3
    <3>3. p * 10 + (c - 48) < q * 10 + (e - 48)
      BY <3>1, <3>2, DigitOn
    <3> QED
      BY <3>1, <3>2, <3>3
  <2>6. a[k] < b[j]
    BY <2>4, <2>5
  <2> QED
    BY <2>1, <2>6
<1>9. \A k \in 0 .. m : k \in P
  BY <1>7, <1>8, Upwards
<1>10. a[m] < b[m + d] /\ m + d = n
  BY <1>1, <1>3, <1>9
<1> QED
  BY <1>4, <1>10

\* Among numbers of a length, the one that text puts first is less.
LEMMA BeforeIsLess ==
  ASSUME NEW x, NEW y, Numeric(x), Numeric(y), Len(x) = Len(y), TextBefore(x, y)
  PROVE  Value(x) < Value(y)
<1>1. PICK n \in Nat : n = Len(x) /\ n = Len(y)
  BY DigitsOf
<1>2. PICK i \in 1 .. n : SubSeq(x, 1, i - 1) = SubSeq(y, 1, i - 1) /\ x[i] < y[i]
  BY <1>1 DEF TextBefore, Shorter
<1>3. \A j \in 1 .. i - 1 : x[j] = y[j]
  <2>1. x \in Seq(Bytes) /\ y \in Seq(Bytes) /\ i - 1 \in Nat /\ i - 1 <= Len(x) /\ i - 1 <= Len(y)
    BY <1>1, DigitsOf
  <2> QED
    BY <1>2, <2>1, SameStart
<1>4. PICK a, b : a = Values(x) /\ b = Values(y)
  OBVIOUS
<1>5. /\ a[0] = 0 /\ b[0] = 0 /\ Value(x) = a[n] /\ Value(y) = b[n]
      /\ \A j \in 1 .. n : a[j] = a[j - 1] * 10 + (x[j] - 48)
      /\ \A j \in 1 .. n : b[j] = b[j - 1] * 10 + (y[j] - 48)
  BY <1>1, <1>4, DigitsOf, ValuesOf
<1>6. \A k \in 0 .. n : a[k] \in Nat /\ b[k] \in Nat
  BY <1>1, <1>4, ValuesRise
<1>7. \A j \in 1 .. n : x[j] \in Int /\ 48 <= x[j] /\ x[j] <= 57 /\ y[j] \in Int /\ 48 <= y[j] /\ y[j] <= 57
  BY <1>1, DigitsOf
<1> PICK P : P = {k \in 0 .. n : IF k < i THEN a[k] = b[k] ELSE a[k] < b[k]}
  OBVIOUS
<1>8. 0 \in P
  BY <1>5
<1>9. ASSUME NEW k \in 1 .. n, k - 1 \in P PROVE k \in P
  <2>1. a[k] = a[k - 1] * 10 + (x[k] - 48) /\ b[k] = b[k - 1] * 10 + (y[k] - 48)
    BY <1>5
  <2>2. a[k - 1] \in Nat /\ b[k - 1] \in Nat
    BY <1>6
  <2>3. x[k] \in Int /\ 48 <= x[k] /\ x[k] <= 57 /\ y[k] \in Int /\ 48 <= y[k] /\ y[k] <= 57
    BY <1>7
  <2>4. CASE k < i
    <3>1. a[k - 1] = b[k - 1] /\ x[k] = y[k]
      BY <1>3, <1>9, <2>4
    <3> QED
      BY <2>1, <2>4, <3>1
  <2>5. CASE k = i
    <3>1. a[k - 1] = b[k - 1]
      BY <1>9, <2>5
    <3>2. x[k] < y[k]
      BY <1>2, <2>5
    <3>3. PICK v \in Int, c \in Int, e \in Int : v = a[k - 1] /\ c = x[k] /\ e = y[k]
      BY <2>2, <2>3
    <3>4. v * 10 + (c - 48) < v * 10 + (e - 48)
      <4>1. PICK m \in Int : m = v * 10
        BY <3>3
      <4>2. m + (c - 48) < m + (e - 48)
        BY <3>2, <3>3
      <4> QED
        BY <4>1, <4>2
    <3>5. a[k] < b[k]
      BY <2>1, <3>1, <3>3, <3>4
    <3> QED
      BY <2>5, <3>5
  <2>6. CASE k > i
    <3>1. a[k - 1] < b[k - 1]
      BY <1>9, <2>6
    <3>2. a[k - 1] * 10 + (x[k] - 48) < b[k - 1] * 10 + (y[k] - 48)
      <4>1. PICK p \in Int, q \in Int, c \in Int, e \in Int :
              p = a[k - 1] /\ q = b[k - 1] /\ c = x[k] /\ e = y[k] /\ p < q /\ c <= 57 /\ 48 <= e
        BY <2>2, <2>3, <3>1
      <4>2. p * 10 + (c - 48) < q * 10 + (e - 48)
        BY <4>1, DigitOn
      <4> QED
        BY <4>1, <4>2
    <3>3. a[k] < b[k]
      BY <2>1, <3>2
    <3> QED
      BY <2>6, <3>3
  <2> QED
    BY <2>4, <2>5, <2>6
<1>10. \A k \in 0 .. n : k \in P
  BY <1>8, <1>9, Upwards
<1>11. a[n] < b[n]
  BY <1>10
<1> QED
  BY <1>5, <1>11

\* So the order of their texts is the order of their values.
LEMMA NumbersBefore ==
  ASSUME NEW x, NEW y, Numeric(x), Numeric(y), NoLeadingZero(x), NoLeadingZero(y)
  PROVE  /\ Value(x) < Value(y) <=> Len(x) < Len(y) \/ (Len(x) = Len(y) /\ TextBefore(x, y))
         /\ Value(x) = Value(y) <=> x = y
<1> DEFINE Before(p, q) == Len(p) < Len(q) \/ (Len(p) = Len(q) /\ TextBefore(p, q))
<1>1. ASSUME NEW p, NEW q, Numeric(p), Numeric(q), NoLeadingZero(p), NoLeadingZero(q), Before(p, q)
      PROVE  Value(p) < Value(q)
  <2>1. CASE Len(p) < Len(q)
    <3>1. q[1] # 48
      <4>1. Len(q) # 1
        <5>1. Len(p) \in Nat /\ Len(p) >= 1 /\ Len(q) \in Nat
          BY <1>1, DigitsOf
        <5> QED
          BY <2>1, <5>1
      <4> QED
        BY <1>1, <4>1 DEF NoLeadingZero, Numeric
    <3> QED
      BY <1>1, <2>1, <3>1, LongerIsMore
  <2>2. CASE Len(p) = Len(q) /\ TextBefore(p, q)
    BY <1>1, <2>2, BeforeIsLess
  <2> QED
    BY <1>1, <2>1, <2>2
<1>2. x \in Identifiers /\ y \in Identifiers /\ Len(x) \in Nat /\ Len(y) \in Nat
  BY DigitsOf DEF Identifiers
<1>3. x = y \/ TextBefore(x, y) \/ TextBefore(y, x)
  <2>1. PICK s \in Signs, t \in Signs : s = CompareText(x, y) /\ t = CompareText(y, x) /\ s = 0 - t
    BY <1>2, TextsOrdered
  <2>2. /\ s = 0 <=> x = y
        /\ s = -1 <=> TextBefore(x, y)
        /\ t = -1 <=> TextBefore(y, x)
    <3>1. (CompareText(x, y) = 0 <=> x = y) /\ (CompareText(x, y) = -1 <=> TextBefore(x, y))
      BY <1>2, TextsBefore
    <3>2. CompareText(y, x) = -1 <=> TextBefore(y, x)
      BY <1>2, TextsBefore
    <3> QED
      BY <2>1, <3>1, <3>2
  <2> QED
    BY <2>1, <2>2 DEF Signs
<1>4. x = y \/ Before(x, y) \/ Before(y, x)
  BY <1>2, <1>3
<1> HIDE DEF Before
<1>5. Value(x) \in Int /\ Value(y) \in Int
  BY DigitsOf, ValuesOf
<1>6. Before(x, y) => Value(x) < Value(y)
  BY <1>1
<1>7. Before(y, x) => Value(y) < Value(x)
  BY <1>1
<1>8. (Value(x) < Value(y) <=> Before(x, y)) /\ (Value(x) = Value(y) <=> x = y)
  BY <1>4, <1>5, <1>6, <1>7
<1> QED
  BY <1>8 DEF Before
-----------------------------------------------------------------------------
(* Identifiers, pre-releases and versions.                                 *)

\* An identifier as SemVer has it, and no longer than the code can read.
Sound(id) == id \in Identifiers /\ NoLeadingZero(id) /\ (is_numeric_identifier(id) => Value(id) < Modulus)

\* Of two such, the code puts first the one SemVer does, and only the same are equivalent.
LEMMA IdentifiersBefore ==
  ASSUME NEW x, NEW y, Sound(x), Sound(y)
  PROVE  /\ CompareIdentifier(x, y) = 0 <=> x = y
         /\ CompareIdentifier(x, y) = -1 <=> IdentifierBefore(x, y)
<1>1. /\ CompareText(x, y) = 0 <=> x = y
      /\ CompareText(x, y) = -1 <=> TextBefore(x, y)
  BY TextsBefore DEF Sound
<1>2. CASE is_numeric_identifier(x) /\ is_numeric_identifier(y)
  <2>1. Numeric(x) /\ Numeric(y)
    BY <1>2 DEF Numeric, Sound, Identifiers
  <2>2. PICK a \in Int, b \in Int : a = Value(x) /\ b = Value(y)
    BY <2>1, DigitsOf, ValuesOf
  <2>3. parse_numeric(x) = a /\ parse_numeric(y) = b
    BY <1>2, <2>1, <2>2, FitsIsRead DEF Sound
  <2>4. CompareIdentifier(x, y) = Sign(a - b)
    BY <1>2, <2>3 DEF CompareIdentifier
  <2>5. /\ a < b <=> Len(x) < Len(y) \/ (Len(x) = Len(y) /\ TextBefore(x, y))
        /\ a = b <=> x = y
    BY <2>1, <2>2, NumbersBefore DEF Sound
  <2>6. IdentifierBefore(x, y) <=> Len(x) < Len(y) \/ (Len(x) = Len(y) /\ TextBefore(x, y))
    BY <1>2 DEF IdentifierBefore
  <2>7. (Sign(a - b) = 0 <=> a = b) /\ (Sign(a - b) = -1 <=> a < b)
    BY SignIs
  <2> QED
    BY <2>4, <2>5, <2>6, <2>7
<1>3. CASE ~ is_numeric_identifier(x) /\ ~ is_numeric_identifier(y)
  <2>1. is_numeric_identifier(x) = is_numeric_identifier(y)
    BY <1>3 DEF is_numeric_identifier
  <2> QED
    BY <1>1, <1>3, <2>1 DEF CompareIdentifier, IdentifierBefore
<1>4. CASE is_numeric_identifier(x) /\ ~ is_numeric_identifier(y)
  <2>1. CompareIdentifier(x, y) = -1 /\ IdentifierBefore(x, y) /\ x # y
    BY <1>4 DEF CompareIdentifier, IdentifierBefore
  <2> QED
    BY <2>1
<1>5. CASE ~ is_numeric_identifier(x) /\ is_numeric_identifier(y)
  <2>1. CompareIdentifier(x, y) = 1 /\ ~ IdentifierBefore(x, y) /\ x # y
    BY <1>5 DEF CompareIdentifier, IdentifierBefore
  <2> QED
    BY <2>1
<1> QED
  BY <1>2, <1>3, <1>4, <1>5

\* A pre-release all of whose identifiers are such.
SoundText(a) == a \in Seq(Bytes) /\ \A id \in Range(split_identifiers(a)) : Sound(id)

\* And so of two lists of them.
LEMMA PreReleasesBefore ==
  ASSUME NEW a, NEW b, SoundText(a), SoundText(b)
  PROVE  /\ compare_pre_release(a, b) = 0 <=> split_identifiers(a) = split_identifiers(b)
         /\ compare_pre_release(a, b) = -1 <=> FieldsBefore(split_identifiers(a), split_identifiers(b))
<1>1. PICK x \in Seq(Identifiers), y \in Seq(Identifiers) :
        /\ x = split_identifiers(a) /\ y = split_identifiers(b)
        /\ compare_pre_release(a, b) = CompareLists(IdentifierOrder, x, y)
  BY PreReleasesAreLists DEF SoundText
<1>2. IdentifierOrder \in [Identifiers \X Identifiers -> Signs]
  BY IdentifiersOrdered DEF IsOrder
<1>3. (\A i \in 1 .. Len(x) : Sound(x[i])) /\ (\A i \in 1 .. Len(y) : Sound(y[i]))
  BY <1>1 DEF SoundText, Range
<1>4. ASSUME NEW i \in Places, i <= Len(x), i <= Len(y)
      PROVE  /\ IdentifierOrder[<<x[i], y[i]>>] = 0 <=> x[i] = y[i]
             /\ IdentifierOrder[<<x[i], y[i]>>] = -1 <=> IdentifierBefore(x[i], y[i])
  <2>1. i \in 1 .. Len(x) /\ i \in 1 .. Len(y)
    BY <1>4 DEF Places
  <2>2. x[i] \in Identifiers /\ y[i] \in Identifiers
    BY <2>1
  <2>3. IdentifierOrder[<<x[i], y[i]>>] = CompareIdentifier(x[i], y[i])
    BY <2>2 DEF IdentifierOrder
  <2> QED
    BY <1>3, <2>1, <2>3, IdentifiersBefore
<1>5. Separates(IdentifierOrder, x, y)
  BY <1>4 DEF Separates
<1>6. ListBefore(IdentifierOrder, x, y) <=> FieldsBefore(x, y)
  <2>1. \A i \in 1 .. Shorter(x, y) : i \in Places /\ i <= Len(x) /\ i <= Len(y)
    BY DEF Shorter, Places
  <2>2. \A i \in 1 .. Shorter(x, y) : IdentifierOrder[<<x[i], y[i]>>] = -1 <=> IdentifierBefore(x[i], y[i])
    BY <1>4, <2>1
  <2> QED
    BY <2>2, Zenon DEF ListBefore, FieldsBefore
<1>7. /\ CompareLists(IdentifierOrder, x, y) = 0 <=> x = y
      /\ CompareLists(IdentifierOrder, x, y) = -1 <=> ListBefore(IdentifierOrder, x, y)
  BY <1>2, <1>5, ListsBefore
<1> QED
  BY <1>1, <1>6, <1>7

\* A version SemVer has and the code can hold.
Readable(v) == v \in Version /\ ValidVersion(v) /\ Fits(v)

\* Its identifiers are such.
LEMMA ReadableIsSound ==
  ASSUME NEW v, Readable(v), v.pre_release # <<>>
  PROVE  SoundText(v.pre_release)
<1>1. PICK a \in Seq(Bytes) : a = v.pre_release
  BY DEF Readable, Version
<1>2. split_identifiers(a) \in Seq(Seq(Bytes))
  BY CutsOf
<1>3. ASSUME NEW id \in Range(split_identifiers(a)) PROVE Sound(id)
  <2>1. id \in Identifiers
    BY <1>2 DEF Range, Identifiers
  <2>2. NoLeadingZero(id)
    BY <1>1 DEF Readable, ValidVersion
  <2>3. is_numeric_identifier(id) => Value(id) < Modulus
    BY <1>1 DEF Readable, Fits
  <2> QED
    BY <2>1, <2>2, <2>3 DEF Sound
<1> QED
  BY <1>1, <1>3 DEF SoundText

\* Less is what SemVer calls lower precedence.
LEMMA SpaceshipPrecedes ==
  ASSUME NEW v, NEW w, Readable(v), Readable(w)
  PROVE  Spaceship(v, w) = -1 <=> Precedes(v, w)
<1>1. /\ v \in Version /\ w \in Version
      /\ v.major \in Int /\ v.minor \in Int /\ v.patch \in Int
      /\ w.major \in Int /\ w.minor \in Int /\ w.patch \in Int
  BY DEF Readable, Version
<1>2. Rest(v, w) = -1 <=>
        /\ v.pre_release # <<>>
        /\ w.pre_release = <<>> \/ FieldsBefore(split_identifiers(v.pre_release), split_identifiers(w.pre_release))
  <2>1. CASE v.pre_release # <<>> /\ w.pre_release # <<>>
    <3>1. compare_pre_release(v.pre_release, w.pre_release) = -1
            <=> FieldsBefore(split_identifiers(v.pre_release), split_identifiers(w.pre_release))
      BY <2>1, ReadableIsSound, PreReleasesBefore
    <3> QED
      BY <2>1, <3>1 DEF Rest
  <2>2. CASE v.pre_release = <<>> \/ w.pre_release = <<>>
    BY <2>2 DEF Rest
  <2> QED
    BY <2>1, <2>2
<1>3. Spaceship(v, w) = IF v.major # w.major THEN Sign(v.major - w.major)
                        ELSE IF v.minor # w.minor THEN Sign(v.minor - w.minor)
                        ELSE IF v.patch # w.patch THEN Sign(v.patch - w.patch)
                        ELSE Rest(v, w)
  BY <1>1, SpaceshipIs
<1>4. /\ Sign(v.major - w.major) = -1 <=> v.major < w.major
      /\ Sign(v.minor - w.minor) = -1 <=> v.minor < w.minor
      /\ Sign(v.patch - w.patch) = -1 <=> v.patch < w.patch
  BY <1>1, SignIs
<1>5. CASE v.major # w.major
  BY <1>1, <1>3, <1>4, <1>5 DEF Precedes
<1>6. CASE v.major = w.major /\ v.minor # w.minor
  BY <1>1, <1>3, <1>4, <1>6 DEF Precedes
<1>7. CASE v.major = w.major /\ v.minor = w.minor /\ v.patch # w.patch
  BY <1>1, <1>3, <1>4, <1>7 DEF Precedes
<1>8. CASE v.major = w.major /\ v.minor = w.minor /\ v.patch = w.patch
  BY <1>1, <1>2, <1>3, <1>8 DEF Precedes
<1> QED
  BY <1>5, <1>6, <1>7, <1>8

\* Of any two in the pool.
LEMMA PoolPrecedes == PoolInv => PrecedenceIsSemVer
<1> SUFFICES ASSUME PoolInv, NEW v \in Valid, NEW w \in Valid
             PROVE  /\ Spaceship(v, w) = -1 <=> Precedes(v, w)
                    /\ Spaceship(v, w) = 1 <=> Precedes(w, v)
  BY Zenon DEF PrecedenceIsSemVer
<1>1. Readable(v) /\ Readable(w) /\ v \in Version /\ w \in Version
  BY DEF PoolInv, Valid, Readable
<1>2. (Spaceship(v, w) = -1 <=> Precedes(v, w)) /\ (Spaceship(w, v) = -1 <=> Precedes(w, v))
  BY <1>1, SpaceshipPrecedes
<1>3. PICK s \in Signs, t \in Signs : s = Spaceship(v, w) /\ t = Spaceship(w, v) /\ s = 0 - t
  BY <1>1, SpaceshipOrders
<1>4. s = 1 <=> t = -1
  BY <1>3 DEF Signs
<1> QED
  BY <1>2, <1>3, <1>4

\* Of valid versions whose numeric identifiers the code's integer holds, however wide it is
\* and however long they are, the one that SemVer puts first is less.
THEOREM AlwaysSemVer == SemverSpec => []PrecedenceIsSemVer
BY PoolInit, PoolStep, PoolPrecedes, PTL DEF SemverSpec
-----------------------------------------------------------------------------
(* EqualityAgrees.                                                         *)

\* Nothing is lost in cutting: what has been read can be told from the pieces.
LEMMA TakeCharInjective ==
  ASSUME NEW p \in Cut, NEW q \in Cut, NEW c \in Bytes, NEW d \in Bytes, TakeChar(p, c) = TakeChar(q, d)
  PROVE  p = q /\ c = d
<1>1. /\ p = [out |-> p.out, piece |-> p.piece] /\ p.out \in Seq(Seq(Bytes)) /\ p.piece \in Seq(Bytes)
      /\ q = [out |-> q.out, piece |-> q.piece] /\ q.out \in Seq(Seq(Bytes)) /\ q.piece \in Seq(Bytes)
  BY DEF Cut
<1>2. ASSUME NEW a \in Cut, NEW e \in Bytes
      PROVE  /\ e = DotSign => TakeChar(a, e).out = Append(a.out, a.piece) /\ TakeChar(a, e).piece = <<>>
             /\ e # DotSign => TakeChar(a, e).out = a.out /\ TakeChar(a, e).piece = Append(a.piece, e)
  BY DEF TakeChar, Cut
<1>3. Append(p.piece, c) # <<>> /\ Append(q.piece, d) # <<>>
  <2>1. \A x \in Seq(Bytes), e \in Bytes : Append(x, e) # <<>>
    BY AppendProperties
  <2> QED
    BY <1>1, <2>1
<1>4. CASE c = DotSign
  <2>1. d = DotSign
    BY <1>2, <1>3, <1>4
  <2>2. Append(p.out, p.piece) = Append(q.out, q.piece)
    <3>1. TakeChar(p, c).out = Append(p.out, p.piece)
      BY <1>2, <1>4
    <3>2. TakeChar(q, d).out = Append(q.out, q.piece)
      BY <1>2, <2>1
    <3> QED
      BY <3>1, <3>2
  <2>3. p.out = q.out /\ p.piece = q.piece
    BY <1>1, <2>2, AppendInjective
  <2> QED
    BY <1>1, <1>4, <2>1, <2>3
<1>5. CASE c # DotSign
  <2>1. d # DotSign
    BY <1>2, <1>3, <1>5
  <2>2. p.out = q.out /\ Append(p.piece, c) = Append(q.piece, d)
    BY <1>2, <1>5, <2>1
  <2>3. p.piece = q.piece /\ c = d
    BY <1>1, <2>2, AppendInjective
  <2> QED
    BY <1>1, <2>2, <2>3
<1> QED
  BY <1>4, <1>5

\* One character read is not none.
LEMMA TakeCharStarted ==
  ASSUME NEW p \in Cut, NEW c \in Bytes
  PROVE  TakeChar(p, c) # Start
<1>1. p.out \in Seq(Seq(Bytes)) /\ p.piece \in Seq(Bytes)
  BY DEF Cut
<1>2. Append(p.out, p.piece) # <<>> /\ Append(p.piece, c) # <<>>
  BY <1>1, AppendProperties
<1>3. Start.out = <<>> /\ Start.piece = <<>>
  BY DEF Start
<1>4. \/ TakeChar(p, c).out = Append(p.out, p.piece)
      \/ TakeChar(p, c).piece = Append(p.piece, c)
  BY DEF TakeChar, Cut
<1> QED
  BY <1>2, <1>3, <1>4

\* Two strings with the same identifiers are the same.
LEMMA SplitInjective ==
  ASSUME NEW s \in Seq(Bytes), NEW t \in Seq(Bytes), split_identifiers(s) = split_identifiers(t)
  PROVE  s = t
<1>1. PICK m \in Nat, n \in Nat : m = Len(s) /\ n = Len(t)
  OBVIOUS
<1>2. PICK a, b : a = Cuts(s) /\ b = Cuts(t)
  OBVIOUS
<1>3. /\ a \in [0 .. m -> Cut] /\ a[0] = Start /\ \A i \in 1 .. m : a[i] = TakeChar(a[i - 1], s[i])
      /\ b \in [0 .. n -> Cut] /\ b[0] = Start /\ \A i \in 1 .. n : b[i] = TakeChar(b[i - 1], t[i])
      /\ split_identifiers(s) = Append(a[m].out, a[m].piece)
      /\ split_identifiers(t) = Append(b[n].out, b[n].piece)
  BY <1>1, <1>2, CutsOf
<1>4. (\A i \in 1 .. m : s[i] \in Bytes) /\ (\A i \in 1 .. n : t[i] \in Bytes)
  BY <1>1, ByteIsInt
<1> DEFINE Alike(i, j) == i = j /\ \A k \in 1 .. i : s[k] = t[k]
<1>P. PICK P : P = {i \in 0 .. m : \A j \in 0 .. n : a[i] = b[j] => Alike(i, j)}
  OBVIOUS
<1>5. 0 \in P
  <2>1. ASSUME NEW j \in 0 .. n, a[0] = b[j] PROVE j = 0
    <3> SUFFICES ASSUME j # 0 PROVE FALSE
      OBVIOUS
    <3>1. j \in 1 .. n /\ j - 1 \in 0 .. n
      OBVIOUS
    <3>2. b[j] = TakeChar(b[j - 1], t[j]) /\ b[j - 1] \in Cut /\ t[j] \in Bytes
      BY <1>3, <1>4, <3>1
    <3> QED
      BY <1>3, <2>1, <3>2, TakeCharStarted
  <2> QED
    BY <1>P, <2>1
<1>6. ASSUME NEW i \in 1 .. m, i - 1 \in P PROVE i \in P
  <2> SUFFICES ASSUME NEW j \in 0 .. n, a[i] = b[j] PROVE Alike(i, j)
    BY <1>P
  <2>1. a[i] = TakeChar(a[i - 1], s[i]) /\ a[i - 1] \in Cut /\ s[i] \in Bytes
    BY <1>3, <1>4
  <2>2. j # 0
    BY <1>3, <2>1, TakeCharStarted
  <2>3. j \in 1 .. n /\ j - 1 \in 0 .. n
    BY <2>2
  <2>4. b[j] = TakeChar(b[j - 1], t[j]) /\ b[j - 1] \in Cut /\ t[j] \in Bytes
    BY <1>3, <1>4, <2>3
  <2>5. a[i - 1] = b[j - 1] /\ s[i] = t[j]
    <3>1. TakeChar(a[i - 1], s[i]) = TakeChar(b[j - 1], t[j])
      BY <2>1, <2>4
    <3>2. PICK p \in Cut, q \in Cut, c \in Bytes, d \in Bytes :
            p = a[i - 1] /\ q = b[j - 1] /\ c = s[i] /\ d = t[j] /\ TakeChar(p, c) = TakeChar(q, d)
      BY <2>1, <2>4, <3>1
    <3>3. p = q /\ c = d
      BY <3>2, TakeCharInjective
    <3> QED
      BY <3>2, <3>3
  <2>6. Alike(i - 1, j - 1)
    BY <1>P, <1>6, <2>3, <2>5
  <2>7. i = j
    BY <2>3, <2>6
  <2>8. ASSUME NEW k \in 1 .. i PROVE s[k] = t[k]
    <3>1. k = i \/ k \in 1 .. i - 1
      OBVIOUS
    <3> QED
      BY <2>5, <2>6, <2>7, <3>1
  <2> QED
    BY <2>7, <2>8
<1>7. m \in P
  <2>1. \A k \in 0 .. m : k \in P
    BY <1>5, <1>6, Upwards
  <2> QED
    BY <2>1
<1>8. a[m] = b[n]
  <2>1. /\ a[m] \in Cut /\ a[m].out \in Seq(Seq(Bytes)) /\ a[m].piece \in Seq(Bytes)
        /\ b[n] \in Cut /\ b[n].out \in Seq(Seq(Bytes)) /\ b[n].piece \in Seq(Bytes)
    BY <1>3 DEF Cut
  <2>2. a[m].out = b[n].out /\ a[m].piece = b[n].piece
    <3>1. Append(a[m].out, a[m].piece) = Append(b[n].out, b[n].piece)
      BY <1>3
    <3>2. PICK f \in Seq(Seq(Bytes)), g \in Seq(Seq(Bytes)), x \in Seq(Bytes), y \in Seq(Bytes) :
            f = a[m].out /\ g = b[n].out /\ x = a[m].piece /\ y = b[n].piece
      BY <2>1
    <3>3. Append(f, x) = Append(g, y)
      BY <3>1, <3>2
    <3>4. f = g /\ x = y
      BY <3>3, AppendInjective
    <3> QED
      BY <3>2, <3>4
  <2>3. \A p \in Cut : p = [out |-> p.out, piece |-> p.piece]
    BY DEF Cut
  <2> QED
    BY <2>1, <2>2, <2>3
<1>9. Alike(m, n)
  BY <1>7, <1>8, <1>P
<1> QED
  BY <1>1, <1>9, SeqEqual

\* Of any two in the pool, == and <=> agree.
LEMMA PoolAgrees == PoolInv => EqualityAgrees
<1> SUFFICES ASSUME PoolInv
             PROVE  /\ \A v, w \in pool : Equal(v, w) => Spaceship(v, w) = 0
                    /\ \A v, w \in Valid : Spaceship(v, w) = 0 => Equal(v, w)
  BY Zenon DEF EqualityAgrees
<1>1. ASSUME NEW v \in pool, NEW w \in pool, Equal(v, w) PROVE Spaceship(v, w) = 0
  <2>1. v \in Version /\ w \in Version /\ v.pre_release \in Seq(Bytes)
    BY DEF PoolInv, Version
  <2>2. v.major = w.major /\ v.minor = w.minor /\ v.patch = w.patch /\ v.pre_release = w.pre_release
    BY <1>1 DEF Equal
  <2>3. Spaceship(v, w) = Rest(v, w)
    BY <2>1, <2>2, SpaceshipIs
  <2>4. PICK c \in Signs : c = compare_pre_release(v.pre_release, v.pre_release) /\ c = 0 - c
    BY <2>1, PreReleasesOrdered
  <2>5. c = 0
    BY <2>4 DEF Signs
  <2>6. Rest(v, w) = 0
    BY <2>2, <2>4, <2>5 DEF Rest
  <2> QED
    BY <2>3, <2>6
<1>2. ASSUME NEW v \in Valid, NEW w \in Valid, Spaceship(v, w) = 0 PROVE Equal(v, w)
  <2>1. Readable(v) /\ Readable(w) /\ v \in Version /\ w \in Version
    BY DEF PoolInv, Valid, Readable
  <2>2. /\ v.major \in Int /\ v.minor \in Int /\ v.patch \in Int /\ v.pre_release \in Seq(Bytes)
        /\ w.major \in Int /\ w.minor \in Int /\ w.patch \in Int /\ w.pre_release \in Seq(Bytes)
    BY <2>1 DEF Version
  <2>3. /\ Sign(v.major - w.major) = 0 <=> v.major = w.major
        /\ Sign(v.minor - w.minor) = 0 <=> v.minor = w.minor
        /\ Sign(v.patch - w.patch) = 0 <=> v.patch = w.patch
    BY <2>2, SignIs
  <2>4. v.major = w.major /\ v.minor = w.minor /\ v.patch = w.patch /\ Rest(v, w) = 0
    BY <1>2, <2>1, <2>3, SpaceshipIs
  <2>5. CASE v.pre_release = <<>> \/ w.pre_release = <<>>
    BY <2>4, <2>5 DEF Equal, Rest
  <2>6. CASE v.pre_release # <<>> /\ w.pre_release # <<>>
    <3>1. compare_pre_release(v.pre_release, w.pre_release) = 0
      BY <2>4, <2>6 DEF Rest
    <3>2. split_identifiers(v.pre_release) = split_identifiers(w.pre_release)
      BY <2>1, <2>6, <3>1, ReadableIsSound, PreReleasesBefore
    <3>3. v.pre_release = w.pre_release
      BY <2>2, <3>2, SplitInjective
    <3> QED
      BY <2>4, <3>3 DEF Equal
  <2> QED
    BY <2>5, <2>6
<1> QED
  BY <1>1, <1>2

\* Versions that are equal are equivalent, whatever they hold; and valid ones that are
\* equivalent are equal, all but their build metadata.
THEOREM AlwaysAgrees == SemverSpec => []EqualityAgrees
BY PoolInit, PoolStep, PoolAgrees, PTL DEF SemverSpec
-----------------------------------------------------------------------------
(* The texts of numbers.                                                   *)

\* Division by ten.
LEMMA DivMod ==
  ASSUME NEW x \in Nat, NEW q \in Int, NEW r \in Int, q = x \div 10, r = x % 10
  PROVE  q \in Nat /\ r \in 0 .. 9 /\ x = 10 * q + r /\ (x >= 10 => q < x)
<1>1. x = 10 * q + r /\ q \in Nat /\ r \in 0 .. 9
  OBVIOUS
<1> QED
  BY <1>1

\* The text of a number that is not negative.
NumeralText == Seq(Digits) \ {<<>>}

Numerals(n) ==
  CHOOSE digits : digits =
    [k \in 0 .. n |-> IF k < 10 THEN <<48 + k>> ELSE Append(digits[k \div 10], 48 + (k % 10))]

\* A digit of a number is the character of a digit.
LEMMA DigitIs ==
  ASSUME NEW c \in 0 .. 9
  PROVE  48 + c \in Digits
BY DEF Digits

\* Up to any number, one function has the texts of all.
LEMMA NumeralsOf ==
  ASSUME NEW N \in Nat
  PROVE  \E g \in [0 .. N -> NumeralText] :
           /\ \A k \in 0 .. N : g[k] = IF k < 10 THEN <<48 + k>> ELSE Append(g[k \div 10], 48 + (k % 10))
           /\ \A n \in 0 .. N : Numeral(n) = g[n]
<1>b. PICK Base : Base = 0 .. 9
  OBVIOUS
<1>f. PICK first : first = [k \in 0 .. N |-> <<48 + (k % 10)>>]
  OBVIOUS
<1>d. PICK down : down = [k \in 0 .. N |-> k \div 10]
  OBVIOUS
<1>s. PICK step : step = [p \in (0 .. N) \X NumeralText |-> Append(p[2], 48 + (p[1] % 10))]
  OBVIOUS
<1>1. \A k \in 0 .. N : k % 10 \in 0 .. 9 /\ 48 + (k % 10) \in Digits
  BY DigitIs
<1>2. \A k \in 0 .. N : k \div 10 \in Nat /\ (k >= 10 => k \div 10 < k)
  <2> SUFFICES ASSUME NEW k \in 0 .. N PROVE k \div 10 \in Nat /\ (k >= 10 => k \div 10 < k)
    OBVIOUS
  <2>1. PICK q \in Int, r \in Int : q = k \div 10 /\ r = k % 10
    OBVIOUS
  <2>2. q \in Nat /\ (k >= 10 => q < k)
    BY <2>1, DivMod
  <2> QED
    BY <2>1, <2>2
<1>3. \A v \in NumeralText, e \in Digits : Append(v, e) \in NumeralText
  BY AppendProperties DEF NumeralText
<1>4. Descends(N, NumeralText, Base, first, down, step)
  <2>1. first \in [0 .. N -> NumeralText]
    <3>1. \A e \in Digits : <<e>> \in NumeralText
      BY DEF NumeralText
    <3> QED
      BY <1>1, <1>f, <3>1
  <2>2. down \in [0 .. N -> Nat]
    BY <1>2, <1>d
  <2>3. step \in [(0 .. N) \X NumeralText -> NumeralText]
    <3>1. \A p \in (0 .. N) \X NumeralText : p[1] \in 0 .. N /\ p[2] \in NumeralText
      OBVIOUS
    <3>2. \A p \in (0 .. N) \X NumeralText : Append(p[2], 48 + (p[1] % 10)) \in NumeralText
      BY <1>1, <1>3, <3>1
    <3> QED
      BY <1>s, <3>2
  <2>4. \A k \in 0 .. N : k \notin Base => down[k] < k
    BY <1>b, <1>d, <1>2
  <2> QED
    BY <2>1, <2>2, <2>3, <2>4 DEF Descends
<1>5. PICK g \in [0 .. N -> NumeralText] : Computes(g, N, Base, first, down, step)
  BY <1>4, Recursion
<1>6. ASSUME NEW k \in 0 .. N
      PROVE  g[k] = IF k < 10 THEN <<48 + k>> ELSE Append(g[k \div 10], 48 + (k % 10))
  <2>1. CASE k < 10
    <3>1. k \in Base /\ k % 10 = k
      BY <1>b, <2>1
    <3> QED
      BY <1>5, <1>f, <2>1, <3>1 DEF Computes
  <2>2. CASE ~ (k < 10)
    <3>1. k \notin Base /\ k \div 10 \in 0 .. N /\ down[k] = k \div 10
      BY <1>2, <1>b, <1>d, <2>2
    <3>2. g[k \div 10] \in NumeralText
      BY <1>5, <3>1
    <3>3. step[<<k, g[k \div 10]>>] = Append(g[k \div 10], 48 + (k % 10))
      BY <1>s, <3>2
    <3> QED
      BY <1>5, <2>2, <3>1, <3>3 DEF Computes
  <2> QED
    BY <2>1, <2>2
<1>7. ASSUME NEW n \in 0 .. N PROVE Numeral(n) = g[n]
  <2> DEFINE P(h) == h = [k \in 0 .. n |-> IF k < 10 THEN <<48 + k>> ELSE Append(h[k \div 10], 48 + (k % 10))]
  <2>1. PICK f : f = [k \in 0 .. n |-> g[k]]
    OBVIOUS
  <2>2. P(f)
    <3>1. ASSUME NEW k \in 0 .. n
          PROVE  f[k] = IF k < 10 THEN <<48 + k>> ELSE Append(f[k \div 10], 48 + (k % 10))
      <4>1. k \in 0 .. N /\ (k >= 10 => k \div 10 \in 0 .. n)
        BY <1>2
      <4>2. k >= 10 => f[k \div 10] = g[k \div 10]
        BY <2>1, <4>1
      <4>3. f[k] = g[k]
        BY <2>1
      <4>4. CASE k < 10
        BY <1>6, <4>1, <4>3, <4>4
      <4>5. CASE ~ (k < 10)
        <5>1. f[k \div 10] = g[k \div 10]
          BY <4>2, <4>5
        <5>2. g[k] = Append(g[k \div 10], 48 + (k % 10))
          BY <1>6, <4>1, <4>5
        <5> QED
          BY <4>3, <4>5, <5>1, <5>2
      <4> QED
        BY <4>4, <4>5
    <3> QED
      BY <2>1, <3>1
  <2>3. PICK v : v = Numerals(n)
    OBVIOUS
  <2>4. P(v)
    <3> HIDE DEF P
    <3>1. Numerals(n) = CHOOSE h : P(h)
      BY DEF Numerals, P
    <3> QED
      BY Zenon, <2>2, <2>3, <3>1
  <2>5. \A k \in 0 .. n : v[k] = IF k < 10 THEN <<48 + k>> ELSE Append(v[k \div 10], 48 + (k % 10))
    BY <2>4
  <2> HIDE DEF P
  <2>6. Follows(g, v, n)
    <3> SUFFICES ASSUME NEW k \in 0 .. n, \A j \in 0 .. k - 1 : g[j] = v[j] PROVE g[k] = v[k]
      BY DEF Follows
    <3>1. k \in 0 .. N
      OBVIOUS
    <3>2. CASE k < 10
      BY <1>6, <2>5, <3>1, <3>2
    <3>3. CASE ~ (k < 10)
      <4>1. k \div 10 \in 0 .. k - 1
        BY <1>2, <3>1, <3>3
      <4>2. g[k \div 10] = v[k \div 10]
        BY <4>1
      <4> QED
        BY <1>6, <2>5, <3>1, <3>3, <4>2
    <3> QED
      BY <3>2, <3>3
  <2>7. g[n] = v[n]
    BY <2>6, OneValue
  <2>8. Numeral(n) = Numerals(n)[n]
    BY DEF Numeral, Numerals
  <2> QED
    BY <2>3, <2>7, <2>8
<1> QED
  BY <1>6, <1>7

\* The text of a number is digits.
LEMMA NumeralType ==
  ASSUME NEW n \in Nat
  PROVE  Numeral(n) \in Seq(Digits) /\ Numeral(n) # <<>> /\ Decimal(n) = Numeral(n)
<1>1. Numeral(n) \in NumeralText
  BY NumeralsOf
<1>2. ~ (n < 0)
  OBVIOUS
<1> QED
  BY <1>1, <1>2 DEF NumeralText, Decimal

\* Two numbers with the same text are the same.
LEMMA NumeralInjective ==
  ASSUME NEW m \in Nat, NEW n \in Nat, Numeral(m) = Numeral(n)
  PROVE  m = n
<1>1. PICK N \in Nat : m <= N /\ n <= N
  <2>1. m <= m + n /\ n <= m + n /\ m + n \in Nat
    OBVIOUS
  <2> QED
    BY <2>1
<1>2. PICK g \in [0 .. N -> NumeralText] :
        /\ \A k \in 0 .. N : g[k] = IF k < 10 THEN <<48 + k>> ELSE Append(g[k \div 10], 48 + (k % 10))
        /\ \A k \in 0 .. N : Numeral(k) = g[k]
  BY NumeralsOf
<1>3. ASSUME NEW k \in 0 .. N, k < 10 PROVE g[k] = <<48 + k>> /\ Len(g[k]) = 1
  BY <1>2, <1>3
<1>4. ASSUME NEW k \in 0 .. N, k >= 10
      PROVE  \E q \in 0 .. k - 1, r \in 0 .. 9 :
               /\ k = 10 * q + r /\ q \in 0 .. N /\ g[q] \in Seq(Digits) /\ 48 + r \in Digits
               /\ g[k] = Append(g[q], 48 + r) /\ Len(g[k]) > 1
  <2>1. PICK q \in Int, r \in Int : q = k \div 10 /\ r = k % 10
    OBVIOUS
  <2>2. q \in Nat /\ r \in 0 .. 9 /\ k = 10 * q + r /\ q < k
    BY <1>4, <2>1, DivMod
  <2>3. q \in 0 .. k - 1 /\ q \in 0 .. N /\ 48 + r \in Digits
    BY <2>2, DigitIs
  <2>4. g[q] \in Seq(Digits) /\ g[q] # <<>>
    BY <1>2, <2>3 DEF NumeralText
  <2>5. g[k] = Append(g[q], 48 + r)
    BY <1>2, <1>4, <2>1
  <2>6. Len(g[k]) > 1
    <3>1. Len(g[q]) \in Nat /\ Len(g[q]) # 0
      BY <2>4
    <3>2. Len(Append(g[q], 48 + r)) = Len(g[q]) + 1
      BY <2>3, <2>4, AppendProperties
    <3> QED
      BY <2>5, <3>1, <3>2
  <2> QED
    BY <2>2, <2>3, <2>4, <2>5, <2>6
<1>5. PICK Bad : Bad = {k \in 0 .. N : \E j \in 0 .. N : g[k] = g[j] /\ k # j}
  OBVIOUS
<1>6. CASE Bad = {}
  <2>1. m \in 0 .. N /\ n \in 0 .. N
    BY <1>1
  <2>2. g[m] = g[n]
    BY <1>2, <2>1
  <2> QED
    BY <1>5, <1>6, <2>1, <2>2
<1>7. CASE Bad # {}
  <2>1. Bad \in SUBSET Nat
    BY <1>5
  <2>2. PICK k \in Bad : \A j \in Bad : k <= j
    BY <1>7, <2>1, Least
  <2>3. PICK j \in 0 .. N : k \in 0 .. N /\ g[k] = g[j] /\ k # j
    BY <1>5, <2>2
  <2>4. CASE k < 10
    <3>1. g[k] = <<48 + k>> /\ Len(g[k]) = 1
      BY <1>3, <2>3, <2>4
    <3>2. j < 10
      <4> SUFFICES ASSUME j >= 10 PROVE FALSE
        OBVIOUS
      <4>1. Len(g[j]) > 1
        BY <1>4
      <4> QED
        BY <2>3, <3>1, <4>1
    <3>3. g[j] = <<48 + j>>
      BY <1>3, <3>2
    <3>4. <<48 + k>>[1] = <<48 + j>>[1]
      BY <2>3, <3>1, <3>3
    <3>5. k = j
      BY <2>3, <3>4
    <3> QED
      BY <2>3, <3>5
  <2>5. CASE k >= 10
    <3>1. PICK q \in 0 .. k - 1, r \in 0 .. 9 :
            /\ k = 10 * q + r /\ q \in 0 .. N /\ g[q] \in Seq(Digits) /\ 48 + r \in Digits
            /\ g[k] = Append(g[q], 48 + r) /\ Len(g[k]) > 1
      BY <1>4, <2>3, <2>5
    <3>2. j >= 10
      <4> SUFFICES ASSUME j < 10 PROVE FALSE
        OBVIOUS
      <4>1. Len(g[j]) = 1
        BY <1>3
      <4> QED
        BY <2>3, <3>1, <4>1
    <3>3. PICK y \in 0 .. j - 1, z \in 0 .. 9 :
            /\ j = 10 * y + z /\ y \in 0 .. N /\ g[y] \in Seq(Digits) /\ 48 + z \in Digits
            /\ g[j] = Append(g[y], 48 + z) /\ Len(g[j]) > 1
      BY <1>4, <3>2
    <3>4. g[q] = g[y] /\ 48 + r = 48 + z
      <4>1. Append(g[q], 48 + r) = Append(g[y], 48 + z)
        BY <2>3, <3>1, <3>3
      <4> QED
        BY <3>1, <3>3, <4>1, AppendInjective
    <3>5. q \notin Bad
      <4>1. ~ (k <= q)
        BY <2>3, <3>1
      <4> QED
        BY <2>2, <4>1
    <3>6. q = y
      BY <1>5, <3>1, <3>3, <3>4, <3>5
    <3> QED
      BY <2>3, <3>1, <3>3, <3>4, <3>6
  <2> QED
    BY <2>3, <2>4, <2>5
<1> QED
  BY <1>6, <1>7
-----------------------------------------------------------------------------
(* Taking a text apart.                                                    *)

\* A text is two others, joined.
Joined(s, a, x) == s = a \o x

\* Any two can be joined.
LEMMA Join ==
  ASSUME NEW S, NEW a \in Seq(S), NEW x \in Seq(S)
  PROVE  \E s \in Seq(S) : Joined(s, a, x)
BY ConcatProperties DEF Joined

\* It does not matter which two are joined first.
LEMMA JoinsAgree ==
  ASSUME NEW S, NEW f \in Seq(S), NEW p \in Seq(S), NEW b \in Seq(S), NEW g, NEW r, NEW t,
         Joined(g, f, p), Joined(r, p, b), Joined(t, g, b)
  PROVE  Joined(t, f, r)
<1>1. (f \o p) \o b = f \o (p \o b)
  BY ConcatAssociative
<1> QED
  BY <1>1 DEF Joined

\* Two texts that are alike and whose beginnings are of a length.
LEMMA CutEqual ==
  ASSUME NEW S, NEW a \in Seq(S), NEW b \in Seq(S), NEW x \in Seq(S), NEW y \in Seq(S), NEW s,
         Len(a) = Len(b), Joined(s, a, x), Joined(s, b, y)
  PROVE  a = b /\ x = y
<1>0. a \o x = b \o y
  BY DEF Joined
<1>1. PICK m \in Nat, n \in Nat, l \in Nat : m = Len(a) /\ m = Len(b) /\ n = Len(x) /\ l = Len(y)
  OBVIOUS
<1>2. n = l
  <2>1. Len(a \o x) = m + n /\ Len(b \o y) = m + l
    BY <1>1, ConcatProperties
  <2> QED
    BY <1>0, <2>1
<1>3. ASSUME NEW i \in 1 .. m PROVE a[i] = b[i]
  <2>1. i \in 1 .. m + n /\ i <= m
    OBVIOUS
  <2>2. (a \o x)[i] = a[i]
    BY <1>1, <2>1, ConcatProperties
  <2>3. (b \o y)[i] = b[i]
    BY <1>1, <1>2, <2>1, ConcatProperties
  <2> QED
    BY <1>0, <2>2, <2>3
<1>4. ASSUME NEW i \in 1 .. n PROVE x[i] = y[i]
  <2>1. PICK j \in 1 .. m + n : j = m + i /\ ~ (j <= m) /\ j - m = i
    OBVIOUS
  <2>2. (a \o x)[j] = x[i]
    <3>1. j \in 1 .. Len(a) + Len(x)
      BY <1>1, <2>1
    <3>2. (a \o x)[j] = IF j <= Len(a) THEN a[j] ELSE x[j - Len(a)]
      BY <3>1, ConcatProperties
    <3> QED
      BY <1>1, <2>1, <3>2
  <2>3. (b \o y)[j] = y[i]
    BY <1>1, <1>2, <2>1, ConcatProperties
  <2> QED
    BY <1>0, <2>2, <2>3
<1>5. a = b
  BY <1>1, <1>3, SeqEqual
<1>6. x = y
  BY <1>1, <1>2, <1>4, SeqEqual
<1> QED
  BY <1>5, <1>6

\* Its first character is none of K.
Stops(x, K) == x = <<>> \/ x[1] \notin K

\* A reader takes the characters of K, and knows where they end.
LEMMA CutAt ==
  ASSUME NEW K \in SUBSET Bytes, NEW a \in Seq(K), NEW b \in Seq(K),
         NEW x \in Seq(Bytes), NEW y \in Seq(Bytes), Stops(x, K), Stops(y, K),
         NEW s, Joined(s, a, x), Joined(s, b, y)
  PROVE  a = b /\ x = y
<1>1. ASSUME NEW p \in Seq(K), NEW q \in Seq(K), NEW u \in Seq(Bytes), NEW w \in Seq(Bytes),
             Stops(u, K), Joined(s, p, u), Joined(s, q, w)
      PROVE  ~ (Len(p) < Len(q))
  <2> SUFFICES ASSUME Len(p) < Len(q) PROVE FALSE
    OBVIOUS
  <2>1. p \in Seq(Bytes) /\ q \in Seq(Bytes)
    OBVIOUS
  <2>2. PICK m \in Nat, n \in Nat, k \in Nat, l \in Nat : m = Len(p) /\ n = Len(q) /\ k = Len(u) /\ l = Len(w) /\ m < n
    OBVIOUS
  <2>3. p \o u = q \o w /\ Len(p \o u) = m + k /\ Len(q \o w) = n + l
    BY <1>1, <2>1, <2>2, ConcatProperties DEF Joined
  <2>4. k >= 1
    BY <2>2, <2>3
  <2>5. (p \o u)[m + 1] = u[1]
    <3>1. m + 1 \in 1 .. m + k /\ ~ (m + 1 <= m) /\ (m + 1) - m = 1
      BY <2>4
    <3> QED
      BY <2>1, <2>2, <3>1, ConcatProperties
  <2>6. (q \o w)[m + 1] = q[m + 1]
    <3>1. m + 1 \in 1 .. n + l /\ m + 1 <= n
      BY <2>2
    <3> QED
      BY <2>1, <2>2, <3>1, ConcatProperties
  <2>7. q[m + 1] \in K
    <3>1. m + 1 \in 1 .. Len(q)
      BY <2>2
    <3> QED
      BY <3>1
  <2>8. u # <<>>
    BY <2>2, <2>4
  <2> QED
    BY <1>1, <2>3, <2>5, <2>6, <2>7, <2>8 DEF Stops
<1>2. ~ (Len(a) < Len(b)) /\ ~ (Len(b) < Len(a))
  BY <1>1
<1>3. Len(a) = Len(b)
  BY <1>2
<1>4. a \in Seq(Bytes) /\ b \in Seq(Bytes)
  OBVIOUS
<1> QED
  BY <1>3, <1>4, CutEqual

\* The signs a version's text is cut at.
LEMMA CharIs ==
  /\ Digits \in SUBSET Bytes /\ DotSign \in Bytes /\ DashSign \in Bytes /\ PlusSign \in Bytes
  /\ DotSign \notin Digits /\ DashSign \notin Digits /\ PlusSign \notin Digits
  /\ DashSign # PlusSign /\ DotSign # PlusSign
BY DEF Digits, Bytes, DotSign, DashSign, PlusSign
-----------------------------------------------------------------------------
(* No plus in a pre-release.                                               *)

\* No character of a text, or of the pieces cut so far, is a plus.
NoPlus(t) == \A j \in 1 .. Len(t) : t[j] # PlusSign
Plain(acc) == (\A m \in 1 .. Len(acc.out) : NoPlus(acc.out[m])) /\ NoPlus(acc.piece)

\* A plus that is read is in the pieces from then on.
LEMMA PlainBefore ==
  ASSUME NEW p \in Cut, NEW c \in Bytes, Plain(TakeChar(p, c))
  PROVE  Plain(p) /\ c # PlusSign
<1>1. PICK out \in Seq(Seq(Bytes)), piece \in Seq(Bytes) : out = p.out /\ piece = p.piece
  BY DEF Cut
<1>2. CASE c = DotSign
  <2>1. TakeChar(p, c).out = Append(out, piece)
    BY <1>1, <1>2 DEF TakeChar
  <2>2. \A m \in 1 .. Len(out) + 1 : NoPlus(Append(out, piece)[m])
    <3>1. Len(Append(out, piece)) = Len(out) + 1
      BY AppendProperties
    <3> QED
      BY <2>1, <3>1 DEF Plain
  <2>3. \A m \in 1 .. Len(out) : NoPlus(out[m])
    <3> SUFFICES ASSUME NEW m \in 1 .. Len(out) PROVE NoPlus(out[m])
      OBVIOUS
    <3>1. Append(out, piece)[m] = out[m] /\ m \in 1 .. Len(out) + 1
      BY AppendProperties
    <3> QED
      BY <2>2, <3>1
  <2>4. NoPlus(piece)
    <3>1. Append(out, piece)[Len(out) + 1] = piece /\ Len(out) + 1 \in 1 .. Len(out) + 1
      BY AppendProperties
    <3> QED
      BY <2>2, <3>1
  <2> QED
    BY <1>1, <1>2, <2>3, <2>4, CharIs DEF Plain
<1>3. CASE c # DotSign
  <2>1. TakeChar(p, c).out = out /\ TakeChar(p, c).piece = Append(piece, c)
    BY <1>1, <1>3 DEF TakeChar, Cut
  <2>2. \A j \in 1 .. Len(piece) + 1 : Append(piece, c)[j] # PlusSign
    <3>1. Len(Append(piece, c)) = Len(piece) + 1
      BY AppendProperties
    <3> QED
      BY <2>1, <3>1 DEF Plain, NoPlus
  <2>3. NoPlus(piece)
    <3> SUFFICES ASSUME NEW j \in 1 .. Len(piece) PROVE piece[j] # PlusSign
      BY DEF NoPlus
    <3>1. Append(piece, c)[j] = piece[j] /\ j \in 1 .. Len(piece) + 1
      BY AppendProperties
    <3> QED
      BY <2>2, <3>1
  <2>4. c # PlusSign
    <3>1. Append(piece, c)[Len(piece) + 1] = c /\ Len(piece) + 1 \in 1 .. Len(piece) + 1
      BY AppendProperties
    <3> QED
      BY <2>2, <3>1
  <2> QED
    BY <1>1, <2>1, <2>3, <2>4 DEF Plain
<1> QED
  BY <1>2, <1>3

\* A pre-release of valid identifiers holds no plus.
LEMMA ValidHasNoPlus ==
  ASSUME NEW s \in Seq(Bytes), \A id \in Range(split_identifiers(s)) : ValidIdentifier(id)
  PROVE  NoPlus(s)
<1>1. PICK n \in Nat : n = Len(s)
  OBVIOUS
<1>2. PICK a : a = Cuts(s)
  OBVIOUS
<1>3. /\ a \in [0 .. n -> Cut] /\ \A i \in 1 .. n : a[i] = TakeChar(a[i - 1], s[i])
      /\ split_identifiers(s) = Append(a[n].out, a[n].piece)
  BY <1>1, <1>2, CutsOf
<1>4. \A i \in 1 .. n : s[i] \in Bytes
  BY <1>1, ByteIsInt
<1>5. ~ IsAlnumDash(PlusSign)
  BY DEF IsAlnumDash, Digits, DashSign, PlusSign
<1>6. \A id \in Range(split_identifiers(s)) : NoPlus(id)
  BY <1>5 DEF ValidIdentifier, NoPlus
<1>7. Plain(a[n])
  <2>1. PICK out \in Seq(Seq(Bytes)), piece \in Seq(Bytes) : out = a[n].out /\ piece = a[n].piece
    BY <1>3 DEF Cut
  <2>2. PICK f : f = Append(out, piece)
    OBVIOUS
  <2>3. f = split_identifiers(s) /\ f \in Seq(Seq(Bytes)) /\ Len(f) = Len(out) + 1
    BY <1>3, <2>1, <2>2, AppendProperties
  <2>4. \A m \in 1 .. Len(out) + 1 : NoPlus(f[m])
    <3>1. \A m \in 1 .. Len(f) : f[m] \in Range(f)
      <4>1. DOMAIN f = 1 .. Len(f)
        BY <2>3
      <4> QED
        BY Zenon, <4>1 DEF Range
    <3> QED
      BY <1>6, <2>3, <3>1
  <2>5. ASSUME NEW m \in 1 .. Len(out) PROVE NoPlus(out[m])
    <3>1. f[m] = out[m] /\ m \in 1 .. Len(out) + 1
      BY <2>2, AppendProperties
    <3> QED
      BY <2>4, <3>1
  <2>6. NoPlus(piece)
    <3>1. f[Len(out) + 1] = piece /\ Len(out) + 1 \in 1 .. Len(out) + 1
      BY <2>2, AppendProperties
    <3> QED
      BY <2>4, <3>1
  <2> QED
    BY <2>1, <2>5, <2>6 DEF Plain
<1>8. ASSUME NEW i \in 1 .. n, Plain(a[i]) PROVE Plain(a[i - 1]) /\ s[i] # PlusSign
  <2>1. a[i - 1] \in Cut /\ s[i] \in Bytes /\ a[i] = TakeChar(a[i - 1], s[i])
    BY <1>3, <1>4
  <2> QED
    BY <1>8, <2>1, PlainBefore
<1>P. PICK P : P = {k \in 0 .. n : Plain(a[n - k])}
  OBVIOUS
<1>9. 0 \in P
  BY <1>7, <1>P
<1>10. ASSUME NEW k \in 1 .. n, k - 1 \in P PROVE k \in P
  <2>1. PICK i \in 1 .. n : i = n - (k - 1) /\ i - 1 = n - k
    OBVIOUS
  <2>2. Plain(a[i])
    BY <1>10, <1>P, <2>1
  <2>3. Plain(a[i - 1])
    BY <1>8, <2>2
  <2> QED
    BY <1>P, <2>1, <2>3
<1>11. \A k \in 0 .. n : k \in P
  BY <1>9, <1>10, Upwards
<1>12. ASSUME NEW i \in 1 .. n PROVE s[i] # PlusSign
  <2>1. n - i \in 0 .. n /\ n - (n - i) = i
    OBVIOUS
  <2>2. Plain(a[i])
    BY <1>11, <1>P, <2>1
  <2> QED
    BY <1>8, <2>2
<1> QED
  BY <1>1, <1>12 DEF NoPlus
-----------------------------------------------------------------------------
(* TextIdentifies.                                                         *)

\* A sign in front.
LEMMA SignedText ==
  ASSUME NEW c \in Bytes
  PROVE  /\ <<c>> \in Seq(Bytes) /\ Len(<<c>>) = 1
         /\ \A t \in Seq(Bytes) : \A s : Joined(s, <<c>>, t) => s \in Seq(Bytes) /\ s # <<>> /\ s[1] = c
<1>1. <<c>> \in Seq(Bytes) /\ Len(<<c>>) = 1 /\ <<c>>[1] = c
  OBVIOUS
<1>2. PICK h \in Seq(Bytes) : h = <<c>> /\ Len(h) = 1 /\ h[1] = c
  BY <1>1
<1>3. ASSUME NEW t \in Seq(Bytes), NEW s, Joined(s, h, t) PROVE s \in Seq(Bytes) /\ s # <<>> /\ s[1] = c
  <2>1. 1 \in 1 .. 1 + Len(t) /\ 1 <= 1
    OBVIOUS
  <2>2. h \o t \in Seq(Bytes) /\ Len(h \o t) = 1 + Len(t) /\ (h \o t)[1] = c
    BY <1>2, <2>1, ConcatProperties
  <2>3. h \o t # <<>>
    BY <2>2
  <2> QED
    BY <1>3, <2>2, <2>3 DEF Joined
<1> QED
  BY <1>1, <1>2, <1>3

\* A sign and what follows it, or nothing: what comes after the numbers.
Part(c, x) == IF x # <<>> THEN <<c>> \o x ELSE <<>>

\* It begins with its sign, unless it is empty.
LEMMA PartIs ==
  ASSUME NEW c \in Bytes, NEW x \in Seq(Bytes)
  PROVE  /\ Part(c, x) \in Seq(Bytes)
         /\ x = <<>> => Part(c, x) = <<>>
         /\ x # <<>> => Joined(Part(c, x), <<c>>, x) /\ Part(c, x) # <<>> /\ Part(c, x)[1] = c
<1>1. CASE x # <<>>
  <2>1. Joined(Part(c, x), <<c>>, x)
    BY <1>1 DEF Part, Joined
  <2> QED
    BY <1>1, <2>1, SignedText
<1>2. CASE x = <<>>
  <2>1. <<>> \in Seq(Bytes)
    OBVIOUS
  <2> QED
    BY <1>2, <2>1 DEF Part
<1> QED
  BY <1>1, <1>2

\* It tells what follows the sign.
LEMMA PartInjective ==
  ASSUME NEW c \in Bytes, NEW x \in Seq(Bytes), NEW y \in Seq(Bytes), Part(c, x) = Part(c, y)
  PROVE  x = y
<1>1. CASE x # <<>> /\ y # <<>>
  <2>1. PICK h \in Seq(Bytes) : h = <<c>>
    BY SignedText
  <2>2. Joined(Part(c, x), h, x) /\ Joined(Part(c, x), h, y)
    BY <1>1, <2>1, PartIs
  <2> QED
    BY <2>1, <2>2, CutEqual
<1>2. CASE x = <<>> \/ y = <<>>
  BY <1>2, PartIs
<1> QED
  BY <1>1, <1>2

\* The text of a valid version, from its end.
IsText(t, v, r1, r2, r3, r4, r5) ==
  /\ Joined(r1, Part(DashSign, v.pre_release), Part(PlusSign, v.build))
  /\ Joined(r2, Numeral(v.patch), r1)
  /\ Joined(r3, <<DotSign>>, r2)
  /\ Joined(r4, Numeral(v.minor), r3)
  /\ Joined(r5, <<DotSign>>, r4)
  /\ Joined(t, Numeral(v.major), r5)
  /\ Stops(r1, Digits) /\ Stops(r3, Digits) /\ Stops(r5, Digits)

\* What the parts of a valid version are made of: no plus comes before the build.
LEMMA FieldsOf ==
  ASSUME NEW v \in Version, ValidVersion(v)
  PROVE  /\ v.major \in Nat /\ v.minor \in Nat /\ v.patch \in Nat
         /\ v.pre_release \in Seq(Bytes) /\ v.build \in Seq(Bytes)
         /\ Part(DashSign, v.pre_release) \in Seq(Bytes \ {PlusSign})
         /\ Part(PlusSign, v.build) \in Seq(Bytes)
         /\ Stops(Part(PlusSign, v.build), Bytes \ {PlusSign})
<1>1. /\ v.major \in Nat /\ v.minor \in Nat /\ v.patch \in Nat
      /\ v.pre_release \in Seq(Bytes) /\ v.build \in Seq(Bytes)
  BY DEF Version, ValidVersion
<1>2. Part(DashSign, v.pre_release) \in Seq(Bytes \ {PlusSign})
  <2>1. CASE v.pre_release # <<>>
    <3>1. NoPlus(v.pre_release)
      <4>1. \A id \in Range(split_identifiers(v.pre_release)) : ValidIdentifier(id)
        BY <2>1 DEF ValidVersion
      <4> QED
        BY <1>1, <4>1, ValidHasNoPlus
    <3>2. v.pre_release \in Seq(Bytes \ {PlusSign})
      <4>1. PICK s \in Seq(Bytes) : s = v.pre_release /\ NoPlus(s)
        BY <1>1, <3>1
      <4>2. \A j \in 1 .. Len(s) : s[j] \in Bytes \ {PlusSign}
        BY <4>1 DEF NoPlus
      <4>3. Len(s) \in Nat /\ s = [j \in 1 .. Len(s) |-> s[j]]
        OBVIOUS
      <4>4. s \in Seq(Bytes \ {PlusSign})
        BY <4>2, <4>3
      <4> QED
        BY <4>1, <4>4
    <3>3. <<DashSign>> \in Seq(Bytes \ {PlusSign})
      BY CharIs
    <3> QED
      BY <2>1, <3>2, <3>3, ConcatProperties DEF Part
  <2>2. CASE v.pre_release = <<>>
    BY <2>2 DEF Part
  <2> QED
    BY <2>1, <2>2
<1>3. Part(PlusSign, v.build) \in Seq(Bytes) /\ Stops(Part(PlusSign, v.build), Bytes \ {PlusSign})
  BY <1>1, CharIs, PartIs DEF Stops
<1> QED
  BY <1>1, <1>2, <1>3

\* to_string, taken from the end.
LEMMA TextIs ==
  ASSUME NEW v \in Version, ValidVersion(v)
  PROVE  \E r1, r2, r3, r4, r5 \in Seq(Bytes) : IsText(to_string(v), v, r1, r2, r3, r4, r5)
<1>1. PICK p \in Seq(Bytes), b \in Seq(Bytes) :
        /\ p = Part(DashSign, v.pre_release) /\ b = Part(PlusSign, v.build)
        /\ p = <<>> \/ (p # <<>> /\ p[1] = DashSign)
        /\ b = <<>> \/ b[1] = PlusSign
  <2>1. PICK pre \in Seq(Bytes), build \in Seq(Bytes) : pre = v.pre_release /\ build = v.build
    BY FieldsOf
  <2>2. /\ Part(DashSign, pre) \in Seq(Bytes)
        /\ Part(DashSign, pre) = <<>> \/ (Part(DashSign, pre) # <<>> /\ Part(DashSign, pre)[1] = DashSign)
    BY <2>1, CharIs, PartIs
  <2>3. /\ Part(PlusSign, build) \in Seq(Bytes)
        /\ Part(PlusSign, build) = <<>> \/ Part(PlusSign, build)[1] = PlusSign
    BY <2>1, CharIs, PartIs
  <2> QED
    BY <2>1, <2>2, <2>3
<1>2. PICK x \in Seq(Bytes), y \in Seq(Bytes), z \in Seq(Bytes) :
        /\ x = Numeral(v.major) /\ y = Numeral(v.minor) /\ z = Numeral(v.patch)
        /\ x = Decimal(v.major) /\ y = Decimal(v.minor) /\ z = Decimal(v.patch)
  <2>1. \A t \in Seq(Digits) : t \in Seq(Bytes)
    BY CharIs
  <2> QED
    BY <2>1, FieldsOf, NumeralType
<1>3. PICK d \in Seq(Bytes) : d = <<DotSign>>
  BY CharIs, SignedText
<1>s. p \in Seq(Bytes) /\ b \in Seq(Bytes) /\ x \in Seq(Bytes) /\ y \in Seq(Bytes) /\ z \in Seq(Bytes) /\ d \in Seq(Bytes)
  BY <1>1, <1>2, <1>3
<1>4. PICK f1 \in Seq(Bytes) : Joined(f1, x, d)
  BY <1>2, <1>3, Join
<1>5. PICK f2 \in Seq(Bytes) : Joined(f2, f1, y)
  BY <1>2, <1>4, Join
<1>6. PICK f3 \in Seq(Bytes) : Joined(f3, f2, d)
  BY <1>3, <1>5, Join
<1>7. PICK f4 \in Seq(Bytes) : Joined(f4, f3, z)
  BY <1>2, <1>6, Join
<1>8. PICK f5 \in Seq(Bytes) : Joined(f5, f4, p)
  BY <1>1, <1>7, Join
<1>9. PICK t \in Seq(Bytes) : Joined(t, f5, b)
  BY <1>1, <1>8, Join
<1>10. t = to_string(v)
  BY Zenon, <1>1, <1>2, <1>3, <1>4, <1>5, <1>6, <1>7, <1>8, <1>9 DEF to_string, Part, Joined
<1>11. PICK r1 \in Seq(Bytes) : Joined(r1, p, b)
  BY <1>1, Join
<1>12. PICK r2 \in Seq(Bytes) : Joined(r2, z, r1)
  BY <1>2, <1>11, Join
<1>13. PICK r3 \in Seq(Bytes) : Joined(r3, d, r2)
  BY <1>3, <1>12, Join
<1>14. PICK r4 \in Seq(Bytes) : Joined(r4, y, r3)
  BY <1>2, <1>13, Join
<1>15. PICK r5 \in Seq(Bytes) : Joined(r5, d, r4)
  BY <1>3, <1>14, Join
<1>16. Joined(t, f4, r1)
  BY <1>s, <1>7, <1>8, <1>9, <1>11, JoinsAgree
<1>17. Joined(t, f3, r2)
  BY <1>s, <1>6, <1>7, <1>11, <1>12, <1>16, JoinsAgree
<1>18. Joined(t, f2, r3)
  BY <1>s, <1>5, <1>6, <1>12, <1>13, <1>17, JoinsAgree
<1>19. Joined(t, f1, r4)
  BY <1>s, <1>4, <1>5, <1>13, <1>14, <1>18, JoinsAgree
<1>20. Joined(t, x, r5)
  BY <1>s, <1>4, <1>14, <1>15, <1>19, JoinsAgree
<1>21. Stops(r1, Digits)
  <2>1. CASE p = <<>>
    <3>1. r1 = b
      <4>1. <<>> \o b = b
        BY <1>1, ConcatEmptySeq
      <4> QED
        BY <1>11, <2>1, <4>1 DEF Joined
    <3> QED
      BY <1>1, <3>1, CharIs DEF Stops
  <2>2. CASE p # <<>> /\ p[1] = DashSign
    <3>1. Len(p) \in Nat /\ Len(b) \in Nat /\ Len(p) >= 1
      <4>1. Len(p) \in Nat /\ Len(b) \in Nat
        BY <1>s, LenProperties
      <4>2. Len(p) # 0
        BY <1>s, <2>2, EmptySeq
      <4> QED
        BY <4>1, <4>2
    <3>2. 1 \in 1 .. Len(p) + Len(b) /\ 1 <= Len(p)
      BY <3>1
    <3>3. (p \o b)[1] = DashSign
      BY <1>1, <2>2, <3>2, ConcatProperties
    <3>4. r1[1] = DashSign
      BY <1>11, <3>3 DEF Joined
    <3> QED
      BY <3>4, CharIs DEF Stops
  <2> QED
    BY <1>1, <2>1, <2>2
<1>22. Stops(r3, Digits) /\ Stops(r5, Digits)
  <2>1. r3[1] = DotSign /\ r5[1] = DotSign
    BY <1>3, <1>12, <1>13, <1>14, <1>15, CharIs, SignedText
  <2> QED
    BY <2>1, CharIs DEF Stops
<1>23. IsText(to_string(v), v, r1, r2, r3, r4, r5)
  BY <1>1, <1>2, <1>3, <1>10, <1>11, <1>12, <1>13, <1>14, <1>15, <1>20, <1>21, <1>22 DEF IsText
<1> QED
  BY <1>11, <1>12, <1>13, <1>14, <1>15, <1>23

\* A reader finds the numbers, each up to the first character that is no digit; then the
\* pre-release, up to the plus; then the build.
LEMMA TextInjective ==
  ASSUME NEW v \in Version, NEW w \in Version, ValidVersion(v), ValidVersion(w), to_string(v) = to_string(w)
  PROVE  v = w
<1>1. PICK t : t = to_string(v) /\ t = to_string(w)
  OBVIOUS
<1>2. PICK r1 \in Seq(Bytes), r2 \in Seq(Bytes), r3 \in Seq(Bytes), r4 \in Seq(Bytes), r5 \in Seq(Bytes) :
        IsText(t, v, r1, r2, r3, r4, r5)
  BY <1>1, TextIs
<1>3. PICK s1 \in Seq(Bytes), s2 \in Seq(Bytes), s3 \in Seq(Bytes), s4 \in Seq(Bytes), s5 \in Seq(Bytes) :
        IsText(to_string(w), w, s1, s2, s3, s4, s5)
  BY TextIs
<1>4. \A n \in Nat : Numeral(n) \in Seq(Digits)
  BY NumeralType
<1>5. PICK d \in Seq(Bytes) : d = <<DotSign>>
  BY CharIs, SignedText
<1>6. ASSUME NEW m \in Nat, NEW n \in Nat, NEW x \in Seq(Bytes), NEW y \in Seq(Bytes), NEW u,
             Stops(x, Digits), Stops(y, Digits), Joined(u, Numeral(m), x), Joined(u, Numeral(n), y)
      PROVE  m = n /\ x = y
  <2>1. PICK a \in Seq(Digits), b \in Seq(Digits) : a = Numeral(m) /\ b = Numeral(n)
    BY <1>4
  <2>2. a = b /\ x = y
    BY <1>6, <2>1, CharIs, CutAt
  <2> QED
    BY <2>1, <2>2, NumeralInjective
<1>7. ASSUME NEW x \in Seq(Bytes), NEW y \in Seq(Bytes), NEW u, Joined(u, <<DotSign>>, x), Joined(u, <<DotSign>>, y)
      PROVE  x = y
  BY <1>5, <1>7, CutEqual
<1>n. /\ v.major \in Nat /\ v.minor \in Nat /\ v.patch \in Nat
      /\ w.major \in Nat /\ w.minor \in Nat /\ w.patch \in Nat
  BY FieldsOf
<1>v. /\ Joined(r2, Numeral(v.patch), r1) /\ Joined(r3, <<DotSign>>, r2) /\ Joined(r4, Numeral(v.minor), r3)
      /\ Joined(r5, <<DotSign>>, r4) /\ Joined(t, Numeral(v.major), r5)
      /\ Stops(r1, Digits) /\ Stops(r3, Digits) /\ Stops(r5, Digits)
      /\ r1 \in Seq(Bytes) /\ r2 \in Seq(Bytes) /\ r3 \in Seq(Bytes) /\ r4 \in Seq(Bytes) /\ r5 \in Seq(Bytes)
  BY <1>2 DEF IsText
<1>w. /\ Joined(s2, Numeral(w.patch), s1) /\ Joined(s3, <<DotSign>>, s2) /\ Joined(s4, Numeral(w.minor), s3)
      /\ Joined(s5, <<DotSign>>, s4) /\ Joined(t, Numeral(w.major), s5)
      /\ Stops(s1, Digits) /\ Stops(s3, Digits) /\ Stops(s5, Digits)
      /\ s1 \in Seq(Bytes) /\ s2 \in Seq(Bytes) /\ s3 \in Seq(Bytes) /\ s4 \in Seq(Bytes) /\ s5 \in Seq(Bytes)
  BY <1>1, <1>3 DEF IsText
<1>8. v.major = w.major /\ r5 = s5
  <2>1. PICK m \in Nat, n \in Nat : m = v.major /\ n = w.major
    BY <1>n
  <2>2. /\ Joined(t, Numeral(m), r5) /\ Joined(t, Numeral(n), s5) /\ Stops(r5, Digits) /\ Stops(s5, Digits)
        /\ m \in Nat /\ n \in Nat /\ r5 \in Seq(Bytes) /\ s5 \in Seq(Bytes)
    BY <1>v, <1>w, <2>1
  <2>3. m = n /\ r5 = s5
    BY <1>6, <2>2
  <2> QED
    BY <2>1, <2>3
<1>9. r4 = s4
  BY Zenon, <1>v, <1>w, <1>7, <1>8
<1>10. v.minor = w.minor /\ r3 = s3
  <2>1. PICK m \in Nat, n \in Nat : m = v.minor /\ n = w.minor
    BY <1>n
  <2>2. /\ Joined(r4, Numeral(m), r3) /\ Joined(r4, Numeral(n), s3) /\ Stops(r3, Digits) /\ Stops(s3, Digits)
        /\ m \in Nat /\ n \in Nat /\ r3 \in Seq(Bytes) /\ s3 \in Seq(Bytes)
    BY <1>v, <1>w, <1>9, <2>1
  <2>3. m = n /\ r3 = s3
    BY <1>6, <2>2
  <2> QED
    BY <2>1, <2>3
<1>11. r2 = s2
  BY Zenon, <1>v, <1>w, <1>7, <1>10
<1>12. v.patch = w.patch /\ r1 = s1
  <2>1. PICK m \in Nat, n \in Nat : m = v.patch /\ n = w.patch
    BY <1>n
  <2>2. /\ Joined(r2, Numeral(m), r1) /\ Joined(r2, Numeral(n), s1) /\ Stops(r1, Digits) /\ Stops(s1, Digits)
        /\ m \in Nat /\ n \in Nat /\ r1 \in Seq(Bytes) /\ s1 \in Seq(Bytes)
    BY <1>v, <1>w, <1>11, <2>1
  <2>3. m = n /\ r1 = s1
    BY <1>6, <2>2
  <2> QED
    BY <2>1, <2>3
<1>13. /\ Part(DashSign, v.pre_release) = Part(DashSign, w.pre_release)
       /\ Part(PlusSign, v.build) = Part(PlusSign, w.build)
  <2>1. PICK K \in SUBSET Bytes : K = Bytes \ {PlusSign}
    OBVIOUS
  <2>2. /\ Part(DashSign, v.pre_release) \in Seq(K) /\ Part(PlusSign, v.build) \in Seq(Bytes)
        /\ Part(DashSign, w.pre_release) \in Seq(K) /\ Part(PlusSign, w.build) \in Seq(Bytes)
        /\ Stops(Part(PlusSign, v.build), K) /\ Stops(Part(PlusSign, w.build), K)
    BY Zenon, <2>1, FieldsOf
  <2>3. /\ Joined(r1, Part(DashSign, v.pre_release), Part(PlusSign, v.build))
        /\ Joined(r1, Part(DashSign, w.pre_release), Part(PlusSign, w.build))
    BY <1>2, <1>3, <1>12 DEF IsText
  <2>4. PICK p \in Seq(K), b \in Seq(Bytes), q \in Seq(K), c \in Seq(Bytes) :
          /\ p = Part(DashSign, v.pre_release) /\ b = Part(PlusSign, v.build)
          /\ q = Part(DashSign, w.pre_release) /\ c = Part(PlusSign, w.build)
    BY Zenon, <2>2
  <2>5. Stops(b, K) /\ Stops(c, K) /\ Joined(r1, p, b) /\ Joined(r1, q, c)
    BY Zenon, <2>2, <2>3, <2>4
  <2>6. K \in SUBSET Bytes /\ p \in Seq(K) /\ b \in Seq(Bytes) /\ q \in Seq(K) /\ c \in Seq(Bytes)
    BY <2>1, <2>4
  <2>7. p = q /\ b = c
    BY <2>5, <2>6, CutAt
  <2> QED
    BY <2>4, <2>7
<1>14. v.pre_release = w.pre_release /\ v.build = w.build
  BY <1>13, FieldsOf, PartInjective, CharIs
<1>15. \A u \in Version : u = [major |-> u.major, minor |-> u.minor, patch |-> u.patch,
                               pre_release |-> u.pre_release, build |-> u.build]
  BY DEF Version
<1> QED
  BY <1>8, <1>10, <1>12, <1>14, <1>15

\* Of any two valid ones in the pool.
LEMMA PoolIdentifies == PoolInv => TextIdentifies
BY TextInjective DEF PoolInv, TextIdentifies

\* Of two valid versions with the same text, all fields are the same: whatever their
\* numbers, and whether or not their identifiers fit in the code's integer.
THEOREM AlwaysIdentified == SemverSpec => []TextIdentifies
BY PoolInit, PoolStep, PoolIdentifies, PTL DEF SemverSpec
=============================================================================
