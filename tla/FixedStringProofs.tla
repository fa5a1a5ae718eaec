------------------------- MODULE FixedStringProofs -------------------------
(* What FixedString promises, for every set of variables, every length and *)
(* every set of characters.                                                *)
EXTENDS FixedString, SequenceTheorems, WellFoundedInduction, TLAPS

USE CharsAssumption, LengthAssumption DEF NUL

\* A value as the storage of fixed_string<n> may hold it.
Fixed(s, n) == s.n = n /\ s.data_ \in [0 .. n -> Chars] /\ s.data_[n] = NUL

\* Terminated, a variable at a time.
LEMMA TerminatedAsFixed == Terminated <=> \A x \in Slots : Fixed(str[x], N[x])
BY DEF Terminated, Fixed

\* What the program keeps as an invariant: every variable has its own type's value.
Inv == str = [x \in Slots |-> str[x]] /\ \A x \in Slots : Fixed(str[x], N[x])

\* n characters of the alphabet give a value, with the terminator the storage starts with.
LEMMA FromCharsFixed ==
  ASSUME NEW n \in Nat, NEW cs, \A i \in 1 .. n : cs[i] \in Chars
  PROVE  Fixed(FromChars(n, cs), n)
<1>1. \A i \in 0 .. n : (IF i < n THEN cs[i + 1] ELSE NUL) \in Chars
  OBVIOUS
<1> QED
  BY <1>1 DEF FromChars, Fixed

\* The terminator of a literal becomes that of the fixed string.
LEMMA FromLiteralFixed ==
  ASSUME NEW n \in Nat, NEW txt \in Literals(n)
  PROVE  Fixed(FromLiteral(txt), n)
<1>1. PICK cs \in [1 .. n -> Chars] : txt = Append(cs, NUL)
  BY DEF Literals
<1>2. cs \in Seq(Chars) /\ Len(cs) = n
  BY <1>1
<1>3. Len(txt) = n + 1 /\ \A i \in 1 .. n : txt[i] \in Chars
  BY <1>1, <1>2
<1>4. txt[n + 1] = NUL
  BY <1>1, <1>2
<1> QED
  BY <1>3, <1>4 DEF FromLiteral, Fixed

\* A range of any length is cut or filled up.
LEMMA FromRangeFixed ==
  ASSUME NEW n \in Nat, NEW cs \in Seq(Chars)
  PROVE  Fixed(FromRange(n, cs), n)
<1>1. \A i \in 0 .. n : (IF i < n /\ i < Len(cs) THEN cs[i + 1] ELSE NUL) \in Chars
  OBVIOUS
<1> QED
  BY <1>1 DEF FromRange, Fixed

\* Joining two fixed strings gives one of both lengths together.
LEMMA PlusFixed ==
  ASSUME NEW l, NEW r, NEW m \in Nat, NEW n \in Nat, Fixed(l, m), Fixed(r, n)
  PROVE  Fixed(Plus(l, r), m + n)
<1> DEFINE cs == [i \in 1 .. m + n |-> IF i - 1 < m THEN l.data_[i - 1] ELSE r.data_[i - 1 - m]]
<1>1. \A i \in 1 .. m + n : cs[i] \in Chars
  BY DEF Fixed
<1>2. Plus(l, r) = FromChars(m + n, cs)
  BY DEF Plus, Fixed
<1> HIDE DEF cs
<1> QED
  BY <1>1, <1>2, FromCharsFixed

\* So does joining one with a character, on either side.
LEMMA PlusCharFixed ==
  ASSUME NEW l, NEW n \in Nat, NEW c \in Chars, Fixed(l, n)
  PROVE  Fixed(PlusChar(l, c), n + 1) /\ Fixed(CharPlus(c, l), n + 1)
<1> DEFINE before == [i \in 1 .. n + 1 |-> IF i - 1 < n THEN l.data_[i - 1] ELSE c]
           after  == [i \in 1 .. 1 + n |-> IF i - 1 = 0 THEN c ELSE l.data_[i - 2]]
<1>1. \A i \in 1 .. n + 1 : before[i] \in Chars
  BY DEF Fixed
<1>2. \A i \in 1 .. n + 1 : after[i] \in Chars
  BY DEF Fixed
<1>3. PlusChar(l, c) = FromChars(n + 1, before)
  BY DEF PlusChar, Fixed
<1>4. CharPlus(c, l) = FromChars(n + 1, after)
  BY DEF CharPlus, Fixed
<1> HIDE DEF before, after
<1> QED
  BY <1>1, <1>2, <1>3, <1>4, FromCharsFixed

\* Assigning a value of the variable's type keeps every variable's value of its type.
LEMMA AssignInv ==
  ASSUME Inv, NEW x \in Slots, NEW s, Fixed(s, N[x]), Assign(x, s)
  PROVE  Inv'
BY DEF Inv, Assign, Fixed

\* Variables start empty, which is filled up.
LEMMA InitInv == FixedInit => Inv
<1> SUFFICES ASSUME FixedInit PROVE Inv
  OBVIOUS
<1>1. <<>> \in Seq(Chars)
  OBVIOUS
<1>2. \A x \in Slots : N[x] \in Nat
  OBVIOUS
<1>3. \A x \in Slots : Fixed(FromRange(N[x], <<>>), N[x])
  BY <1>1, <1>2, FromRangeFixed
<1> QED
  BY <1>3 DEF FixedInit, Inv

\* The constructors.
LEMMA ConstructInv == ASSUME Inv, NEW x \in Slots, Construct(x) PROVE Inv'
<1>1. CASE \E cs \in [1 .. N[x] -> Chars] : Assign(x, FromChars(N[x], cs))
  BY <1>1, FromCharsFixed, AssignInv
<1>2. CASE \E txt \in Literals(N[x]) : Assign(x, FromLiteral(txt))
  BY <1>2, FromLiteralFixed, AssignInv
<1>3. CASE \E cs \in Word(N[x] + 1) : Assign(x, FromRange(N[x], cs))
  <2>1. PICK cs \in Word(N[x] + 1) : Assign(x, FromRange(N[x], cs))
    BY <1>3
  <2>2. cs \in Seq(Chars)
    BY DEF Word
  <2> QED
    BY <2>1, <2>2, FromRangeFixed, AssignInv
<1> QED
  BY <1>1, <1>2, <1>3 DEF Construct

\* The concatenations.
LEMMA ConcatInv == ASSUME Inv, NEW x \in Slots, NEW y \in Slots, Concat(x, y) PROVE Inv'
<1>1. \A z \in Slots : N[z] \in Nat /\ Fixed(str[z], N[z])
  BY DEF Inv
<1>2. ASSUME NEW z \in Slots, N[x] = N[y] + N[z], Assign(x, Plus(str[y], str[z]))
      PROVE  Inv'
  BY <1>1, <1>2, PlusFixed, AssignInv
<1>3. ASSUME N[x] = N[y] + 1, NEW c \in Chars,
             Assign(x, PlusChar(str[y], c)) \/ Assign(x, CharPlus(c, str[y]))
      PROVE  Inv'
  BY <1>1, <1>3, PlusCharFixed, AssignInv
<1>4. ASSUME N[x] >= N[y], NEW txt \in Literals(N[x] - N[y]),
             Assign(x, PlusLiteral(str[y], txt)) \/ Assign(x, LiteralPlus(txt, str[y]))
      PROVE  Inv'
  <2>1. N[x] - N[y] \in Nat /\ N[y] \in Nat
    BY <1>1, <1>4
  <2>2. Fixed(FromLiteral(txt), N[x] - N[y])
    BY <2>1, FromLiteralFixed
  <2>3. Fixed(PlusLiteral(str[y], txt), N[y] + (N[x] - N[y]))
    BY <1>1, <2>1, <2>2, PlusFixed DEF PlusLiteral
  <2>4. Fixed(LiteralPlus(txt, str[y]), (N[x] - N[y]) + N[y])
    BY <1>1, <2>1, <2>2, PlusFixed DEF LiteralPlus
  <2>5. N[y] + (N[x] - N[y]) = N[x] /\ (N[x] - N[y]) + N[y] = N[x]
    BY <1>1
  <2> QED
    BY <1>4, <2>3, <2>4, <2>5, AssignInv
<1> QED
  BY <1>2, <1>3, <1>4 DEF Concat

\* swap, whose copies of the storage are as well formed as what they are copied from.
LEMMA SwapInv == ASSUME Inv, NEW x \in Slots, NEW y \in Slots, swap(x, y) PROVE Inv'
<1>1. \A z \in Slots : N[z] \in Nat /\ Fixed(str[z], N[z])
  BY DEF Inv
<1> DEFINE from(z) == [i \in 0 .. N[x] |-> str[z].data_[i]]
<1>2. N[x] = N[y] /\ str' = [str EXCEPT ![x].data_ = from(y), ![y].data_ = from(x)]
  BY DEF swap
<1>3. Fixed([str[x] EXCEPT !.data_ = from(y)], N[x]) /\ Fixed([str[y] EXCEPT !.data_ = from(x)], N[y])
  BY <1>1, <1>2 DEF Fixed
<1> QED
  BY <1>1, <1>2, <1>3 DEF Inv, Fixed

\* No operation breaks the invariant.
LEMMA NextInv == Inv /\ [FixedNext]_str => Inv'
<1> SUFFICES ASSUME Inv, [FixedNext]_str PROVE Inv'
  OBVIOUS
<1>1. ASSUME NEW x \in Slots, Construct(x) PROVE Inv'
  BY <1>1, ConstructInv
<1>2. ASSUME NEW x \in Slots, NEW y \in Slots, Copy(x, y) PROVE Inv'
  BY <1>2, AssignInv DEF Copy, Inv
<1>3. ASSUME NEW x \in Slots, NEW y \in Slots, Concat(x, y) PROVE Inv'
  BY <1>3, ConcatInv
<1>4. ASSUME NEW x \in Slots, NEW y \in Slots, swap(x, y) PROVE Inv'
  BY <1>4, SwapInv
<1>5. CASE UNCHANGED str
  BY <1>5 DEF Inv
<1> QED
  BY <1>1, <1>2, <1>3, <1>4, <1>5 DEF FixedNext

\* The storage of every variable stays terminated within its bounds, for every length and
\* alphabet: c_str() is safe whatever the operations before.
THEOREM AlwaysTerminated == FixedSpec => []Terminated
<1>1. Inv => Terminated
  BY TerminatedAsFixed DEF Inv
<1> QED
  BY <1>1, InitInv, NextInv, PTL DEF FixedSpec
-----------------------------------------------------------------------------
(* What the operations read.                                               *)

\* What is read of a value are n characters.
LEMMA ViewIsText ==
  ASSUME NEW n \in Nat, NEW s, Fixed(s, n)
  PROVE  view(s) \in Seq(Chars) /\ Len(view(s)) = n /\ \A i \in 1 .. n : view(s)[i] = s.data_[i - 1]
<1>1. view(s) = [i \in 1 .. n |-> s.data_[i - 1]]
  BY DEF view, Fixed
<1>2. \A i \in 1 .. n : s.data_[i - 1] \in Chars
  BY DEF Fixed
<1> QED
  BY <1>1, <1>2

\* A value made of n characters reads as the text of these.
LEMMA ReadsAs ==
  ASSUME NEW n \in Nat, NEW s, Fixed(s, n), NEW txt \in Seq(Chars), Len(txt) = n,
         \A i \in 1 .. n : s.data_[i - 1] = txt[i]
  PROVE  view(s) = txt
<1>1. view(s) \in Seq(Chars) /\ Len(view(s)) = n /\ \A i \in 1 .. n : view(s)[i] = s.data_[i - 1]
  BY ViewIsText
<1>2. Len(view(s)) = Len(txt) /\ \A i \in 1 .. Len(view(s)) : view(s)[i] = txt[i]
  BY <1>1
<1> QED
  BY <1>1, <1>2, SeqEqual

\* Two texts joined: the characters of the first, then those of the second.
LEMMA Joined ==
  ASSUME NEW a \in Seq(Chars), NEW b \in Seq(Chars)
  PROVE  /\ a \o b \in Seq(Chars) /\ Len(a \o b) = Len(a) + Len(b)
         /\ \A i \in 1 .. Len(a) + Len(b) :
              (a \o b)[i] = IF i <= Len(a) THEN a[i] ELSE b[i - Len(a)]
OBVIOUS

\* Fixed strings are joined as texts are.
LEMMA PlusText ==
  ASSUME NEW l, NEW r, NEW m \in Nat, NEW n \in Nat, Fixed(l, m), Fixed(r, n)
  PROVE  view(Plus(l, r)) = view(l) \o view(r)
<1>1. /\ view(l) \in Seq(Chars) /\ Len(view(l)) = m
      /\ \A i \in 1 .. m : view(l)[i] = l.data_[i - 1]
  BY ViewIsText
<1>2. /\ view(r) \in Seq(Chars) /\ Len(view(r)) = n
      /\ \A i \in 1 .. n : view(r)[i] = r.data_[i - 1]
  BY ViewIsText
<1> DEFINE txt == view(l) \o view(r)
<1>3. /\ txt \in Seq(Chars) /\ Len(txt) = m + n
      /\ \A i \in 1 .. m + n : txt[i] = IF i <= m THEN view(l)[i] ELSE view(r)[i - m]
  BY <1>1, <1>2, Joined
<1> HIDE DEF txt
<1>4. \A i \in 1 .. m + n : Plus(l, r).data_[i - 1] = txt[i]
  <2> SUFFICES ASSUME NEW i \in 1 .. m + n PROVE Plus(l, r).data_[i - 1] = txt[i]
    OBVIOUS
  <2>1. Plus(l, r).data_[i - 1] = IF i - 1 < m THEN l.data_[i - 1] ELSE r.data_[i - 1 - m]
    BY DEF Plus, FromChars, Fixed
  <2>2. CASE i <= m
    BY <1>1, <1>3, <2>1, <2>2
  <2>3. CASE i > m
    <3>1. i - m \in 1 .. n /\ i - m - 1 = i - 1 - m
      BY <2>3
    <3> QED
      BY <1>2, <1>3, <2>1, <2>3, <3>1
  <2> QED
    BY <2>2, <2>3
<1>5. view(Plus(l, r)) = txt
  BY <1>3, <1>4, PlusFixed, ReadsAs
<1> QED
  BY <1>5 DEF txt

\* A character behind.
LEMMA PlusCharText ==
  ASSUME NEW l, NEW n \in Nat, NEW c \in Chars, Fixed(l, n)
  PROVE  view(PlusChar(l, c)) = Append(view(l), c)
<1>1. /\ view(l) \in Seq(Chars) /\ Len(view(l)) = n
      /\ \A i \in 1 .. n : view(l)[i] = l.data_[i - 1]
  BY ViewIsText
<1> DEFINE txt == Append(view(l), c)
<1>2. /\ txt \in Seq(Chars) /\ Len(txt) = n + 1 /\ txt[n + 1] = c
      /\ \A i \in 1 .. n : txt[i] = l.data_[i - 1]
  BY <1>1
<1> HIDE DEF txt
<1>3. \A i \in 1 .. n + 1 : PlusChar(l, c).data_[i - 1] = txt[i]
  <2> SUFFICES ASSUME NEW i \in 1 .. n + 1 PROVE PlusChar(l, c).data_[i - 1] = txt[i]
    OBVIOUS
  <2>1. PlusChar(l, c).data_[i - 1] = IF i - 1 < n THEN l.data_[i - 1] ELSE c
    BY DEF PlusChar, FromChars, Fixed
  <2> QED
    BY <1>2, <2>1
<1>4. n + 1 \in Nat /\ Fixed(PlusChar(l, c), n + 1)
  BY PlusCharFixed
<1>5. view(PlusChar(l, c)) = txt
  BY <1>2, <1>3, <1>4, ReadsAs
<1> QED
  BY <1>5 DEF txt

\* A character in front.
LEMMA CharPlusText ==
  ASSUME NEW l, NEW n \in Nat, NEW c \in Chars, Fixed(l, n)
  PROVE  view(CharPlus(c, l)) = <<c>> \o view(l)
<1>1. /\ view(l) \in Seq(Chars) /\ Len(view(l)) = n
      /\ \A i \in 1 .. n : view(l)[i] = l.data_[i - 1]
  BY ViewIsText
<1>2. <<c>> \in Seq(Chars) /\ Len(<<c>>) = 1 /\ <<c>>[1] = c
  OBVIOUS
<1> DEFINE txt == <<c>> \o view(l)
<1>3. /\ txt \in Seq(Chars) /\ Len(txt) = 1 + n
      /\ \A i \in 1 .. 1 + n : txt[i] = IF i <= 1 THEN <<c>>[i] ELSE view(l)[i - 1]
  BY <1>1, <1>2, Joined
<1> HIDE DEF txt
<1>4. \A i \in 1 .. n + 1 : CharPlus(c, l).data_[i - 1] = txt[i]
  <2> SUFFICES ASSUME NEW i \in 1 .. n + 1 PROVE CharPlus(c, l).data_[i - 1] = txt[i]
    OBVIOUS
  <2>1. CharPlus(c, l).data_[i - 1] = IF i - 1 = 0 THEN c ELSE l.data_[i - 2]
    BY DEF CharPlus, FromChars, Fixed
  <2>2. CASE i = 1
    BY <1>2, <1>3, <2>1, <2>2
  <2>3. CASE i > 1
    <3>1. i - 1 \in 1 .. n /\ i - 1 - 1 = i - 2
      BY <2>3
    <3> QED
      BY <1>1, <1>3, <2>1, <2>3, <3>1
  <2> QED
    BY <2>2, <2>3
<1>5. view(CharPlus(c, l)) = txt
  BY <1>3, <1>4, PlusCharFixed, ReadsAs
<1> QED
  BY <1>5 DEF txt

\* A literal made a fixed string reads as the literal without its terminator.
LEMMA LiteralText ==
  ASSUME NEW txt \in Seq(Chars)
  PROVE  /\ Append(txt, NUL) \in Literals(Len(txt))
         /\ Fixed(FromLiteral(Append(txt, NUL)), Len(txt))
         /\ view(FromLiteral(Append(txt, NUL))) = txt
<1>1. txt \in [1 .. Len(txt) -> Chars] /\ Len(txt) \in Nat
  OBVIOUS
<1>2. Append(txt, NUL) \in Literals(Len(txt))
  BY <1>1 DEF Literals
<1>3. Fixed(FromLiteral(Append(txt, NUL)), Len(txt))
  BY <1>1, <1>2, FromLiteralFixed
<1>4. \A i \in 1 .. Len(txt) : FromLiteral(Append(txt, NUL)).data_[i - 1] = txt[i]
  BY DEF FromLiteral
<1> QED
  BY <1>1, <1>2, <1>3, <1>4, ReadsAs

\* A range is cut, or filled up, to the length.
LEMMA RangeText ==
  ASSUME NEW cs \in Seq(Chars), NEW n \in Nat
  PROVE  view(FromRange(n, cs)) = SubSeq(cs \o [i \in 1 .. n |-> NUL], 1, n)
<1> DEFINE fill == [i \in 1 .. n |-> NUL]
           txt == SubSeq(cs \o fill, 1, n)
<1>1. fill \in Seq(Chars) /\ Len(fill) = n /\ \A i \in 1 .. n : fill[i] = NUL
  OBVIOUS
<1> HIDE DEF fill
<1>2. /\ cs \o fill \in Seq(Chars) /\ Len(cs \o fill) = Len(cs) + n
      /\ \A i \in 1 .. Len(cs) + n :
           (cs \o fill)[i] = IF i <= Len(cs) THEN cs[i] ELSE fill[i - Len(cs)]
  BY <1>1, Joined
<1>3. /\ txt \in Seq(Chars) /\ Len(txt) = n
      /\ \A i \in 1 .. n : txt[i] = (cs \o fill)[i]
  <2>1. Len(cs) \in Nat
    OBVIOUS
  <2> QED
    BY <1>2, <2>1
<1> HIDE DEF txt
<1>4. \A i \in 1 .. n : FromRange(n, cs).data_[i - 1] = txt[i]
  <2> SUFFICES ASSUME NEW i \in 1 .. n PROVE FromRange(n, cs).data_[i - 1] = txt[i]
    OBVIOUS
  <2>1. FromRange(n, cs).data_[i - 1] = IF i - 1 < Len(cs) THEN cs[i] ELSE NUL
    BY DEF FromRange
  <2>2. Len(cs) \in Nat /\ i \in 1 .. Len(cs) + n
    OBVIOUS
  <2>3. txt[i] = IF i <= Len(cs) THEN cs[i] ELSE fill[i - Len(cs)]
    BY <1>2, <1>3, <2>2
  <2>4. i > Len(cs) => fill[i - Len(cs)] = NUL
    BY <1>1, <2>2
  <2> QED
    BY <2>1, <2>2, <2>3, <2>4
<1>5. view(FromRange(n, cs)) = txt
  BY <1>3, <1>4, FromRangeFixed, ReadsAs
<1> QED
  BY <1>5 DEF txt, fill

\* Reading by index, checked or not, and backwards.
LEMMA AccessText ==
  ASSUME NEW s, NEW n \in Nat, Fixed(s, n)
  PROVE  /\ Backwards(s) = [k \in 1 .. s.n |-> view(s)[s.n + 1 - k]]
         /\ \A pos \in 0 .. s.n + 1 :
              at(s, pos) = IF pos < s.n THEN view(s)[pos + 1] ELSE OutOfRange
         /\ \A pos \in 0 .. s.n - 1 : index(s, pos) = at(s, pos)
<1>1. s.n = n /\ \A i \in 1 .. n : view(s)[i] = s.data_[i - 1]
  <2>1. \A i \in 1 .. n : view(s)[i] = s.data_[i - 1]
    BY ViewIsText
  <2> QED
    BY <2>1 DEF Fixed
<1>2. \A k \in 1 .. n : /\ n + 1 - k \in 1 .. n
                        /\ n + 1 - k - 1 = n - (k - 1) - 1
  OBVIOUS
<1>3. Backwards(s) = [k \in 1 .. n |-> view(s)[n + 1 - k]]
  BY <1>1, <1>2 DEF Backwards
<1>4. \A pos \in 0 .. n + 1 : at(s, pos) = IF pos < n THEN view(s)[pos + 1] ELSE OutOfRange
  BY <1>1 DEF at
<1>5. \A pos \in 0 .. n - 1 : index(s, pos) = at(s, pos)
  BY <1>1 DEF at, index
<1> QED
  BY <1>1, <1>3, <1>4, <1>5
\* All of Textual follows from the shape of the values alone.
LEMMA InvTextual == Inv => Textual
<1> SUFFICES ASSUME Inv, NEW x \in Slots, NEW y \in Slots
             PROVE  LET l == str[x]  r == str[y]  txt == Append(view(r), NUL) IN
                    /\ view(Plus(l, r)) = view(l) \o view(r)
                    /\ \A c \in Chars : /\ view(PlusChar(l, c)) = Append(view(l), c)
                                        /\ view(CharPlus(c, l)) = <<c>> \o view(l)
                    /\ view(PlusLiteral(l, txt)) = view(l) \o view(r)
                    /\ view(LiteralPlus(txt, l)) = view(r) \o view(l)
                    /\ view(FromRange(l.n, view(r))) =
                         SubSeq(view(r) \o [i \in 1 .. l.n |-> NUL], 1, l.n)
                    /\ Backwards(l) = [k \in 1 .. l.n |-> view(l)[l.n + 1 - k]]
                    /\ \A pos \in 0 .. l.n + 1 :
                         at(l, pos) = IF pos < l.n THEN view(l)[pos + 1] ELSE OutOfRange
                    /\ \A pos \in 0 .. l.n - 1 : index(l, pos) = at(l, pos)
  BY DEF Textual
<1> DEFINE l == str[x]
           r == str[y]
           txt == Append(view(r), NUL)
<1>1. N[x] \in Nat /\ N[y] \in Nat /\ Fixed(l, N[x]) /\ Fixed(r, N[y])
  BY DEF Inv
<1>2. l.n = N[x] /\ view(r) \in Seq(Chars)
  BY <1>1, ViewIsText DEF Fixed
<1>3. Len(view(r)) \in Nat /\ Fixed(FromLiteral(txt), Len(view(r))) /\ view(FromLiteral(txt)) = view(r)
  BY <1>2, LiteralText
<1> HIDE DEF l, r, txt
<1>4. view(Plus(l, r)) = view(l) \o view(r)
  BY <1>1, PlusText
<1>5. \A c \in Chars : view(PlusChar(l, c)) = Append(view(l), c) /\ view(CharPlus(c, l)) = <<c>> \o view(l)
  BY <1>1, PlusCharText, CharPlusText
<1>6. view(PlusLiteral(l, txt)) = view(l) \o view(r)
  BY <1>1, <1>3, PlusText DEF PlusLiteral
<1>7. view(LiteralPlus(txt, l)) = view(r) \o view(l)
  BY <1>1, <1>3, PlusText DEF LiteralPlus
<1>8. view(FromRange(l.n, view(r))) = SubSeq(view(r) \o [i \in 1 .. l.n |-> NUL], 1, l.n)
  BY <1>1, <1>2, RangeText
<1>9. /\ Backwards(l) = [k \in 1 .. l.n |-> view(l)[l.n + 1 - k]]
      /\ \A pos \in 0 .. l.n + 1 : at(l, pos) = IF pos < l.n THEN view(l)[pos + 1] ELSE OutOfRange
      /\ \A pos \in 0 .. l.n - 1 : index(l, pos) = at(l, pos)
  BY <1>1, AccessText
<1> QED
  BY <1>4, <1>5, <1>6, <1>7, <1>8, <1>9 DEF l, r, txt

\* Fixed strings of any lengths cannot be told from texts: whatever operations they came by,
\* joining, cutting and reading them is joining, cutting and reading what view() shows.
THEOREM AlwaysTextual == FixedSpec => []Textual
BY InitInv, NextInv, InvTextual, PTL DEF FixedSpec
-----------------------------------------------------------------------------
(* How texts compare.                                                      *)

\* A set of positions has a first.
LEMMA First ==
  ASSUME NEW P \in SUBSET Nat, P # {}
  PROVE  \E i \in P : \A j \in P : i <= j
<1> DEFINE R == {p \in Nat \X Nat : p[1] < p[2]}
<1>1. R = OpToRel(<, Nat)
  BY DEF OpToRel
<1>2. IsWellFoundedOn(R, Nat)
  BY <1>1, NatLessThanWellFounded
<1> HIDE DEF R
<1>3. PICK i \in P : \A j \in P : ~ (<<j, i>> \in R)
  BY <1>2, WFMin
<1>4. \A j \in P : ~ (j < i)
  BY <1>3 DEF R
<1> QED
  BY <1>4

\* Two texts have the same characters up to position k.
Alike(a, b, k) == \A i \in 1 .. k - 1 : a[i] = b[i]

\* At position k, the first where they differ, a ends or has the smaller character.
Before(a, b, k) ==
  /\ k \in 1 .. Len(b) /\ k <= Len(a) + 1 /\ Alike(a, b, k)
  /\ k <= Len(a) => a[k] < b[k]

\* The characters of a text are numbers, which compare.
LEMMA TextCodes ==
  ASSUME NEW a \in Seq(Chars)
  PROVE  Len(a) \in Nat /\ \A i \in 1 .. Len(a) : a[i] \in Nat
<1>1. Len(a) \in Nat /\ \A i \in 1 .. Len(a) : a[i] \in Chars
  OBVIOUS
<1> QED
  BY <1>1

\* CompareViews finds the first difference, wherever it is.
LEMMA ComparesFirst ==
  ASSUME NEW a \in Seq(Chars), NEW b \in Seq(Chars)
  PROVE  \/ CompareViews(a, b) = 0 /\ a = b
         \/ CompareViews(a, b) = -1 /\ \E k \in Nat : Before(a, b, k)
         \/ CompareViews(a, b) = 1 /\ \E k \in Nat : Before(b, a, k)
<1> DEFINE short  == IF Len(a) < Len(b) THEN Len(a) ELSE Len(b)
           differ == {i \in 1 .. short : a[i] # b[i]}
           first  == CHOOSE i \in differ : \A j \in differ : i <= j
<1>1. /\ Len(a) \in Nat /\ Len(b) \in Nat /\ short \in Nat
      /\ \A i \in 1 .. short : a[i] \in Nat /\ b[i] \in Nat
  BY TextCodes
<1>2. CompareViews(a, b) = CASE differ # {} -> IF a[first] < b[first] THEN -1 ELSE 1
                             [] differ = {} /\ Len(a) = Len(b) -> 0
                             [] OTHER -> IF Len(a) < Len(b) THEN -1 ELSE 1
  BY DEF CompareViews
<1>3. CASE differ # {}
  <2>1. \E i \in differ : \A j \in differ : i <= j
    <3>1. differ \in SUBSET Nat
      OBVIOUS
    <3> HIDE DEF differ
    <3> QED
      BY <3>1, <1>3, First
  <2>2. first \in differ /\ \A j \in differ : first <= j
    <3> HIDE DEF differ
    <3> QED
      BY <2>1
  <2>3. CompareViews(a, b) = IF a[first] < b[first] THEN -1 ELSE 1
    BY <1>2, <1>3
  <2> HIDE DEF first
  <2>4. first \in 1 .. Len(a) /\ first \in 1 .. Len(b) /\ a[first] # b[first]
    BY <2>2, <1>1
  <2>5. \A i \in 1 .. first - 1 : a[i] = b[i]
    BY <2>2, <1>1
  <2>6. a[first] \in Nat /\ b[first] \in Nat
    BY <2>2, <1>1
  <2>7. a[first] < b[first] => Before(a, b, first)
    BY <2>4, <2>5, <1>1 DEF Before, Alike
  <2>8. b[first] < a[first] => Before(b, a, first)
    BY <2>4, <2>5, <1>1 DEF Before, Alike
  <2> QED
    BY <2>3, <2>4, <2>6, <2>7, <2>8
<1>4. CASE differ = {} /\ Len(a) = Len(b)
  <2>1. \A i \in 1 .. Len(a) : a[i] = b[i]
    BY <1>4
  <2>2. a = b
    BY <1>4, <2>1, SeqEqual
  <2> QED
    BY <1>2, <1>4, <2>2
<1>5. CASE differ = {} /\ Len(a) # Len(b)
  <2>1. \A i \in 1 .. short : a[i] = b[i]
    BY <1>5
  <2>2. CompareViews(a, b) = IF Len(a) < Len(b) THEN -1 ELSE 1
    BY <1>2, <1>5
  <2> HIDE DEF differ
  <2>3. CASE Len(a) < Len(b)
    <3>1. Before(a, b, Len(a) + 1)
      BY <2>1, <2>3, <1>1 DEF Before, Alike
    <3> QED
      BY <2>2, <2>3, <3>1, <1>1
  <2>4. CASE Len(b) < Len(a)
    <3>1. Before(b, a, Len(b) + 1)
      BY <2>1, <2>4, <1>1 DEF Before, Alike
    <3> QED
      BY <2>2, <2>4, <3>1, <1>1
  <2> QED
    BY <2>3, <2>4, <1>1, <1>5
<1> QED
  BY <1>3, <1>4, <1>5

\* No text comes before one that comes before it, nor before itself.
LEMMA BeforeOnce ==
  ASSUME NEW a \in Seq(Chars), NEW b \in Seq(Chars), NEW k \in Nat, NEW m \in Nat,
         Before(a, b, k), Before(b, a, m)
  PROVE  FALSE
<1>1. /\ Len(a) \in Nat /\ Len(b) \in Nat
      /\ \A i \in 1 .. Len(a) : a[i] \in Nat
      /\ \A i \in 1 .. Len(b) : b[i] \in Nat
  BY TextCodes
<1>2. CASE k < m
  <2>1. k \in 1 .. m - 1 /\ k <= Len(a) /\ k <= Len(b)
    BY <1>1, <1>2 DEF Before
  <2> QED
    BY <1>1, <2>1 DEF Before, Alike
<1>3. CASE m < k
  <2>1. m \in 1 .. k - 1 /\ m <= Len(a) /\ m <= Len(b)
    BY <1>1, <1>3 DEF Before
  <2> QED
    BY <1>1, <2>1 DEF Before, Alike
<1>4. CASE k = m
  <2>1. k \in 1 .. Len(a) /\ k \in 1 .. Len(b)
    BY <1>4 DEF Before
  <2> QED
    BY <1>1, <1>4, <2>1 DEF Before
<1> QED
  BY <1>2, <1>3, <1>4

\* What comes before a text comes before all that follow.
LEMMA BeforeAll ==
  ASSUME NEW a \in Seq(Chars), NEW b \in Seq(Chars), NEW c \in Seq(Chars), NEW k \in Nat,
         NEW m \in Nat, Before(a, b, k), Before(b, c, m)
  PROVE  \E n \in Nat : Before(a, c, n)
<1>1. /\ Len(a) \in Nat /\ Len(b) \in Nat /\ Len(c) \in Nat
      /\ \A i \in 1 .. Len(a) : a[i] \in Nat
      /\ \A i \in 1 .. Len(b) : b[i] \in Nat
      /\ \A i \in 1 .. Len(c) : c[i] \in Nat
  BY TextCodes
<1>2. CASE k < m
  <2>1. /\ k \in 1 .. m - 1 /\ k \in 1 .. Len(b) /\ k \in 1 .. Len(c) /\ k <= Len(a) + 1
        /\ b[k] = c[k]
    BY <1>1, <1>2 DEF Before, Alike
  <2>2. \A i \in 1 .. k - 1 : a[i] = c[i]
    BY <1>1, <1>2 DEF Before, Alike
  <2>3. Before(a, c, k)
    BY <2>1, <2>2 DEF Before, Alike
  <2> QED
    BY <2>3
<1>3. CASE m < k
  <2>1. /\ m \in 1 .. k - 1 /\ m \in 1 .. Len(b) /\ m \in 1 .. Len(c) /\ m <= Len(a)
        /\ a[m] = b[m]
    BY <1>1, <1>3 DEF Before, Alike
  <2>2. \A i \in 1 .. m - 1 : a[i] = c[i]
    BY <1>1, <1>3 DEF Before, Alike
  <2>3. Before(a, c, m)
    BY <2>1, <2>2 DEF Before, Alike
  <2> QED
    BY <2>3
<1>4. CASE k = m
  <2>1. k \in 1 .. Len(b) /\ k \in 1 .. Len(c) /\ k <= Len(a) + 1 /\ b[k] < c[k]
    BY <1>1, <1>4 DEF Before
  <2>2. \A i \in 1 .. k - 1 : a[i] = c[i]
    BY <1>1, <1>4 DEF Before, Alike
  <2>3. k <= Len(a) => a[k] < c[k]
    <3>1. ASSUME k <= Len(a)
          PROVE  k \in 1 .. Len(a) /\ a[k] < b[k]
      BY <3>1, <2>1, <1>1 DEF Before
    <3> QED
      BY <3>1, <2>1, <1>1
  <2>4. Before(a, c, k)
    BY <2>1, <2>2, <2>3 DEF Before, Alike
  <2> QED
    BY <2>4
<1> QED
  BY <1>2, <1>3, <1>4

\* CompareViews is a total order of the texts.
LEMMA CompareOrders ==
  ASSUME NEW a \in Seq(Chars), NEW b \in Seq(Chars), NEW c \in Seq(Chars)
  PROVE  /\ CompareViews(a, b) = 0 <=> a = b
         /\ CompareViews(a, b) = - CompareViews(b, a)
         /\ CompareViews(a, b) <= 0 /\ CompareViews(b, c) <= 0 => CompareViews(a, c) <= 0
<1> DEFINE Less(p, q) == \E k \in Nat : Before(p, q, k)
           Texts == {a, b, c}
<1>1. \A p, q \in Texts : \/ CompareViews(p, q) = 0 /\ p = q
                          \/ CompareViews(p, q) = -1 /\ Less(p, q)
                          \/ CompareViews(p, q) = 1 /\ Less(q, p)
  BY ComparesFirst
<1>2. \A p, q \in Texts : ~ (Less(p, q) /\ Less(q, p))
  BY BeforeOnce
<1>3. \A p, q, r \in Texts : Less(p, q) /\ Less(q, r) => Less(p, r)
  <2> SUFFICES ASSUME NEW p \in Texts, NEW q \in Texts, NEW r \in Texts, Less(p, q), Less(q, r)
               PROVE  Less(p, r)
    OBVIOUS
  <2> QED
    BY BeforeAll
<1>4. a \in Texts /\ b \in Texts /\ c \in Texts
  OBVIOUS
<1> HIDE DEF Less, Texts
<1>5. CompareViews(a, b) = 0 <=> a = b
  BY <1>1, <1>2, <1>4
<1>6. CompareViews(a, b) = - CompareViews(b, a)
  BY <1>1, <1>2, <1>4
<1>7. CompareViews(a, b) <= 0 /\ CompareViews(b, c) <= 0 => CompareViews(a, c) <= 0
  BY <1>1, <1>2, <1>3, <1>4
<1> QED
  BY <1>5, <1>6, <1>7

\* The comparisons of the values follow those of their texts.
LEMMA InvCompares == Inv => ComparisonsAgree
<1> SUFFICES ASSUME Inv, NEW x \in Slots, NEW y \in Slots, NEW z \in Slots
             PROVE  LET a == str[x]  b == str[y]  c == str[z] IN
                    /\ Equals(a, b) <=> Order(a, b) = 0
                    /\ Equals(a, b) => hash(a) = hash(b) /\ a.n = b.n
                    /\ Order(a, b) = - Order(b, a)
                    /\ Order(a, b) <= 0 /\ Order(b, c) <= 0 => Order(a, c) <= 0
  BY DEF ComparisonsAgree
<1>1. \A s \in Slots : /\ view(str[s]) \in Seq(Chars) /\ Len(view(str[s])) = N[s]
                       /\ str[s].n = N[s]
  BY ViewIsText DEF Inv, Fixed
<1>2. Equals(str[x], str[y]) => hash(str[x]) = hash(str[y]) /\ str[x].n = str[y].n
  BY <1>1 DEF Equals, hash
<1> QED
  BY <1>1, <1>2, CompareOrders DEF Equals, Order

\* ==, <=> and hash of fixed strings agree, whatever their lengths and however they came by
\* their characters, and <=> orders them totally: a container may hold fixed strings of any
\* alphabet, ordered or hashed.
THEOREM ComparisonsAlwaysAgree == FixedSpec => []ComparisonsAgree
BY InitInv, NextInv, InvCompares, PTL DEF FixedSpec
=============================================================================
