---------------------------- MODULE FixedString ----------------------------
(***************************************************************************)
(* collab::basic_fixed_string: variables of fixed_string<n>, n differing   *)
(* from one to the next, and the operations on their storage, an array of  *)
(* n + 1 characters.  Indices into it are those of the code, 0 .. n.       *)
(***************************************************************************)
EXTENDS Integers, Sequences

CONSTANTS
  Slots,      \* variables of the program
  N,          \* the length each is declared with
  Chars,      \* characters, as codes
  OutOfRange  \* what at() throws

NUL == 0      \* CharT{}

ASSUME CharsAssumption == Chars \subseteq Nat /\ NUL \in Chars

ASSUME LengthAssumption == N \in [Slots -> Nat]

ASSUME ThrowAssumption == OutOfRange \notin Chars

VARIABLE str  \* the fixed string in each variable

Word(n) == UNION {[1 .. k -> Chars] : k \in 0 .. n}

\* view(): the first n characters, what comparisons and conversions are made from.
view(s) == [i \in 1 .. s.n |-> s.data_[i - 1]]

\* From rbegin() to rend(): a reverse iterator stands behind what it refers to, and
\* rbegin() at end(), which is data_ + n.
Backwards(s) == [k \in 1 .. s.n |-> s.data_[s.n - (k - 1) - 1]]

\* operator[], of which front() and back() are cases: not checked, the terminator can be read.
index(s, pos) == s.data_[pos]

\* at(): checked, against n.
at(s, pos) == IF pos >= s.n THEN OutOfRange ELSE s.data_[pos]

\* The constructor from n characters: data_[n] keeps its initial value.
FromChars(n, cs) == [n |-> n, data_ |-> [i \in 0 .. n |-> IF i < n THEN cs[i + 1] ELSE NUL]]

\* The constructor from an array of n + 1, as a literal is: all of it is copied.
FromLiteral(txt) == LET n == Len(txt) - 1 IN [n |-> n, data_ |-> [i \in 0 .. n |-> txt[i + 1]]]

\* Bug: the copy is bounded by the storage, not by the length.
FromRangeUnbounded(n, cs) ==
  [n |-> n, data_ |-> [i \in 0 .. n |-> IF i < Len(cs) THEN cs[i + 1] ELSE NUL]]

\* The constructors from an iterator pair and from a range: cut or filled up, then terminated.
FromRange(n, cs) ==
  [n |-> n, data_ |-> [i \in 0 .. n |-> IF i < n /\ i < Len(cs) THEN cs[i + 1] ELSE NUL]]

\* Bug: the right operand is read one too far.
PlusShifted(l, r) ==
  FromChars(l.n + r.n, [i \in 1 .. l.n + r.n |->
    IF i - 1 < l.n THEN l.data_[i - 1] ELSE r.data_[i - l.n]])

\* operator+ of two fixed strings, of a fixed string and a character, and of either
\* and a literal, which is made a fixed string first.
Plus(l, r) ==
  FromChars(l.n + r.n, [i \in 1 .. l.n + r.n |->
    IF i - 1 < l.n THEN l.data_[i - 1] ELSE r.data_[i - 1 - l.n]])

PlusChar(l, c) ==
  FromChars(l.n + 1, [i \in 1 .. l.n + 1 |-> IF i - 1 < l.n THEN l.data_[i - 1] ELSE c])

CharPlus(c, r) ==
  FromChars(1 + r.n, [i \in 1 .. 1 + r.n |-> IF i - 1 = 0 THEN c ELSE r.data_[i - 2]])

PlusLiteral(l, txt) == Plus(l, FromLiteral(txt))
LiteralPlus(txt, r) == Plus(FromLiteral(txt), r)

\* string_view::compare of the characters up to the first that differs.
CompareViews(a, b) ==
  LET short  == IF Len(a) < Len(b) THEN Len(a) ELSE Len(b)
      differ == {i \in 1 .. short : a[i] # b[i]}
      first  == CHOOSE i \in differ : \A j \in differ : i <= j
  IN  CASE differ # {} -> IF a[first] < b[first] THEN -1 ELSE 1
        [] differ = {} /\ Len(a) = Len(b) -> 0
        [] OTHER -> IF Len(a) < Len(b) THEN -1 ELSE 1

\* Bug: == looks at the characters both have.
EqualPrefix(l, r) == \A i \in 0 .. l.n : i <= r.n => l.data_[i] = r.data_[i]

\* operator==, operator<=> and std::hash, of fixed strings of any two lengths.
Equals(l, r) == view(l) = view(r)
Order(l, r) == CompareViews(view(l), view(r))
hash(s) == [value |-> view(s)]
-----------------------------------------------------------------------------
FixedInit == str = [x \in Slots |-> FromRange(N[x], <<>>)]

Assign(x, s) == str' = [str EXCEPT ![x] = s]

\* A string literal of n characters.
Literals(n) == {Append(cs, NUL) : cs \in [1 .. n -> Chars]}

Construct(x) ==
  \/ \E cs \in [1 .. N[x] -> Chars] : Assign(x, FromChars(N[x], cs))
  \/ \E txt \in Literals(N[x]) : Assign(x, FromLiteral(txt))
  \/ \E cs \in Word(N[x] + 1) : Assign(x, FromRange(N[x], cs))

Copy(x, y) == N[x] = N[y] /\ Assign(x, str[y])

\* The operands' lengths add up to the result's: the types see to it.
Concat(x, y) ==
  \/ \E z \in Slots : N[x] = N[y] + N[z] /\ Assign(x, Plus(str[y], str[z]))
  \/ N[x] = N[y] + 1
     /\ \E c \in Chars : Assign(x, PlusChar(str[y], c)) \/ Assign(x, CharPlus(c, str[y]))
  \/ N[x] >= N[y]
     /\ \E txt \in Literals(N[x] - N[y]) :
          Assign(x, PlusLiteral(str[y], txt)) \/ Assign(x, LiteralPlus(txt, str[y]))

\* Position by position, the terminator included.
swap(x, y) ==
  /\ N[x] = N[y]
  /\ str' = [str EXCEPT
       ![x].data_ = [i \in 0 .. N[x] |-> str[y].data_[i]],
       ![y].data_ = [i \in 0 .. N[x] |-> str[x].data_[i]]]

FixedNext ==
  \E x \in Slots :
    \/ Construct(x)
    \/ \E y \in Slots : Copy(x, y) \/ Concat(x, y) \/ swap(x, y)

FixedSpec == FixedInit /\ [][FixedNext]_str
-----------------------------------------------------------------------------
\* Every variable holds n + 1 characters of which the last is NUL, so c_str() ends
\* within the storage, after every operation.
Terminated ==
  \A x \in Slots :
    /\ str[x].n = N[x] /\ str[x].data_ \in [0 .. N[x] -> Chars]
    /\ str[x].data_[N[x]] = NUL

\* A program cannot tell fixed strings from plain texts: whatever two variables hold,
\* and however they came by it, joining them, characters and literals joins the texts, a
\* range is cut or filled up to the length, and reading by index or backwards gives the
\* text's characters.
Textual ==
  \A x, y \in Slots :
    LET l == str[x]  r == str[y]  txt == Append(view(r), NUL) IN
    /\ view(Plus(l, r)) = view(l) \o view(r)
    /\ \A c \in Chars : /\ view(PlusChar(l, c)) = Append(view(l), c)
                        /\ view(CharPlus(c, l)) = <<c>> \o view(l)
    /\ view(PlusLiteral(l, txt)) = view(l) \o view(r)
    /\ view(LiteralPlus(txt, l)) = view(r) \o view(l)
    /\ view(FromRange(l.n, view(r))) =
         SubSeq(view(r) \o [i \in 1 .. l.n |-> NUL], 1, l.n)
    /\ Backwards(l) = [k \in 1 .. l.n |-> view(l)[l.n + 1 - k]]
    /\ \A pos \in 0 .. l.n + 1 :
         at(l, pos) = IF pos < l.n THEN view(l)[pos + 1] ELSE OutOfRange
    /\ \A pos \in 0 .. l.n - 1 : index(l, pos) = at(l, pos)

\* ==, <=> and hash agree over strings of all lengths, and <=> is a total order of texts:
\* what ordered and hashed containers of fixed strings rest on.
ComparisonsAgree ==
  \A x, y, z \in Slots :
    LET a == str[x]  b == str[y]  c == str[z] IN
    /\ Equals(a, b) <=> Order(a, b) = 0
    /\ Equals(a, b) => hash(a) = hash(b) /\ a.n = b.n
    /\ Order(a, b) = - Order(b, a)
    /\ Order(a, b) <= 0 /\ Order(b, c) <= 0 => Order(a, c) <= 0
=============================================================================
