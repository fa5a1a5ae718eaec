------------------------------- MODULE Semver -------------------------------
(***************************************************************************)
(* collab::semver: its comparisons and its text.  A string is the sequence *)
(* of its character codes.  Versions are gathered one by one, so that the  *)
(* properties compare any of those a program may hold together.            *)
(***************************************************************************)
EXTENDS Integers, FiniteSets, SequencesExt

CONSTANTS
  Versions,   \* the versions the program makes
  MaxPool,    \* bound: versions compared with each other
  Modulus     \* 2^w for the w bits of the integer a numeric identifier is read into

Bytes == 0 .. 255

ASSUME VersionsAssumption ==
  Versions \subseteq [major : Int, minor : Int, patch : Int, pre_release : Seq(Bytes), build : Seq(Bytes)]
ASSUME ModulusAssumption == Modulus \in Nat \ {0} /\ MaxPool \in Nat

VARIABLE pool

DashSign == 45
DotSign == 46
PlusSign == 43
Digits == 48 .. 57

\* One character on: a dot ends the piece at hand.
TakeChar(acc, c) ==
  IF c = DotSign THEN [out |-> Append(acc.out, acc.piece), piece |-> <<>>]
                 ELSE [acc EXCEPT !.piece = Append(@, c)]

\* The pieces of s between its dots; one empty piece for an empty string.
split_identifiers(s) ==
  LET cut[i \in 0 .. Len(s)] ==
        IF i = 0 THEN [out |-> <<>>, piece |-> <<>>] ELSE TakeChar(cut[i - 1], s[i])
  IN  Append(cut[Len(s)].out, cut[Len(s)].piece)

is_numeric_identifier(id) == id # <<>> /\ Range(id) \subseteq Digits

parse_numeric(id) ==
  LET result[i \in 0 .. Len(id)] ==
        IF i = 0 THEN 0 ELSE (result[i - 1] * 10 + (id[i] - 48)) % Modulus
  IN  result[Len(id)]

\* Three-way comparison: of integers, and string_view::compare.
Sign(n) == IF n < 0 THEN -1 ELSE IF n > 0 THEN 1 ELSE 0

\* The first sign in the sequence cmp that is not 0, or else.
FirstDifference(cmp, else) ==
  LET differ == {i \in DOMAIN cmp : cmp[i] # 0}
  IN  IF differ = {} THEN else ELSE cmp[Min(differ)]

Shorter(a, b) == IF Len(a) < Len(b) THEN Len(a) ELSE Len(b)

CompareText(a, b) ==
  FirstDifference([i \in 1 .. Shorter(a, b) |-> Sign(a[i] - b[i])], Sign(Len(a) - Len(b)))

\* Bug: a numeric identifier is compared as text.
CompareIdentifierText(x, y) == CompareText(x, y)

\* Bug: only one side is asked whether it is numeric.
CompareIdentifierHalf(x, y) ==
  IF is_numeric_identifier(x) THEN Sign(parse_numeric(x) - parse_numeric(y)) ELSE CompareText(x, y)

\* Two identifiers of one position.
CompareIdentifier(x, y) ==
  CASE is_numeric_identifier(x) /\ is_numeric_identifier(y) ->
         Sign(parse_numeric(x) - parse_numeric(y))
    [] is_numeric_identifier(x) /\ ~ is_numeric_identifier(y) -> -1
    [] ~ is_numeric_identifier(x) /\ is_numeric_identifier(y) -> 1
    [] OTHER -> CompareText(x, y)

\* Section 11 of SemVer, on two lists of identifiers.
compare_pre_release(a, b) ==
  LET x == split_identifiers(a)  y == split_identifiers(b) IN
  FirstDifference([i \in 1 .. Shorter(x, y) |-> CompareIdentifier(x[i], y[i])], Sign(Len(x) - Len(y)))

\* operator<=>: -1, 0 or 1.  A release comes after its pre-releases; build is not looked at.
Spaceship(v, w) ==
  LET core == <<Sign(v.major - w.major), Sign(v.minor - w.minor), Sign(v.patch - w.patch)>>
  IN  FirstDifference(core,
        CASE v.pre_release = <<>> /\ w.pre_release = <<>> -> 0
          [] v.pre_release = <<>> /\ w.pre_release # <<>> -> 1
          [] v.pre_release # <<>> /\ w.pre_release = <<>> -> -1
          [] OTHER -> compare_pre_release(v.pre_release, w.pre_release))

\* Bug: operator== is the defaulted one.
EqualDefaulted(v, w) == v = w

\* operator==
Equal(v, w) ==
  /\ v.major = w.major /\ v.minor = w.minor /\ v.patch = w.patch
  /\ v.pre_release = w.pre_release

\* std::to_string of an int.
Numeral(n) ==
  LET digits[k \in 0 .. n] == IF k < 10 THEN <<48 + k>> ELSE Append(digits[k \div 10], 48 + (k % 10))
  IN  digits[n]

Decimal(n) == IF n < 0 THEN <<DashSign>> \o Numeral(-n) ELSE Numeral(n)

\* Bug: build is appended as pre_release is.
to_string_plain(v) ==
  Decimal(v.major) \o <<DotSign>> \o Decimal(v.minor) \o <<DotSign>> \o Decimal(v.patch)
    \o (IF v.pre_release # <<>> THEN <<DashSign>> \o v.pre_release ELSE <<>>)
    \o (IF v.build # <<>> THEN <<DashSign>> \o v.build ELSE <<>>)

to_string(v) ==
  Decimal(v.major) \o <<DotSign>> \o Decimal(v.minor) \o <<DotSign>> \o Decimal(v.patch)
    \o (IF v.pre_release # <<>> THEN <<DashSign>> \o v.pre_release ELSE <<>>)
    \o (IF v.build # <<>> THEN <<PlusSign>> \o v.build ELSE <<>>)
-----------------------------------------------------------------------------
SemverInit == pool = {}

\* An aggregate: any values, valid or not.
Make(v) == Cardinality(pool) < MaxPool /\ v \notin pool /\ pool' = pool \cup {v}

SemverNext == \E v \in Versions : Make(v)

SemverSpec == SemverInit /\ [][SemverNext]_pool
-----------------------------------------------------------------------------
(* What Semantic Versioning 2.0 says, independently of the code.           *)

IsAlnumDash(c) == c \in Digits \cup {DashSign} \cup 65 .. 90 \cup 97 .. 122

\* Sections 9 and 10: no empty identifier, no leading zero in a numeric one.
ValidIdentifier(id) == id # <<>> /\ \A i \in 1 .. Len(id) : IsAlnumDash(id[i])
NoLeadingZero(id) == is_numeric_identifier(id) => Len(id) = 1 \/ id[1] # 48

ValidVersion(v) ==
  /\ v.major >= 0 /\ v.minor >= 0 /\ v.patch >= 0
  /\ v.pre_release # <<>> => \A id \in Range(split_identifiers(v.pre_release)) :
                                ValidIdentifier(id) /\ NoLeadingZero(id)
  /\ v.build # <<>> => \A id \in Range(split_identifiers(v.build)) : ValidIdentifier(id)

\* The value a numeric identifier stands for, and whether the code's integer holds it.
Value(id) ==
  LET value[i \in 0 .. Len(id)] == IF i = 0 THEN 0 ELSE value[i - 1] * 10 + (id[i] - 48)
  IN  value[Len(id)]
Fits(v) == \A id \in Range(split_identifiers(v.pre_release)) :
             is_numeric_identifier(id) => Value(id) < Modulus

\* Section 11.4: identifiers, where text is compared in ASCII order.
TextBefore(x, y) ==
  \/ (Len(x) < Len(y) /\ SubSeq(y, 1, Len(x)) = x)
  \/ \E i \in 1 .. Shorter(x, y) : (SubSeq(x, 1, i - 1) = SubSeq(y, 1, i - 1) /\ x[i] < y[i])

IdentifierBefore(x, y) ==
  CASE is_numeric_identifier(x) /\ is_numeric_identifier(y) ->     \* numerically
         Len(x) < Len(y) \/ (Len(x) = Len(y) /\ TextBefore(x, y))
    [] is_numeric_identifier(x) # is_numeric_identifier(y) -> is_numeric_identifier(x)
    [] OTHER -> TextBefore(x, y)

FieldsBefore(x, y) ==
  \/ (Len(x) < Len(y) /\ SubSeq(y, 1, Len(x)) = x)
  \/ \E i \in 1 .. Shorter(x, y) :
       (SubSeq(x, 1, i - 1) = SubSeq(y, 1, i - 1) /\ IdentifierBefore(x[i], y[i]))

\* Section 11: v has lower precedence than w.
Precedes(v, w) ==
  \/ v.major < w.major
  \/ (v.major = w.major /\ v.minor < w.minor)
  \/ (v.major = w.major /\ v.minor = w.minor /\ v.patch < w.patch)
  \/ /\ v.major = w.major /\ v.minor = w.minor /\ v.patch = w.patch
     /\ v.pre_release # <<>>
     /\ \/ w.pre_release = <<>>
        \/ FieldsBefore(split_identifiers(v.pre_release), split_identifiers(w.pre_release))

Valid == {v \in pool : ValidVersion(v) /\ Fits(v)}
-----------------------------------------------------------------------------
\* "Three-way comparison follows SemVer 2.0": of valid versions whose numeric
\* identifiers the code can hold, the one the specification puts first is less.
PrecedenceIsSemVer ==
  \A v, w \in Valid : /\ Spaceship(v, w) = -1 <=> Precedes(v, w)
                      /\ Spaceship(v, w) = 1 <=> Precedes(w, v)

\* Whatever the fields hold (identifiers that are empty or overflow, negative numbers),
\* <=> is an ordering versions can be sorted by.
OrderingLaws ==
  \A u, v, w \in pool :
    /\ Spaceship(v, w) = - Spaceship(w, v)
    /\ Spaceship(u, v) <= 0 /\ Spaceship(v, w) <= 0 => Spaceship(u, w) <= 0
    /\ Spaceship(u, v) = 0 /\ Spaceship(v, w) = 0 => Spaceship(u, w) = 0

\* The hand-written == and the hand-written <=> agree: no two valid versions are
\* equivalent and different, as they would be in a sorted container.
EqualityAgrees ==
  /\ \A v, w \in pool : Equal(v, w) => Spaceship(v, w) = 0
  /\ \A v, w \in Valid : Spaceship(v, w) = 0 => Equal(v, w)

\* The text of a valid version is the text of no other: a reader can take it apart.
TextIdentifies ==
  \A v, w \in {u \in pool : ValidVersion(u)} : to_string(v) = to_string(w) => v = w
=============================================================================
