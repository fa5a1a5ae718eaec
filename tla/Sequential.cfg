\* Versions compared three at a time; fixed strings of lengths 0 to 2; headers of two declarations.
CONSTANTS
  s0 = s0  s1 = s1  s2 = s2  r2 = r2
  Versions <- MCVersions
  MaxPool = 3
  Modulus = 64
  Slots = {s0, s1, s2, r2}
  N <- MCLengths
  Chars = {0, 97, 98}
  OutOfRange = out_of_range
  Forms = {"short", "long", "variable", "braced", "bare", "constant", "constfn", "forward", "struct", "alias", "free", "template", "class", "special", "synonym", "imports", "nothing", "attribute", "enum"}
  Outer = {"lib", "std", "detail", "x::detail"}
  Inner = {"inner", "detail", "detail::inner", "detailed", "mydetail"}
  Spelling <- MCSpelling
  MaxEntries = 5
  MaxDecls = 2
SPECIFICATION Spec
INVARIANTS PrecedenceIsSemVer OrderingLaws EqualityAgrees TextIdentifies
INVARIANTS Terminated Textual ComparisonsAgree
INVARIANTS FormsUnderstood DeclsArePromised ExportsArePromised EmissionsArePromised
CHECK_DEADLOCK FALSE
