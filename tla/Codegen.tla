------------------------------ MODULE Codegen ------------------------------
(***************************************************************************)
(* scripts/generate.py: a header is written, scanned line by line, and     *)
(* turned into declarations, exports and the list of functions to emit.    *)
(* A line is the sequence of its tokens; a comment is one token, "//", and *)
(* a string none.  The text of a namespace is cut at its "::" and around   *)
(* the word detail: lib::detailed is <<"lib", "::", "detail", "ed">>.      *)
(***************************************************************************)
EXTENDS Integers, FiniteSets, SequencesExt

CONSTANTS
  Forms,       \* the forms of declarations the header uses
  Outer,       \* the namespaces a header opens at file scope
  Inner,       \* and inside of others
  Spelling,    \* the text of each of these
  MaxEntries,  \* bound: declarations, and namespaces opened and closed
  MaxDecls     \* bound: declarations

VARIABLES
  header,      \* what the author has written: the forms, in order
  verdict,     \* "writing", "scanning", "done" or "refused"
  pos,         \* the line that is next
  ns_stack,    \* the namespaces the scanner is in
  found,       \* the entities of AreaState, each with its namespace
  decls_lines  \* the lines of the declarations header

genVars == <<header, verdict, pos, ns_stack, found, decls_lines>>
-----------------------------------------------------------------------------
(* Headers.                                                                *)

\* Lines of each form, and the name it declares; short and long are overloads.  Of the
\* last four the first three keep to the conventions, and the scanner mistakes all.
Written == [
  short     |-> << <<"inline", "T", "f", "(", "T", "a", ",", "T", "&", "b", "=", "v", ")", "{", "g", "(",
                     ")", ";", "}">> >>,
  long      |-> << <<"inline", "A", "<", "T", ",", "T", ">", "f", "(", "A", "<", "T", ",", "T", ">", "a",
                     "=", "v", ",">>,
                   <<"T", ")", "{">>, <<"g", "(", ")", ";">>, <<"if", "{">>, <<"}">>, <<"}">> >>,
  variable  |-> << <<"inline", "T", "x", "=", "v", ";">> >>,
  braced    |-> << <<"inline", "T", "y", "{">>, <<"v", "}", ";">> >>,
  bare      |-> << <<"inline", "T", "w", ";">> >>,
  constant  |-> << <<"inline", "constexpr", "T", "k", "=", "v", ";">> >>,
  constfn   |-> << <<"inline", "constexpr", "T", "c", "(", ")", "{">>, <<"g", "(", ")", ";">>, <<"}">> >>,
  forward   |-> << <<"struct", "s", ";">> >>,
  struct    |-> << <<"struct", "s">>, <<"{">>, <<"inline", "T", "m", "(", ")", "{", "}">>,
                   <<"T", "n", "(", ")", ";">>, <<"}", ";">> >>,
  alias     |-> << <<"using", "u", "=", "T", ";">> >>,
  free      |-> << <<"T", "d", "(", "T", ")", ";">> >>,
  template  |-> << <<"template", "<", "A", ">">>, <<"T", "t", "(", "A", "a", ")", "{">>, <<"}">> >>,
  class     |-> << <<"template", "<", "A", "<", "T", ">", ">">>, <<"struct", "p", "{">>, <<"}", ";">> >>,
  special   |-> << <<"template", "<", ">">>, <<"struct", "p", "<", "T", ">", "{">>, <<"}", ";">> >>,
  synonym   |-> << <<"template", "<", "A", ">", "using", "q", "=", "T", ";">> >>,
  imports   |-> << <<"//">>, <<>>, <<"using", "std::vector", ";">> >>,
  nothing   |-> << <<"inline", "T", "o", "(", "void", ")", "{", "}">> >>,
  attribute |-> << <<"inline", "T", "r", "(", "[", "[", "g", ",", "v", "]", "]", "T", "a", ",", "T", "[",
                     "]", ")", "{", "}">> >>,
  enum      |-> << <<"enum", "class", "l", "{">>, <<"v">>, <<"}", ";">> >>,
  brace     |-> << <<"inline", "T", "h", "(", "T", "a", "=", "{", "}", ")", "{", "}">> >>,
  paren     |-> << <<"inline", "A", "<", "T", "(", ")", ">", "z", "{", "}", ";">> >>,
  noted     |-> << <<"inline", "constexpr", "T", "e", "=", "v", ";", "//">> >>,
  static    |-> << <<"static", "inline", "T", "i", "(", ")", "{">>, <<"g", "(", ")", ";">>, <<"}">> >>]

NameOf == [short |-> "f", long |-> "f", variable |-> "x", braced |-> "y", bare |-> "w", constant |-> "k", constfn |-> "c", forward |-> "s", struct |-> "s", alias |-> "u",
           free |-> "d", template |-> "t", class |-> "p", special |-> "", synonym |-> "q", imports |-> "",
           nothing |-> "o", attribute |-> "r", enum |-> "l",
           brace |-> "h", paren |-> "z", noted |-> "e", static |-> "i"]

ASSUME FormsAssumption == Forms \subseteq DOMAIN Written

ASSUME SpellingAssumption == \A ns \in Outer \cup Inner : Spelling[ns] \in Seq(STRING)

\* namespace a { namespace b::c { is a::b::c.
FullName(stack) ==
  FlattenSeq([k \in DOMAIN stack |-> (IF k = 1 THEN <<>> ELSE <<"::">>) \o Spelling[stack[k]]])

\* An entry is a declaration, or opens or closes a namespace; with the namespaces that are
\* open then, outermost first.
Entry(form, stack) == [form |-> form, stack |-> stack]

LinesOf(entry) ==
  CASE entry.form = "open" -> << <<"namespace", Last(entry.stack), "{">> >>
    [] entry.form = "close" -> << <<"}", "//">> >>
    [] OTHER -> Written[entry.form]

lines == FlattenSeq([j \in 1 .. Len(header) |-> LinesOf(header[j])])

\* The namespaces open at the end of the header.
opened == IF header = <<>> THEN <<>> ELSE Last(header).stack

Declared == {j \in DOMAIN header : header[j].form \in DOMAIN Written}

Add(entry) == header' = Append(header, entry) /\ UNCHANGED <<verdict, pos, ns_stack, found, decls_lines>>

OpenNamespace ==
  /\ verdict = "writing" /\ Len(header) + Len(opened) + 2 <= MaxEntries
  /\ \E ns \in IF opened = <<>> THEN Outer ELSE Inner : Add(Entry("open", Append(opened, ns)))

CloseNamespace ==
  /\ verdict = "writing" /\ opened # <<>>
  /\ Add(Entry("close", Front(opened)))

\* Declarations are in a namespace, and each once in it.
Declare ==
  /\ verdict = "writing" /\ opened # <<>>
  /\ Cardinality(Declared) < MaxDecls /\ Len(header) + Len(opened) < MaxEntries
  /\ \E form \in Forms :
       (\A j \in Declared : header[j] # Entry(form, opened)) /\ Add(Entry(form, opened))

StartScan ==
  /\ verdict = "writing" /\ header # <<>> /\ opened = <<>>
  /\ verdict' = "scanning"
  /\ UNCHANGED <<header, pos, ns_stack, found, decls_lines>>
-----------------------------------------------------------------------------
(* Reading tokens.                                                         *)

Punctuation == {"(", ")", "{", "}", "<", ">", "[", "]", ",", ";", "=", "&", "//"}

IsName(tok) == tok \notin Punctuation

At(line, k) == IF k \in DOMAIN line THEN line[k] ELSE ";"

\* The first of the tokens toks in s, or one past the end.
FirstOf(s, toks) == Min({k \in DOMAIN s : s[k] \in toks} \cup {Len(s) + 1})

\* The identifier before the token at place at, if there is such a token.
NameBefore(s, at) == IF at \in 2 .. Len(s) /\ IsName(s[at - 1]) THEN s[at - 1] ELSE ""

\* How deep s is in brackets of the kinds given, after its first k tokens.
Nesting(s, k, open, close) ==
  Cardinality({j \in 1 .. k : s[j] \in open}) - Cardinality({j \in 1 .. k : s[j] \in close})

\* _find_matching_close, _find_matching_close_generic
MatchingClose(s, from, open, close) ==
  Min({k \in from .. Len(s) : s[k] = close /\ Nesting(SubSeq(s, from, k), k - from + 1, {open}, {close}) = 0}
      \cup {Len(s) + 1})

-----------------------------------------------------------------------------
(* Where an entity ends.  ls are the lines that are left, from its first.  *)

Joined(ls, b) == FlattenSeq(SubSeq(ls, 1, b))

Started(ls, b) == "{" \in ToSet(Joined(ls, b))
Balanced(ls, b) == Nesting(Joined(ls, b), Len(Joined(ls, b)), {"{"}, {"}"}) = 0
EndsWith(line, tok) == line # <<>> /\ Last(line) = tok

\* Bug: a definition ends with the first line that ends a statement.
LastLineSemicolon(ls) ==
  Min({b \in 1 .. Len(ls) : EndsWith(ls[b], ";") \/ (Started(ls, b) /\ Balanced(ls, b))} \cup {Len(ls) + 1})

\* _consume_inline_definition and the loop over templates: up to the line where the braces are
\* balanced again, or without any, that ends with a semicolon; past the end if there is none.
LastLine(ls) ==
  Min({b \in 1 .. Len(ls) : IF Started(ls, b) THEN Balanced(ls, b) ELSE EndsWith(ls[b], ";")}
      \cup {Len(ls) + 1})

\* Bug: the braces of a definition are looked for behind a forward declaration too.
LastLineOfBraces(ls) == Min({b \in 1 .. Len(ls) : Started(ls, b) /\ Balanced(ls, b)} \cup {Len(ls) + 1})

\* A declaration of a struct, class or enum is one line, and else the loop looks for braces only.
LastLineOfType(ls) ==
  IF EndsWith(ls[1], ";") /\ "{" \notin ToSet(ls[1]) THEN 1
  ELSE Min({b \in 1 .. Len(ls) : Started(ls, b) /\ Balanced(ls, b)} \cup {Len(ls) + 1})

-----------------------------------------------------------------------------
(* What an entity is.                                                      *)

\* Bug: default values are kept.
TypeOnlyWhole(param) == param

\* strip_param_names: one parameter without its default value and its name.
TypeOnly(param) ==
  LET p == SubSeq(param, 1, FirstOf(param, {"="}) - 1)
  IN  IF Len(p) > 1 /\ IsName(Last(p)) THEN Front(p) ELSE p

\* strip_param_names: split at the commas that are in no brackets; void is no parameter.
params_typed(s) ==
  LET cut == {k \in DOMAIN s : s[k] = "," /\ Nesting(s, k, {"<", "(", "["}, {">", ")", "]"}) = 0}
      ends == SetToSortSeq(cut \cup {Len(s) + 1}, <)
      part(k) == SubSeq(s, (IF k = 1 THEN 0 ELSE ends[k - 1]) + 1, ends[k] - 1)
      types == [k \in DOMAIN ends |-> IF k = 1 THEN TypeOnly(part(k)) ELSE <<",">> \o TypeOnly(part(k))]
  IN  IF s \in {<<>>, <<"void">>} THEN <<>> ELSE FlattenSeq(types)

\* What "inline" introduces: the first of ( = { that is in no brackets.
Classify(line) ==
  LET s == Tail(line)
      at == Min({k \in DOMAIN s : s[k] \in {"(", "=", "{"}
                   /\ Nesting(s, k - 1, {"<", "("}, {">", ")"}) = 0} \cup {Len(s) + 1})
  IN  CASE At(s, at) = "(" -> "fn" [] At(s, at) \in {"=", "{"} -> "var" [] OTHER -> "none"

\* What is behind inline, inline constexpr and inline consteval.
Declarator(line) == SubSeq(line, IF At(line, 2) \in {"constexpr", "consteval"} THEN 3 ELSE 2, Len(line))

\* _extract_inline_name: the identifier before the first of ( = {, brackets or not.
ExtractInlineName(line) ==
  LET s == Declarator(line) IN NameBefore(s, FirstOf(s, {"(", "=", "{"}))

\* _extract_variable_type: what is before the identifier before the first of = {.
ExtractVariableType(line) ==
  LET s == Declarator(line)  at == FirstOf(s, {"=", "{"}) IN
  IF NameBefore(s, at) = "" THEN <<>> ELSE SubSeq(s, 1, at - 2)

\* _parse_inline_function, of the tokens s: the head ends with the first brace.  Without a
\* brace, a parameter list before it and a name before that, nothing is returned.
InlineFunctions(s) ==
  LET head == SubSeq(s, 2, FirstOf(s, {"{"}) - 1)
      opens == Min({k \in DOMAIN head : head[k] = "(" /\ Nesting(head, k, {"<"}, {">"}) = 0}
                   \cup {Len(head) + 1})
      closes == MatchingClose(head, opens, "(", ")")
  IN  IF "{" \notin ToSet(s) \/ closes > Len(head) \/ NameBefore(head, opens) = "" THEN {}
      ELSE {[name |-> head[opens - 1], return_type |-> SubSeq(head, 1, opens - 2),
             params |-> params_typed(SubSeq(head, opens + 1, closes - 1))]}

\* struct name, class name, enum name, enum class name.
TypeName(line) == IF line[1] = "enum" /\ line[2] = "class" THEN line[3] ELSE line[2]

\* _extract_template_name: none for a specialization.
TemplateName(s) ==
  LET rest == SubSeq(s, MatchingClose(s, 2, "<", ">") + 1, Len(s))
  IN  CASE At(rest, 1) = "using" /\ At(rest, 3) = "=" -> rest[2]
        [] At(rest, 1) \in {"struct", "class", "enum"} -> IF At(rest, 3) = "<" THEN "" ELSE TypeName(rest)
        [] OTHER -> NameBefore(rest, FirstOf(rest, {"("}))

IsOpening(line) == Len(line) = 3 /\ line[1] = "namespace" /\ line[3] = "{"
IsClosing(line) == line \in {<<"}">>, <<"}", "//">>}
IsTemplate(line) == At(line, 1) = "template"
IsType(line) == At(line, 1) \in {"struct", "class", "enum"}
IsInline(line) == At(line, 1) = "inline"
IsConstant(line) == At(line, 2) \in {"constexpr", "consteval"}
IsAlias(line) == At(line, 1) = "using" /\ At(line, 3) = "=" /\ EndsWith(line, ";")
IsFree(line) == EndsWith(line, ";") /\ Len(line) > 1 /\ line[Len(line) - 1] = ")" /\ "(" \in ToSet(line)

\* What is neither a namespace nor begins with a word of the scanner's.
IsOther(line) == ~ (IsTemplate(line) \/ IsType(line) \/ IsInline(line) \/ IsAlias(line))

\* Of the lines ls the scanner takes those up to last, writes the lines kept, and adds the
\* entities to its lists: one, or none.
Reading(ls, last, kept, entities) ==
  [size |-> Min({last, Len(ls)}), kept |-> kept, entities |-> entities]

Verbatim(ls, last, entities) == Reading(ls, last, SubSeq(ls, 1, Min({last, Len(ls)})), entities)

Entity(list, name, sig) ==
  IF name = "" THEN <<>> ELSE << [list |-> list, name |-> name, sig |-> sig] >>

TemplateReading(ls) ==
  LET b == LastLine(ls) IN
  Verbatim(ls, b, Entity("templates", TemplateName(Joined(ls, Min({b, Len(ls)}))), {}))

TypeReading(ls) == Verbatim(ls, LastLineOfType(ls), Entity("types", TypeName(ls[1]), {}))

\* inline constexpr, inline consteval: a body stays.
ConstantReading(ls) ==
  Verbatim(ls, LastLine(ls),
           Entity(IF FirstOf(ls[1], {"("}) < FirstOf(ls[1], {"=", "{"}) THEN "templates" ELSE "variables",
                  ExtractInlineName(ls[1]), {}))

\* Only a declaration stays of a function, and of one that is not understood nothing.
FunctionReading(ls) ==
  LET b == LastLine(ls)  fns == InlineFunctions(Joined(ls, b)) IN
  IF fns = {} THEN Reading(ls, b, <<>>, <<>>)
  ELSE LET fn == CHOOSE fn \in fns : TRUE IN
       Reading(ls, b, << fn.return_type \o <<fn.name, "(">> \o fn.params \o <<")", ";">> >>,
               Entity("functions", fn.name, fns))

\* Its value goes; without a name or a type, all of it.
VariableReading(ls) ==
  LET name == ExtractInlineName(ls[1])  type == ExtractVariableType(ls[1]) IN
  IF name = "" \/ type = <<>> THEN Reading(ls, LastLine(ls), <<>>, <<>>)
  ELSE Reading(ls, LastLine(ls), << <<"extern">> \o type \o <<name, ";">> >>, Entity("variables", name, {}))

AliasReading(ls) == Verbatim(ls, 1, Entity("types", ls[1][2], {}))

FreeReading(ls) == Verbatim(ls, 1, Entity("free", NameBefore(ls[1], FirstOf(ls[1], {"("})), {}))

-----------------------------------------------------------------------------
(* parse(): one iteration of its loop.  Every entity is consumed from its  *)
(* first line, so that what is left to the scanner is always at namespace  *)
(* scope: brace_depth is the height of the stack.                          *)

rest == SubSeq(lines, pos, Len(lines))
line == lines[pos]
current_ns == FullName(ns_stack)

Scanning == verdict = "scanning" /\ pos <= Len(lines)

Take(reading) ==
  /\ pos' = pos + reading.size
  /\ decls_lines' = decls_lines \o reading.kept
  /\ found' = found \o [k \in DOMAIN reading.entities |-> [ns |-> current_ns, entity |-> reading.entities[k]]]
  /\ UNCHANGED <<header, verdict>>

NamespaceOpen ==
  /\ Scanning /\ IsOpening(line)
  /\ ns_stack' = Append(ns_stack, line[2])
  /\ Take(Verbatim(rest, 1, <<>>))

NamespaceClose ==
  /\ Scanning /\ IsClosing(line) /\ ns_stack # <<>>
  /\ ns_stack' = Front(ns_stack)
  /\ Take(Verbatim(rest, 1, <<>>))

Template ==
  /\ Scanning /\ IsTemplate(line)
  /\ Take(TemplateReading(rest)) /\ UNCHANGED ns_stack

Type ==
  /\ Scanning /\ IsType(line)
  /\ Take(TypeReading(rest)) /\ UNCHANGED ns_stack

IsTerminated == LastLine(rest) <= Len(rest)

InlineConstant ==
  /\ Scanning /\ IsInline(line) /\ IsConstant(line) /\ IsTerminated
  /\ Take(ConstantReading(rest)) /\ UNCHANGED ns_stack

InlineFunction ==
  /\ Scanning /\ IsInline(line) /\ ~ IsConstant(line) /\ IsTerminated /\ Classify(line) = "fn"
  /\ Take(FunctionReading(rest)) /\ UNCHANGED ns_stack

InlineVariable ==
  /\ Scanning /\ IsInline(line) /\ ~ IsConstant(line) /\ IsTerminated /\ Classify(line) = "var"
  /\ Take(VariableReading(rest)) /\ UNCHANGED ns_stack

\* ParseError: nothing is written.
Refuse ==
  /\ Scanning /\ IsInline(line)
  /\ ~ IsTerminated \/ (~ IsConstant(line) /\ Classify(line) = "none")
  /\ verdict' = "refused"
  /\ UNCHANGED <<header, pos, ns_stack, found, decls_lines>>

Alias ==
  /\ Scanning /\ IsAlias(line)
  /\ Take(AliasReading(rest)) /\ UNCHANGED ns_stack

FreeDeclaration ==
  /\ Scanning /\ IsOther(line) /\ ~ IsOpening(line) /\ ~ (IsClosing(line) /\ ns_stack # <<>>)
  /\ IsFree(line)
  /\ Take(FreeReading(rest)) /\ UNCHANGED ns_stack

PassThrough ==
  /\ Scanning /\ IsOther(line) /\ ~ IsOpening(line) /\ ~ (IsClosing(line) /\ ns_stack # <<>>)
  /\ ~ IsFree(line)
  /\ Take(Verbatim(rest, 1, <<>>)) /\ UNCHANGED ns_stack

Finish ==
  /\ verdict = "scanning" /\ pos > Len(lines)
  /\ verdict' = "done"
  /\ UNCHANGED <<header, pos, ns_stack, found, decls_lines>>

GenInit ==
  /\ header = <<>> /\ verdict = "writing" /\ pos = 1
  /\ ns_stack = <<>> /\ found = <<>> /\ decls_lines = <<>>

GenNext ==
  \/ OpenNamespace \/ CloseNamespace \/ Declare \/ StartScan
  \/ NamespaceOpen \/ NamespaceClose \/ Template \/ Type \/ InlineConstant \/ InlineFunction
  \/ InlineVariable \/ Refuse \/ Alias \/ FreeDeclaration \/ PassThrough \/ Finish

GenSpec == GenInit /\ [][GenNext]_genVars
-----------------------------------------------------------------------------
(* What is written.                                                        *)

\* "std" itself, or what begins with "std::".
InStd(ns) == ns # <<>> /\ ns[1] = "std" /\ (Len(ns) = 1 \/ ns[2] = "::")

\* "detail" at its end.
EndsInDetail(ns) == ns # <<>> /\ Last(ns) = "detail"

\* Bug: the namespaces inside of detail are taken for public.
HiddenAtEnd(ns) == InStd(ns) \/ EndsInDetail(ns)

\* "::detail" in it, "detail" at its end; std.
Hidden(ns) ==
  InStd(ns) \/ EndsInDetail(ns) \/ \E k \in 2 .. Len(ns) : ns[k - 1] = "::" /\ ns[k] = "detail"

\* using_names(), which emit_exports_inc turns into using-declarations.
using_names == {<<e.ns, e.entity.name>> : e \in {e \in ToSet(found) : ~ Hidden(e.ns)}}

\* emit_impl: the casts, one for each plain inline function.
Casts(e) == IF e.entity.list = "functions" THEN << [ns |-> e.ns, sig |-> e.entity.sig] >> ELSE <<>>
emitted == FlattenSeq([k \in DOMAIN found |-> Casts(found[k])])
-----------------------------------------------------------------------------
(* What the header asks for: the tables of CODEGEN.md.                     *)

Signature == [
  short |-> [name |-> "f", return_type |-> <<"T">>, params |-> <<"T", ",", "T", "&">>],
  long  |-> [name |-> "f", return_type |-> <<"A", "<", "T", ",", "T", ">">>,
             params |-> <<"A", "<", "T", ",", "T", ">", ",", "T">>],
  nothing |-> [name |-> "o", return_type |-> <<"T">>, params |-> <<>>],
  attribute |-> [name |-> "r", return_type |-> <<"T">>,
                 params |-> <<"[", "[", "g", ",", "v", "]", "]", "T", ",", "T", "[", "]">>],
  brace |-> [name |-> "h", return_type |-> <<"T">>, params |-> <<"T">>]]

Promised(entry) ==
  LET form == entry.form IN
  CASE form \in DOMAIN Signature ->
         LET fn == Signature[form]
         IN  << fn.return_type \o <<fn.name, "(">> \o fn.params \o <<")", ";">> >>
    [] form = "paren" -> << <<"extern", "A", "<", "T", "(", ")", ">", "z", ";">> >>
    [] form \in {"variable", "braced"} -> << <<"extern", "T", NameOf[form], ";">> >>
    [] OTHER -> LinesOf(entry)

\* The casts of an entry.
PromisedCasts(entry) ==
  IF entry.form \in DOMAIN Signature
  THEN << [ns |-> FullName(entry.stack), sig |-> {Signature[entry.form]}] >> ELSE <<>>

\* A reading of all lines of a form that keeps what is promised, and finds its name and
\* signature.
AsPromised(form, reading) ==
  /\ reading.size = Len(Written[form]) /\ reading.kept = Promised(Entry(form, <<>>))
  /\ IF NameOf[form] = "" THEN reading.entities = <<>>
     ELSE /\ Len(reading.entities) = 1 /\ reading.entities[1].name = NameOf[form]
          /\ IF form \in DOMAIN Signature
             THEN reading.entities[1].list = "functions" /\ reading.entities[1].sig = {Signature[form]}
             ELSE reading.entities[1].list # "functions"

\* Lines that are passed through, and nobody waits for.
PassedThrough(form) ==
  /\ \A k \in DOMAIN Written[form] :
       LET l == Written[form][k] IN IsOther(l) /\ ~ IsOpening(l) /\ ~ IsClosing(l) /\ ~ IsFree(l)
  /\ NameOf[form] = "" /\ form \notin DOMAIN Signature /\ Promised(Entry(form, <<>>)) = Written[form]

\* Whichever branch of parse() takes the form reads it to its end, and as promised.
Understood(form) ==
  LET ls == Written[form]  first == ls[1] IN
  /\ ~ IsOpening(first) /\ ~ IsClosing(first)
  /\ IsTemplate(first) => LastLine(ls) <= Len(ls) /\ AsPromised(form, TemplateReading(ls))
  /\ IsType(first) => LastLineOfType(ls) <= Len(ls) /\ AsPromised(form, TypeReading(ls))
  /\ IsInline(first) =>
       /\ LastLine(ls) <= Len(ls)
       /\ IsConstant(first) => AsPromised(form, ConstantReading(ls))
       /\ ~ IsConstant(first) /\ Classify(first) = "fn" => AsPromised(form, FunctionReading(ls))
       /\ ~ IsConstant(first) /\ Classify(first) = "var" => AsPromised(form, VariableReading(ls))
  /\ IsAlias(first) => AsPromised(form, AliasReading(ls))
  /\ IsOther(first) /\ IsFree(first) => AsPromised(form, FreeReading(ls))
  /\ IsOther(first) /\ ~ IsFree(first) => PassedThrough(form)

\* Each row of the tables by itself: if a form is all that is left to read, the scanner finds
\* its end, keeps the lines the table has, and tells the name and the signature.
FormsUnderstood == \A j \in Declared : Understood(header[j].form)

\* "The decls header is the canonical with surgical removals; everything else passes
\* through verbatim", "`inline R foo(args) { body }`" becomes "`R foo(args);`" and
\* "`inline T x = v;`" becomes "`extern T x;`": whatever the bodies hold and however they
\* are nested, each declaration stays in its place.
DeclsArePromised ==
  verdict = "done" =>
    decls_lines = FlattenSeq([j \in DOMAIN header |-> Promised(header[j])])

\* A name of the text ns begins or ends at place k.
NameBegins(ns, k) == k = 1 \/ ns[k - 1] = "::"
NameEnds(ns, k) == k = Len(ns) \/ ns[k + 1] = "::"

\* A namespace called detail, or inside of one.
InDetail(ns) == \E k \in 1 .. Len(ns) : ns[k] = "detail" /\ NameBegins(ns, k) /\ NameEnds(ns, k)

\* Where a test of the text is none of its names: inside of an outermost detail; where an
\* inner name only begins with detail; where the last only ends with it.
Misleading(ns) ==
  \E k \in 1 .. Len(ns) : ns[k] = "detail" /\
    \/ k = 1 /\ k # Len(ns) /\ NameEnds(ns, k)
    \/ k # 1 /\ NameBegins(ns, k) /\ ~ NameEnds(ns, k)
    \/ k = Len(ns) /\ ~ NameBegins(ns, k)

\* The names declared, each with its namespace.
DeclaredNames == {<<FullName(header[j].stack), NameOf[header[j].form]>> : j \in {j \in Declared : NameOf[header[j].form] # ""}}

\* "One `using ::ns::name;` per top-level entity", but for those in a namespace detail, at
\* whatever depth, and for std: from namespaces that are nested, reopened or joined by ::.
\* Whatever else the header holds, only what is in a misleading namespace may go wrong.
ExportsArePromised ==
  verdict = "done" =>
    {x \in using_names : ~ Misleading(x[1])} =
      {x \in DeclaredNames : ~ Misleading(x[1]) /\ ~ InDetail(x[1]) /\ ~ InStd(x[1])}

\* "One entry per plain inline function", each overload with its own signature and the
\* private ones too: a function whose body was removed has it in the implementation unit.
EmissionsArePromised ==
  verdict = "done" => emitted = FlattenSeq([j \in DOMAIN header |-> PromisedCasts(header[j])])
=============================================================================
