----------------------------- MODULE Demangler -----------------------------
(***************************************************************************)
(* The demangler put to work: mgwhelp.cpp demangle is called on the names  *)
(* of a symbol table, with the parameters or, for UNDNAME_NAME_ONLY, as    *)
(* the beginning of the name.  What a name should mean comes from a        *)
(* mangler written after the Itanium C++ ABI (part 5.1), the other side of *)
(* the agreement: it walks a component tree, as the compiler walks a       *)
(* declaration, writes each part down the first time and refers to it by   *)
(* its number afterwards.                                                  *)
(***************************************************************************)
EXTENDS Demangle

CONSTANTS Declarations,   \* declarations the compiler has named
          Damaged         \* names that no compiler has made

-----------------------------------------------------------------------------
(* The reference: a mangler m has written out and remembers the parts subs. *)

Put(m, cs) == [m EXCEPT !.out = @ \o cs]
Keep(m, d) == [m EXCEPT !.subs = Append(@, d)]
IsKnown(m, d) == d \in Range(m.subs)
Again(m, d) ==
  LET i == (CHOOSE j \in DOMAIN m.subs : m.subs[j] = d) - 2
  IN  Put(m, CASE i = -1 -> <<"S", "_">>
               [] i \in 0 .. 35 -> <<"S", SeqIdDigits[i + 1], "_">>
               [] OTHER -> <<"S", SeqIdDigits[(i \div 36) + 1],
                                  SeqIdDigits[(i % 36) + 1], "_">>)

Decimal(n) == IF n < 10 THEN <<SeqIdDigits[n + 1]>>
              ELSE <<SeqIdDigits[(n \div 10) + 1], SeqIdDigits[(n % 10) + 1]>>
Anonymous == <<"_", "G", "L", "O", "B", "A", "L", "_", "_", "N", "_", "1">>
Source(name) ==
  LET cs == IF name = <<"(anonymous namespace)">> THEN Anonymous ELSE name
  IN  Decimal(Len(cs)) \o cs
Compact(n) == IF n = 0 THEN <<"_">> ELSE Decimal(n - 1) \o <<"_">>

LetterOf == [Restrict |-> "r", Volatile |-> "V", Const |-> "K",
             RestrictThis |-> "r", VolatileThis |-> "V", ConstThis |-> "K",
             ReferenceThis |-> "R", RvalueReferenceThis |-> "O",
             Pointer |-> "P", Reference |-> "R", RvalueReference |-> "O",
             Complex |-> "C", Imaginary |-> "G"]
CV == {"Restrict", "Volatile", "Const"}
CVThis == {"RestrictThis", "VolatileThis", "ConstThis"}
RefThis == {"ReferenceThis", "RvalueReferenceThis"}
Characters == [pl |-> <<"p", "l">>, ix |-> <<"i", "x">>, li |-> <<"l", "i">>]

(* MangleA(symbol, m, d) writes d as a symbol of the grammar. *)
RECURSIVE MangleA(_, _, _)

MangleTypes(m, ts) ==
  FoldLeft(LAMBDA n, t : MangleA("type", n, t), m,
           IF ts = <<>> THEN << <<"Builtin", "v">> >> ELSE ts)

MangleFunction(m, dc) ==
  MangleTypes(IF dc[2] = <<"none">> THEN m ELSE MangleA("type", m, dc[2]), dc[3])

(* An unqualified name. *)
MangleUnqualified(m, u) ==
  CASE u[1] = "Name" -> Put(m, Source(u[2]))
    [] u[1] \in {"C", "D"} -> Put(m, <<u[1], u[2]>>)
    [] u[1] = "Operator" -> Put(m, Characters[u[2]])
    [] u[1] = "Cast" -> MangleA("type", Put(m, <<"c", "v">>), u[2])
    [] u[1] = "Unary" -> Put(m, Characters[u[2][2]] \o Source(u[3][2]))
    [] u[1] = "TaggedName" -> Put(m, Source(u[2][2]) \o <<"B">> \o Source(u[3][2]))

MangleArg(m, a) ==
  CASE a[1] = "TemplateArgs" -> MangleA("template_args", Put(m, <<"J">>), a)
    [] a[1] \in {"Literal", "LiteralNeg"} ->
         Put(MangleA("type", Put(m, <<"L">>), a[2]),
             (IF a[1] = "LiteralNeg" THEN <<"n">> ELSE <<>>) \o a[3][2] \o <<"E">>)
    [] OTHER -> MangleA("type", m, a)
MangleArgs(m, args) == Put(FoldLeft(MangleArg, m, args[2]), <<"E">>)

Unscoped(d) == d[1] # "QualName" \/ d[2] = <<"Sub", "t", "simple">>

(* A name in front of :: or of template arguments. *)
ManglePrefix(m, p) ==
  CASE p[1] = "Sub" -> Put(m, <<"S", p[2]>>)
    [] IsKnown(m, p) -> Again(m, p)
    [] p[1] = "QualName" -> Keep(MangleUnqualified(MangleA("prefix", m, p[2]), p[3]), p)
    [] p[1] = "Template" ->
         Keep(MangleA("template_args", Put(MangleA("prefix", m, p[2]), <<"I">>), p[3]), p)
    [] p[1] = "TemplateParam" -> Keep(Put(m, <<"T">> \o Compact(p[2])), p)
    [] OTHER -> Keep(MangleUnqualified(m, p), p)

(* The last part of a nested name is not a prefix. *)
MangleLast(m, d) ==
  IF d[1] = "QualName" THEN MangleUnqualified(MangleA("prefix", m, d[2]), d[3])
  ELSE MangleA("template_args", Put(MangleA("prefix", m, d[2]), <<"I">>), d[3])

RECURSIVE Letters(_, _)
Letters(d, kinds) == IF d[1] \in kinds THEN <<LetterOf[d[1]]>> \o Letters(d[2], kinds) ELSE <<>>
RECURSIVE Core(_)
Core(d) == IF d[1] \in CV \cup CVThis \cup RefThis THEN Core(d[2]) ELSE d
Inside(d) == IF d[1] \in RefThis THEN d[2] ELSE d

MangleName(m, d) ==
  LET core == Core(d)
      quals == Letters(Inside(d), CVThis) \o Letters(d, RefThis)
  IN  CASE quals # <<>> \/ (core[1] = "QualName" /\ ~Unscoped(core))
             \/ (core[1] = "Template" /\ ~Unscoped(core[2])) ->
             Put(MangleLast(Put(m, <<"N">> \o quals), core), <<"E">>)
        [] d[1] = "QualName" -> MangleUnqualified(Put(m, <<"S", "t">>), d[3])
        [] d[1] = "Template" ->
             MangleA("template_args", Put(IF d[2][1] # "Sub" /\ ~IsKnown(m, d[2])
                            THEN Keep(MangleA("name", m, d[2]), d[2])
                            ELSE MangleA("prefix", m, d[2]), <<"I">>), d[3])
        [] d[1] = "LocalName" /\ d[3] = <<"Name", <<"string literal">> >> ->
             Put(MangleA("encoding", Put(m, <<"Z">>), d[2]), <<"E", "s">>)
        [] d[1] = "LocalName" /\ d[3][1] = "DefaultArg" ->
             MangleA("name", Put(MangleA("encoding", Put(m, <<"Z">>), d[2]),
                            <<"E", "d">> \o Compact(d[3][2])), d[3][3])
        [] d[1] = "LocalName" ->
             MangleA("name", Put(MangleA("encoding", Put(m, <<"Z">>), d[2]), <<"E">>), d[3])
        [] OTHER -> MangleUnqualified(m, d)

(* A function type, with the qualifiers of the member function it is of; as
   the member of a pointer to member it is a part of its own. *)
MangleFunctionType(m, t, whole) ==
  Keep(Put(MangleFunction(Put(m, Letters(Inside(t), CVThis) \o <<"F">>), Core(t)),
           Letters(t, RefThis) \o <<"E">>), whole)

MangleType(m, t) ==
  CASE t[1] = "Builtin" ->
         Put(m, IF t[2] = "Dn" THEN <<"D", "n">> ELSE <<t[2]>>)
    [] t[1] = "Sub" -> Put(m, <<"S", t[2]>>)
    [] IsKnown(m, t) -> Again(m, t)
    [] t[1] \in CV -> Keep(MangleA("type", Put(m, Letters(t, CV)), Core(t)), t)
    [] t[1] \in DOMAIN LetterOf \ (CVThis \cup RefThis) ->
         Keep(MangleA("type", Put(m, <<LetterOf[t[1]]>>), t[2]), t)
    [] Core(t)[1] = "FunctionType" -> MangleFunctionType(m, t, t)
    [] t[1] = "ArrayType" ->
         Keep(MangleA("type", Put(m, <<"A">> \o (IF t[2] = <<"none">> THEN <<>> ELSE t[2][2])
                                        \o <<"_">>), t[3]), t)
    [] t[1] = "VectorType" ->
         Keep(MangleA("type", Put(m, <<"D", "v">> \o Decimal(t[2][2]) \o <<"_">>), t[3]), t)
    [] t[1] = "PtrmemType" ->
         LET cl == MangleA("type", Put(m, <<"M">>), t[2])
         IN  Keep(IF Core(t[3])[1] = "FunctionType"
                  THEN MangleFunctionType(cl, t[3], <<"member", t[2], t[3]>>)
                  ELSE MangleA("type", cl, t[3]), t)
    [] t[1] = "TemplateParam" -> Keep(Put(m, <<"T">> \o Compact(t[2])), t)
    [] t[1] = "PackExpansion" -> Keep(MangleA("type", Put(m, <<"D", "p">>), t[2]), t)
    [] t[1] = "Template" /\ t[2][1] = "TemplateParam" ->
         Keep(MangleA("template_args", Put(MangleA("prefix", m, t[2]), <<"I">>), t[3]), t)
    [] OTHER -> Keep(MangleA("name", m, t), t)

SpecialOf == [Vtable |-> <<"T", "V">>, Vtt |-> <<"T", "T">>, Typeinfo |-> <<"T", "I">>,
              TypeinfoName |-> <<"T", "S">>]
MangleEncoding(m, d) ==
  CASE d[1] = "TypedName" -> MangleFunction(MangleA("name", m, d[2]), d[3])
    [] d[1] \in DOMAIN SpecialOf -> MangleA("type", Put(m, SpecialOf[d[1]]), d[2])
    [] d[1] = "Guard" -> MangleA("name", Put(m, <<"G", "V">>), d[2])
    [] d[1] = "Thunk" -> MangleA("encoding", Put(m, <<"T", "h", "n", "4", "_">>), d[2])
    [] d[1] = "VirtualThunk" -> MangleA("encoding", Put(m, <<"T", "v", "0", "_", "n", "8", "_">>), d[2])
    [] d[1] = "CovariantThunk" ->
         MangleA("encoding", Put(m, <<"T", "c", "h", "4", "_", "v", "0", "_", "8", "_">>), d[2])
    [] d[1] = "ConstructionVtable" ->
         MangleA("type", Put(MangleA("type", Put(m, <<"T", "C">>), d[3]), <<"0", "_">>), d[2])
    [] OTHER -> MangleA("name", m, d)

MangleA(symbol, m, d) ==
  CASE symbol = "type" -> MangleType(m, d)
    [] symbol = "name" -> MangleName(m, d)
    [] symbol = "prefix" -> ManglePrefix(m, d)
    [] symbol = "template_args" -> MangleArgs(m, d)
    [] symbol = "encoding" -> MangleEncoding(m, d)

Mangle(d) ==
  LET m == [out |-> <<"_", "Z">>, subs |-> <<>>]
  IN  IF d[1] = "Clone" THEN MangleA("encoding", m, d[2]).out \o d[3][2]
      ELSE MangleA("encoding", m, d).out

-----------------------------------------------------------------------------
VARIABLES mangled,   \* the name in the symbol table
          means,     \* the declaration it is of, NULL of a damaged name
          whole,     \* demangled with its parameters, NULL before the call
          name       \* demangled for UNDNAME_NAME_ONLY, NULL before the call

vars == <<mangled, means, whole, name>>

Init ==
  /\ \/ \E d \in Declarations : means = d /\ mangled = Mangle(d)
     \/ mangled \in Damaged /\ means = NULL
  /\ whole = NULL
  /\ name = NULL

Undecorate ==
  /\ whole = NULL
  /\ whole' = demangle(mangled, TRUE)
  /\ UNCHANGED <<mangled, means, name>>

UndecorateNameOnly ==
  /\ name = NULL
  /\ name' = demangle(mangled, FALSE)
  /\ UNCHANGED <<mangled, means, whole>>

Next == Undecorate \/ UndecorateNameOnly

Spec == Init /\ [][Next]_vars

-----------------------------------------------------------------------------
(* Every name the compiler makes demangles to the declaration it is of: each
   back reference (d_substitution) resolves to the part the compiler meant,
   which it does only if every function of the grammar adds to the table
   exactly the parts the ABI numbers, in its order. *)
RoundTrip == means # NULL /\ whole # NULL => whole.dc = means

(* The comments of cplus_demangle_init_info: twice as many components, and as
   many substitutions, as the name has characters are enough for any name;
   cplus_demangle_type uses the builtin it makes without asking whether there
   was one left. *)
PoolsSuffice == \A r \in {whole, name} : r = NULL \/ ~r.short

(* The declarator of a demangled function or datum, without the parameters,
   the return type and the qualifiers of `this', of a local entity too. *)
RECURSIVE NameOf(_)
NameOf(dc) ==
  CASE dc[1] \in {"Clone", "TypedName"} \cup ThisQualifiers -> NameOf(dc[2])
    [] dc[1] = "LocalName" -> <<"LocalName", dc[2], Core(dc[3])>>
    [] OTHER -> dc

(* UNDNAME_NAME_ONLY, which parses the beginning of the name only, gives the
   name that the whole of the symbol demangles to, of any name that demangles,
   damaged ones included: DrMingw's and the log's two uses of a symbol agree. *)
NameAgrees ==
  whole # NULL /\ name # NULL /\ ~Failed(whole) => name.dc = NameOf(whole.dc)
=============================================================================
