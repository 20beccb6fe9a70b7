------------------------------ MODULE Demangle ------------------------------
(***************************************************************************)
(* The C++ demangler MgwHelp gives function names with                     *)
(* (src/thirdparty/libiberty/cp-demangle.c, called by mgwhelp.cpp          *)
(* demangle): a recursive-descent parser of the Itanium C++ ABI names that *)
(* builds a tree of components out of two pools sized after the name, and  *)
(* resolves back references ("substitutions") to parts it has seen.        *)
(*                                                                         *)
(* A name is a sequence of characters (one-character strings).  A parsing  *)
(* function takes the parser's record di, struct d_info, and returns it    *)
(* advanced, with its result in the field dc: a component, or NULL.  A     *)
(* component is a tuple <<type, operand, ...>>; the chain of an argument   *)
(* list is the sequence of its members.  Not modelled: the grammar of      *)
(* expressions (d_expression rejects), the Java and the _GLOBAL_ names,    *)
(* which mgwhelp never passes, and the printing of the tree.               *)
(*                                                                         *)
(* The operators d_identifier_Slip, Referred_Slip, Bare_Slip and           *)
(* Pools_Slip are variants of the definitions they precede, with a         *)
(* mistake: a length prefix that counts itself, a sequence number that is  *)
(* one short, a qualifier kept, and a pool as large as the name.           *)
(***************************************************************************)
EXTENDS Integers, Sequences, SequencesExt

CONSTANT NULL

Digit == {"0", "1", "2", "3", "4", "5", "6", "7", "8", "9"}
Lower == {"a", "b", "c", "d", "e", "f", "g", "h", "i", "j", "k", "l", "m",
          "n", "o", "p", "q", "r", "s", "t", "u", "v", "w", "x", "y", "z"}
SeqIdDigits ==
  <<"0", "1", "2", "3", "4", "5", "6", "7", "8", "9", "A", "B", "C", "D", "E",
    "F", "G", "H", "I", "J", "K", "L", "M", "N", "O", "P", "Q", "R", "S", "T",
    "U", "V", "W", "X", "Y", "Z">>
Upper == Range(SeqIdDigits) \ Digit
Value == [c \in Range(SeqIdDigits) |->
            (CHOOSE i \in DOMAIN SeqIdDigits : SeqIdDigits[i] = c) - 1]
End == "end of the name"

(* cplus_demangle_init_info: the parser at the start of the name s. *)
Pools_Slip(len) == [comps |-> len, subs |-> len]
Pools(len) == [comps |-> 2 * len, subs |-> len]
cplus_demangle_init_info(s, params) ==
  [s |-> s, params |-> params, n |-> 1, next_comp |-> 0, subs |-> <<>>,
   last_name |-> NULL, is_conversion |-> FALSE, short |-> FALSE, dc |-> NULL]

Peek(di) == IF di.n <= Len(di.s) THEN di.s[di.n] ELSE End
PeekNext(di) == IF di.n < Len(di.s) THEN di.s[di.n + 1] ELSE End
Advance(di, k) == [di EXCEPT !.n = @ + k]
NextChar(di) == IF Peek(di) = End THEN di ELSE Advance(di, 1)
Got(di, dc) == [di EXCEPT !.dc = dc]
Nothing(di) == Got(di, NULL)
Failed(di) == di.dc = NULL
(* if (! d_check_char (di, c)) return NULL; *)
Checked(di, c) == IF Peek(di) = c THEN Advance(di, 1) ELSE Nothing(di)
(* How many characters from here on are in C. *)
Run(di, C) ==
  Min({i \in di.n .. Len(di.s) + 1 : i > Len(di.s) \/ di.s[i] \notin C}) - di.n
Ahead(di, k) == SubSeq(di.s, di.n, di.n + k - 1)

(* d_make_empty: a component from the pool. *)
d_make_empty(di, dc) ==
  IF di.next_comp >= Pools(Len(di.s)).comps
  THEN [Nothing(di) EXCEPT !.short = TRUE]
  ELSE [di EXCEPT !.next_comp = @ + 1, !.dc = dc]

(* d_make_comp with two operands that both must be there, and with one. *)
Both(di, type, left, right) ==
  IF left = NULL \/ right = NULL THEN Nothing(di)
  ELSE d_make_empty(di, <<type, left, right>>)
One(di, type, left) ==
  IF left = NULL THEN Nothing(di) ELSE d_make_empty(di, <<type, left>>)

(* d_make_name and cplus_demangle_fill_name: an empty name is an error. *)
d_make_name(di, name) ==
  LET p == d_make_empty(di, <<"Name", name>>)
  IN  IF name = <<>> THEN Nothing(p) ELSE p

d_add_substitution(di) ==
  IF Failed(di) THEN di
  ELSE IF Len(di.subs) >= Pools(Len(di.s)).subs
       THEN [Nothing(di) EXCEPT !.short = TRUE]
       ELSE [di EXCEPT !.subs = Append(@, di.dc)]

-----------------------------------------------------------------------------
(* Parse(symbol, di) stands for the call of the parsing function of a symbol
   that others are built from, so that one operator carries the recursion of
   the grammar; its definition is at the end. *)
RECURSIVE Parse(_, _)

(* Numbers and identifiers. *)

(* d_number: an optional n for minus, and digits, perhaps none. *)
d_number(di) ==
  LET from == IF Peek(di) = "n" THEN Advance(di, 1) ELSE di
      k == Run(from, Digit)
      v == FoldLeft(LAMBDA a, c : 10 * a + Value[c], 0, Ahead(from, k))
  IN  Got(Advance(from, k), IF Peek(di) = "n" THEN 0 - v ELSE v)

(* d_compact_number: _ is 0, <n>_ is n + 1; NULL stands for -1. *)
d_compact_number(di) ==
  CASE Peek(di) = "_" -> Got(Advance(di, 1), 0)
    [] Peek(di) = "n" -> Nothing(di)
    [] OTHER -> LET num == Parse("number", di)
                IN  Checked(Got(num, num.dc + 1), "_")

AnonymousPrefix == <<"_", "G", "L", "O", "B", "A", "L", "_">>
IsAnonymous(name) ==
  /\ Len(name) >= Len(AnonymousPrefix) + 2
  /\ SubSeq(name, 1, Len(AnonymousPrefix)) = AnonymousPrefix
  /\ name[Len(AnonymousPrefix) + 1] \in {".", "_", "$"}
  /\ name[Len(AnonymousPrefix) + 2] = "N"

d_identifier_Slip(di, len) ==
  IF Len(di.s) - di.n < len THEN Nothing(di)
  ELSE d_make_name(Advance(di, len), Ahead(di, len))
d_identifier(di, len) ==
  IF Len(di.s) - di.n + 1 < len THEN Nothing(di)
  ELSE LET name == Ahead(di, len)
       IN  d_make_name(Advance(di, len),
                       IF IsAnonymous(name) THEN <<"(anonymous namespace)">>
                       ELSE name)

d_source_name(di) ==
  LET len == Parse("number", di)
      ret == d_identifier(len, len.dc)
  IN  IF len.dc <= 0 THEN Nothing(len) ELSE [ret EXCEPT !.last_name = ret.dc]

RECURSIVE d_abi_tags(_)
d_abi_tags(di) ==
  IF Peek(di) # "B" THEN di
  ELSE LET tag == d_source_name(Advance(di, 1))
       IN  d_abi_tags(Both(tag, "TaggedName", di.dc, tag.dc))

(* d_discriminator: read, and not kept. *)
d_discriminator(di) ==
  IF Peek(di) # "_" THEN di
  ELSE LET discrim == Parse("number", Advance(di, 1))
       IN  IF discrim.dc < 0 THEN Nothing(discrim) ELSE Got(discrim, di.dc)

d_call_offset(di, c) ==
  LET one == Parse("number", di)
      two == Parse("number", Checked(one, "_"))
  IN  CASE c = "h" -> Checked(one, "_")
        [] c = "v" -> IF Peek(one) # "_" THEN Nothing(one) ELSE Checked(two, "_")
        [] OTHER -> Nothing(di)

d_ctor_dtor_name(di) ==
  IF \/ Peek(di) = "C" /\ PeekNext(di) \in {"1", "2", "3", "4", "5"}
     \/ Peek(di) = "D" /\ PeekNext(di) \in {"0", "1", "2", "4", "5"}
  THEN LET p == d_make_empty(Advance(di, 2), <<Peek(di), PeekNext(di), di.last_name>>)
       IN  IF di.last_name = NULL THEN Nothing(p) ELSE p
  ELSE Nothing(di)

-----------------------------------------------------------------------------
(* Substitutions. *)

StandardSubs == {"t", "a", "b", "s", "i", "o", "d"}

(* The number of S<seq-id>_ is one more than the seq-id. *)
Referred_Slip(digits) ==
  FoldLeft(LAMBDA id, c : 36 * id + Value[c], 0, digits)
Referred(digits) ==
  IF digits = <<>> THEN 0
  ELSE FoldLeft(LAMBDA id, c : 36 * id + Value[c], 0, digits) + 1

(* A standard abbreviation with ABI tags can be substituted. *)
WithTags(sub) ==
  LET tagged == d_abi_tags(sub)
  IN  IF Peek(sub) = "B" THEN Got(d_add_substitution(tagged), tagged.dc) ELSE sub

(* The full expansion is used before a constructor or a destructor.  std::
   written St in front of a name and as a prefix is one component here. *)
Standard(di, c, prefix) ==
  LET verbose == prefix /\ Peek(di) \in {"C", "D"}
      last == d_make_empty(di, <<"Sub", c, "name">>)
      named == IF c = "t" THEN di ELSE [last EXCEPT !.last_name = last.dc]
  IN  WithTags(d_make_empty(named, <<"Sub", c, IF verbose THEN "full" ELSE "simple">>))

d_substitution(di, prefix) ==
  LET c == PeekNext(di)
      at == NextChar(Advance(di, 1))
      digits == Advance(di, 1)
      k == Run(digits, Digit \cup Upper)
      id == Referred(Ahead(digits, k))
      after == Advance(digits, k)
  IN  CASE Peek(di) # "S" -> Nothing(di)
        [] c \in {"_"} \cup Digit \cup Upper ->
             IF Peek(after) # "_" \/ id >= Len(di.subs)
             THEN Nothing(NextChar(after))
             ELSE Got(NextChar(after), di.subs[id + 1])
        [] c \in StandardSubs -> Standard(at, c, prefix)
        [] OTHER -> Nothing(at)

-----------------------------------------------------------------------------
(* Which names have a return type, and qualifiers. *)

ThisQualifiers == {"RestrictThis", "VolatileThis", "ConstThis",
                   "ReferenceThis", "RvalueReferenceThis"}

RECURSIVE is_ctor_dtor_or_conversion(_)
is_ctor_dtor_or_conversion(dc) ==
  IF dc[1] \in {"QualName", "LocalName"} THEN is_ctor_dtor_or_conversion(dc[3])
  ELSE dc[1] \in {"C", "D", "Cast"}

RECURSIVE has_return_type(_)
has_return_type(dc) ==
  IF dc[1] \in ThisQualifiers THEN has_return_type(dc[2])
  ELSE dc[1] = "Template" /\ ~is_ctor_dtor_or_conversion(dc[2])

(* d_encoding without DMGL_PARAMS: the qualifiers of `this' are dropped. *)
RECURSIVE Unqualified(_)
Unqualified(dc) == IF dc[1] \in ThisQualifiers THEN Unqualified(dc[2]) ELSE dc
Bare_Slip(dc) == Unqualified(dc)
Bare(dc) ==
  LET name == Unqualified(dc)
  IN  IF name[1] = "LocalName" THEN [name EXCEPT ![3] = Unqualified(@)] ELSE name

QualifierOf == [r |-> "Restrict", V |-> "Volatile", K |-> "Const"]
QualifierOfThis == [r |-> "RestrictThis", V |-> "VolatileThis", K |-> "ConstThis"]

(* d_cv_qualifiers: the qualifiers here, as characters; one component each. *)
RECURSIVE d_cv_qualifiers(_)
d_cv_qualifiers(di) ==
  IF Peek(di) \notin DOMAIN QualifierOf THEN di
  ELSE LET one == d_make_empty(Advance(di, 1), Append(di.dc, Peek(di)))
       IN  IF Failed(one) THEN one ELSE d_cv_qualifiers(one)

(* The component dc under the qualifiers qs. *)
Qualified(qs, dc, kinds) == FoldRight(LAMBDA q, in : <<kinds[q], in>>, qs, dc)

(* d_ref_qualifier, of the function type or the name parsed before. *)
d_ref_qualifier(di) ==
  CASE Peek(di) = "R" -> d_make_empty(Advance(di, 1), <<"ReferenceThis", di.dc>>)
    [] Peek(di) = "O" -> d_make_empty(Advance(di, 1), <<"RvalueReferenceThis", di.dc>>)
    [] OTHER -> di
-----------------------------------------------------------------------------
(* The grammar. *)

Operators ==
  {"aN", "aS", "aa", "ad", "an", "at", "az", "cc", "cl", "cm", "co", "dV", "da",
   "dc", "de", "dl", "ds", "dt", "dv", "eO", "eo", "eq", "ge", "gs", "gt", "ix",
   "lS", "le", "li", "ls", "lt", "mI", "mL", "mi", "ml", "mm", "na", "ne", "ng",
   "nt", "nw", "oR", "oo", "or", "pL", "pl", "pm", "pp", "ps", "pt", "qu", "rM",
   "rS", "rc", "rm", "rs", "sc", "st", "sz", "tr", "tw"}

(* A vendor's operator, a conversion to a type, or an operator of the table;
   the conversion's type is parsed with is_conversion set. *)
d_operator_name(di) ==
  LET c1 == Peek(di)
      c2 == Peek(NextChar(di))
      at == NextChar(NextChar(di))
      name == Parse("source_name", at)
      extended == d_make_empty(name, <<"ExtendedOperator", c2, name.dc>>)
      type == [Parse("type", [at EXCEPT !.is_conversion = TRUE])
                 EXCEPT !.is_conversion = di.is_conversion]
  IN  CASE c1 = "v" /\ c2 \in Digit ->
             IF Failed(name) THEN Nothing(extended) ELSE extended
        [] c1 = "c" /\ c2 = "v" -> One(type, "Cast", type.dc)
        [] End \notin {c1, c2} /\ c1 \o c2 \in Operators ->
             d_make_empty(at, <<"Operator", c1 \o c2>>)
        [] OTHER -> Nothing(at)

(* d_parmlist: types up to the end, an E, a clone suffix or the function's
   ref-qualifier; a lone void is no parameter, and there must be one type. *)
RECURSIVE d_parmlist(_, _)
d_parmlist(di, tl) ==
  LET type == Parse("type", di)
      link == One(type, "Arglist", type.dc)
  IN  IF Peek(di) \in {End, "E", "."} \/ (Peek(di) \in {"R", "O"} /\ PeekNext(di) = "E")
      THEN IF tl = <<>> THEN Nothing(di)
           ELSE Got(di, IF tl = << <<"Builtin", "v">> >> THEN <<>> ELSE tl)
      ELSE IF Failed(link) THEN link ELSE d_parmlist(link, Append(tl, type.dc))

d_bare_function_type(di, returns) ==
  LET first == IF Peek(di) = "J" THEN Advance(di, 1) ELSE di
      return_type == IF returns \/ Peek(di) = "J" THEN Parse("type", first)
                     ELSE Got(first, <<"none">>)
      tl == d_parmlist(return_type, <<>>)
  IN  IF Failed(return_type) THEN return_type
      ELSE Both(tl, "FunctionType", return_type.dc, tl.dc)

(* d_function_type: F, perhaps Y for C linkage, the type, E.  The
   ref-qualifier is made even of a function type that was not there. *)
d_function_type(di) ==
  LET f == IF PeekNext(di) = "Y" THEN Advance(di, 2) ELSE Advance(di, 1)
  IN  Checked(d_ref_qualifier(d_bare_function_type(f, TRUE)), "E")

d_expression(di) == Nothing(di)

(* d_expr_primary: a literal of a type, kept as written, or a mangled name. *)
d_expr_primary(di) ==
  LET l == Advance(di, 1)
      type == Parse("type", l)
      minus == Peek(type) = "n"
      from == IF minus THEN Advance(type, 1) ELSE type
      k == Min({i \in from.n .. Len(di.s) + 1 : i > Len(di.s) \/ di.s[i] = "E"}) - from.n
      value == d_make_name(Advance(from, k), Ahead(from, k))
  IN  CASE Peek(di) # "L" -> Nothing(di)
        [] Peek(l) \in {"_", "Z"} -> Checked(Parse("mangled_name", l), "E")
        [] OTHER ->
             IF Failed(type) \/ Peek(value) = End THEN Nothing(type)
             ELSE Checked(Both(value, IF minus THEN "LiteralNeg" ELSE "Literal",
                               type.dc, value.dc), "E")

(* d_template_args and d_template_arg: the last name seen before the
   arguments is the last name again after them. *)
RECURSIVE d_template_arglist(_, _)
d_template_arglist(di, al) ==
  LET arg == CASE Peek(di) = "X" -> Checked(d_expression(Advance(di, 1)), "E")
               [] Peek(di) = "L" -> d_expr_primary(di)
               [] Peek(di) \in {"I", "J"} -> Parse("template_args", di)
               [] OTHER -> Parse("type", di)
      link == One(arg, "TemplateArglist", arg.dc)
  IN  CASE Failed(link) -> link
        [] Peek(link) = "E" -> Got(Advance(link, 1), Append(al, arg.dc))
        [] OTHER -> d_template_arglist(link, Append(al, arg.dc))

d_template_args(di) ==
  LET at == Advance(di, 1)
      al == d_template_arglist(at, <<>>)
  IN  CASE Peek(di) \notin {"I", "J"} -> Nothing(di)
        [] Peek(at) = "E" -> d_make_empty(Advance(at, 1), <<"TemplateArgs", <<>> >>)
        [] Failed(al) -> al
        [] OTHER -> [al EXCEPT !.last_name = di.last_name,
                               !.dc = <<"TemplateArgs", al.dc>>]

(* The name parsed, with the template arguments that follow it. *)
WithArgs(di) ==
  LET args == Parse("template_args", di)
  IN  IF Peek(di) = "I" THEN Both(args, "Template", di.dc, args.dc) ELSE di

(* d_template_param: T_ is the first parameter, T0_ the second. *)
d_template_param(di) ==
  LET param == d_compact_number(Advance(di, 1))
  IN  IF Failed(param) THEN param
      ELSE d_make_empty(param, <<"TemplateParam", param.dc>>)

d_array_type(di) ==
  LET a == Advance(di, 1)
      k == Run(a, Digit)
      dim == IF Peek(a) = "_" THEN Got(a, <<"none">>)
             ELSE IF k > 0 THEN d_make_name(Advance(a, k), Ahead(a, k))
             ELSE d_expression(a)
      elem == Parse("type", Advance(dim, 1))
  IN  IF Failed(dim) \/ Peek(dim) # "_" THEN Nothing(dim)
      ELSE Both(elem, "ArrayType", dim.dc, elem.dc)

d_vector_type(di) ==
  LET p == d_make_empty(di, "number")
      num == Parse("number", p)
      dim == IF Peek(di) = "_" THEN d_expression(Advance(di, 1))
             ELSE IF Failed(p) THEN p ELSE Got(num, <<"Number", num.dc>>)
      elem == Parse("type", Advance(dim, 1))
  IN  IF Failed(dim) \/ Peek(dim) # "_" THEN Nothing(dim)
      ELSE Both(elem, "VectorType", dim.dc, elem.dc)

d_pointer_to_member_type(di) ==
  LET cl == Parse("type", Advance(di, 1))
      mem == Parse("type", cl)
  IN  IF Failed(cl) THEN cl ELSE Both(mem, "PtrmemType", cl.dc, mem.dc)

(* cplus_demangle_type: qualifiers are pulled off together, so that only the
   base and the wholly qualified type can be substituted; before a function
   type they are those of `this', and a ref-qualifier is moved outside. *)
QualifiedType(di) ==
  LET q == d_cv_qualifiers(Got(di, <<>>))
      fn == Peek(q) = "F"
      t == IF fn THEN d_function_type(q) ELSE Parse("type", q)
      Over(dc) == Qualified(q.dc, dc, IF fn THEN QualifierOfThis ELSE QualifierOf)
      whole == IF t.dc[1] \in {"ReferenceThis", "RvalueReferenceThis"}
               THEN <<t.dc[1], Over(t.dc[2])>> ELSE Over(t.dc)
  IN  IF Failed(q) THEN q ELSE IF Failed(t) THEN t
      ELSE d_add_substitution(Got(t, whole))

Builtins == Lower \ {"k", "p", "q", "r", "u"}
PrefixOf == [O |-> "RvalueReference", P |-> "Pointer", R |-> "Reference",
             C |-> "Complex", G |-> "Imaginary"]

(* A template template parameter and its arguments; in a conversion operator
   the arguments are the parameter's only if other arguments follow, and
   d_backtrack gives them back otherwise (the last name stays). *)
TemplateParamType(di) ==
  LET param == Parse("template_param", di)
      added == d_add_substitution(param)
      args == Parse("template_args", param)
      late == d_add_substitution(Got(args, param.dc))
  IN  IF Peek(param) # "I" THEN param
      ELSE IF ~di.is_conversion
      THEN IF Failed(added) THEN added ELSE WithArgs(added)
      ELSE IF Peek(args) = "I"
      THEN IF Failed(late) THEN late ELSE Both(late, "Template", param.dc, args.dc)
      ELSE [param EXCEPT !.last_name = args.last_name, !.short = args.short]

VendorQualified(di) ==
  LET qual == WithArgs(Parse("source_name", Advance(di, 1)))
      type == Parse("type", qual)
  IN  Both(type, "VendorTypeQual", type.dc, qual.dc)

(* DF <bits> <length> <fract bits> <sat>; the bits are not kept. *)
FixedType(di) ==
  LET p == d_make_empty(di, "fixed")
      accum == IF Peek(p) \in Digit THEN Parse("number", p) ELSE p
      length == Parse("type", accum)
      fract == Parse("number", length)
  IN  IF Failed(p) THEN p ELSE IF Failed(length) THEN length
      ELSE Got(NextChar(fract),
               <<"FixedType", Peek(p) \in Digit, length.dc, Peek(fract) = "s">>)

(* The types written D<letter>: those in the set are no candidates for a
   substitution. *)
NotSubstitutableD == {"a", "f", "d", "e", "h", "s", "i", "F", "n"}
TypeD(di) ==
  LET at == NextChar(Advance(di, 1))
      c == PeekNext(di)
      expr == d_expression(at)
      pack == Parse("type", at)
  IN  CASE c \in {"T", "t"} -> Checked(One(expr, "Decltype", expr.dc), "E")
        [] c = "p" -> One(pack, "PackExpansion", pack.dc)
        [] c = "a" -> d_make_name(at, <<"auto">>)
        [] c \in {"f", "d", "e", "h", "s", "i", "n"} -> d_make_empty(at, <<"Builtin", "D" \o c>>)
        [] c = "F" -> FixedType(at)
        [] c = "v" -> d_vector_type(at)
        [] OTHER -> Nothing(at)

cplus_demangle_type(di) ==
  LET peek == Peek(di)
      under == Parse("type", Advance(di, 1))
      name == Parse("source_name", Advance(di, 1))
      backref == Parse("substitution", di)
      std == Parse("name", di)
      S(ret) == d_add_substitution(ret)
  IN  CASE peek \in DOMAIN QualifierOf -> QualifiedType(di)
        [] peek \in Builtins -> Advance(d_make_empty(di, <<"Builtin", peek>>), 1)
        [] peek = "u" -> S(One(name, "VendorType", name.dc))
        [] peek = "F" -> S(d_function_type(di))
        [] peek \in Digit \cup {"N", "Z"} -> S(Parse("name", di))
        [] peek = "A" -> S(d_array_type(di))
        [] peek = "M" -> S(d_pointer_to_member_type(di))
        [] peek = "T" -> S(TemplateParamType(di))
        [] peek = "S" ->
             IF PeekNext(di) \in {"_"} \cup Digit \cup Upper
             THEN IF Peek(backref) = "I" THEN S(WithArgs(backref)) ELSE backref
             ELSE IF ~Failed(std) /\ std.dc[1] = "Sub" THEN std ELSE S(std)
        [] peek \in DOMAIN PrefixOf -> S(One(under, PrefixOf[peek], under.dc))
        [] peek = "U" -> S(VendorQualified(di))
        [] peek = "D" ->
             IF PeekNext(di) \in NotSubstitutableD THEN TypeD(di) ELSE S(TypeD(di))
        [] OTHER -> Nothing(di)

(* d_special_name: tables, type information, thunks, guards, clones. *)
OfType == [V |-> "Vtable", T |-> "Vtt", I |-> "Typeinfo", S |-> "TypeinfoName",
           F |-> "TypeinfoFn", J |-> "JavaClass"]
Thunk(di, c) ==
  LET first == d_call_offset(di, c)
      fn == Parse("encoding", first)
  IN  IF Failed(first) THEN first
      ELSE One(fn, IF c = "h" THEN "Thunk" ELSE "VirtualThunk", fn.dc)

(* A covariant thunk has two offsets, each with its letter. *)
CovariantThunk(di) ==
  LET first == d_call_offset(NextChar(di), Peek(di))
      second == d_call_offset(NextChar(first), Peek(first))
      fn == Parse("encoding", second)
  IN  IF Failed(first) THEN first ELSE IF Failed(second) THEN second
      ELSE One(fn, "CovariantThunk", fn.dc)

ConstructionVtable(di) ==
  LET derived == Parse("type", di)
      offset == Parse("number", derived)
      base == Parse("type", Advance(offset, 1))
  IN  IF offset.dc < 0 \/ Peek(offset) # "_" THEN Nothing(offset)
      ELSE Both(base, "ConstructionVtable", base.dc, derived.dc)

ReferenceTemporary(di) ==
  LET name == Parse("name", di)
      num == Parse("number", name)
      p == d_make_empty(num, <<"Number", num.dc>>)
  IN  Both(p, "Reftemp", name.dc, p.dc)

d_special_name(di) ==
  LET c == PeekNext(di)
      at == NextChar(Advance(di, 1))
      type == Parse("type", at)
      name == Parse("name", at)
      fn == Parse("encoding", at)
      clone == Parse("encoding", NextChar(at))
  IN  IF Peek(di) = "T"
      THEN CASE c \in DOMAIN OfType -> One(type, OfType[c], type.dc)
             [] c \in {"h", "v"} -> Thunk(at, c)
             [] c = "c" -> CovariantThunk(at)
             [] c = "C" -> ConstructionVtable(at)
             [] c = "H" -> One(name, "TlsInit", name.dc)
             [] c = "W" -> One(name, "TlsWrapper", name.dc)
             [] OTHER -> Nothing(at)
      ELSE CASE c = "V" -> One(name, "Guard", name.dc)
             [] c = "R" -> ReferenceTemporary(at)
             [] c = "A" -> One(fn, "HiddenAlias", fn.dc)
             [] c = "T" -> One(clone, IF Peek(at) = "n" THEN "NontransactionClone"
                                      ELSE "TransactionClone", clone.dc)
             [] OTHER -> Nothing(at)

-----------------------------------------------------------------------------
(* Names. *)

(* A lambda's parameters and number; it is a candidate for a substitution. *)
d_lambda(di) ==
  LET tl == d_parmlist(Advance(di, 2), <<>>)
      num == d_compact_number(Advance(tl, 1))
  IN  IF Failed(tl) \/ Peek(tl) # "E" THEN Nothing(tl) ELSE IF Failed(num) THEN num
      ELSE d_add_substitution(d_make_empty(num, <<"Lambda", tl.dc, num.dc>>))

d_unnamed_type(di) ==
  LET num == d_compact_number(Advance(di, 2))
  IN  IF Failed(num) THEN num
      ELSE d_add_substitution(d_make_empty(num, <<"UnnamedType", num.dc>>))

(* operator"" takes a suffix. *)
OperatorName(di) ==
  LET op == Parse("operator_name", di)
      suffix == Parse("source_name", op)
  IN  IF ~Failed(op) /\ op.dc = <<"Operator", "li">>
      THEN Both(suffix, "Unary", op.dc, suffix.dc) ELSE op

LocalSourceName(di) ==
  LET name == Parse("source_name", Advance(di, 1))
  IN  IF Failed(name) THEN name ELSE d_discriminator(name)

d_unqualified_name(di) ==
  LET peek == Peek(di)
      ret == CASE peek \in Digit -> Parse("source_name", di)
               [] peek \in Lower -> OperatorName(di)
               [] peek \in {"C", "D"} -> d_ctor_dtor_name(di)
               [] peek = "L" -> LocalSourceName(di)
               [] peek = "U" /\ PeekNext(di) = "l" -> d_lambda(di)
               [] peek = "U" /\ PeekNext(di) = "t" -> d_unnamed_type(di)
               [] OTHER -> Nothing(di)
  IN  d_abi_tags(ret)

(* d_prefix: ret is what the loop has built.  Every prefix is a candidate for
   a substitution, except one that is a substitution and the whole name. *)
RECURSIVE d_prefix(_, _)
d_prefix(di, ret) ==
  LET peek == Peek(di)
      dc == CASE peek = "D" /\ PeekNext(di) \in {"T", "t"} -> Parse("type", di)
              [] peek = "S" -> Parse("substitution of a prefix", di)
              [] peek = "I" -> Parse("template_args", di)
              [] peek = "T" -> Parse("template_param", di)
              [] OTHER -> Parse("unqualified_name", di)
      joined == IF ret = NULL THEN dc
                ELSE Both(dc, IF peek = "I" THEN "Template" ELSE "QualName", ret, dc.dc)
      added == d_add_substitution(joined)
  IN  CASE peek = "E" -> Got(di, ret)
        [] peek = "M" /\ ret # NULL -> d_prefix(Advance(di, 1), ret)
        [] \/ peek \notin {"D", "C", "U", "L", "S", "I", "T"} \cup Digit \cup Lower
           \/ peek = "I" /\ ret = NULL -> Nothing(di)
        [] peek = "S" \/ Peek(joined) = "E" -> d_prefix(joined, joined.dc)
        [] OTHER -> IF Failed(added) THEN added ELSE d_prefix(added, joined.dc)

(* d_nested_name: the qualifiers are those of `this', the ref-qualifier goes
   around all. *)
d_nested_name(di) ==
  LET q == d_cv_qualifiers(Got(Advance(di, 1), <<>>))
      rqual == d_ref_qualifier(Nothing(q))
      name == Parse("prefix", rqual)
      whole == Qualified(q.dc, name.dc, QualifierOfThis)
  IN  IF Failed(q) THEN q ELSE IF Failed(name) THEN name
      ELSE Checked(Got(name, IF Peek(q) \in {"R", "O"} THEN <<rqual.dc[1], whole>>
                             ELSE whole), "E")

(* d_local_name: an entity, a string literal or a default argument of a
   function.  The default argument is made even of a name that was not
   there. *)
d_local_name(di) ==
  LET function == Parse("encoding", Advance(di, 1))
      at == Advance(function, 1)
      literal == d_discriminator(Advance(at, 1))
      text == d_make_name(literal, <<"string literal">>)
      num == d_compact_number(Advance(at, 1))
      inArgument == Peek(at) = "d"
      name == Parse("name", IF inArgument THEN num ELSE at)
      entity == IF Failed(name) \/ name.dc[1] \in {"Lambda", "UnnamedType"} THEN name
                ELSE d_discriminator(name)
      whole == IF inArgument THEN d_make_empty(entity, <<"DefaultArg", num.dc, entity.dc>>)
               ELSE entity
  IN  CASE Peek(function) # "E" -> Nothing(function)
        [] Peek(at) = "s" -> IF Failed(literal) THEN literal
                             ELSE Both(text, "LocalName", function.dc, text.dc)
        [] inArgument /\ Failed(num) -> num
        [] ~Failed(name) /\ Failed(entity) -> entity
        [] OTHER -> Both(whole, "LocalName", function.dc, whole.dc)

d_name(di) ==
  LET peek == Peek(di)
      backref == Parse("substitution", di)
      inStd == Parse("unqualified_name", d_make_empty(Advance(di, 2), <<"Sub", "t", "simple">>))
      std == Both(inStd, "QualName", <<"Sub", "t", "simple">>, inStd.dc)
      Template(dc) == IF Peek(dc) # "I" THEN dc
                      ELSE LET added == d_add_substitution(dc)
                           IN  IF Failed(added) THEN added ELSE WithArgs(added)
  IN  CASE peek = "N" -> d_nested_name(di)
        [] peek = "Z" -> d_local_name(di)
        [] peek = "U" -> Parse("unqualified_name", di)
        [] peek = "S" /\ PeekNext(di) = "t" -> Template(std)
        [] peek = "S" -> WithArgs(backref)
        [] OTHER -> Template(Parse("unqualified_name", di))

(* d_encoding: without parameters, at the top, only the name is parsed. *)
d_encoding(di, top_level) ==
  LET name == Parse("name", di)
      type == d_bare_function_type(name, has_return_type(name.dc))
  IN  CASE Peek(di) \in {"G", "T"} -> d_special_name(di)
        [] Failed(name) -> name
        [] top_level /\ ~di.params -> Got(name, Bare(name.dc))
        [] Peek(name) \in {End, "E"} -> name
        [] OTHER -> Both(type, "TypedName", name.dc, type.dc)

(* d_clone_suffix, and the loop that calls it. *)
RECURSIVE NumbersEnd(_)
NumbersEnd(di) ==
  IF Peek(di) = "." /\ PeekNext(di) \in Digit
  THEN NumbersEnd(Advance(di, 1 + Run(Advance(di, 1), Digit))) ELSE di
d_clone_suffix(di) ==
  LET word == IF PeekNext(di) \in Lower \cup {"_"}
              THEN Advance(di, 1 + Run(Advance(di, 1), Lower \cup {"_"})) ELSE di
      end == NumbersEnd(word)
      n == d_make_name(end, Ahead(di, end.n - di.n))
  IN  Both(n, "Clone", di.dc, n.dc)

RECURSIVE d_clone_suffixes(_)
d_clone_suffixes(di) ==
  IF Peek(di) = "." /\ PeekNext(di) \in Lower \cup {"_"} \cup Digit
  THEN d_clone_suffixes(d_clone_suffix(di)) ELSE di

cplus_demangle_mangled_name(di, top_level) ==
  LET z == IF Peek(di) = "_" THEN Advance(di, 1) ELSE di
      p == d_encoding(Advance(z, 1), top_level)
  IN  CASE (Peek(di) # "_" /\ top_level) \/ Peek(z) # "Z" -> Nothing(z)
        [] top_level /\ di.params -> d_clone_suffixes(p)
        [] OTHER -> p

Parse(symbol, di) ==
  CASE symbol = "number" -> d_number(di)
    [] symbol = "substitution" -> d_substitution(di, FALSE)
    [] symbol = "substitution of a prefix" -> d_substitution(di, TRUE)
    [] symbol = "type" -> cplus_demangle_type(di)
    [] symbol = "name" -> d_name(di)
    [] symbol = "prefix" -> d_prefix(di, NULL)
    [] symbol = "source_name" -> d_source_name(di)
    [] symbol = "operator_name" -> d_operator_name(di)
    [] symbol = "unqualified_name" -> d_unqualified_name(di)
    [] symbol = "template_args" -> d_template_args(di)
    [] symbol = "template_param" -> d_template_param(di)
    [] symbol = "encoding" -> d_encoding(di, FALSE)
    [] symbol = "mangled_name" -> cplus_demangle_mangled_name(di, FALSE)
    [] symbol = "top level" -> cplus_demangle_mangled_name(di, TRUE)

(* mgwhelp.cpp demangle and d_demangle_callback: with the parameters the whole
   name must be a mangled name, for UNDNAME_NAME_ONLY its beginning. *)
Accepted(di) == IF di.params /\ Peek(di) # End THEN Nothing(di) ELSE di
demangle(mangled, params) ==
  Accepted(Parse("top level", cplus_demangle_init_info(mangled, params)))
=============================================================================
