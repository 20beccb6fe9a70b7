----------------------------- MODULE MCDemangle -----------------------------
(* Declarations of a bounded shape, and names with a part missing. *)
EXTENDS Demangler

A == <<"Name", <<"a">> >>
B == <<"Name", <<"b", "b">> >>
F == <<"Name", <<"f">> >>
Hidden == <<"Name", <<"(anonymous namespace)">> >>
Std == <<"Sub", "t", "simple">>
Sub(c) == <<"Sub", c, "simple">>
I == <<"Builtin", "i">>
Char == <<"Builtin", "c">>
None == <<"none">>
Args(as) == <<"TemplateArgs", as>>
Of(t, as) == <<"Template", t, Args(as)>>
In(p, u) == <<"QualName", p, u>>
Fn(ret, ts) == <<"FunctionType", ret, ts>>
T(i) == <<"TemplateParam", i>>

Classes ==
  {A, In(A, B), In(Std, A), Of(A, <<I>>), In(Of(A, <<A>>), B),
   In(Std, B), Of(In(Std, A), <<Char>>), Sub("s"), Of(Sub("a"), <<Char>>)}
Small == Classes \cup {I}
Middle ==
  Small \cup {<<k, t>> : k \in {"Pointer", "Reference", "Const"}, t \in Small}
        \cup {Fn(t, <<I>>) : t \in Small} \cup {<<"PtrmemType", A, t>> : t \in Small}
Large ==
  Middle \cup {<<"Pointer", t>> : t \in Middle}
         \cup {<<"Const", <<"Pointer", t>> >> : t \in Small}
         \cup {<<"PtrmemType", t, <<"ConstThis", Fn(I, <<A>>)>> >> : t \in Small}
         \cup {<<"Pointer", <<"Restrict", <<"Const", t>> >> >> : t \in Classes}
         \cup {Of(A, <<t, <<"Pointer", t>> >>) : t \in Small}
Odd ==
  {<<"ArrayType", <<"Name", <<"7">> >>, <<"Pointer", A>> >>, <<"ArrayType", None, I>>,
   <<"VectorType", <<"Number", 4>>, I>>, <<"Builtin", "Dn">>,
   <<"Complex", I>>, <<"RvalueReference", <<"Volatile", A>> >>,
   <<"ReferenceThis", <<"ConstThis", Fn(I, <<>>)>> >>,
   Of(A, <<<<"Literal", I, <<"Name", <<"1", "2">> >> >>,
           <<"LiteralNeg", I, <<"Name", <<"3">> >> >> >>),
   Of(A, <<Args(<<I, A>>), Args(<<>>)>>), <<"LocalName", <<"TypedName", F, Fn(None, <<>>)>>, A>>}

Functions ==
  {F, In(A, F), <<"ConstThis", In(In(A, B), F)>>, In(Std, F),
   <<"RvalueReferenceThis", <<"VolatileThis", In(A, F)>> >>,
   In(Hidden, F), In(A, <<"C", "1", A>>), In(In(A, B), <<"D", "2", B>>),
   In(Of(A, <<In(B, F)>>), <<"C", "2", A>>),
   In(<<"Sub", "s", "full">>, <<"C", "1", <<"Sub", "s", "name">> >>),
   <<"Operator", "pl">>, In(A, <<"Operator", "ix">>),
   <<"ConstThis", In(A, <<"Cast", <<"Pointer", A>> >>)>>,
   Of(In(A, <<"Cast", T(0)>>), <<I>>), Of(In(A, <<"Cast", <<"Pointer", T(0)>> >>), <<A, I>>),
   <<"Unary", <<"Operator", "li">>, B>>, <<"TaggedName", F, B>>,
   <<"LocalName", <<"TypedName", In(A, F), Fn(None, <<A>>)>>, In(A, B)>>,
   <<"LocalName", <<"TypedName", F, Fn(None, <<>>)>>, <<"ConstThis", In(A, B)>> >>}
Templates ==
  {Of(F, <<A>>), Of(In(A, F), <<A, I>>), Of(In(Std, F), <<I>>),
   <<"ConstThis", Of(In(A, <<"Operator", "pl">>), <<I, A>>)>>}
Plain(f, ts) == <<"TypedName", f, Fn(None, ts)>>
Pairs == {F, In(A, F), In(Of(A, <<In(B, F)>>), <<"C", "2", A>>)}

Data ==
  {F, In(A, B), In(Std, A), Of(In(A, B), <<I>>),
   <<"LocalName", Plain(F, <<>>), A>>,
   <<"LocalName", Plain(F, <<A>>), <<"Name", <<"string literal">> >> >>,
   <<"LocalName", Plain(F, <<A>>), <<"DefaultArg", 1, In(A, B)>> >>}
Special ==
  {<<k, t>> : k \in {"Vtable", "Vtt", "Typeinfo", "TypeinfoName"}, t \in Classes}
    \cup {<<"Guard", t>> : t \in Data}
    \cup {<<k, Plain(In(A, F), <<t>>)>> :
            k \in {"Thunk", "VirtualThunk", "CovariantThunk"}, t \in Classes}
    \cup {<<"ConstructionVtable", A, t>> : t \in Classes \ {A}}
Clones ==
  {<<"Clone", Plain(F, <<t>>), <<"Name", s>> >> :
     t \in Small, s \in {<<".", "p", "a", "r", "t", ".", "0">>, <<".", "4", "2">>}}

Declared ==
  {Plain(f, <<t>>) : f \in Functions, t \in Middle \cup Odd}
    \cup {Plain(f, <<t>>) : f \in Pairs, t \in Large}
    \cup {Plain(f, <<t, u>>) : f \in Pairs, t \in Middle, u \in Small \cup {<<"Pointer", A>>}}
    \cup {Plain(f, <<>>) : f \in Functions}
    \cup {Plain(F, <<t, <<"Pointer", t>>, u>>) : t \in Odd, u \in Middle}
    \cup {<<"TypedName", f, Fn(t, <<u, T(0), <<"Pointer", T(1)>>, t>>)>> :
            f \in Templates, t \in Small, u \in Small}
    \cup Data \cup Special \cup Clones

(* A name with one character gone, or twice there, or cut short. *)
Sample == {Plain(f, <<t>>) : f \in Functions, t \in {I, A, <<"Pointer", Sub("s")>>}}
            \cup Data \cup {<<"Thunk", Plain(In(A, F), <<A>>)>>}
            \cup {Plain(F, <<Fn(t, <<I>>)>>) : t \in Small}
DamagedNames ==
  UNION {LET s == Mangle(d)
         IN  {RemoveAt(s, i) : i \in 3 .. Len(s)}
               \cup {InsertAt(s, i, s[i]) : i \in 3 .. Len(s)}
               \cup {SubSeq(s, 1, i) : i \in 2 .. Len(s) - 1} : d \in Sample}
=============================================================================
