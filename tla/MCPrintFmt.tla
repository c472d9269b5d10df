----------------------------- MODULE MCPrintFmt -----------------------------
(***************************************************************************)
(* PrintFmt with words of 8 bits: every directive with the flags, widths   *)
(* and lengths that matter, numbers at the ends of their ranges, texts of  *)
(* three characters, unknown letters and directives cut off by the end of  *)
(* the format, and buffers too small, just right and large enough.         *)
(***************************************************************************)
EXTENDS PrintFmt

None == [letter |-> "none"]

MCFlags == {<<>>, <<"0">>, <<"-">>}

(* Widths, with the word that * takes.                                      *)
MCWidths == {<<<<>>, <<>>>>, <<<<"3">>, <<>>>>, <<<<"1", "0">>, <<>>>>,
             <<<<"*">>, <<5>>>>, <<<<"*">>, <<254>>>>}

MCWords == {0, 1, 9, 10, 127, 128, 255}

(* Lengths, with the words the number has.                                  *)
MCLengths == {<<>>, <<"l">>, <<"l", "l">>}
Values(length) == IF Len(length) = 2 THEN MCWords \X {0, 127, 128, 255} ELSE {<<v>> : v \in MCWords}

About(flag, digits, length, letter) ==
  [flag |-> flag, width |-> digits, length |-> length, letter |-> letter]

NumberCalls ==
  UNION {{[fmt |-> Directive(a), args |-> w[2] \o words, n |-> n, about |-> a] :
            a \in {About(flag, w[1], length, letter)}, words \in Values(length)} :
         flag \in MCFlags, w \in MCWidths, length \in MCLengths, letter \in {"d", "u", "x"},
         n \in {1, 4, 20}}

PointerCalls ==
  {[fmt |-> Directive(a), args |-> <<v>>, n |-> 20, about |-> a] :
     a \in {About(flag, w, length, "p") :
              flag \in MCFlags, w \in {<<>>, <<"3">>}, length \in {<<>>, <<"l", "l">>}},
     v \in MCWords}

ErrorCalls ==
  {[fmt |-> Directive(a), args |-> <<v>>, n |-> 20, about |-> a] :
     a \in {About(<<>>, <<>>, <<>>, "e"), About(<<"0">>, <<"9">>, <<"l", "l">>, "e")},
     v \in {0, 1, 2, 3, 127, 128, 129, 253, 254, 255}}

OctalCalls ==
  {[fmt |-> Directive(a) \o <<"%", "u">>, args |-> <<v, 1>>, n |-> 20, about |-> a] :
     a \in {About(<<>>, <<>>, <<>>, "o"), About(<<"0">>, <<"3">>, <<"l">>, "o")},
     v \in MCWords}

TextCalls ==
  {[fmt |-> f, args |-> <<text, <<"c">>>>, n |-> n, about |-> None] :
   f \in {<<"%", "s", "%", "c">>, <<"%", "5", "s">>, <<"%", "-", "5", "s", "b">>,
            <<"%", ".", "2", "s">>, <<"%", "5", ".", "2", "s">>, <<"%", ".", "0", "s">>,
            <<"%", "#", "s">>},
   text \in {<<>>, <<"a", "b", "c">>, <<"a", "bel">>, NULL}, n \in {1, 4, 20}}

OtherCalls ==
  {[fmt |-> f, args |-> <<7>>, n |-> 4, about |-> None] :
   f \in {<<>>, <<"a", "b">>, <<"%">>, <<"a", "%", "-">>, <<"%", "3">>, <<"%", "3", "q", "%", "d">>,
            <<"%", "%">>, <<"%", "0", "%", "a">>, <<"%", "l", "%", "q">>}}

MCCalls == NumberCalls \cup PointerCalls \cup ErrorCalls \cup OctalCalls
           \cup TextCalls \cup OtherCalls

MCNames == <<<<"b", "a", "d">>, <<"n", "o">>>>
=============================================================================
