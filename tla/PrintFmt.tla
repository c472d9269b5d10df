------------------------------ MODULE PrintFmt ------------------------------
(***************************************************************************)
(* vprintfmt of src/lib/printfmt.c as vsnprintf drives it: a format is     *)
(* read character by character, directives take their values from the      *)
(* arguments, and sprintputch stores what fits into the caller's buffer.   *)
(* cprintf drives the same function with the console behind it.            *)
(***************************************************************************)
EXTENDS Integers, Sequences, SequencesExt

CONSTANTS
  Calls,    \* calls of snprintf: [fmt, args, n, about]; an argument is a word
            \* on the stack, a number or (the word is a pointer) a text;
            \* about tells the properties what fmt is made of
  NULL,     \* the pointer to no text
  WordSize, \* numbers a word can hold, 2^32
  Names     \* error_string, from index 1 on; MAXERROR is one more than its length

IsText(t) == t \in Seq(Range(t))

ASSUME PrintAssumption ==
  /\ WordSize \in Nat \ {0} /\ WordSize % 2 = 0
  /\ \A c \in Calls : c.n \in Nat \ {0} /\ IsText(c.fmt)
  /\ \A k \in DOMAIN Names : IsText(Names[k])

VARIABLES
  call,  \* the call that runs
  fmt,   \* index of the next character of the format
  ap,    \* index of the next argument
  pc,    \* "text", "directive", "done"; "wild" after a read outside error_string
  padc, width, precision, lflag, altflag,
  out,   \* the characters given to putch
  b      \* the sprintbuf: the characters stored, and cnt

flags == <<padc, width, precision, lflag, altflag>>
vars == <<call, fmt, ap, pc, flags, out, b>>

NUL == "nul"
Digits == <<"0", "1", "2", "3", "4", "5", "6", "7", "8", "9", "a", "b", "c", "d", "e", "f">>
DigitOf(ch) == (CHOOSE k \in 1 .. 10 : Digits[k] = ch) - 1
Decimal == {Digits[k] : k \in 1 .. 10}

Init == /\ call \in Calls
        /\ fmt = 1 /\ ap = 1
        /\ pc = "text"
        /\ padc = " " /\ width = -1 /\ precision = -1 /\ lflag = 0 /\ altflag = FALSE
        /\ out = <<>>
        /\ b = [buf |-> <<>>, cnt |-> 0]

Char(k) == IF k <= Len(call.fmt) THEN call.fmt[k] ELSE NUL

-----------------------------------------------------------------------------
(* Output.                                                                  *)

Repeat(ch, count) == [k \in 1 .. (IF count < 0 THEN 0 ELSE count) |-> ch]

(* A slip of sprintputch: buf <= ebuf.                                      *)
Room_OneMore == call.n - Len(b.buf)

(* sprintputch for each character: buf stops at ebuf = buf + n - 1.         *)
Room == call.n - 1 - Len(b.buf)
sprintputch(text) ==
  [buf |-> b.buf \o (IF Len(text) <= Room THEN text ELSE SubSeq(text, 1, Room)),
   cnt |-> b.cnt + Len(text)]

putch(text) == out' = out \o text /\ b' = sprintputch(text)

(* A slip of printnum: num > base.                                          *)
NumText_Base(num, base) ==
  LET text[k \in Nat] == IF k <= base THEN <<Digits[(k % base) + 1]>>
                         ELSE Append(text[k \div base], Digits[(k % base) + 1])
  IN text[num]

(* The digits, after all the more significant ones.                         *)
NumText(num, base) ==
  LET text[k \in Nat] == IF k < base THEN <<Digits[k + 1]>>
                         ELSE Append(text[k \div base], Digits[(k % base) + 1])
  IN text[num]

printnum(num, base) ==
  LET digits == NumText(num, base)
  IN Repeat(padc, width - Len(digits)) \o digits

-----------------------------------------------------------------------------
(* Arguments: two's complement words, two of them for a long long.          *)

LongLong == lflag >= 2
Words == IF LongLong THEN 2 ELSE 1

getuint == IF LongLong THEN call.args[ap] + call.args[ap + 1] * WordSize ELSE call.args[ap]

Signed(num, size) == IF num >= size \div 2 THEN num - size ELSE num

getint == Signed(getuint, IF LongLong THEN WordSize * WordSize ELSE WordSize)

(* Negated where it is negative; the most negative number stays itself, as  *)
(* an unsigned one.                                                         *)
Magnitude(num) == IF num < 0 THEN -num ELSE num

-----------------------------------------------------------------------------
(* Ordinary text, and the start of a directive.                             *)

PutText == /\ pc = "text" /\ Char(fmt) \notin {"%", NUL}
           /\ putch(<<Char(fmt)>>)
           /\ fmt' = fmt + 1
           /\ UNCHANGED <<call, ap, pc, flags>>

StartDirective ==
  /\ pc = "text" /\ Char(fmt) = "%"
  /\ padc' = " " /\ width' = -1 /\ precision' = -1 /\ lflag' = 0 /\ altflag' = FALSE
  /\ pc' = "directive"
  /\ fmt' = fmt + 1
  /\ UNCHANGED <<call, ap, out, b>>

Return == /\ pc = "text" /\ Char(fmt) = NUL
          /\ pc' = "done"
          /\ fmt' = fmt + 1
          /\ UNCHANGED <<call, ap, flags, out, b>>

-----------------------------------------------------------------------------
(* The characters of a directive in front of its letter.                    *)

Flag(ch) == /\ pc = "directive" /\ Char(fmt) = ch
            /\ fmt' = fmt + 1
            /\ UNCHANGED <<call, pc, out, b>>

(* A slip of the flags: reading does not go on.                             *)
PadFlag_Stuck == \E ch \in {"-", "0"} : /\ pc = "directive" /\ Char(fmt) = ch
                                        /\ padc' = ch
                                        /\ UNCHANGED <<call, fmt, ap, pc, width, precision,
                                                       lflag, altflag, out, b>>

PadFlag == \E ch \in {"-", "0"} : /\ Flag(ch)
                                  /\ padc' = ch
                                  /\ UNCHANGED <<ap, width, precision, lflag, altflag>>

Precision == /\ Flag(".")
             /\ width' = IF width < 0 THEN 0 ELSE width
             /\ UNCHANGED <<ap, padc, precision, lflag, altflag>>

AltFlag == Flag("#") /\ altflag' = TRUE /\ UNCHANGED <<ap, padc, width, precision, lflag>>
LongFlag == Flag("l") /\ lflag' = lflag + 1 /\ UNCHANGED <<ap, padc, width, precision, altflag>>

(* process_precision: the number is the width if there is none.             *)
ProcessPrecision(number) ==
  /\ IF width < 0 THEN width' = number /\ precision' = -1
     ELSE precision' = number /\ UNCHANGED width
  /\ UNCHANGED <<call, pc, padc, lflag, altflag, out, b>>

(* The digits from fmt on, the first of them not 0.                         *)
RunEnd == CHOOSE e \in fmt .. Len(call.fmt) :
            /\ \A k \in fmt .. e : Char(k) \in Decimal
            /\ Char(e + 1) \notin Decimal

(* The number that the first k of them make.                                *)
DecimalOf(len) ==
  LET value[k \in 0 .. len] == IF k = 0 THEN 0
                               ELSE value[k - 1] * 10 + DigitOf(Char(fmt + k - 1))
  IN value[len]

Number == /\ pc = "directive" /\ Char(fmt) \in Decimal \ {"0"}
          /\ ProcessPrecision(DecimalOf(RunEnd - fmt + 1))
          /\ fmt' = RunEnd + 1
          /\ UNCHANGED ap

Star == /\ pc = "directive" /\ Char(fmt) = "*"
        /\ ProcessPrecision(Signed(call.args[ap], WordSize))
        /\ fmt' = fmt + 1 /\ ap' = ap + 1

-----------------------------------------------------------------------------
(* The letter of a directive: text goes out, taken words of arguments are   *)
(* used up.                                                                 *)

Convert(letters, text, taken) ==
  /\ pc = "directive" /\ Char(fmt) \in letters
  /\ putch(text)
  /\ ap' = ap + taken
  /\ fmt' = fmt + 1
  /\ pc' = "text"
  /\ UNCHANGED <<call, flags>>

SignedDecimal ==
  Convert({"d"}, (IF getint < 0 THEN <<"-">> ELSE <<>>) \o printnum(Magnitude(getint), 10), Words)

Unsigned == \/ Convert({"u"}, printnum(getuint, 10), Words)
            \/ Convert({"x"}, printnum(getuint, 16), Words)

(* The argument of %p is one word whatever lflag; %o takes none.            *)
Pointer == Convert({"p"}, <<"0", "x">> \o printnum(call.args[ap], 16), 1)
Octal == Convert({"o"}, <<"X", "X", "X">>, 0)

(* A character, given as a text of one.                                     *)
Character == Convert({"c"}, call.args[ap], 1)
Percent == Convert({"%"}, <<"%">>, 0)

(* Characters from ' ' to '~' are shown as they are with #.                 *)
Shown(text) == [k \in DOMAIN text |-> IF altflag /\ text[k] = "bel" THEN "?" ELSE text[k]]

(* What %s prints of text: its padding counts on the left the characters    *)
(* a precision allows, none without one; on the right those printed.        *)
StringText(text) ==
  LET body == IF precision < 0 \/ precision > Len(text) THEN text ELSE SubSeq(text, 1, precision)
      counted == IF precision < 0 THEN 0 ELSE Len(body)
      left == IF width > 0 /\ padc # "-" THEN width - counted ELSE 0
      rest == IF width > 0 /\ padc # "-" THEN (IF left > 0 THEN 0 ELSE left) ELSE width
  IN Repeat(padc, left) \o Shown(body) \o Repeat(" ", rest - Len(body))

Pointed(p) == IF p = NULL THEN <<"(", "n", "u", "l", "l", ")">> ELSE p

String == Convert({"s"}, StringText(Pointed(call.args[ap])), 1)

(* err = -err leaves the most negative int negative: error_string[err] is   *)
(* then read far outside.                                                   *)
Err == Magnitude(Signed(call.args[ap], WordSize))
ErrIsMin == call.args[ap] = WordSize \div 2
ErrorText == IF Err \in DOMAIN Names THEN Names[Err]
             ELSE <<"e", "r", "r", "o", "r", " ">> \o NumText(Err, 10)

AtError == pc = "directive" /\ Char(fmt) = "e"

Error == \/ AtError /\ ~ErrIsMin /\ Convert({"e"}, ErrorText, 1)
         \/ /\ AtError /\ ErrIsMin
            /\ pc' = "wild"
            /\ UNCHANGED <<call, fmt, ap, flags, out, b>>

(* An unknown letter: the directive is printed literally, from the % on.    *)
Letters == {"-", ".", "#", "l", "*", "d", "u", "x", "p", "o", "c", "%", "s", "e"} \cup Decimal

PercentBefore == CHOOSE k \in 1 .. fmt - 1 :
                   Char(k) = "%" /\ \A j \in k + 1 .. fmt - 1 : Char(j) # "%"

Unknown == /\ pc = "directive" /\ Char(fmt) \notin Letters
           /\ putch(<<"%">>)
           /\ fmt' = PercentBefore + 1
           /\ pc' = "text"
           /\ UNCHANGED <<call, ap, flags>>

Next == \/ PutText \/ StartDirective \/ Return
        \/ PadFlag \/ Precision \/ AltFlag \/ LongFlag \/ Number \/ Star
        \/ SignedDecimal \/ Unsigned \/ Pointer \/ Octal \/ Character \/ Percent
        \/ String \/ Error \/ Unknown

-----------------------------------------------------------------------------
(* strtol of src/lib/string.c, on a text that ends where the string does.   *)

(* How many characters from the first on are in chars.                      *)
Leading(text, chars) ==
  CHOOSE k \in 0 .. Len(text) : /\ \A j \in 1 .. k : text[j] \in chars
                                /\ k = Len(text) \/ text[k + 1] \notin chars

Rest(text, k) == SubSeq(text, k + 1, Len(text))

StartsWith(text, prefix) == IsPrefix(prefix, text)

ValueOf(ch) == (CHOOSE k \in DOMAIN Digits : Digits[k] = ch) - 1

(* val = (val * base) + dig, digit by digit.                                *)
NumberOf(text, base) ==
  LET val[k \in 0 .. Len(text)] == IF k = 0 THEN 0 ELSE val[k - 1] * base + ValueOf(text[k])
  IN val[Len(text)]

(* Blanks, a sign, 0x or 0 for a base, and the digits of the base.          *)
strtol(text, base) ==
  LET trimmed == Rest(text, Leading(text, {" "}))
      number == IF trimmed # <<>> /\ trimmed[1] \in {"+", "-"} THEN Tail(trimmed) ELSE trimmed
      hex == base \in {0, 16} /\ StartsWith(number, <<"0", "x">>)
      oct == base = 0 /\ ~hex /\ StartsWith(number, <<"0">>)
      base2 == IF hex THEN 16 ELSE IF oct THEN 8 ELSE IF base = 0 THEN 10 ELSE base
      from == Rest(number, IF hex THEN 2 ELSE IF oct THEN 1 ELSE 0)
      run == Leading(from, {Digits[k] : k \in 1 .. base2})
      val == NumberOf(SubSeq(from, 1, run), base2)
  IN Signed((IF StartsWith(trimmed, <<"-">>) THEN -val ELSE val) % WordSize, WordSize)

-----------------------------------------------------------------------------
(* vsnprintf runs to its end.                                               *)
Spec == Init /\ [][Next]_vars /\ WF_vars(Next)

-----------------------------------------------------------------------------
TypeOK == /\ fmt \in 1 .. Len(call.fmt) + 2
          /\ pc \in {"text", "directive", "done", "wild"}
          /\ lflag \in Nat /\ width \in Int /\ precision \in Int /\ altflag \in BOOLEAN
          /\ padc \in {" ", "-", "0"}

(* vsnprintf stores a prefix of the output that leaves room for the final   *)
(* NUL, all of it if it fits, and counts the characters it did not store.   *)
BufferBounded ==
  /\ TypeOK
  /\ Len(b.buf) < call.n
  /\ IsPrefix(b.buf, out)
  /\ Len(out) < call.n => b.buf = out
  /\ b.cnt = Len(out)

(* The arguments are those the format asks for: a directive takes words, or *)
(* a text, and the behaviour is not defined if there is something else.     *)
ArgumentsMatch ==
  pc = "directive" =>
    LET Has(k) == call.args[k] \in 0 .. WordSize - 1
    IN /\ Char(fmt) \in {"d", "u", "x"} => \A k \in ap .. ap + Words - 1 : Has(k)
       /\ Char(fmt) \in {"*", "p", "e"} => Has(ap)
       /\ Char(fmt) = "c" => IsText(call.args[ap])
       /\ Char(fmt) = "s" => IsText(Pointed(call.args[ap]))

(* The calls the next property is about have one directive, given by its    *)
(* parts, with a second one behind %o; letter is "none" in all the others.  *)
Directive(a) == <<"%">> \o a.flag \o a.width \o a.length \o <<a.letter>>

ASSUME AboutAssumption ==
  \A c \in Calls : c.about.letter # "none" =>
    LET a == c.about
    IN /\ a.letter \in {"d", "u", "x", "p", "e", "o"}
       /\ a.flag \in {<<>>, <<"0">>, <<"-">>}
       /\ IsText(a.width) /\ IsText(a.length)
       /\ \/ a.width = <<"*">>
          \/ Range(a.width) \subseteq Decimal /\ ~StartsWith(a.width, <<"0">>)
       /\ Range(a.length) \subseteq {"l"}
       /\ a.letter = "o" => a.width # <<"*">>
       /\ c.fmt = Directive(a) \o (IF a.letter = "o" THEN <<"%", "u">> ELSE <<>>)

(* The number such a call is given, behind the width if that is given too,  *)
(* and the base it should be read back in.                                  *)
Meant(c) ==
  LET a == c.about
      long == Len(a.length) >= 2 /\ a.letter \in {"d", "u", "x"}
      k == IF a.width = <<"*">> THEN 2 ELSE 1
      num == IF long THEN c.args[k] + WordSize * c.args[k + 1] ELSE c.args[k]
  IN IF a.letter \in {"d", "e"} THEN Signed(num, IF long THEN WordSize * WordSize ELSE WordSize)
     ELSE num
BaseOf(letter) == IF letter = "p" THEN 0 ELSE IF letter = "x" THEN 16 ELSE 10

(* Blanks between the sign, or the 0x, and the digits.                      *)
Separated(c, value, fieldWidth) ==
  /\ c.about.flag = <<>>
  /\ \/ value < 0 /\ fieldWidth > Len(NumText(-value, 10))
     \/ c.about.letter = "p" /\ fieldWidth > Len(NumText(value, 16))

PrintedAsMeant(c, text, fieldWidth) ==
  LET letter == c.about.letter
      value == Meant(c)
      size == Magnitude(value)
  IN /\ letter \in {"d", "u", "x", "p"} /\ c.about.flag # <<"-">> =>
          \/ Separated(c, value, fieldWidth)
          \/ strtol(text, BaseOf(letter)) = Signed(value % WordSize, WordSize)
     /\ letter = "e" => IF size \in DOMAIN Names THEN text = Names[size]
                        ELSE strtol(SubSeq(text, 7, Len(text)), 10) = size
     /\ letter = "o" => strtol(SubSeq(text, 4, Len(text)), 10) = Signed(value, WordSize)

(* What is printed for a number reads back, with strtol, as that number:    *)
(* %d, %u, %x and %p at any width and length, with zeros or blanks in front *)
(* unless blanks separate the number from its sign or 0x.  printfmt.c:18:   *)
(* the integer of %e may be positive or negative; either prints the text of *)
(* the error, but for the number that has no opposite.  %o prints no number *)
(* and takes none (printfmt.c:215): what follows it prints the number meant *)
(* for it.                                                                  *)
NumberReadBack ==
  /\ ArgumentsMatch
  /\ pc = "done" => PrintedAsMeant(call, out, width)
  /\ pc = "wild" /\ call.about.letter = "e" => Meant(call) = -(WordSize \div 2)

(* Formatting ends whatever the format is: an unknown letter, and the end   *)
(* of the format inside a directive, send the reading back to the %, which  *)
(* is then ordinary text.                                                   *)
PrintEnds == <>(pc \in {"done", "wild"})
=============================================================================
