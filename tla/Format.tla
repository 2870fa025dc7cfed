------------------------------- MODULE Format -------------------------------
(***************************************************************************)
(* Formatted output: the loop over a format text that Console::Write and   *)
(* its variants (std/stdio.cpp) and Serial::__print_v (lib/serial.cpp)     *)
(* have in common, and the numerals it prints (std/cstring.h).  The count  *)
(* the console's functions return is the length of out.                    *)
(***************************************************************************)
EXTENDS Integers, Sequences, SequencesExt, FiniteSets

CONSTANTS
    Word,    \* 2^32: numbers are in 0 .. Word - 1
    Texts,   \* format texts
    Args     \* arguments: a word as number, as character, as string pointer

ASSUME FormatAssumption ==
    /\ Word \in Nat \ {0} /\ Word \div 65536 <= 65536
    /\ Texts \subseteq Seq(STRING)
    /\ Args \subseteq [num : 0 .. Word - 1, char : STRING, chars : Seq(STRING)]

VARIABLES
    pc,
    call,              \* the running call, the colour it found
    i, arg,            \* the next character of the text, the next argument
    num, base, str,    \* the number being converted, its digits so far
    room,              \* digits that fit in the buffer for them
    out,               \* history: what reached the device
    fg,                \* the colour of the text, all that one call leaves the next
    ruin               \* history: why behaviour is undefined from here on

number == <<num, base, str, room>>
textvars == <<pc, call, i, arg, number, out, fg, ruin>>

\* The functions: where they print, whether they end the line, whether they set
\* a colour.
Printer(device, line, coloured) ==
    [device |-> device, line |-> line, coloured |-> coloured]
WriteV == Printer("console", FALSE, FALSE)
Write == Printer("console", FALSE, FALSE)
WriteColoured == Printer("console", FALSE, TRUE)
WriteLine == Printer("console", TRUE, FALSE)
WriteLineColoured == Printer("console", TRUE, TRUE)
PrintV == Printer("serial", FALSE, FALSE)
SerialWriteLine == Printer("serial", TRUE, FALSE)
Printers == {WriteV, Write, WriteColoured, WriteLine, WriteLineColoured,
             PrintV, SerialWriteLine}

\* The serial port's %b is decimal.
Base(device) ==
    [d |-> 10, h |-> 16, x |-> 16, o |-> 8,
     b |-> IF device = "serial" THEN 10 ELSE 2]
Numeric == {"d", "h", "x", "o", "b"}
Consuming == Numeric \cup {"s", "c"}

DigitChar == <<"0", "1", "2", "3", "4", "5", "6", "7", "8", "9",
               "a", "b", "c", "d", "e", "f">>

\* Mutant of numlen: the last digit is not counted.
numlenShort(n) ==
    LET len[k \in Nat] == IF k < 10 THEN 0 ELSE 1 + len[k \div 10] IN len[n]

\* Decimal digits; none for 0, which is printed from a buffer of its own.
numlen(n) ==
    LET len[k \in Nat] == IF k = 0 THEN 0 ELSE 1 + len[k \div 10] IN len[n]

\* Where a '%' begins a directive: behind an even number of others.
Escapes(text, k) ==
    /\ text[k] = "%"
    /\ \E n \in 1 .. k :
          /\ n % 2 = 1
          /\ \A j \in k - n + 1 .. k : text[j] = "%"
          /\ k = n \/ text[k - n] # "%"
Directive(text, k) == k > 1 /\ Escapes(text, k - 1)
Consumed(text, k) ==
    Cardinality({j \in 1 .. k : Directive(text, j) /\ text[j] \in Consuming})

PrinterInit ==
    /\ pc = "ready"
    /\ call = [of |-> WriteV, text |-> <<>>, args |-> <<>>, colour |-> "white"]
    /\ i = 1 /\ arg = 1
    /\ num = 0 /\ base = 10 /\ str = <<>> /\ room = 0
    /\ out = <<>> /\ fg = "white" /\ ruin = "none"

-----------------------------------------------------------------------------
Call(of, text, args) ==
    /\ pc' = "walk"
    /\ call' = [of |-> of, text |-> text, args |-> args, colour |-> fg]
    /\ fg' = IF of.coloured THEN "yellow" ELSE fg
    /\ i' = 1 /\ arg' = 1 /\ out' = <<>>
    /\ UNCHANGED <<number, ruin>>

\* The arguments a format asks for are passed; print(text) passes none and has
\* its text taken for a format (stdio.cpp:13).
Enter ==
    pc = "ready" /\ \E text \in Texts :
        \/ \E of \in Printers, args \in [1 .. Consumed(text, Len(text)) -> Args] :
              Call(of, text, args)
        \/ Call(Write, text, <<>>)

Emit(chars) == out' = out \o chars

\* The serial port has not been initialised or has been disabled: its functions
\* return at once.
Mute ==
    /\ pc = "ready"
    /\ \E text \in Texts, of \in {PrintV, SerialWriteLine} :
       \E args \in [1 .. Consumed(text, Len(text)) -> Args] :
          call' = [of |-> of, text |-> text, args |-> args, colour |-> fg]
    /\ pc' = "mute"
    /\ UNCHANGED <<i, arg, number, out, fg, ruin>>

Literal ==
    /\ pc = "walk" /\ i <= Len(call.text)
    /\ call.text[i] # "%"
    /\ Emit(<<call.text[i]>>)
    /\ i' = i + 1
    /\ UNCHANGED <<pc, call, arg, number, fg, ruin>>

\* The character behind a '%', the terminator at the end of the text.
Letter == IF i < Len(call.text) THEN call.text[i + 1] ELSE "end"

AtDirective ==
    /\ pc = "walk" /\ i <= Len(call.text) /\ ruin = "none"
    /\ call.text[i] = "%"
    /\ i' = i + 2
    /\ UNCHANGED <<call, fg>>

\* va_arg has nothing left to take, or takes a double for an integer (%o).
Misread ==
    \/ Letter \in Consuming /\ arg > Len(call.args)
    \/ Letter = "o" /\ call.of.device = "console"

TakesWrong ==
    /\ AtDirective /\ Misread
    /\ ruin' = "argument"
    /\ UNCHANGED <<pc, arg, number, out>>

\* Mutant of TakesNumber: the next directive takes the same argument.
TakesNumberAgain ==
    /\ AtDirective /\ ~Misread
    /\ Letter \in Numeric
    /\ num' = call.args[arg].num
    /\ base' = Base(call.of.device)[Letter]
    /\ str' = <<>>
    /\ room' = IF call.of.device = "serial" THEN 999 ELSE numlen(num')
    /\ pc' = "digits"
    /\ UNCHANGED <<arg, out, ruin>>

TakesNumber ==
    /\ AtDirective /\ ~Misread
    /\ Letter \in Numeric
    /\ num' = call.args[arg].num
    /\ base' = Base(call.of.device)[Letter]
    /\ str' = <<>>
    /\ room' = IF call.of.device = "serial" THEN 999 ELSE numlen(num')
    /\ arg' = arg + 1
    /\ pc' = "digits"
    /\ UNCHANGED <<out, ruin>>

TakesText ==
    /\ AtDirective /\ ~Misread
    /\ \/ /\ Letter = "s"
          /\ Emit(call.args[arg].chars) /\ arg' = arg + 1
       \/ /\ Letter = "c"
          /\ Emit(<<call.args[arg].char>>) /\ arg' = arg + 1
       \/ Letter = "%" /\ Emit(<<"%">>) /\ UNCHANGED arg
       \/ Letter \notin Consuming \cup {"%"} /\ UNCHANGED <<out, arg>>
    /\ UNCHANGED <<pc, number, ruin>>

Digit ==
    /\ pc = "digits" /\ num > 0
    /\ str' = Append(str, DigitChar[(num % base) + 1])
    /\ num' = num \div base
    /\ UNCHANGED <<pc, call, i, arg, base, room, out, fg, ruin>>

\* The digits are stored last one first and then reversed, in a buffer for as
\* many decimal digits.
Number ==
    /\ pc = "digits" /\ num = 0
    /\ Emit(IF str = <<>> THEN <<"0">> ELSE Reverse(str))
    /\ ruin' = IF Len(str) > room THEN "overrun" ELSE "none"
    /\ pc' = "walk"
    /\ UNCHANGED <<call, i, arg, number, fg>>

Return ==
    /\ pc = "walk" /\ i > Len(call.text) /\ ruin = "none"
    /\ Emit(IF call.of.line THEN <<"\n">> ELSE <<>>)
    /\ fg' = IF call.of.coloured THEN call.colour ELSE fg
    /\ pc' = "returned"
    /\ UNCHANGED <<call, i, arg, number, ruin>>

PrinterNext == Enter \/ Mute \/ Literal \/ TakesWrong \/ TakesNumber \/ TakesText
               \/ Digit \/ Number \/ Return

-----------------------------------------------------------------------------
Power(b, k) ==
    LET power[j \in Nat] == IF j = 0 THEN 1 ELSE b * power[j - 1] IN power[k]

\* The numeral of n, most significant digit first, without leading zeros.
Numeral(n, b) ==
    LET len == CHOOSE l \in 1 .. n + 1 :
                  Power(b, l) > n /\ (l > 1 => Power(b, l - 1) <= n)
    IN [k \in 1 .. len |-> DigitChar[((n \div Power(b, len - k)) % b) + 1]]

\* What character k of a call's text stands for.
Piece(c, k) ==
    LET letter == c.text[k]
        given == c.args[Consumed(c.text, k)]
    IN IF Escapes(c.text, k) THEN <<>>
       ELSE IF ~Directive(c.text, k) THEN <<letter>>
       ELSE CASE letter = "%" -> <<"%">>
              [] letter = "s" -> given.chars
              [] letter = "c" -> <<given.char>>
              [] letter \in Numeric -> Numeral(given.num, Base(c.of.device)[letter])
              [] OTHER -> <<>>

\* When a call returns, its text has been printed piece by piece, each directive
\* with its own argument and every number without leading zeros, and the colour
\* is as the caller left it.  (A serial port that is not enabled prints nothing.)
PrintsAsAsked ==
    pc = "returned" =>
        /\ out = FlattenSeq([k \in 1 .. Len(call.text) |-> Piece(call, k)])
                   \o (IF call.of.line THEN <<"\n">> ELSE <<>>)
        /\ fg = "white"

\* The buffer of a number is only too small for %b on the console (numstr counts
\* decimal digits), and arguments are only misread for the octal directive or by print.
PrinterRuinExplained ==
    /\ ruin = "overrun" => call.of.device = "console" /\ base < 10
    /\ ruin = "argument" =>
          \/ call.of.device = "console" /\ \E k \in 1 .. Len(call.text) :
                Directive(call.text, k) /\ call.text[k] = "o"
          \/ call.args = <<>>
=============================================================================
