------------------------------ MODULE CString -------------------------------
(***************************************************************************)
(* The string functions of std/cstring.h, which the format walkers and the *)
(* ramdisk stand on.  A behaviour is one call of a printing function, as   *)
(* in module Format, or one of a string function.                          *)
(*                                                                         *)
(* A string is the sequence of its characters' codes, without the          *)
(* terminator.  A loop is modelled by the index it ends at.                *)
(***************************************************************************)
EXTENDS Format, FiniteSetsExt

CONSTANTS
    Strings,    \* strings the functions are called with
    Numbers     \* numbers that are converted; strnum returns an int

ASSUME CStringAssumption ==
    /\ Numbers \subseteq 0 .. (Word \div 2) - 1
    /\ <<>> \in Strings /\ Strings \subseteq Seq(1 .. 127)

NUL == 0
Null == -1

\* str[i]; nothing is known of what lies behind the terminator.
At(s, k) == IF k < Len(s) THEN s[k + 1] ELSE NUL

\* The index a loop over the strings up to index last ends at, where Stop holds.
Index(last, Stop(_)) == Min({k \in 0 .. last : Stop(k)})

-----------------------------------------------------------------------------
(* Comparing and searching *)

Differ(s, t, k) == At(s, k) = NUL \/ At(t, k) = NUL \/ At(s, k) # At(t, k)

strcmp(s, t) ==
    LET Stop(k) == Differ(s, t, k)
        k == Index(Len(s), Stop)
    IN  At(s, k) - At(t, k)

\* Behind n equal characters the next one is compared all the same.
strncmp(s, t, n) ==
    LET Stop(k) == k = n \/ Differ(s, t, k)
        k == Index(Len(s) + n, Stop)
    IN  At(s, k) - At(t, k)

\* Mutant of strpbrk: the last character is not looked at.
strpbrkShort(s, accept) ==
    LET Stop(k) == k >= Len(s) - 1 \/ \E j \in DOMAIN accept : At(s, k) = accept[j]
        k == Index(Len(s), Stop)
    IN  IF k >= Len(s) - 1 THEN Null ELSE k

strpbrk(s, accept) ==
    LET Stop(k) == k = Len(s) \/ \E j \in DOMAIN accept : At(s, k) = accept[j]
        k == Index(Len(s), Stop)
    IN  IF k = Len(s) THEN Null ELSE k

strchr(s, c) == strpbrk(s, <<c>>)

strrchr(s, c) ==
    LET found == {k \in 0 .. Len(s) - 1 : At(s, k) = c}
    IN  IF found = {} THEN Null ELSE Max(found)

\* The inner loop of strstr, then its test.
Matches(s, t, k) ==
    LET Stop(j) == At(s, k + j) = NUL \/ At(t, j) = NUL \/ At(s, k + j) # At(t, j)
    IN  At(s, k) = At(t, 0) /\ Index(Len(s), Stop) = Len(t)

\* An empty string is found nowhere.
strstr(s, t) ==
    LET Stop(k) == k = Len(s) \/ Matches(s, t, k)
        k == Index(Len(s), Stop)
    IN  IF k = Len(s) THEN Null ELSE k

-----------------------------------------------------------------------------
(* Building: the result, and the room in the buffer it is written to.  A    *)
(* size below zero reaches malloc modulo 2^32; it gives no room.            *)

Built(chars, holds) == [chars |-> chars, holds |-> holds]

\* dest is extended from its own length on with src from the same index on:
\* what lies behind the terminator of a shorter src is read.
strcat(d, s) == Built(d \o SubSeq(s, Len(d) + 1, Len(s)), Len(d) + Len(s) + 1)

\* Of src no more than its first n characters are looked at.
strncat(d, s, n) ==
    Built(d \o SubSeq(s, Len(d) + 1, IF n < Len(s) THEN n ELSE Len(s)), Len(d) + n + 1)

strcpy(s) ==
    LET Stop(k) == At(s, k) = NUL
    IN  [k \in 1 .. Index(Len(s), Stop) |-> At(s, k - 1)]

strncpy(s, n) == [k \in 1 .. n |-> At(s, k - 1)]

strdels(s, del) ==
    LET kept[k \in 0 .. Len(s)] ==
          IF k = 0 THEN <<>>
          ELSE kept[k - 1] \o IF \E j \in DOMAIN del : s[k] = del[j] THEN <<>> ELSE <<s[k]>>
    IN  Built(kept[Len(s)], Len(s) - Len(del))

strdelc(s, c) == [strdels(s, <<c>>) EXCEPT !.holds = Len(s) - 1]

\* The digits of n, the last one first.
digits(n, b) ==
    LET low[k \in Nat] == IF k = 0 THEN <<>> ELSE <<k % b>> \o low[k \div b] IN low[n]

Code(r) == IF r >= 10 THEN 87 + r ELSE 48 + r

\* numstr_buf is given a buffer; numstr allocates one for decimal digits.
numstr(n, b) ==
    LET low == IF n = 0 THEN <<0>> ELSE digits(n, b)
    IN  Built([k \in DOMAIN low |-> Code(low[Len(low) + 1 - k])],
              IF n = 0 THEN 2 ELSE numlen(n) + 1)

\* Mutant of Value: capitals count as small letters do, from their own code.
ValueSmall(c) ==
    CASE c \in 48 .. 57 -> c - 48
      [] c \in 65 .. 90 \cup 97 .. 122 -> c - 87
      [] OTHER -> Null

Value(c) ==
    CASE c \in 48 .. 57 -> c - 48
      [] c \in 97 .. 122 -> c - 87
      [] c \in 65 .. 90 -> c - 55
      [] OTHER -> Null

\* Characters that are no digits are passed over; digits are not compared with
\* the base.
strnum(s, b) ==
    LET ret[k \in 0 .. Len(s)] ==
          IF k = 0 THEN 0
          ELSE IF Value(s[k]) = Null THEN ret[k - 1]
          ELSE ret[k - 1] * b + Value(s[k])
    IN  ret[Len(s)]

-----------------------------------------------------------------------------
(* Splitting, with strtok, strtok_r or strsep until the pointer is null.  A *)
(* call ends the string at the delimiter; what it returns is the place of   *)
(* the delimiter, an empty string by then, and only behind the last one the *)
(* rest.  The token is where the caller's pointer was before the call.      *)

Tokens(s, delim) ==
    LET of[left \in 0 .. Len(s)] ==
          LET rest == SubSeq(s, Len(s) - left + 1, Len(s))
              token == strpbrk(rest, delim)
          IN  IF token = Null THEN <<[token |-> rest, returned |-> rest]>>
              ELSE <<[token |-> SubSeq(rest, 1, token), returned |-> <<>>]>>
                      \o of[left - token - 1]
    IN  of[Len(s)]

-----------------------------------------------------------------------------
(* Calls *)

Calls(f, s, t, n) ==
    /\ pc' = "answered"
    /\ call' = [of |-> f, s |-> s, t |-> t, n |-> n]
    /\ UNCHANGED <<i, arg, number, fg>>

Reads(f, s, t, n, answer) ==
    /\ Calls(f, s, t, n)
    /\ out' = <<answer>>
    /\ UNCHANGED ruin

Builds(f, s, t, n, built) ==
    /\ Calls(f, s, t, n)
    /\ out' = built.chars
    /\ ruin' = IF Len(built.chars) + 1 > built.holds THEN "overrun" ELSE "none"

Compare(s, t) ==
    \/ Reads("strcmp", s, t, 0, strcmp(s, t))
    \/ \E n \in 0 .. 2 : Reads("strncmp", s, t, n, strncmp(s, t, n))

Search(s, t) ==
    \/ Reads("strpbrk", s, t, 0, strpbrk(s, t))
    \/ t # <<>> /\ Reads("strchr", s, t, t[1], strchr(s, t[1]))
    \/ t # <<>> /\ Reads("strrchr", s, t, t[1], strrchr(s, t[1]))
    \/ Reads("strstr", s, t, 0, strstr(s, t))

Concatenate(d, s) ==
    \/ /\ Len(s) < Len(d)
       /\ Calls("strcat", d, s, 0) \/ \E n \in 0 .. 3 : Calls("strncat", d, s, n)
       /\ out' = <<>> /\ ruin' = "behind"
    \/ /\ Len(s) >= Len(d)
       /\ \/ Builds("strcat", d, s, 0, strcat(d, s))
          \/ \E n \in 0 .. 3 : Builds("strncat", d, s, n, strncat(d, s, n))

Copy(s) ==
    \/ Reads("strcpy", s, <<>>, 0, strcpy(s))
    \/ \E n \in 0 .. 3 : Reads("strncpy", s, <<>>, n, strncpy(s, n))

Delete(s, t) ==
    \/ Builds("strdels", s, t, 0, strdels(s, t))
    \/ t # <<>> /\ Builds("strdelc", s, t, t[1], strdelc(s, t[1]))

Split(s, t) == Reads("strtok", s, t, 0, Tokens(s, t))

Convert(n) ==
    \E b \in 2 .. 36 : Builds("numstr", <<>>, <<>>, [num |-> n, base |-> b], numstr(n, b))

StringCall ==
    /\ pc = "ready"
    /\ \/ \E s, t \in Strings : Compare(s, t) \/ Search(s, t) \/ Concatenate(s, t)
                                \/ Delete(s, t) \/ Split(s, t)
       \/ \E s \in Strings : Copy(s)
       \/ \E n \in Numbers : Convert(n)

TextNext == PrinterNext \/ StringCall

TextSpec == PrinterInit /\ [][TextNext]_textvars

-----------------------------------------------------------------------------
(* Properties *)

Prefix(s, n) == SubSeq(s, 1, IF n < Len(s) THEN n ELSE Len(s))

\* s comes before t in the order of the C library.
Precedes(s, t) ==
    \/ IsStrictPrefix(s, t)
    \/ \E k \in 1 .. Len(s) : /\ k <= Len(t) /\ s[k] < t[k]
                              /\ Prefix(s, k - 1) = Prefix(t, k - 1)

Sign(v, s, t) == /\ v < 0 <=> Precedes(s, t)
                 /\ v > 0 <=> Precedes(t, s)

Places(s, t) == {k \in 0 .. Len(s) - 1 : IsPrefix(t, SubSeq(s, k + 1, Len(s)))}
AnyOf(s, t) == {k \in 0 .. Len(s) - 1 : \E j \in DOMAIN t : s[k + 1] = t[j]}
Least(S) == IF S = {} THEN Null ELSE Min(S)
Greatest(S) == IF S = {} THEN Null ELSE Max(S)

\* s, then what t has from the same index on, m characters in all.
Overlaid(s, t, m) == [k \in 1 .. m |-> IF k <= Len(s) THEN s[k] ELSE t[k]]

\* s with every character of del left out, and with each overwritten by the terminator.
Without(s, del) ==
    FlattenSeq([k \in 1 .. Len(s) |->
                  IF \E j \in DOMAIN del : s[k] = del[j] THEN <<>> ELSE <<s[k]>>])
Ended(s, del) ==
    [k \in 1 .. Len(s) |-> IF \E j \in DOMAIN del : s[k] = del[j] THEN NUL ELSE s[k]]
Joined(tokens) ==
    FlattenSeq([j \in 1 .. Len(tokens) |->
                  tokens[j].token \o (IF j < Len(tokens) THEN <<NUL>> ELSE <<>>)])

\* What every string function answers (numstr: see NumbersReadBack).  strcmp, strpbrk,
\* strchr, strrchr, strcpy and strncpy answer as the C library's do; strdels and
\* strdelc, which are not of it, leave out the characters they are given.  The others
\* differ from it in this:
\*   strncmp   compares one character more than it is told;
\*   strstr    finds an empty string nowhere;
\*   strcat    puts behind dest not src but what src has behind the length of dest,
\*             and strncat counts n from the beginning of src;
\*   strtok    (strtok_r, strsep) cuts the string at every delimiter, empty tokens
\*             included, but returns the empty string at the cut: only the last token
\*             is returned, and the others are where the caller's pointer was.
AnswersRight == pc = "answered" /\ ruin = "none" =>
    LET answer == out[1]
        s == call.s
        t == call.t
        n == call.n
    IN /\ call.of = "strcmp"  => Sign(answer, s, t)
       /\ call.of = "strncmp" => Sign(answer, Prefix(s, n + 1), Prefix(t, n + 1))
       /\ call.of = "strpbrk" => answer = Least(AnyOf(s, t))
       /\ call.of = "strchr"  => answer = Least(AnyOf(s, <<n>>))
       /\ call.of = "strrchr" => answer = Greatest(AnyOf(s, <<n>>))
       /\ call.of = "strstr"  => answer = IF t = <<>> THEN Null ELSE Least(Places(s, t))
       /\ call.of = "strcpy"  => answer = s
       /\ call.of = "strncpy" =>
            answer = [k \in 1 .. n |-> IF k <= Len(s) THEN s[k] ELSE NUL]
       /\ call.of = "strcat"  => out = Overlaid(s, t, Len(t))
       /\ call.of = "strncat" => out = Overlaid(s, t, Max({Len(s), Min({n, Len(t)})}))
       /\ call.of = "strdels" => out = Without(s, t)
       /\ call.of = "strdelc" => out = Without(s, <<n>>)
       /\ call.of = "strtok"  =>
            /\ Joined(answer) = Ended(s, t)
            /\ \A j \in 1 .. Len(answer) : answer[j].returned =
                  IF j < Len(answer) THEN <<>> ELSE answer[j].token

\* A number that has been converted is read back as the same number, in every
\* base from 2 to 36 and with letters of either case, although strnum knows nothing
\* of a base's digits.
Capitals(s) == [k \in DOMAIN s |-> IF s[k] > 96 THEN s[k] - 32 ELSE s[k]]

NumbersReadBack == pc = "answered" /\ call.of = "numstr" =>
    /\ strnum(out, call.n.base) = call.n.num
    /\ strnum(Capitals(out), call.n.base) = call.n.num

\* Which calls write behind the buffer they have allocated: those that delete
\* fewer than two characters, or fewer than one more than they are given, and a
\* number in a base below ten, printed or not.  Only strcat and strncat read behind a
\* string, one shorter than what it is appended to.  Arguments are only misread for
\* the octal directive or by print.
RuinExplained == IF pc # "answered" THEN PrinterRuinExplained ELSE
    /\ ruin = "overrun" =>
          \/ call.of = "strdelc" /\ Len(call.s) - Len(out) < 2
          \/ call.of = "strdels" /\ Len(call.s) - Len(out) < Len(call.t) + 1
          \/ call.of = "numstr" /\ call.n.base < 10
    /\ ruin = "behind" =>
          call.of \in {"strcat", "strncat"} /\ Len(call.t) < Len(call.s)
=============================================================================
