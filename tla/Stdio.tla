-------------------------------- MODULE Stdio --------------------------------
(***************************************************************************)
(* lib/src/stdio.c: vsprintf, which printk and sprintf call, with itoa.     *)
(* Characters are abstract; a format is a sequence of them, and the strings *)
(* among the arguments are sequences too.  A uint32_t is taken modulo Word. *)
(***************************************************************************)
EXTENDS Integers, Sequences

CONSTANT Word \* 2^32

Uint(n) == n % Word

DigitNames == <<"0", "1", "2", "3", "4", "5", "6", "7", "8", "9", "A", "B", "C", "D", "E", "F">>

\* The digits of the quotient first, then the remainder.
RECURSIVE itoa(_, _)
itoa(value, base) ==
    LET digit == <<DigitNames[(value % base) + 1]>>
    IN  IF value \div base = 0 THEN digit ELSE itoa(value \div base, base) \o digit

MutUnsigned(conv, arg) ==
    CASE conv = "s" -> arg
      [] conv = "c" -> <<arg>>
      [] conv = "d" -> itoa(Uint(arg), 10)
      [] conv = "x" -> itoa(Uint(arg), 16)

\* What a conversion appends; the argument is an int, a character or a string.
\* The int is negated in 32 bits: the least one stays what it is.
Converted(conv, arg) ==
    CASE conv = "s" -> arg
      [] conv = "c" -> <<arg>>
      [] conv = "d" -> IF arg < 0 THEN <<"-">> \o itoa(Uint(0 - arg), 10) ELSE itoa(arg, 10)
      [] conv = "x" -> itoa(Uint(arg), 16)

\* The conversions that fetch an argument; others print nothing.
TakesArg(conv) == conv \in {"s", "c", "d", "x"}

\* The text, and how many arguments are left.  A format does not end in %.
RECURSIVE vsprintf(_, _)
vsprintf(format, args) ==
    IF format = <<>> THEN <<>>
    ELSE IF Head(format) # "%" THEN <<Head(format)>> \o vsprintf(Tail(format), args)
    ELSE LET conv == format[2]
             rest == SubSeq(format, 3, Len(format))
         IN  IF TakesArg(conv) THEN Converted(conv, Head(args)) \o vsprintf(rest, Tail(args))
             ELSE vsprintf(rest, args)

-----------------------------------------------------------------------------
(* What stdio.h promises.                                                  *)

CONSTANT Formats \* of kernel code, each with arguments: pairs <<format, args>>

\* The number a sequence of digits stands for.
Value(digits, base) ==
    LET v[i \in 0..Len(digits)] ==
            IF i = 0 THEN 0
            ELSE v[i - 1] * base + (CHOOSE d \in 0..(base - 1) : DigitNames[d + 1] = digits[i])
    IN  v[Len(digits)]

\* stdio.h: %d prints every int, the least one too, and %x every uint32_t, as
\* the one numeral of that base without leading zeros.
NumeralsRight ==
    \A n \in (-(Word \div 2))..(Word \div 2 - 1) :
        LET d == Converted("d", n)
            x == Converted("x", n)
            digits == IF n < 0 THEN Tail(d) ELSE d
        IN  /\ n < 0 <=> d[1] = "-"
            /\ Value(digits, 10) = IF n < 0 THEN -n ELSE n
            /\ Value(x, 16) = n % Word
            /\ digits[1] = "0" => n = 0 /\ Len(digits) = 1
            /\ x[1] = "0" => n = 0 /\ Len(x) = 1

\* The places of the conversions in a format, in order.
Conversions(format) ==
    LET skip[i \in 1..(Len(format) + 1)] ==
            IF i > Len(format) THEN <<>>
            ELSE IF format[i] = "%" THEN <<i + 1>> \o (IF i + 2 > Len(format) THEN <<>> ELSE skip[i + 2])
            ELSE skip[i + 1]
    IN  skip[1]

\* stdio.h:40-42: the n-th conversion that takes an argument prints the n-th argument,
\* whatever characters and dropped conversions are between them, and the rest
\* of the format is printed as it stands.
FormatsRight ==
    \A f \in Formats :
        LET format == f[1]
            args == f[2]
            at == SelectSeq(Conversions(format), LAMBDA i : format[i] \in {"s", "c", "d", "x"})
            all == {Conversions(format)[i] : i \in DOMAIN Conversions(format)}
            piece[i \in 1..Len(format)] ==
                IF i + 1 \in all THEN <<>>
                ELSE IF i \notin all THEN <<format[i]>>
                ELSE IF \E n \in DOMAIN at : at[n] = i
                     THEN Converted(format[i], args[CHOOSE n \in DOMAIN at : at[n] = i])
                     ELSE <<>>
            text[i \in 0..Len(format)] == IF i = 0 THEN <<>> ELSE text[i - 1] \o piece[i]
        IN  vsprintf(format, args) = text[Len(format)]

\* Formatted output is what stdio.h says.
StdioRight == NumeralsRight /\ FormatsRight
=============================================================================
