------------------------------- MODULE Printf --------------------------------
(***************************************************************************)
(* The kernel's formatted output and input (util/printf.c): vsnprintf with *)
(* number, the running buffer of iprintf from which the info functions     *)
(* build their reports, and vsscanf with the simple_strto functions.       *)
(*                                                                         *)
(* A format is a sequence of items: a literal character or a conversion    *)
(* with its flags, width, precision and qualifier already separated.       *)
(* vsscanf parses less of a conversion than vsnprintf (Refused).  The      *)
(* properties are about what the conversions do to characters, so text is  *)
(* a sequence of characters here.                                          *)
(***************************************************************************)
EXTENDS Integers, SequencesExt

CONSTANTS CharBits, ShortBits, IntBits, LongLongBits,   \* widths; int is also long and size_t
          BufSize,        \* the buffer handed to the first iprintf
          Formats,        \* what iprintf is called with: [fmt, args]
          Conversions,    \* single conversions that are printed and read back
          MaxPrints       \* bound: calls of iprintf

ASSUME WidthAssumption ==
    /\ 0 < CharBits /\ CharBits <= ShortBits /\ ShortBits <= IntBits /\ IntBits <= LongLongBits
    /\ BufSize >= 1

VARIABLES page,           \* iprintf's memory, where it is in it, and the text so far
          reading,        \* the last conversion that was printed and read back
          nprints

printfVars == <<page, reading, nprints>>

-----------------------------------------------------------------------------
(* Characters and integers of a given width.                               *)
NulChar == "NUL"
LowerDigits == <<"0", "1", "2", "3", "4", "5", "6", "7", "8", "9", "a", "b", "c", "d", "e", "f">>
UpperDigits == <<"0", "1", "2", "3", "4", "5", "6", "7", "8", "9", "A", "B", "C", "D", "E", "F">>

isdigit(c)  == c \in ToSet(SubSeq(LowerDigits, 1, 10))
isxdigit(c) == c \in ToSet(LowerDigits) \cup ToSet(UpperDigits)
isspace(c)  == c = " "

DigitValue(c) == CHOOSE v \in 0 .. 15 : c \in {LowerDigits[v + 1], UpperDigits[v + 1]}

Unsigned(n, bits) == n % (2 ^ bits)
AsSigned(n, bits) == LET u == Unsigned(n, bits) IN IF u >= 2 ^ (bits - 1) THEN u - 2 ^ bits ELSE u

Repeat(c, n) == [i \in 1 .. n |-> c]

CharIn(s, i) == IF i <= Len(s) THEN s[i] ELSE NulChar

-----------------------------------------------------------------------------
(* vsnprintf.                                                              *)
RECURSIVE DigitsOf(_, _, _)
DigitsOf(n, base, digits) ==
    (IF n < base THEN <<>> ELSE DigitsOf(n \div base, base, digits)) \o <<digits[(n % base) + 1]>>

SignChars(num, type) ==
    CASE "SIGN" \notin type -> <<>>
      [] num < 0            -> <<"-">>
      [] "PLUS" \in type    -> <<"+">>
      [] "SPACE" \in type   -> <<" ">>
      [] OTHER              -> <<>>

PrefixOf(base, type) ==
    CASE "SPECIAL" \notin type -> <<>>
      [] base = 16             -> <<"0", IF "LARGE" \in type THEN "X" ELSE "x">>
      [] base = 8              -> <<"0">>
      [] OTHER                 -> <<>>

(* The padding goes before the sign, between the prefix and the digits, or *)
(* after them.  A LEFT field is never padded with zeros.                   *)
Laid(sign, prefix, digits, size, precision, type) ==
    LET zeros == Max({0, precision - Len(digits)})
        pad   == Max({0, size - Len(sign) - Len(prefix) - zeros - Len(digits)})
        where == CASE "LEFT" \in type -> "after" [] "ZEROPAD" \in type -> "between" [] OTHER -> "before"
    IN Repeat(" ", IF where = "before" THEN pad ELSE 0) \o sign \o prefix
         \o Repeat("0", IF where = "between" THEN pad ELSE 0) \o Repeat("0", zeros) \o digits
         \o Repeat(" ", IF where = "after" THEN pad ELSE 0)

(* -num of the least number is that number: num2 takes it as unsigned.     *)
number(num, base, size, precision, type) ==
    Laid(SignChars(num, type), PrefixOf(base, type),
         DigitsOf(Unsigned(IF "SIGN" \in type /\ num < 0 THEN -num ELSE num, LongLongBits), base,
                  IF "LARGE" \in type THEN UpperDigits ELSE LowerDigits),
         size, precision, type)

(* The argument of a conversion as va_arg takes it.                        *)
va_arg_number(qualifier, value, type) ==
    LET bits == CASE qualifier = "L" -> LongLongBits [] qualifier = "h" -> ShortBits [] OTHER -> IntBits
    IN IF qualifier = "L" \/ ("SIGN" \in type /\ qualifier # "Z") THEN AsSigned(value, bits)
       ELSE Unsigned(value, bits)

TypeOf(item) ==
    item.flags \cup (IF item.star /\ item.width < 0 THEN {"LEFT"} ELSE {})
               \cup (IF item.conv \in {"d", "i"} THEN {"SIGN"} ELSE {})
               \cup (IF item.conv = "X" THEN {"LARGE"} ELSE {})
               \cup (IF item.conv = "p" /\ item.width = -1 /\ ~item.star THEN {"ZEROPAD"} ELSE {})

WidthOf(item) ==
    CASE item.star /\ item.width < 0           -> -item.width
      [] item.conv = "p" /\ item.width = -1    -> IntBits \div 4
      [] OTHER                                 -> item.width

BaseOf(conv) == CASE conv = "o" -> 8 [] conv \in {"x", "X", "p"} -> 16 [] OTHER -> 10

Field(text, item) ==
    LET pad == Repeat(" ", Max({0, WidthOf(item) - Len(text)}))
    IN IF "LEFT" \in TypeOf(item) THEN text \o pad ELSE pad \o text

(* A precision cuts a string; a null pointer prints as <NULL>.             *)
StringOf(value, precision) ==
    LET s == IF value = NulChar THEN <<"<", "N", "U", "L", "L", ">">> ELSE value
    IN IF precision = -1 THEN s ELSE SubSeq(s, 1, Min({precision, Len(s)}))

(* What one item of a format prints.                                       *)
Converted(item, value) ==
    CASE item.conv = "lit" -> <<item.ch>>
      [] item.conv = "%"   -> <<"%">>
      [] item.conv = "n"   -> <<>>
      [] item.conv = "c"   -> Field(<<value>>, item)
      [] item.conv = "s"   -> Field(StringOf(value, item.precision), item)
      [] item.conv = "?"   -> <<"%", "?">>                       \* not a conversion
      [] OTHER -> number(va_arg_number(item.qualifier, value, TypeOf(item)), BaseOf(item.conv),
                         WidthOf(item), item.precision, TypeOf(item))

Formatted(fmt, args) == FlattenSeq([i \in 1 .. Len(fmt) |-> Converted(fmt[i], args[i])])

\* Mutant: the null byte comes after a buffer that is full.
vsnprintf_one_more(mem, base, size, text) ==
    LET end == base + size - 1
        nul == IF base + Len(text) <= end + 1 THEN base + Len(text) ELSE IF size > 0 THEN end ELSE 0
    IN [i \in DOMAIN mem |-> IF i = nul THEN NulChar
                             ELSE IF base <= i /\ i < base + Len(text) /\ i <= end
                                  THEN text[i - base + 1] ELSE mem[i]]

(* The text goes to memory from base on, as far as the size allows; the    *)
(* null byte follows it or takes the last place.                           *)
vsnprintf(mem, base, size, text) ==
    LET end == base + size - 1
        nul == IF base + Len(text) <= end THEN base + Len(text) ELSE IF size > 0 THEN end ELSE 0
    IN [i \in DOMAIN mem |-> IF i = nul THEN NulChar
                             ELSE IF base <= i /\ i < base + Len(text) /\ i <= end
                                  THEN text[i - base + 1] ELSE mem[i]]

-----------------------------------------------------------------------------
(* vsscanf.                                                                *)
RECURSIVE skip_spaces(_, _)
skip_spaces(str, i) == IF isspace(CharIn(str, i)) THEN skip_spaces(str, i + 1) ELSE i

RECURSIVE StrtoulFrom(_, _, _, _, _)
StrtoulFrom(str, i, base, bits, result) ==
    IF isxdigit(CharIn(str, i)) /\ DigitValue(str[i]) < base
    THEN StrtoulFrom(str, i + 1, base, bits, Unsigned(result * base + DigitValue(str[i]), bits))
    ELSE [value |-> result, next |-> i]

simple_strtoul(str, i, base, bits) ==
    CASE base # 0         -> StrtoulFrom(str, i, base, bits, 0)
      [] str[i] # "0"     -> StrtoulFrom(str, i, 10, bits, 0)
      [] CharIn(str, i + 1) = "x" /\ isxdigit(CharIn(str, i + 2)) -> StrtoulFrom(str, i + 2, 16, bits, 0)
      [] OTHER            -> StrtoulFrom(str, i + 1, 8, bits, 0)

simple_strtol(str, i, base, bits) ==
    IF str[i] = "-"
    THEN LET r == simple_strtoul(str, i + 1, base, bits) IN [r EXCEPT !.value = Unsigned(-@, bits)]
    ELSE simple_strtoul(str, i, base, bits)

simple_strtoull(str, i, base) == simple_strtoul(str, i, base, LongLongBits)
simple_strtoll(str, i, base)  == simple_strtol(str, i, base, LongLongBits)

StartsNumber(digit, base) ==
    CASE base = 16 -> isxdigit(digit)
      [] base = 8  -> isdigit(digit) /\ digit \notin {"8", "9"}
      [] OTHER     -> isdigit(digit)

ScanBase(conv) == CASE conv = "o" -> 8 [] conv \in {"x", "X"} -> 16 [] conv = "i" -> 0 [] OTHER -> 10

(* The value as the type that the qualifier names.                         *)
Stored(value, qualifier, is_sign) ==
    LET bits == CASE qualifier = "H" -> CharBits [] qualifier = "h" -> ShortBits
                  [] qualifier = "L" -> LongLongBits [] OTHER -> IntBits
    IN IF is_sign /\ qualifier # "Z" THEN AsSigned(value, bits) ELSE Unsigned(value, bits)

Scanned(at, value, ok) == [at |-> at, value |-> value, ok |-> ok]

ScanNumber(str, i, conv, qualifier) ==
    LET is_sign == conv \in {"d", "i"}
        base    == ScanBase(conv)
        signed  == is_sign /\ CharIn(str, i) = "-"
    IN IF ~StartsNumber(CharIn(str, IF signed THEN i + 1 ELSE i), base) THEN Scanned(i, 0, FALSE)
       ELSE LET r == CASE qualifier = "L" /\ is_sign  -> simple_strtoll(str, i, base)
                       [] qualifier = "L" /\ ~is_sign -> simple_strtoull(str, i, base)
                       [] is_sign /\ qualifier # "Z"  -> simple_strtol(str, i, base, IntBits)
                       [] OTHER                       -> simple_strtoul(str, i, base, IntBits)
            IN Scanned(r.next, Stored(r.value, qualifier, is_sign), TRUE)

(* A word of at most width characters.                                     *)
RECURSIVE WordEnd(_, _, _)
WordEnd(str, i, width) ==
    IF CharIn(str, i) # NulChar /\ ~isspace(CharIn(str, i)) /\ width # 0 THEN WordEnd(str, i + 1, width - 1) ELSE i

ScanString(str, i, width) == Scanned(WordEnd(str, i, width), SubSeq(str, i, WordEnd(str, i, width) - 1), TRUE)

ScanChars(str, i, width) ==
    LET n == Min({Max({1, width}), Len(str) - i + 1}) IN Scanned(i + n, SubSeq(str, i, i + n - 1), TRUE)

(* vsscanf parses a width and a qualifier, and stops at anything else: a   *)
(* flag, a precision, a letter it has no case for.  The flag 0 it takes    *)
(* for the beginning of the width.                                         *)
Refused(item) ==
    /\ item.conv # "lit"
    /\ \/ item.flags \ {"ZEROPAD"} # {} \/ item.precision # -1
       \/ item.conv \notin {"c", "s", "n", "o", "x", "X", "i", "d", "u", "%"}

ScanWidth(item) == IF item.width = -1 /\ "ZEROPAD" \in item.flags THEN 0 ELSE item.width

(* One conversion at position i of the input; a literal is matched exactly.*)
ScanOne(str, i, item) ==
    CASE Refused(item)     -> Scanned(i, 0, FALSE)
      [] item.conv = "lit" -> Scanned(i + 1, 0, str[i] = item.ch)
      [] item.conv = "%"   -> Scanned(i + 1, 0, str[i] = "%")
      [] item.conv = "c"   -> ScanChars(str, i, ScanWidth(item))
      [] item.conv = "s"   -> ScanString(str, skip_spaces(str, i), ScanWidth(item))
      [] item.conv = "n"   -> Scanned(i, i - 1, TRUE)
      [] OTHER             -> ScanNumber(str, skip_spaces(str, i), item.conv, item.qualifier)

IsSpaceItem(item) == item.conv = "lit" /\ isspace(item.ch)

(* A star, which is a width to vsnprintf, skips: both strings go on to the *)
(* next white space.                                                       *)
Skips(item) == item.flags = {} /\ item.star

RECURSIVE NextSpace(_, _)
NextSpace(fmt, k) == IF k > Len(fmt) \/ IsSpaceItem(fmt[k]) THEN k ELSE NextSpace(fmt, k + 1)

(* The values of the conversions until one fails or either string ends.    *)
RECURSIVE ScanFrom(_, _, _, _, _)
ScanAfter(str, fmt, k, got, r) ==
    IF ~r.ok THEN got
    ELSE ScanFrom(str, r.at, fmt, k + 1, IF fmt[k].conv \in {"lit", "%"} THEN got ELSE Append(got, r.value))
ScanFrom(str, i, fmt, k, got) ==
    CASE k > Len(fmt) \/ i > Len(str) -> got
      [] k <= Len(fmt) /\ i <= Len(str) /\ IsSpaceItem(fmt[k]) ->
             ScanFrom(str, skip_spaces(str, i), fmt, k + 1, got)
      [] k <= Len(fmt) /\ i <= Len(str) /\ ~IsSpaceItem(fmt[k]) /\ Skips(fmt[k]) ->
             ScanFrom(str, WordEnd(str, i, -1), fmt, NextSpace(fmt, k + 1), got)
      [] OTHER -> ScanAfter(str, fmt, k, got, ScanOne(str, i, fmt[k]))

vsscanf(str, fmt) == ScanFrom(str, 1, fmt, 1, <<>>)

-----------------------------------------------------------------------------
Untouched == "untouched"

(* A guard byte follows the buffer.                                        *)
PrintfInit ==
    /\ page = [mem |-> [i \in 1 .. BufSize + 1 |-> Untouched], str |-> 1, size |-> BufSize, text |-> <<>>]
    /\ reading = [fmt |-> <<>>, args |-> <<>>, got |-> <<>>]
    /\ nprints = 0

(* iprintf: print, then advance by what fitted.                            *)
Advanced(text) ==
    LET len == Min({Len(text), page.size - 1})
    IN [mem |-> vsnprintf(page.mem, page.str, page.size, text), str |-> page.str + len,
        size |-> page.size - len, text |-> page.text \o text]

iprintf(fmt, args) ==
    /\ nprints < MaxPrints /\ reading.fmt = <<>>
    /\ page' = Advanced(Formatted(fmt, args))
    /\ nprints' = nprints + 1
    /\ UNCHANGED reading

(* sscanf of what sprintf wrote, with the same conversions; neither uses   *)
(* state of an earlier call.                                               *)
sscanf ==
    /\ nprints = 0 /\ reading.fmt = <<>>
    /\ \E c \in Conversions :
           reading' = [fmt |-> c.fmt, args |-> c.args, got |-> vsscanf(Formatted(c.fmt, c.args), c.fmt)]
    /\ UNCHANGED <<page, nprints>>

PrintfNext == (\E f \in Formats : iprintf(f.fmt, f.args)) \/ sscanf

-----------------------------------------------------------------------------
(* However many reports are appended with iprintf and wherever the buffer  *)
(* runs out, the memory holds the longest start of the whole text that     *)
(* fits and a null byte after it, nothing beyond the buffer is written,    *)
(* and str and size always describe the rest of the same buffer.           *)
BufferHoldsTheText ==
    nprints > 0 =>
        LET kept == Min({Len(page.text), BufSize - 1})
        IN /\ page.str = kept + 1 /\ page.str + page.size = BufSize + 1
           /\ SubSeq(page.mem, 1, kept) = SubSeq(page.text, 1, kept)
           /\ page.mem[kept + 1] = NulChar
           /\ page.mem[BufSize + 1] = Untouched

(* What the reader can take back: it takes a leading zero under %i for     *)
(* octal, and a word has no width.                                         *)
ReadsBack(item) ==
    /\ item.conv \in {"d", "u", "o", "x", "X", "i", "s"} /\ ~Refused(item) /\ ~item.star
    /\ item.conv = "i" => "ZEROPAD" \notin item.flags
    /\ item.conv = "s" => item.width = -1 /\ item.flags = {}

(* The value a conversion stands for, of the type the qualifier names.     *)
Meant(item, value) ==
    IF item.conv = "s" THEN value
    ELSE Stored(va_arg_number(item.qualifier, value, TypeOf(item)), item.qualifier, item.conv \in {"d", "i"})

(* Text that vsnprintf wrote is read back by vsscanf with the same         *)
(* conversions, to the same numbers of the same width, the least negative  *)
(* one and zero included, whatever the width and with or without leading   *)
(* zeros; up to the first conversion that vsscanf refuses, and nothing     *)
(* from there on.                                                          *)
NumbersReadBack ==
    LET convs   == SelectSeq([i \in DOMAIN reading.fmt |-> i], LAMBDA i : reading.fmt[i].conv # "lit")
        refused == {n \in DOMAIN convs : Refused(reading.fmt[convs[n]])}
        upto    == Min({n - 1 : n \in refused} \cup {Len(convs)})
    IN (\A n \in 1 .. upto : ReadsBack(reading.fmt[convs[n]])) =>
           reading.got = [n \in 1 .. upto |-> Meant(reading.fmt[convs[n]], reading.args[convs[n]])]

\* What is printed is neither lost nor written past the buffer by vsnprintf and
\* iprintf, and vsscanf reads the numbers in it back where it knows the conversion.
TextIsExact == BufferHoldsTheText /\ NumbersReadBack
=============================================================================
