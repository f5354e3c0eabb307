------------------------------ MODULE LibcStdio ------------------------------
(***************************************************************************)
(* Formatted output of the freestanding C library                           *)
(* (avs/runtime/freestanding/src/stdio/stdio.c): vsnprintf into a buffer    *)
(* and printf to the UART.  A format is the sequence of its items: plain     *)
(* characters, and conversions together with their arguments.  Integers     *)
(* have IntBits bits, whatever their length modifier.                       *)
(***************************************************************************)
EXTENDS Integers, Sequences

CONSTANTS
  Item,           \* plain characters, and conversions with their arguments
  Format,         \* the formats of the calls
  Target,         \* where the output goes: a buffer of a size, nowhere, the UART
  BufAddr,         \* addresses of the buffer and of what follows it
  IntBits,        \* bits of an int: 32
  PtrDigits       \* digits of a pointer: 16

ASSUME StdioAssumption ==
  /\ Format \subseteq Seq(Item)
  /\ Target \subseteq [kind : {"buffer", "null", "uart"}, size : Nat]
  /\ BufAddr \subseteq Nat
  /\ IntBits \in Nat \ {0} /\ PtrDigits \in Nat

VARIABLES
  printCall,      \* the format and the target of the call
  items,          \* what of the format is still to be read
  todo,           \* characters of the current item still to be put out
  buf,            \* the bytes at dst
  pos, count,     \* struct linx_out
  said,           \* history: the characters given to linx_outc
  stored,         \* what %n stored
  printed         \* the result, <<>> before the return

stdioVars == <<printCall, items, todo, buf, pos, count, said, stored, printed>>

Untouched == "?"
Terminator == "\\0"

StdioInit ==
  /\ printCall \in [format : Format, to : Target]
  /\ items = printCall.format /\ todo = <<>>
  /\ buf = [a \in BufAddr |-> Untouched]
  /\ pos = 0 /\ count = 0 /\ said = <<>> /\ stored = <<>> /\ printed = <<>>

-----------------------------------------------------------------------------
(* What a conversion prints. *)
WithoutSign(v) == IF v < 0 THEN -v ELSE v
Repeat(c, n) == [i \in 1 .. n |-> c]
Longer(n, m) == IF n > m THEN n - m ELSE 0

(* A width or precision is <<>> if the format has none, and negative only   *)
(* as an argument of an asterisk.                                           *)
WidthOf(f) == IF f.width = <<>> THEN -1 ELSE WithoutSign(f.width[1])
IsLeft(f) == "-" \in f.flags \/ (f.width # <<>> /\ f.width[1] < 0)

PrecisionOf(f) == IF f.precision = <<>> \/ f.precision[1] < 0 THEN -1 ELSE f.precision[1]

Lower == <<"0", "1", "2", "3", "4", "5", "6", "7", "8", "9", "a", "b", "c", "d", "e", "f">>
Upper == <<"0", "1", "2", "3", "4", "5", "6", "7", "8", "9", "A", "B", "C", "D", "E", "F">>

(* linx_utoa_rev, in the order of printing. *)
DigitsOf(v, base, table) ==
  LET digits[n \in Nat] ==
        IF n < base THEN <<table[n + 1]>>
        ELSE digits[n \div base] \o <<table[(n % base) + 1]>>
  IN digits[v]

PrefixOf(v, base, upper, alt, precision) ==
  IF ~alt THEN <<>>
  ELSE IF base = 8 /\ (v # 0 \/ precision = 0) THEN <<"0">>
  ELSE IF base = 16 /\ v # 0 THEN <<"0", IF upper THEN "X" ELSE "x">>
  ELSE <<>>

(* Sign and prefix, zeros up to the precision, digits; padded to the width  *)
(* by spaces on one side, or by zeros after the prefix if there is no       *)
(* precision.                                                               *)
linx_format_uint(v, base, upper, left, zero, width, precision, sign, prefix) ==
  LET digits == IF precision = 0 /\ v = 0 THEN <<>>
                ELSE DigitsOf(v, base, IF upper THEN Upper ELSE Lower)
      body == Repeat("0", Longer(precision, Len(digits))) \o digits
      pad == Longer(width, Len(sign) + Len(prefix) + Len(body))
  IN IF left THEN sign \o prefix \o body \o Repeat(" ", pad)
     ELSE IF zero /\ precision < 0 THEN sign \o prefix \o Repeat("0", pad) \o body
     ELSE Repeat(" ", pad) \o sign \o prefix \o body

Padded(f, text) ==
  LET pad == Repeat(" ", Longer(WidthOf(f), Len(text)))
  IN IF IsLeft(f) THEN text \o pad ELSE pad \o text

SignOf(f) ==
  IF f.v < 0 THEN <<"-">> ELSE IF "+" \in f.flags THEN <<"+">>
  ELSE IF " " \in f.flags THEN <<" ">> ELSE <<>>

BaseOf(f) == CASE f.conv \in {"d", "u"} -> 10 [] f.conv = "o" -> 8 [] OTHER -> 16

SignedText(f) ==
  linx_format_uint(WithoutSign(f.v), 10, FALSE, IsLeft(f), "0" \in f.flags, WidthOf(f),
                   PrecisionOf(f), SignOf(f), <<>>)

(* linx_get_uarg: an int read as unsigned. *)
UArg(f) == f.v % 2^IntBits

UnsignedText(f) ==
  LET upper == f.conv = "X"  alt == "#" \in f.flags /\ f.conv # "u"
  IN linx_format_uint(UArg(f), BaseOf(f), upper, IsLeft(f), "0" \in f.flags, WidthOf(f), PrecisionOf(f),
                      <<>>, PrefixOf(UArg(f), BaseOf(f), upper, alt, PrecisionOf(f)))

PointerText(f) ==
  linx_format_uint(f.v, 16, FALSE, IsLeft(f), TRUE,
                   IF WidthOf(f) >= 0 THEN WidthOf(f) ELSE PtrDigits + 2,
                   IF PrecisionOf(f) >= 0 THEN PrecisionOf(f) ELSE PtrDigits, <<>>, <<"0", "x">>)

(* linx_strnlen does not read beyond the precision. *)
StringText(f) ==
  LET n == PrecisionOf(f)
  IN Padded(f, IF n >= 0 /\ n < Len(f.text) THEN SubSeq(f.text, 1, n) ELSE f.text)

(* A conversion that is not known is printed as it is written. *)
OutputOf(f) ==
  CASE f.conv = "plain" -> <<f.char>>
    [] f.conv = "c" -> Padded(f, <<f.char>>)
    [] f.conv = "s" -> StringText(f)
    [] f.conv = "d" -> SignedText(f)
    [] f.conv \in {"u", "o", "x", "X"} -> UnsignedText(f)
    [] f.conv = "p" -> PointerText(f)
    [] f.conv = "n" -> <<>>
    [] f.conv = "unknown" -> <<"%", f.char>>

(* What is printed are characters; nothing else is assumed of the items. *)
ASSUME OutputAssumption == \A f \in Item : OutputOf(f) \in Seq(STRING)

-----------------------------------------------------------------------------
IntLimit == 2^(IntBits - 1) - 1

(* (int)n *)
AsInt(n) ==
  LET low == n % 2^IntBits IN IF low > IntLimit THEN low - 2^IntBits ELSE low

linx_size_to_int(n) == IF n > IntLimit THEN IntLimit ELSE n

NextItem ==
  /\ todo = <<>> /\ items # <<>>
  /\ todo' = OutputOf(Head(items))
  /\ items' = Tail(items)
  /\ stored' = IF Head(items).conv = "n" THEN <<AsInt(count)>> ELSE stored
  /\ UNCHANGED <<printCall, buf, pos, count, said, printed>>

(* Mutant: the last byte is used too. *)
BufferHasRoom_Whole == printCall.to.size > 0 /\ pos < printCall.to.size

(* One byte is kept for the terminator. *)
BufferHasRoom == printCall.to.size > 0 /\ pos < printCall.to.size - 1

linx_outc ==
  /\ todo # <<>>
  /\ buf' = IF printCall.to.kind = "buffer" /\ BufferHasRoom
            THEN [buf EXCEPT ![pos] = Head(todo)] ELSE buf
  /\ pos' = IF printCall.to.kind = "uart" THEN pos ELSE pos + 1
  /\ count' = count + 1
  /\ said' = Append(said, Head(todo))
  /\ todo' = Tail(todo)
  /\ UNCHANGED <<printCall, items, stored, printed>>

(* Where the terminator goes. *)
Term == IF pos < printCall.to.size THEN pos ELSE printCall.to.size - 1

PrintReturn ==
  /\ todo = <<>> /\ items = <<>> /\ printed = <<>>
  /\ buf' = IF printCall.to.kind = "buffer" /\ printCall.to.size > 0
            THEN [buf EXCEPT ![Term] = Terminator] ELSE buf
  /\ printed' = <<linx_size_to_int(count)>>
  /\ UNCHANGED <<printCall, items, todo, pos, count, said, stored>>

StdioNext == NextItem \/ linx_outc \/ PrintReturn

StdioSpec == StdioInit /\ [][StdioNext]_stdioVars

-----------------------------------------------------------------------------
Bounded == printCall.to.kind = "buffer" /\ printCall.to.size > 0

(* How many characters the buffer has taken. *)
Kept == IF ~Bounded THEN 0 ELSE IF pos < printCall.to.size THEN pos ELSE printCall.to.size - 1

(* However long the output, the buffer holds its beginning, no byte outside *)
(* the size is touched, and after the return the text ends with its         *)
(* terminator; the count goes on where the buffer ends.                     *)
BufferHoldsBeginning ==
  /\ count = Len(said)
  /\ printCall.to.kind # "uart" => pos = Len(said)
  /\ \A a \in BufAddr :
       buf[a] = IF a < Kept THEN said[a + 1]
                ELSE IF Bounded /\ printed # <<>> /\ a = Kept THEN Terminator
                ELSE Untouched
=============================================================================
