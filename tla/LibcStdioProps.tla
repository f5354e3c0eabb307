--------------------------- MODULE LibcStdioProps ---------------------------
(***************************************************************************)
(* What the conversions of LibcStdio print, read back.                       *)
(***************************************************************************)
EXTENDS LibcStdio

Blank == " "

(* A text without the spaces before and after it. *)
Core(t) ==
  LET inner == {i \in 1 .. Len(t) : t[i] # Blank}
  IN IF inner = {} THEN <<>>
     ELSE SubSeq(t, CHOOSE i \in inner : \A j \in inner : i <= j,
                    CHOOSE i \in inner : \A j \in inner : j <= i)

HasSign(t) == t # <<>> /\ t[1] \in {"-", "+"}
Unsigned(t) == IF HasSign(t) THEN Tail(t) ELSE t
HasHexMark(t) == Len(t) > 1 /\ t[2] \in {"x", "X"}
Digits(t) == IF HasHexMark(Unsigned(t)) THEN SubSeq(Unsigned(t), 3, Len(Unsigned(t))) ELSE Unsigned(t)

(* The number that a row of digits stands for, -1 if one of them is none. *)
NumberOf(t, base, table) ==
  LET Worth(c) == CHOOSE d \in 0 .. 15 : table[d + 1] = c
      value[i \in 0 .. Len(t)] == IF i = 0 THEN 0 ELSE value[i - 1] * base + Worth(t[i])
  IN IF \A i \in 1 .. Len(t) : \E d \in 0 .. base - 1 : table[d + 1] = t[i] THEN value[Len(t)] ELSE -1

(* An integer, its base and its least number of digits, as asked for. *)
Value(f) == IF f.conv \in {"d", "p"} THEN f.v ELSE f.v % 2^IntBits
LeastDigits(f) ==
  IF PrecisionOf(f) >= 0 THEN PrecisionOf(f) ELSE IF f.conv = "p" THEN PtrDigits ELSE 1
Wide(f) == IF f.conv = "p" /\ WidthOf(f) < 0 THEN PtrDigits + 2 ELSE WidthOf(f)
ZeroPads(f) == "0" \in f.flags /\ ~IsLeft(f) /\ PrecisionOf(f) < 0 /\ f.conv # "p"

(* The sign is "-" for negative numbers and as the flags want for others;   *)
(* the mark is there for pointers, and for hexadecimal numbers but 0 if the *)
(* flags want it; octal numbers begin with 0 then.                          *)
MarkedAsAsked(f, t) ==
  LET core == Core(t)
  IN /\ HasSign(core) <=> f.conv = "d" /\ (f.v < 0 \/ "+" \in f.flags)
     /\ HasSign(core) => core[1] = (IF f.v < 0 THEN "-" ELSE "+")
     /\ HasHexMark(Unsigned(core)) <=> \/ f.conv = "p"
                                       \/ f.conv \in {"x", "X"} /\ "#" \in f.flags /\ Value(f) # 0
     /\ f.conv = "o" /\ "#" \in f.flags => Digits(core) # <<>> /\ Digits(core)[1] = "0"

(* Digits read back to the value; the precision gives their least number,   *)
(* and no more zeros are put before them than that, unless they fill the    *)
(* width.                                                                   *)
ReadsBack(f, t) ==
  LET digits == Digits(Core(t))
  IN /\ NumberOf(digits, BaseOf(f), IF f.conv = "X" THEN Upper ELSE Lower) = WithoutSign(Value(f))
     /\ Len(digits) >= LeastDigits(f)
     /\ Len(digits) > LeastDigits(f) /\ digits[1] = "0" =>
          \/ ZeroPads(f) /\ Len(t) = Wide(f)
          \/ f.conv = "o" /\ "#" \in f.flags

(* A space may stand for the sign of a number that is not negative. *)
SpaceSign(f) == f.conv = "d" /\ Blank \in f.flags /\ "+" \notin f.flags /\ f.v >= 0

(* The field is as wide as asked, and wider only if it is not padded; the   *)
(* padding is on the side asked for.                                        *)
FitsWidth(f, t) ==
  LET text == IF SpaceSign(f) THEN Len(Core(t)) + 1 ELSE Len(Core(t))
      ahead == IF SpaceSign(f) THEN 2 ELSE 1
  IN /\ Len(t) >= Wide(f)
     /\ Len(t) > Wide(f) => Len(t) = text
     /\ Len(t) > text => t[IF IsLeft(f) THEN Len(t) ELSE 1] = Blank
     /\ IsLeft(f) /\ Core(t) # <<>> => t[ahead] # Blank
     /\ ~IsLeft(f) /\ Core(t) # <<>> => t[Len(t)] # Blank
     /\ SpaceSign(f) => Blank \in {t[i] : i \in 1 .. Len(t)}

(* A text is cut to the precision. *)
TextAsAsked(f, t) ==
  LET whole == IF f.conv = "s" THEN f.text ELSE <<f.char>>
      cut == Len(Core(t))
  IN /\ Core(t) = SubSeq(whole, 1, cut)
     /\ cut < Len(whole) => cut = PrecisionOf(f)
     /\ f.conv = "s" /\ PrecisionOf(f) >= 0 => cut <= PrecisionOf(f)

Numbers == {"d", "u", "o", "x", "X", "p"}
Fields == Numbers \cup {"s", "c"}

(* The formats that PrintsAsAsked is about: a conversion, one other          *)
(* character, and %n.  Its texts have no spaces of their own, which could    *)
(* not be told from the padding.                                            *)
ASSUME FormatAssumption ==
  \A t \in Format :
    LET f == t[1]
    IN /\ Len(t) = 3 /\ t[2].conv = "plain" /\ t[3].conv = "n"
       /\ f.conv \in Fields =>
            \A w \in {f.width, f.precision} : w \in Seq(Int) /\ Len(w) <= 1
       /\ f.conv \in Numbers => f.v \in Int
       /\ f.conv = "p" => f.v >= 0
       /\ f.conv = "s" => f.text \in Seq(STRING \ {Blank})
       /\ f.conv = "c" => f.char \in STRING \ {Blank}

(* The output of the conversion.                                            *)
Field == printCall.format[1]
Printed == SubSeq(said, 1, Len(said) - 1)

(* Every conversion prints its argument so that it reads back, as wide and  *)
(* as precise as asked for, whatever the combination of flags; the buffer   *)
(* holds as much of it as fits, with a terminator, and the result and %n    *)
(* count the characters that did not fit too, up to the largest int.        *)
PrintsAsAsked ==
  /\ BufferHoldsBeginning
  /\ printed # <<>> =>
       /\ printed[1] = (IF Len(said) > IntLimit THEN IntLimit ELSE Len(said))
       /\ Len(said) <= IntLimit => stored = <<Len(said)>>
       /\ Field.conv \in Fields => FitsWidth(Field, Printed)
       /\ Field.conv \in Numbers => MarkedAsAsked(Field, Printed) /\ ReadsBack(Field, Printed)
       /\ Field.conv \in {"s", "c"} => TextAsAsked(Field, Printed)
=============================================================================
