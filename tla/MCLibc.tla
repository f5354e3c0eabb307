------------------------------- MODULE MCLibc -------------------------------
(* The parts of the freestanding C library that a run checks.  They share    *)
(* no state: a behaviour is one of them, and the others wait.                *)
EXTENDS LibcHeap, LibcExit, SoftFloatProps, LibcString, LibcStdioProps

VARIABLE part

libcVars == <<part, heapVars, exitVars, floatVars, stringVars, stdioVars>>

(* A byte that is not 0, unlike those of the heap at first. *)
StoredBytes == {-1}

(* 16 is 0 in its lower half. *)
ExitCodes == {-1, 0, 16}

(* Different bytes at most addresses. *)
Images == {[i \in 0 .. MemSize - 1 |-> ((i * i) % 11) + 1]}

(* Widths and precisions: none, given, and negative by an asterisk. *)
Given(S) == {<<>>} \cup {<<n>> : n \in S}
Widths == Given({1, 6, -4})
Precisions == Given({0, 3, -1})

(* Ends of the type, and numbers of one and of two digits. *)
Number(convs, flags) ==
  [conv : convs, flags : SUBSET flags, width : Widths, precision : Precisions,
   v : {-16, -1, 0, 9, 15}]

Conversions ==
  Number({"d"}, {"-", "+", " ", "0"}) \cup Number({"u"}, {"-", "0"})
    \cup Number({"o", "x", "X"}, {"-", "#", "0"})
    \cup [conv : {"p"}, flags : SUBSET {"-"}, width : Widths, precision : Precisions, v : {0, 10, 165}]
    \cup [conv : {"s"}, flags : SUBSET {"-"}, width : Given({2, 20, -4}), precision : Precisions,
          text : {<<>>, <<"t">>, <<"t", "e", "x", "t">>}]
    \cup [conv : {"c"}, flags : SUBSET {"-"}, width : Widths, precision : {<<>>}, char : {"c"}]
    \cup [conv : {"unknown"}, char : {"q"}]

Semicolon == [conv |-> "plain", char |-> ";"]
StoreCount == [conv |-> "n"]
Items == Conversions \cup {Semicolon, StoreCount}
Formats == {<<f, Semicolon, StoreCount>> : f \in Conversions}

(* snprintf to a buffer of no, one, too few or enough bytes; a null pointer; *)
(* printf.                                                                  *)
Targets ==
  [kind : {"buffer"}, size : {0, 1, 3, 12}]
    \cup {[kind |-> "null", size |-> 3], [kind |-> "uart", size |-> 0]}

(* The buffer and what follows it. *)
Addresses == 0 .. 12

(* Outside its part, a component has this one state. *)
NoCall == call = [fn |-> "none", a |-> 0, b |-> 0] /\ result = <<>>
NoText == /\ strCall = [fn |-> "none", a |-> 0, b |-> 0, n |-> 0]
          /\ before = <<>> /\ after = <<>> /\ returned = <<>>
NoPrint == /\ printCall = [format |-> <<>>, to |-> [kind |-> "null", size |-> 0]]
           /\ items = <<>> /\ todo = <<>> /\ buf = [a \in BufAddr |-> Untouched]
           /\ pos = 0 /\ count = 0 /\ said = <<>> /\ stored = <<>> /\ printed = <<>>

LibcInit ==
  /\ part \in {"heap", "exit", "float", "string", "print"}
  /\ HeapInit /\ ExitInit
  /\ IF part = "float" THEN FloatInit ELSE NoCall
  /\ IF part = "string" THEN StringInit ELSE NoText
  /\ IF part = "print" THEN StdioInit ELSE NoPrint

HeapPart ==
  part = "heap" /\ HeapNext /\ UNCHANGED <<part, exitVars, floatVars, stringVars, stdioVars>>
ExitPart ==
  part = "exit" /\ ExitNext /\ UNCHANGED <<part, heapVars, floatVars, stringVars, stdioVars>>
FloatPart ==
  part = "float" /\ FloatReturn /\ UNCHANGED <<part, heapVars, exitVars, stringVars, stdioVars>>
StringPart ==
  part = "string" /\ StringReturn /\ UNCHANGED <<part, heapVars, exitVars, floatVars, stdioVars>>
PrintPart ==
  part = "print" /\ StdioNext /\ UNCHANGED <<part, heapVars, exitVars, floatVars, stringVars>>

LibcNext == HeapPart \/ ExitPart \/ FloatPart \/ StringPart \/ PrintPart

LibcSpec == LibcInit /\ [][LibcNext]_libcVars /\ ExitFairness

(* The types of the heap and of the table of handlers. *)
LibcTypeOK == HeapTypeOK /\ ExitTypeOK
=============================================================================
