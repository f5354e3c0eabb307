----------------------------- MODULE CallFrames -----------------------------
(***************************************************************************)
(* What the frame and bulk memory templates promise compiled code: a call   *)
(* saves a range of registers in a frame of its own beside its local bytes, *)
(* what it does to its locals or to registers reaches no other frame, and   *)
(* the return that names the same range gives the registers back.           *)
(***************************************************************************)
EXTENDS Integers, Sequences

CONSTANTS
  Saveable,       \* registers other than zero and sp: integers
  RegValue, Byte

VARIABLES
  regs,           \* the value of each register
  saved,          \* of each frame, the registers it saved, innermost last
  locals          \* of each frame, its local bytes

vars == <<regs, saved, locals>>

Last(s) == s[Len(s)]
ButLast(s) == SubSeq(s, 1, Len(s) - 1)
InRange(b, e) == {r \in Saveable : b <= r /\ r <= e}

Init == saved = <<>> /\ locals = <<>>

(* The locals of a new frame hold any bytes. *)
Enter ==
  /\ \E b, e \in Saveable \cup {0, 1} :
       saved' = Append(saved, [r \in InRange(b, e) |-> regs[r]])
  /\ Len(locals') = Len(locals) + 1 /\ ButLast(locals') = locals
  /\ UNCHANGED regs

Leave ==
  /\ saved # <<>>
  /\ regs' = [r \in Saveable |-> IF r \in DOMAIN Last(saved) THEN Last(saved)[r] ELSE regs[r]]
  /\ saved' = ButLast(saved)
  /\ locals' = ButLast(locals)

Set ==
  /\ \E r \in Saveable, v \in RegValue : regs' = [regs EXCEPT ![r] = v]
  /\ UNCHANGED <<saved, locals>>

(* Bytes d to d + n - 1 of the innermost locals become those of f. *)
Rewrite(d, n, f(_)) ==
  locals' = [locals EXCEPT ![Len(locals)] =
               [i \in DOMAIN Last(locals) |-> IF i \in d .. d + n - 1 THEN f(i - d) ELSE @[i]]]

(* A copy to a higher overlapping place repeats the bytes before it. *)
Copy ==
  /\ locals # <<>> /\ Last(locals) # <<>>
  /\ \E d, s \in DOMAIN Last(locals), n \in 0 .. 1 + Len(Last(locals)) :
       LET Source(j) == Last(locals)[IF d > s THEN s + (j % (d - s)) ELSE s + j]
       IN /\ {d + n - 1, s + n - 1} \subseteq DOMAIN Last(locals) \cup {d - 1, s - 1}
          /\ Rewrite(d, n, Source)
  /\ UNCHANGED <<regs, saved>>

Fill ==
  /\ locals # <<>>
  /\ \E d \in DOMAIN Last(locals), n \in 0 .. 1 + Len(Last(locals)), v \in Byte :
       LET Same(j) == v
       IN d + n - 1 \in DOMAIN Last(locals) \cup {d - 1} /\ Rewrite(d, n, Same)
  /\ UNCHANGED <<regs, saved>>

Next == Enter \/ Leave \/ Set \/ Copy \/ Fill

Spec == Init /\ [][Next]_vars
=============================================================================
