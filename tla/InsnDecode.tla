----------------------------- MODULE InsnDecode -----------------------------
(***************************************************************************)
(* How the instruction histogram plugin finds the mnemonic of a code word   *)
(* in the opcode table.  A code word is the set of its one bits and its     *)
(* size in bytes; a form of the table is a mask and a match over bit        *)
(* positions.                                                               *)
(***************************************************************************)
EXTENDS Integers, Sequences, FiniteSets

CONSTANTS
  FormTable,      \* linxisa_inst_forms: [length, mask, match, mnemonic]
  Illegal         \* the mnemonic "ILLEGAL"

Fixed(form) == Cardinality(form.mask)

Matches(form, insn) ==
  form.length = 8 * insn.size /\ insn.bits \cap form.mask = form.match

(* Mutant: a later form of the same precision replaces an earlier one. *)
DecodeMnemonic_LastWins(insn) ==
  LET hits == {i \in 1 .. Len(FormTable) : Matches(FormTable[i], insn)}
      best == {i \in hits : \A j \in hits : Fixed(FormTable[i]) >= Fixed(FormTable[j])}
  IN  IF hits = {} THEN Illegal
      ELSE FormTable[CHOOSE i \in best : \A j \in best : i >= j].mnemonic

(* Mutant: the first form that matches is taken. *)
DecodeMnemonic_FirstMatch(insn) ==
  LET hits == {i \in 1 .. Len(FormTable) : Matches(FormTable[i], insn)}
  IN  IF hits = {} THEN Illegal
      ELSE FormTable[CHOOSE i \in hits : \A j \in hits : i <= j].mnemonic

(* decode_mnemonic_from_bytes: of the forms that match, the one that fixes  *)
(* the most bits, the first of those in the table.                          *)
DecodeMnemonic(insn) ==
  LET hits == {i \in 1 .. Len(FormTable) : Matches(FormTable[i], insn)}
      best == {i \in hits : \A j \in hits : Fixed(FormTable[i]) >= Fixed(FormTable[j])}
  IN  IF insn.size \notin 1 .. 8 \/ hits = {} THEN Illegal
      ELSE FormTable[CHOOSE i \in best : \A j \in best : i <= j].mnemonic
=============================================================================
