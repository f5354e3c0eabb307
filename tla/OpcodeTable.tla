---------------------------- MODULE OpcodeTable ----------------------------
(***************************************************************************)
(* The opcode table of isa/generated/codecs/linxisa_opcodes.c, which        *)
(* tools/isa/gen_c_codec.py generates: 740 forms, each a mask and a match   *)
(* over 16-bit parcels, the lowest first; 2611 fields, each a width and the *)
(* number of its pieces; 3344 pieces, each a position in the instruction, a *)
(* width and a position in the value.  As in the C file the three arrays    *)
(* are separate and tied only by positions: a form names its first field by *)
(* a position in the fields, a field its first piece likewise.              *)
(* Identifiers, assembly templates, field names and sign hints are left out.*)
(*                                                                          *)
(* Neighbouring forms use few distinct layouts.  PieceRun and FieldRun list *)
(* the distinct runs of rows that one form owns, in the order of their      *)
(* first use, and the arrays are written as the numbers of their runs; Mask *)
(* lists the distinct masks.                                                *)
(***************************************************************************)
EXTENDS Integers, Sequences, SequencesExt

(* Distinct masks. *)
Mask == <<
  <<\hffff, \hff0f>>, <<\h707f, 0>>, <<\h7f, 0>>, <<\h7fff, \hfff0>>,
  <<\hffff, \hffff>>, <<\hf07f, \hffff>>, <<\h7fff, 0>>, <<\h7fff, \h8>>,
  <<\h707f, \h600>>, <<\h707f, \h803f>>, <<\hffff, \hc03f>>, <<\hf, \hf83f>>,
  <<\hffff, \h7ff>>, <<\hffff, \h60f>>, <<\hffff, \hf9ff>>, <<\h7fff, \h600>>,
  <<\h3f>>, <<\hc03f>>, <<\hf>>, <<\hc7ff>>, <<\hffff>>, <<\hf83f>>,
  <<\h707f, \hf800>>, <<\h707f, \hfe00>>, <<\hffff, \hf0ff>>, <<\h707f, \hf9f0>>,
  <<\h707f, \h1f0>>, <<\hffff, \hf00f>>, <<\hf, \h707f, 0>>, <<\hf, \h7f, 0>>,
  <<\hf, \h707f, \hfe00>>, <<\h7f, 0, \hf83f>>, <<\hf, \h7fff, 0>>,
  <<\hf83f, \h707f, \hf000>>, <<\h7ff, \h707f, 0>>, <<\h7ff, \h707f, \hfe00>>,
  <<\h3f, \h707f, 0>>, <<\h7ff, \h707f, \h600>>, <<\h7ff, \h7fff, 0>>,
  <<\h3f, \h7fff, 0>>, <<\hffff, \h707f, \he000>>, <<\h7ff, \h707f, \hf800>>,
  <<\hffff, \h707f, \hf000>>, <<\hf83f, \h7fff, 0>>, <<\hf, \hfff, 0>>,
  <<\hf, \hf07f, \hf>>, <<\h707f, \hf000>>, <<\hf07f, \hf>>, <<\h7fff, \hf400>>,
  <<\h7fff, \hf800>>, <<\hfff, 0>>, <<\h707f, \hfc00>>,
  <<\h707f, \hfe00, \h707f, 0>>, <<\h707f, \hfff0, \h707f, 0>>,
  <<\h707f, \hfe00, \h707f, \hfe00>>, <<\h707f, \h600, \h707f, 0>>,
  <<\h707f, \hfff0, \h707f, \hfff0>>, <<\h707f, \hfff0, \h707f, \h600>>,
  <<\h707f, \h600, \h707f, \h600>>, <<\h207f, \hfe00, \h707f, \h600>>,
  <<\h207f, 0, \h707f, 0>>, <<\h707f, \hfc00, \h707f, \hf800>>,
  <<\h207f, \h600, \h7fff, \h600>>, <<\h7fff, \hf800, \h7fff, \hfc00>>,
  <<\h707f, \h7f0, \h707f, \h7f0>>, <<\h707f, \h1f0, \h707f, \h1f0>>,
  <<\h707f, 0, \h707f, 0>>, <<\h707f, \hfff0, \h707f, \hfc00>> >>

P(lsb, width, value) == [lsb |-> lsb, width |-> width, value |-> value]
F(width, count) == [width |-> width, count |-> count]

(* A row: mnemonic, number of the mask, field_start, field_count, parcels   *)
(* of the match.                                                            *)
InstForm(row) ==
  LET match == SubSeq(row, 5, Len(row))
  IN  [mnemonic |-> row[1], length |-> 16 * Len(match), mask |-> Mask[row[2]],
       match |-> match, start |-> row[3], count |-> row[4]]

Rows(run, numbers) == FlattenSeq([i \in 1 .. Len(numbers) |-> run[numbers[i]]])

(* Distinct runs of pieces. *)
PieceRun == <<
  <<P(20, 4, 0)>>,
  <<P(7, 5, 0), P(15, 5, 0), P(20, 5, 0), P(25, 2, 0), P(27, 5, 0)>>,
  <<P(7, 5, 0), P(15, 5, 0), P(20, 12, 0)>>, <<P(7, 5, 0), P(12, 20, 0)>>,
  <<P(15, 5, 0)>>, <<>>, <<P(7, 5, 0)>>,
  <<P(26, 1, 0), P(29, 1, 0), P(30, 1, 0), P(27, 1, 0), P(15, 11, 0), P(28, 1,
  0), P(31, 1, 0)>>,
  <<P(25, 3, 0), P(7, 5, 0), P(20, 5, 0), P(15, 5, 0), P(28, 3, 0), P(31, 1,
  0)>>,
  <<P(15, 5, 0), P(20, 12, 0), P(7, 5, 12)>>,
  <<P(15, 5, 0), P(20, 5, 0), P(25, 7, 0), P(7, 5, 7)>>,
  <<P(16, 1, 0), P(15, 1, 0), P(20, 12, 0), P(17, 2, 0)>>,
  <<P(15, 1, 0), P(16, 16, 0)>>,
  <<P(7, 5, 0), P(15, 5, 0), P(20, 5, 0), P(27, 5, 0)>>,
  <<P(22, 3, 0), P(29, 1, 0), P(30, 1, 0), P(7, 5, 0), P(15, 1, 5), P(25, 4,
  0)>>,
  <<P(22, 3, 0), P(29, 1, 0), P(30, 1, 0), P(31, 1, 0), P(7, 5, 0), P(15, 1,
  5), P(16, 6, 0), P(25, 4, 0)>>,
  <<P(22, 3, 0), P(29, 1, 0), P(25, 4, 0)>>, <<P(15, 17, 0), P(7, 5, 17)>>,
  <<P(7, 25, 0)>>, <<P(7, 5, 0), P(15, 5, 0), P(20, 6, 0), P(26, 6, 0)>>,
  <<P(4, 12, 0), P(22, 5, 0)>>, <<P(27, 5, 0)>>, <<P(27, 5, 0), P(20, 5, 0)>>,
  <<P(15, 17, 0)>>, <<P(25, 2, 0)>>, <<P(27, 5, 0), P(15, 10, 0)>>,
  <<P(6, 5, 0), P(11, 5, 0)>>, <<P(11, 3, 0), P(6, 5, 0)>>,
  <<P(14, 2, 0), P(6, 8, 0)>>, <<P(4, 12, 0)>>, <<P(11, 3, 0)>>,
  <<P(6, 5, 0)>>, <<P(11, 5, 0), P(6, 5, 0)>>,
  <<P(7, 5, 0), P(15, 5, 0), P(20, 5, 0), P(25, 2, 0)>>,
  <<P(7, 5, 0), P(15, 5, 0), P(27, 5, 0), P(20, 5, 0), P(25, 2, 0)>>,
  <<P(7, 5, 0), P(15, 5, 0), P(20, 5, 0)>>, <<P(24, 4, 0)>>,
  <<P(15, 5, 0), P(20, 5, 0), P(27, 5, 0)>>,
  <<P(7, 5, 0), P(15, 5, 0), P(25, 2, 0)>>,
  <<P(27, 5, 0), P(7, 5, 0), P(15, 5, 0), P(25, 2, 0)>>,
  <<P(24, 4, 0), P(20, 4, 0)>>,
  <<P(15, 5, 0), P(20, 5, 0), P(25, 7, 3), P(7, 5, 10)>>,
  <<P(7, 5, 0), P(27, 5, 0), P(15, 5, 0), P(20, 5, 0), P(25, 2, 0)>>,
  <<P(23, 5, 0), P(31, 5, 0), P(36, 12, 0), P(4, 12, 12)>>,
  <<P(23, 5, 0), P(28, 20, 0), P(4, 12, 20)>>,
  <<P(23, 5, 0), P(31, 5, 0), P(36, 5, 0), P(4, 6, 0), P(10, 6, 0)>>,
  <<P(7, 25, 0), P(38, 5, 0)>>, <<P(31, 17, 1), P(4, 12, 18)>>,
  <<P(23, 5, 0), P(6, 5, 0), P(31, 5, 0), P(36, 5, 0), P(42, 1, 0), P(43, 1,
  0), P(41, 1, 0)>>,
  <<P(23, 5, 0), P(11, 5, 0), P(31, 5, 0), P(36, 5, 0), P(41, 7, 0)>>,
  <<P(23, 5, 0), P(11, 5, 0), P(31, 5, 0), P(36, 5, 0)>>,
  <<P(23, 5, 0), P(31, 17, 0), P(4, 12, 17)>>,
  <<P(23, 5, 0), P(11, 5, 0), P(31, 5, 0), P(36, 5, 0), P(41, 2, 0), P(43, 5,
  0)>>,
  <<P(23, 5, 0), P(31, 5, 0), P(36, 12, 0), P(6, 10, 12)>>,
  <<P(23, 5, 0), P(11, 5, 0), P(31, 5, 0), P(36, 12, 0), P(6, 5, 12)>>,
  <<P(23, 5, 0), P(11, 5, 0), P(43, 5, 0), P(31, 5, 0), P(36, 5, 0)>>,
  <<P(23, 5, 0), P(31, 5, 0), P(36, 5, 0), P(41, 7, 0), P(4, 12, 7)>>,
  <<P(31, 5, 0), P(36, 5, 0), P(41, 2, 0), P(11, 5, 0), P(43, 5, 0)>>,
  <<P(23, 5, 0), P(31, 5, 0), P(36, 5, 0), P(41, 2, 0), P(11, 5, 0), P(43, 5,
  0)>>,
  <<P(31, 5, 0), P(11, 5, 0), P(36, 12, 0), P(6, 5, 12)>>,
  <<P(23, 5, 0), P(31, 5, 0), P(11, 5, 0), P(36, 12, 0), P(6, 5, 12)>>,
  <<P(23, 5, 0), P(31, 5, 0), P(36, 5, 0), P(41, 1, 0), P(44, 1, 0), P(42, 1,
  0), P(43, 1, 0)>>,
  <<P(23, 5, 0), P(11, 5, 0), P(31, 5, 0), P(36, 5, 0), P(41, 1, 0), P(42, 1,
  0)>>,
  <<P(23, 5, 0), P(31, 5, 0), P(36, 5, 0), P(41, 1, 0), P(43, 1, 0), P(42, 1,
  0)>>,
  <<P(31, 5, 0), P(36, 12, 0), P(23, 5, 12), P(4, 12, 17)>>,
  <<P(11, 5, 0), P(43, 5, 0), P(31, 5, 0), P(36, 5, 0), P(41, 2, 0)>>,
  <<P(31, 5, 0), P(36, 5, 0), P(41, 7, 0), P(23, 5, 7), P(6, 10, 12)>>,
  <<P(11, 5, 0), P(31, 5, 0), P(36, 5, 0), P(41, 7, 0), P(23, 5, 7), P(6, 5,
  12)>>,
  <<P(31, 5, 0), P(6, 5, 0), P(36, 5, 0), P(41, 7, 0), P(23, 5, 7), P(11, 5,
  12)>>,
  <<P(43, 5, 0), P(6, 5, 0), P(31, 5, 0), P(36, 5, 0), P(41, 2, 0)>>,
  <<P(31, 5, 0), P(23, 5, 0), P(36, 12, 0), P(4, 12, 12)>>,
  <<P(28, 20, 0), P(4, 12, 20)>>, <<P(23, 5, 0), P(36, 12, 0), P(4, 12, 12)>>,
  <<P(36, 12, 0), P(4, 12, 12), P(31, 5, 0)>>, <<P(7, 5, 0), P(15, 17, 0)>>,
  <<P(7, 5, 0), P(15, 5, 0), P(20, 5, 0), P(26, 1, 0), P(27, 1, 0), P(25, 1,
  0)>>,
  <<P(20, 12, 0), P(7, 5, 0)>>,
  <<P(7, 5, 0), P(27, 5, 0), P(15, 5, 0), P(20, 5, 0)>>,
  <<P(27, 5, 0), P(15, 5, 0), P(20, 5, 0), P(25, 2, 0)>>,
  <<P(15, 5, 0), P(20, 5, 0), P(27, 1, 0), P(25, 1, 0)>>,
  <<P(15, 5, 0), P(20, 5, 0), P(25, 2, 0)>>,
  <<P(15, 5, 0), P(7, 5, 0), P(20, 12, 0)>>, <<P(12, 20, 0)>>,
  <<P(7, 5, 0), P(15, 5, 0), P(20, 6, 0)>>, <<P(7, 5, 0), P(20, 12, 0)>>,
  <<P(20, 12, 0), P(15, 5, 0)>>, <<P(7, 5, 0), P(20, 12, 0), P(15, 5, 0)>>,
  <<P(39, 5, 0), P(7, 5, 5), P(47, 5, 0), P(15, 5, 5), P(52, 5, 0), P(20, 5,
  5), P(57, 2, 0), P(59, 5, 0)>>,
  <<P(39, 5, 0), P(7, 5, 5), P(47, 5, 0), P(15, 5, 5), P(52, 12, 0)>>,
  <<P(39, 5, 0), P(7, 5, 5), P(47, 5, 0), P(15, 5, 5), P(52, 6, 0), P(58, 6,
  0)>>,
  <<P(39, 5, 0), P(7, 5, 5), P(47, 5, 0), P(15, 5, 5), P(52, 5, 0), P(20, 5,
  5)>>,
  <<P(39, 5, 0), P(7, 5, 5), P(47, 5, 0), P(15, 5, 5), P(59, 5, 0), P(27, 5,
  5), P(52, 5, 0), P(20, 5, 5), P(57, 2, 0)>>,
  <<P(39, 5, 0), P(7, 5, 5), P(47, 5, 0), P(15, 5, 5)>>,
  <<P(59, 5, 0), P(39, 5, 0), P(7, 5, 5), P(47, 5, 0), P(15, 5, 5), P(52, 5,
  0)>>,
  <<P(39, 5, 0), P(7, 5, 5), P(59, 5, 0), P(27, 5, 5), P(47, 5, 0), P(15, 5,
  5), P(52, 5, 0), P(20, 5, 5)>>,
  <<P(12, 1, 0), P(14, 1, 0), P(39, 5, 0), P(7, 5, 5), P(47, 5, 0), P(15, 5,
  5), P(52, 5, 0), P(20, 5, 5), P(59, 5, 0)>>,
  <<P(12, 1, 0), P(14, 1, 0), P(39, 5, 0), P(7, 5, 5), P(47, 5, 0), P(15, 5,
  5), P(52, 12, 0), P(20, 12, 12)>>,
  <<P(39, 5, 0), P(7, 5, 5), P(47, 5, 0), P(15, 5, 5), P(52, 5, 0), P(20, 5,
  5), P(58, 1, 0), P(25, 1, 0), P(57, 1, 0)>>,
  <<P(39, 5, 0), P(7, 5, 5), P(47, 5, 0), P(15, 5, 5), P(52, 5, 0), P(20, 5,
  5), P(57, 2, 0), P(59, 5, 0), P(27, 5, 5)>>,
  <<P(12, 1, 0), P(14, 1, 0), P(59, 5, 0), P(27, 5, 5), P(47, 5, 0), P(15, 5,
  5), P(52, 5, 0), P(20, 5, 5), P(7, 5, 0)>>,
  <<P(12, 1, 0), P(14, 1, 0), P(47, 5, 0), P(15, 5, 5), P(52, 5, 0), P(20, 5,
  5), P(57, 7, 0), P(39, 5, 7), P(25, 7, 12), P(7, 5, 19)>>,
  <<P(47, 5, 0), P(15, 5, 5), P(52, 5, 0), P(20, 5, 5), P(25, 1, 0), P(26, 1,
  0), P(57, 1, 0)>>,
  <<P(39, 5, 0), P(7, 5, 5), P(47, 5, 0), P(15, 5, 5), P(59, 5, 0), P(27, 5,
  5)>>,
  <<P(39, 5, 0), P(7, 5, 5), P(47, 5, 0), P(15, 5, 5), P(59, 5, 0), P(27, 5,
  5), P(52, 5, 0), P(20, 5, 5)>>,
  <<P(39, 5, 0), P(7, 5, 5), P(47, 5, 0), P(15, 5, 5), P(57, 7, 0), P(25, 7,
  7)>>,
  <<P(39, 5, 0), P(7, 5, 5), P(47, 5, 0), P(15, 5, 5), P(52, 5, 0), P(20, 5,
  5), P(57, 7, 0), P(25, 7, 7)>>,
  <<P(39, 5, 0), P(7, 5, 5), P(47, 5, 0), P(15, 5, 5), P(52, 6, 0)>>,
  <<P(15, 10, 0), P(25, 7, 0)>> >>

(* Distinct runs of fields. *)
FieldRun == <<
  <<F(4, 1)>>, <<F(5, 1), F(5, 1), F(5, 1), F(2, 1), F(5, 1)>>,
  <<F(5, 1), F(5, 1), F(12, 1)>>, <<F(5, 1), F(20, 1)>>, <<F(5, 1)>>, <<>>,
  <<F(1, 1), F(1, 1), F(1, 1), F(1, 1), F(11, 1), F(1, 1), F(1, 1)>>,
  <<F(3, 1), F(5, 1), F(5, 1), F(5, 1), F(3, 1), F(1, 1)>>,
  <<F(5, 1), F(17, 2)>>, <<F(5, 1), F(5, 1), F(12, 2)>>,
  <<F(1, 1), F(1, 1), F(12, 1), F(2, 1)>>, <<F(1, 1), F(16, 1)>>,
  <<F(5, 1), F(5, 1), F(5, 1), F(5, 1)>>,
  <<F(3, 1), F(1, 1), F(1, 1), F(6, 2), F(4, 1)>>,
  <<F(3, 1), F(1, 1), F(1, 1), F(1, 1), F(6, 2), F(6, 1), F(4, 1)>>,
  <<F(3, 1), F(1, 1), F(4, 1)>>, <<F(22, 2)>>, <<F(25, 1)>>,
  <<F(5, 1), F(5, 1), F(6, 1), F(6, 1)>>, <<F(12, 1), F(5, 1)>>,
  <<F(5, 1), F(5, 1)>>, <<F(17, 1)>>, <<F(2, 1)>>, <<F(5, 1), F(10, 1)>>,
  <<F(3, 1), F(5, 1)>>, <<F(2, 1), F(8, 1)>>, <<F(12, 1)>>, <<F(3, 1)>>,
  <<F(5, 1), F(5, 1), F(5, 1), F(2, 1)>>,
  <<F(5, 1), F(5, 1), F(5, 1), F(5, 1), F(2, 1)>>,
  <<F(5, 1), F(5, 1), F(5, 1)>>, <<F(5, 1), F(5, 1), F(2, 1)>>,
  <<F(4, 1), F(4, 1)>>, <<F(5, 1), F(5, 1), F(15, 2)>>,
  <<F(5, 1), F(5, 1), F(24, 2)>>, <<F(5, 1), F(32, 2)>>,
  <<F(5, 1), F(5, 1), F(5, 1), F(6, 1), F(6, 1)>>, <<F(25, 1), F(5, 1)>>,
  <<F(30, 2)>>,
  <<F(5, 1), F(5, 1), F(5, 1), F(5, 1), F(1, 1), F(1, 1), F(1, 1)>>,
  <<F(5, 1), F(5, 1), F(5, 1), F(5, 1), F(7, 1)>>, <<F(5, 1), F(29, 2)>>,
  <<F(5, 1), F(5, 1), F(5, 1), F(5, 1), F(2, 1), F(5, 1)>>,
  <<F(5, 1), F(5, 1), F(22, 2)>>, <<F(5, 1), F(5, 1), F(5, 1), F(17, 2)>>,
  <<F(5, 1), F(5, 1), F(5, 1), F(5, 1), F(5, 1)>>,
  <<F(5, 1), F(5, 1), F(5, 1), F(19, 2)>>,
  <<F(5, 1), F(5, 1), F(2, 1), F(5, 1), F(5, 1)>>,
  <<F(5, 1), F(5, 1), F(5, 1), F(2, 1), F(5, 1), F(5, 1)>>,
  <<F(5, 1), F(5, 1), F(17, 2)>>,
  <<F(5, 1), F(5, 1), F(5, 1), F(1, 1), F(1, 1), F(1, 1), F(1, 1)>>,
  <<F(5, 1), F(5, 1), F(5, 1), F(5, 1), F(1, 1), F(1, 1)>>,
  <<F(5, 1), F(5, 1), F(5, 1), F(1, 1), F(1, 1), F(1, 1)>>,
  <<F(5, 1), F(29, 3)>>, <<F(5, 1), F(5, 1), F(22, 3)>>,
  <<F(5, 1), F(5, 1), F(5, 1), F(17, 3)>>, <<F(32, 2)>>, <<F(5, 1), F(24, 2)>>,
  <<F(24, 2), F(5, 1)>>, <<F(5, 1), F(17, 1)>>,
  <<F(5, 1), F(5, 1), F(1, 1), F(1, 1)>>, <<F(20, 1)>>,
  <<F(5, 1), F(5, 1), F(6, 1)>>, <<F(5, 1), F(12, 1)>>,
  <<F(5, 1), F(12, 1), F(5, 1)>>,
  <<F(10, 2), F(10, 2), F(10, 2), F(2, 1), F(5, 1)>>,
  <<F(10, 2), F(10, 2), F(12, 1)>>, <<F(10, 2), F(10, 2), F(6, 1), F(6, 1)>>,
  <<F(10, 2), F(10, 2), F(10, 2)>>,
  <<F(10, 2), F(10, 2), F(10, 2), F(10, 2), F(2, 1)>>, <<F(10, 2), F(10, 2)>>,
  <<F(5, 1), F(10, 2), F(10, 2), F(5, 1)>>,
  <<F(10, 2), F(10, 2), F(10, 2), F(10, 2)>>,
  <<F(1, 1), F(1, 1), F(10, 2), F(10, 2), F(10, 2), F(5, 1)>>,
  <<F(1, 1), F(1, 1), F(10, 2), F(10, 2), F(24, 2)>>,
  <<F(10, 2), F(10, 2), F(10, 2), F(1, 1), F(1, 1), F(1, 1)>>,
  <<F(10, 2), F(10, 2), F(10, 2), F(2, 1), F(10, 2)>>,
  <<F(1, 1), F(1, 1), F(10, 2), F(10, 2), F(24, 4)>>,
  <<F(10, 2), F(10, 2), F(1, 1), F(1, 1), F(1, 1)>>,
  <<F(10, 2), F(10, 2), F(14, 2)>>, <<F(10, 2), F(10, 2), F(10, 2), F(14, 2)>>,
  <<F(10, 2), F(10, 2), F(6, 1)>>, <<F(10, 1), F(7, 1)>> >>

(* of the forms 1 to 58 *)
Pieces_1 ==
  <<1, 1, 2, 3, 3, 4, 2, 2, 3, 3, 2, 5, 6, 7, 6, 6, 6, 6, 8, 9, 10, 10, 10,
  11, 11, 11, 12, 13, 14, 14, 15, 16, 17, 11, 11, 11, 18, 19, 18, 6, 5, 20,
  20, 20, 5, 19, 19, 21, 22, 23, 23, 24, 24, 24, 24, 24, 24, 24>>

(* of the forms 59 to 141 *)
Pieces_2 ==
  <<25, 25, 26, 24, 24, 24, 24, 24, 24, 24, 24, 26, 22, 23, 22, 22, 22, 22,
  25, 25, 6, 5, 5, 5, 20, 20, 27, 27, 27, 28, 29, 30, 30, 31, 6, 6, 31, 6, 6,
  6, 6, 32, 32, 32, 27, 27, 33, 33, 27, 27, 27, 27, 32, 32, 32, 32, 32, 32,
  32, 32, 27, 27, 32, 32, 32, 20, 34, 3, 34, 3, 34, 3, 34, 3, 34, 3, 34, 3,
  34, 3, 34, 3, 35>>

(* of the forms 142 to 188 *)
Pieces_3 ==
  <<20, 5, 5, 5, 5, 6, 5, 5, 5, 36, 36, 36, 36, 37, 38, 38, 39, 34, 40, 40,
  40, 40, 40, 40, 34, 41, 6, 42, 34, 34, 42, 39, 34, 34, 34, 34, 43, 34, 34,
  43, 34, 34, 34, 43, 43, 39, 42>>

(* of the forms 189 to 227 *)
Pieces_4 ==
  <<42, 39, 34, 44, 44, 45, 44, 44, 46, 47, 48, 48, 48, 48, 48, 48, 48, 48,
  48, 49, 49, 49, 49, 50, 50, 44, 44, 44, 44, 44, 44, 44, 44, 51, 51, 51, 51,
  52, 53>>

(* of the forms 228 to 257 *)
Pieces_5 ==
  <<53, 54, 55, 55, 55, 53, 52, 53, 53, 54, 55, 55, 55, 53, 52, 53, 53, 54,
  55, 55, 54, 55, 55, 55, 55, 53, 52, 53, 53, 54>>

(* of the forms 258 to 288 *)
Pieces_6 ==
  <<55, 55, 54, 55, 55, 55, 55, 53, 52, 53, 53, 54, 55, 55, 54, 55, 55, 55,
  55, 53, 45, 45, 45, 52, 53, 53, 54, 55, 55, 54, 55>>

(* of the forms 289 to 318 *)
Pieces_7 ==
  <<55, 55, 55, 53, 52, 53, 53, 54, 55, 55, 54, 55, 55, 55, 55, 53, 56, 56,
  57, 57, 51, 51, 44, 44, 58, 59, 60, 61, 62, 63>>

(* of the forms 319 to 347 *)
Pieces_8 ==
  <<64, 51, 51, 51, 51, 65, 66, 66, 67, 68, 68, 69, 70, 65, 66, 66, 66, 66,
  67, 68, 68, 67, 68, 68, 69, 69, 70, 70, 71>>

(* of the forms 348 to 379 *)
Pieces_9 ==
  <<71, 71, 71, 71, 71, 71, 71, 72, 65, 66, 66, 66, 66, 67, 68, 68, 67, 68,
  68, 69, 69, 70, 70, 73, 74, 44, 44, 65, 66, 66, 66, 66>>

(* of the forms 380 to 412 *)
Pieces_10 ==
  <<67, 68, 68, 67, 68, 68, 69, 69, 70, 70, 44, 44, 6, 5, 18, 11, 2, 75, 3, 2,
  75, 3, 2, 76, 76, 76, 75, 76, 76, 76, 76, 76, 3>>

(* of the forms 413 to 448 *)
Pieces_11 ==
  <<3, 2, 75, 3, 3, 2, 75, 3, 3, 76, 76, 76, 76, 77, 4, 2, 76, 76, 76, 75, 76,
  76, 76, 76, 76, 3, 3, 2, 75, 3, 3, 78, 78, 36, 36, 38>>

(* of the forms 449 to 486 *)
Pieces_12 ==
  <<36, 36, 38, 36, 36, 36, 36, 2, 3, 3, 2, 2, 3, 36, 36, 36, 36, 20, 79, 10,
  11, 76, 76, 76, 76, 40, 79, 80, 80, 80, 10, 80, 80, 79, 80, 80, 80, 11>>

(* of the forms 487 to 533 *)
Pieces_13 ==
  <<11, 81, 82, 81, 82, 81, 82, 81, 82, 81, 82, 81, 82, 81, 82, 81, 82, 5, 83,
  79, 10, 79, 11, 11, 36, 84, 36, 36, 36, 84, 36, 36, 36, 84, 36, 36, 85, 86,
  87, 2, 3, 3, 2, 79, 80, 80, 80>>

(* of the forms 534 to 565 *)
Pieces_14 ==
  <<10, 80, 80, 79, 80, 80, 80, 76, 76, 76, 76, 11, 11, 5, 6, 5, 5, 40, 88,
  89, 88, 89, 90, 90, 90, 90, 90, 90, 91, 89, 91, 89>>

(* of the forms 566 to 591 *)
Pieces_15 ==
  <<91, 89, 91, 89, 91, 89, 91, 89, 91, 89, 91, 89, 92, 90, 91, 93, 91, 93,
  94, 94, 91, 91, 91, 93, 91, 91>>

(* of the forms 592 to 612 *)
Pieces_16 ==
  <<91, 91, 95, 91, 91, 95, 91, 91, 91, 95, 95, 93, 93, 91, 94, 94, 96, 96,
  97, 97, 96>>

(* of the forms 613 to 629 *)
Pieces_17 ==
  <<96, 97, 97, 96, 98, 98, 96, 98, 98, 98, 98, 97, 97, 97, 97, 96, 96>>

(* of the forms 630 to 646 *)
Pieces_18 ==
  <<97, 97, 97, 97, 96, 96, 97, 97, 97, 97, 96, 98, 98, 96, 98, 98, 98>>

(* of the forms 647 to 666 *)
Pieces_19 ==
  <<98, 97, 97, 97, 97, 96, 96, 97, 97, 97, 97, 95, 91, 91, 91, 88, 89, 99,
  93, 91>>

(* of the forms 667 to 689 *)
Pieces_20 ==
  <<93, 93, 93, 93, 93, 93, 93, 93, 93, 91, 90, 100, 100, 101, 101, 100, 102,
  102, 100, 102, 102, 102, 100>>

(* of the forms 690 to 706 *)
Pieces_21 ==
  <<100, 102, 101, 101, 101, 101, 100, 100, 100, 100, 103, 104, 104, 104, 105,
  106, 106>>

(* of the forms 707 to 726 *)
Pieces_22 ==
  <<106, 101, 101, 101, 101, 91, 107, 91, 107, 91, 107, 88, 89, 100, 102, 102,
  100, 102, 102, 102>>

(* of the forms 727 to 740 *)
Pieces_23 ==
  <<100, 100, 102, 101, 101, 101, 101, 88, 89, 108, 2, 3, 3, 2>>

(* Fields whose first row has its piece_start at first: the pieces of a     *)
(* row follow those of the row before it.                                   *)
FieldRows(first, numbers) ==
  LET rows == Rows(FieldRun, numbers)
      start[i \in 1 .. Len(rows)] ==
        IF i = 1 THEN first ELSE start[i - 1] + rows[i - 1].count
  IN  [i \in 1 .. Len(rows) |->
         [width |-> rows[i].width, start |-> start[i], count |-> rows[i].count]]

(* of the forms 1 to 69 *)
Fields_1 == [first |-> 0, runs |->
  <<1, 1, 2, 3, 3, 4, 2, 2, 3, 3, 2, 5, 6, 5, 6, 6, 6, 6, 7, 8, 9, 9, 9, 10,
  10, 10, 11, 12, 13, 13, 14, 15, 16, 10, 10, 10, 17, 18, 17, 6, 5, 19, 19,
  19, 5, 18, 18, 20, 5, 21, 21, 22, 22, 22, 22, 22, 22, 22, 23, 23, 24, 22,
  22, 22, 22, 22, 22, 22, 22>>]

(* of the forms 70 to 151 *)
Fields_2 == [first |-> 162, runs |->
  <<24, 5, 21, 5, 5, 5, 5, 23, 23, 6, 5, 5, 5, 19, 19, 21, 21, 21, 25, 26, 27,
  27, 28, 6, 6, 28, 6, 6, 6, 6, 5, 5, 5, 21, 21, 21, 21, 21, 21, 21, 21, 5, 5,
  5, 5, 5, 5, 5, 5, 21, 21, 5, 5, 5, 19, 29, 3, 29, 3, 29, 3, 29, 3, 29, 3,
  29, 3, 29, 3, 29, 3, 30, 19, 5, 5, 5, 5, 6, 5, 5, 5, 31>>]

(* of the forms 152 to 194 *)
Fields_3 == [first |-> 311, runs |->
  <<31, 31, 31, 1, 31, 31, 32, 29, 29, 29, 29, 29, 29, 29, 29, 33, 6, 34, 29,
  29, 34, 32, 29, 29, 29, 29, 30, 29, 29, 30, 29, 29, 29, 30, 30, 32, 34, 34,
  32, 29, 35, 35, 36>>]

(* of the forms 195 to 236 *)
Fields_4 == [first |-> 468, runs |->
  <<35, 35, 37, 38, 39, 39, 39, 39, 39, 39, 39, 39, 39, 40, 40, 40, 40, 41,
  41, 35, 35, 35, 35, 35, 35, 35, 35, 13, 13, 13, 13, 42, 43, 43, 44, 45, 45,
  45, 43, 42, 43, 43>>]

(* of the forms 237 to 272 *)
Fields_5 == [first |-> 642, runs |->
  <<44, 45, 45, 45, 43, 42, 43, 43, 44, 45, 45, 44, 45, 45, 45, 45, 43, 42,
  43, 43, 44, 45, 45, 44, 45, 45, 45, 45, 43, 42, 43, 43, 44, 45, 45, 44>>]

(* of the forms 273 to 309 *)
Fields_6 == [first |-> 818, runs |->
  <<45, 45, 45, 45, 43, 36, 36, 36, 42, 43, 43, 44, 45, 45, 44, 45, 45, 45,
  45, 43, 42, 43, 43, 44, 45, 45, 44, 45, 45, 45, 45, 43, 46, 46, 47, 47, 13>>]

(* of the forms 310 to 344 *)
Fields_7 == [first |-> 995, runs |->
  <<13, 35, 35, 48, 49, 50, 45, 51, 52, 53, 13, 13, 13, 13, 54, 30, 30, 55,
  56, 56, 56, 30, 54, 30, 30, 30, 30, 55, 56, 56, 55, 56, 56, 56, 56>>]

(* of the forms 345 to 384 *)
Fields_8 == [first |-> 1174, runs |->
  <<30, 30, 35, 35, 35, 35, 35, 35, 35, 35, 57, 54, 30, 30, 30, 30, 55, 56,
  56, 55, 56, 56, 56, 56, 30, 30, 58, 59, 35, 35, 54, 30, 30, 30, 30, 55, 56,
  56, 55, 56>>]

(* of the forms 385 to 422 *)
Fields_9 == [first |-> 1364, runs |->
  <<56, 56, 56, 30, 30, 35, 35, 6, 5, 17, 10, 2, 60, 3, 2, 60, 3, 2, 53, 53,
  53, 60, 53, 53, 53, 53, 53, 3, 3, 2, 60, 3, 3, 2, 60, 3, 3, 53>>]

(* of the forms 423 to 459 *)
Fields_10 == [first |-> 1520, runs |->
  <<53, 53, 53, 20, 4, 2, 53, 53, 53, 60, 53, 53, 53, 53, 53, 3, 3, 2, 60, 3,
  3, 13, 13, 31, 31, 31, 31, 31, 31, 31, 31, 31, 31, 2, 3, 3, 2>>]

(* of the forms 460 to 500 *)
Fields_11 == [first |-> 1670, runs |->
  <<2, 3, 31, 31, 31, 31, 19, 29, 9, 10, 53, 53, 53, 53, 29, 29, 61, 61, 61,
  9, 61, 61, 29, 61, 61, 61, 10, 10, 32, 3, 32, 3, 32, 3, 32, 3, 32, 3, 32, 3,
  32>>]

(* of the forms 501 to 543 *)
Fields_12 == [first |-> 1823, runs |->
  <<3, 32, 3, 5, 62, 29, 9, 29, 10, 10, 31, 63, 31, 31, 31, 63, 31, 31, 31,
  63, 31, 31, 64, 20, 65, 2, 3, 3, 2, 29, 61, 61, 61, 9, 61, 61, 29, 61, 61,
  61, 53, 53, 53>>]

(* of the forms 544 to 590 *)
Fields_13 == [first |-> 1973, runs |->
  <<53, 10, 10, 5, 6, 5, 5, 29, 66, 67, 66, 67, 68, 68, 68, 68, 68, 68, 69,
  67, 69, 67, 69, 67, 69, 67, 69, 67, 69, 67, 69, 67, 69, 67, 70, 68, 69, 71,
  69, 71, 72, 72, 69, 69, 69, 71, 69>>]

(* of the forms 591 to 623 *)
Fields_14 == [first |-> 2219, runs |->
  <<69, 69, 69, 73, 69, 69, 73, 69, 69, 69, 73, 73, 71, 71, 69, 72, 72, 74,
  74, 75, 75, 74, 74, 75, 75, 74, 76, 76, 74, 76, 76, 76, 76>>]

(* of the forms 624 to 650 *)
Fields_15 == [first |-> 2465, runs |->
  <<75, 75, 75, 75, 74, 74, 75, 75, 75, 75, 74, 74, 75, 75, 75, 75, 74, 76,
  76, 74, 76, 76, 76, 76, 75, 75, 75>>]

(* of the forms 651 to 687 *)
Fields_16 == [first |-> 2693, runs |->
  <<75, 74, 74, 75, 75, 75, 75, 73, 69, 69, 69, 66, 67, 77, 71, 69, 71, 71,
  71, 71, 71, 71, 71, 71, 71, 69, 68, 74, 74, 78, 78, 74, 79, 79, 74, 79, 79>>]

(* of the forms 688 to 720 *)
Fields_17 == [first |-> 2941, runs |->
  <<79, 74, 74, 79, 78, 78, 78, 78, 74, 74, 74, 74, 69, 73, 73, 73, 80, 81,
  81, 81, 78, 78, 78, 78, 69, 82, 69, 82, 69, 82, 66, 67, 74>>]

(* of the forms 721 to 740 *)
Fields_18 == [first |-> 3204, runs |->
  <<79, 79, 74, 79, 79, 79, 74, 74, 79, 78, 78, 78, 78, 66, 67, 83, 2, 3, 3,
  2>>]

(* the forms 1 to 150 *)
Forms_1 == <<
  <<"ACRC", 1, 0, 1, \h302b, 0>>, <<"ACRE", 1, 1, 1, \h302b, \h100>>,
  <<"ADD", 2, 2, 5, \h5, 0>>, <<"ADDI", 2, 7, 3, \h15, 0>>,
  <<"ADDIW", 2, 10, 3, \h35, 0>>, <<"ADDTPC", 3, 13, 2, \h7, 0>>,
  <<"ADDW", 2, 15, 5, \h25, 0>>, <<"AND", 2, 20, 5, \h2005, 0>>,
  <<"ANDI", 2, 25, 3, \h2015, 0>>, <<"ANDIW", 2, 28, 3, \h2035, 0>>,
  <<"ANDW", 2, 31, 5, \h2025, 0>>, <<"ASSERT", 4, 36, 1, \h102b, 0>>,
  <<"B.ARG", 5, 37, 0, \ha023, \hf>>, <<"B.ARG", 6, 37, 1, \h3043, 0>>,
  <<"B.ARG", 5, 38, 0, \hae23, \h20f>>, <<"B.ARG", 5, 38, 0, \h21a3, \h1802>>,
  <<"B.ARG", 5, 38, 0, \h2423, \h1802>>, <<"B.ARG", 5, 38, 0, \ha4a3, \h1800>>,
  <<"B.CATR", 7, 38, 7, \h23, 0>>, <<"B.DATR", 2, 45, 6, \h1023, 0>>,
  <<"B.DIM", 2, 51, 2, \h2043, 0>>, <<"B.DIM", 2, 53, 2, \h43, 0>>,
  <<"B.DIM", 2, 55, 2, \h1043, 0>>, <<"B.EQ", 2, 57, 3, \h27, 0>>,
  <<"B.GE", 2, 60, 3, \h3027, 0>>, <<"B.GEU", 2, 63, 3, \h5027, 0>>,
  <<"B.HINT", 8, 66, 4, \h33, 0>>, <<"B.HINT", 7, 70, 2, \h1033, 0>>,
  <<"B.IOD", 9, 72, 4, \h1013, 0>>, <<"B.IOR", 9, 76, 4, \h13, 0>>,
  <<"B.IOT", 10, 80, 5, \h5013, 0>>, <<"B.IOT", 2, 85, 7, \h4013, 0>>,
  <<"B.IOT", 11, 92, 3, \h6013, 0>>, <<"B.LT", 2, 95, 3, \h2027, 0>>,
  <<"B.LTU", 2, 98, 3, \h4027, 0>>, <<"B.NE", 2, 101, 3, \h1027, 0>>,
  <<"B.NZ", 2, 104, 1, \h2037, 0>>, <<"B.TEXT", 3, 105, 1, \h3, 0>>,
  <<"B.Z", 2, 106, 1, \h1037, 0>>, <<"BC.IALL", 5, 107, 0, \h402b, \h10>>,
  <<"BC.IVA", 4, 107, 1, \h402b, 0>>, <<"BCNT", 2, 108, 4, \h6067, 0>>,
  <<"BIC", 2, 112, 4, \h2067, 0>>, <<"BIS", 2, 116, 4, \h3067, 0>>,
  <<"BSE", 4, 120, 1, \h2b, 0>>, <<"BSTART", 3, 121, 1, \h11, 0>>,
  <<"BSTART", 3, 122, 1, \h21, 0>>, <<"BSTART CALL", 12, 123, 2, \h2, \h5016>>,
  <<"BSTART.ACCCVT", 13, 125, 1, \h1181, \h83>>,
  <<"BSTART.CUBE", 14, 126, 2, \h1181, \h3>>,
  <<"BSTART.FIXP", 14, 128, 2, \h9181, \h3>>,
  <<"BSTART.FP", 7, 130, 1, \h7101, 0>>, <<"BSTART.FP", 7, 131, 1, \h5101, 0>>,
  <<"BSTART.FP", 7, 132, 1, \h3101, 0>>, <<"BSTART.FP", 7, 133, 1, \h2101, 0>>,
  <<"BSTART.FP", 7, 134, 1, \h6101, 0>>, <<"BSTART.FP", 7, 135, 1, \h4101, 0>>,
  <<"BSTART.FP", 7, 136, 1, \h1101, 0>>,
  <<"BSTART.MPAR", 15, 137, 1, \h1181, 0>>,
  <<"BSTART.MSEQ", 15, 138, 1, \h9181, 0>>,
  <<"BSTART.PAR", 16, 139, 2, \h1181, \h200>>,
  <<"BSTART.STD", 7, 141, 1, \h3001, 0>>,
  <<"BSTART.STD", 7, 142, 1, \h7001, 0>>,
  <<"BSTART.STD", 7, 143, 1, \h1001, 0>>,
  <<"BSTART.STD", 7, 144, 1, \h6001, 0>>,
  <<"BSTART.STD", 7, 145, 1, \h4001, 0>>,
  <<"BSTART.STD", 7, 146, 1, \h5001, 0>>,
  <<"BSTART.STD", 7, 147, 1, \h2001, 0>>,
  <<"BSTART.SYS", 7, 148, 1, \h1081, 0>>,
  <<"BSTART.TEPL", 16, 149, 2, \h1181, \h200>>,
  <<"BSTART.TLOAD", 13, 151, 1, \h1181, \h1>>,
  <<"BSTART.TMA", 14, 152, 2, \h1181, \h1>>,
  <<"BSTART.TMATMUL", 13, 154, 1, \h1181, \h3>>,
  <<"BSTART.TMATMUL.ACC", 13, 155, 1, \h1181, \h23>>,
  <<"BSTART.TMOV", 13, 156, 1, \h1181, \h21>>,
  <<"BSTART.TSTORE", 13, 157, 1, \h1181, \h11>>,
  <<"BSTART.VPAR", 15, 158, 1, \h1181, \h2>>,
  <<"BSTART.VSEQ", 15, 159, 1, \h9181, \h2>>, <<"BSTOP", 5, 160, 0, \h1, 0>>,
  <<"BWE", 4, 160, 1, \h2b, \h10>>, <<"BWI", 4, 161, 1, \h2b, \h20>>,
  <<"BWT", 4, 162, 1, \h2b, \h30>>, <<"BXS", 2, 163, 4, \h67, 0>>,
  <<"BXU", 2, 167, 4, \h1067, 0>>, <<"C.ADD", 17, 171, 2, \h8>>,
  <<"C.ADDI", 17, 173, 2, \hc>>, <<"C.AND", 17, 175, 2, \h28>>,
  <<"C.B.DIM", 18, 177, 2, \hc03c>>, <<"C.B.DIMI", 17, 179, 2, \h3c>>,
  <<"C.BSTART", 19, 181, 1, \h4>>, <<"C.BSTART", 19, 182, 1, \h2>>,
  <<"C.BSTART.FP", 20, 183, 1, \h80>>, <<"C.BSTART.MPAR", 21, 184, 0, \h8c0>>,
  <<"C.BSTART.MSEQ", 21, 184, 0, \h48c0>>, <<"C.BSTART.STD", 20, 184, 1, 0>>,
  <<"C.BSTART.SYS", 21, 185, 0, \h840>>,
  <<"C.BSTART.VPAR", 21, 185, 0, \h88c0>>,
  <<"C.BSTART.VSEQ", 21, 185, 0, \hc8c0>>, <<"C.BSTOP", 21, 185, 0, 0>>,
  <<"C.CMP.EQI", 22, 185, 1, \h2c>>, <<"C.CMP.NEI", 22, 186, 1, \h82c>>,
  <<"C.EBREAK", 22, 187, 1, \hc02c>>, <<"C.LDI", 17, 188, 2, \h1a>>,
  <<"C.LWI", 17, 190, 2, \ha>>, <<"C.MOVI", 17, 192, 2, \h16>>,
  <<"C.MOVR", 17, 194, 2, \h6>>, <<"C.OR", 17, 196, 2, \h38>>,
  <<"C.SDI", 17, 198, 2, \h3a>>, <<"C.SETC.EQ", 17, 200, 2, \h26>>,
  <<"C.SETC.NE", 17, 202, 2, \h36>>, <<"C.SETC.TGT", 22, 204, 1, \h1c>>,
  <<"C.SETRET", 22, 205, 1, \h5016>>, <<"C.SEXT.B", 22, 206, 1, \h401c>>,
  <<"C.SEXT.H", 22, 207, 1, \h481c>>, <<"C.SEXT.W", 22, 208, 1, \h501c>>,
  <<"C.SLLI", 22, 209, 1, \h102c>>, <<"C.SRLI", 22, 210, 1, \h182c>>,
  <<"C.SSRGET", 22, 211, 1, \h802c>>, <<"C.SUB", 17, 212, 2, \h18>>,
  <<"C.SWI", 17, 214, 2, \h2a>>, <<"C.ZEXT.B", 22, 216, 1, \h581c>>,
  <<"C.ZEXT.H", 22, 217, 1, \h601c>>, <<"C.ZEXT.W", 22, 218, 1, \h681c>>,
  <<"CLZ", 2, 219, 4, \h5067, 0>>, <<"CMP.AND", 23, 223, 4, \h2045, 0>>,
  <<"CMP.ANDI", 2, 227, 3, \h2055, 0>>, <<"CMP.EQ", 23, 230, 4, \h45, 0>>,
  <<"CMP.EQI", 2, 234, 3, \h55, 0>>, <<"CMP.GE", 23, 237, 4, \h5045, 0>>,
  <<"CMP.GEI", 2, 241, 3, \h5055, 0>>, <<"CMP.GEU", 23, 244, 4, \h7045, 0>>,
  <<"CMP.GEUI", 2, 248, 3, \h7055, 0>>, <<"CMP.LT", 23, 251, 4, \h4045, 0>>,
  <<"CMP.LTI", 2, 255, 3, \h4055, 0>>, <<"CMP.LTU", 23, 258, 4, \h6045, 0>>,
  <<"CMP.LTUI", 2, 262, 3, \h6055, 0>>, <<"CMP.NE", 23, 265, 4, \h1045, 0>>,
  <<"CMP.NEI", 2, 269, 3, \h1055, 0>>, <<"CMP.OR", 23, 272, 4, \h3045, 0>>,
  <<"CMP.ORI", 2, 276, 3, \h3055, 0>>, <<"CSEL", 2, 279, 5, \h77, 0>>,
  <<"CTZ", 2, 284, 4, \h4067, 0>>, <<"DC.CISW", 4, 288, 1, \h602b, \h60>>,
  <<"DC.CIVA", 4, 289, 1, \h602b, \h30>>,
  <<"DC.CSW", 4, 290, 1, \h602b, \h50>>, <<"DC.CVA", 4, 291, 1, \h602b, \h20>>,
  <<"DC.IALL", 5, 292, 0, \h602b, \h10>>,
  <<"DC.ISW", 4, 292, 1, \h602b, \h40>>, <<"DC.IVA", 4, 293, 1, \h602b, 0>>,
  <<"DC.ZVA", 4, 294, 1, \h602b, \h70>> >>

(* the forms 151 to 300 *)
Forms_2 == <<
  <<"DIV", 24, 295, 3, \h57, 0>>, <<"DIVU", 24, 298, 3, \h1057, 0>>,
  <<"DIVUW", 24, 301, 3, \h3057, 0>>, <<"DIVW", 24, 304, 3, \h2057, 0>>,
  <<"EBREAK", 25, 307, 1, \h102b, \h10>>, <<"ERCOV", 16, 308, 3, \h3031, 0>>,
  <<"ESAVE", 16, 311, 3, \h2031, 0>>, <<"FABS", 26, 314, 3, \h7b, 0>>,
  <<"FADD", 23, 317, 4, \h4b, 0>>, <<"FCVT", 27, 321, 4, \h6b, 0>>,
  <<"FCVTA", 27, 325, 4, \h106b, 0>>, <<"FCVTM", 27, 329, 4, \h206b, 0>>,
  <<"FCVTN", 27, 333, 4, \h306b, 0>>, <<"FCVTP", 27, 337, 4, \h406b, 0>>,
  <<"FCVTZ", 27, 341, 4, \h506b, 0>>, <<"FDIV", 23, 345, 4, \h304b, 0>>,
  <<"FENCE.D", 28, 349, 2, \h202b, 0>>,
  <<"FENCE.I", 5, 351, 0, \h202b, \h1000>>, <<"FENTRY", 2, 351, 3, \h41, 0>>,
  <<"FEQ", 23, 354, 4, \h5b, 0>>, <<"FEQS", 23, 358, 4, \h5b, \h800>>,
  <<"FEXIT", 2, 362, 3, \h1041, 0>>, <<"FEXP", 26, 365, 3, \h307b, 0>>,
  <<"FGE", 23, 368, 4, \h305b, 0>>, <<"FGES", 23, 372, 4, \h305b, \h800>>,
  <<"FLT", 23, 376, 4, \h205b, 0>>, <<"FLTS", 23, 380, 4, \h205b, \h800>>,
  <<"FMADD", 2, 384, 5, \h404b, 0>>, <<"FMAX", 23, 389, 4, \h605b, 0>>,
  <<"FMIN", 23, 393, 4, \h705b, 0>>, <<"FMSUB", 2, 397, 5, \h504b, 0>>,
  <<"FMUL", 23, 402, 4, \h204b, 0>>, <<"FNE", 23, 406, 4, \h105b, 0>>,
  <<"FNES", 23, 410, 4, \h105b, \h800>>, <<"FNMADD", 2, 414, 5, \h604b, 0>>,
  <<"FNMSUB", 2, 419, 5, \h704b, 0>>, <<"FRECIP", 26, 424, 3, \h207b, 0>>,
  <<"FRET.RA", 2, 427, 3, \h2041, 0>>, <<"FRET.STK", 2, 430, 3, \h3041, 0>>,
  <<"FSQRT", 26, 433, 3, \h107b, 0>>, <<"FSUB", 23, 436, 4, \h104b, 0>>,
  <<"HL.ADDI", 29, 440, 3, \he, \h15, 0>>,
  <<"HL.ADDIW", 29, 443, 3, \he, \h35, 0>>,
  <<"HL.ADDTPC", 30, 446, 2, \he, \h7, 0>>,
  <<"HL.ANDI", 29, 448, 3, \he, \h2015, 0>>,
  <<"HL.ANDIW", 29, 451, 3, \he, \h2035, 0>>,
  <<"HL.BFI", 31, 454, 5, \he, \h204d, 0>>,
  <<"HL.BSTART CALL", 32, 459, 2, \h11, 0, \h5016>>,
  <<"HL.BSTART.FP", 33, 461, 1, \he, \h3101, 0>>,
  <<"HL.BSTART.FP", 33, 462, 1, \he, \h1101, 0>>,
  <<"HL.BSTART.FP", 33, 463, 1, \he, \h4101, 0>>,
  <<"HL.BSTART.FP", 33, 464, 1, \he, \h2101, 0>>,
  <<"HL.BSTART.STD", 33, 465, 1, \he, \h4001, 0>>,
  <<"HL.BSTART.STD", 33, 466, 1, \he, \h1001, 0>>,
  <<"HL.BSTART.STD", 33, 467, 1, \he, \h3001, 0>>,
  <<"HL.BSTART.STD", 33, 468, 1, \he, \h2001, 0>>,
  <<"HL.BSTART.SYS", 33, 469, 1, \he, \h1081, 0>>,
  <<"HL.CASB", 34, 470, 7, \he, \h600b, 0>>,
  <<"HL.CASD", 34, 477, 7, \he, \h600b, \h3000>>,
  <<"HL.CASH", 34, 484, 7, \he, \h600b, \h1000>>,
  <<"HL.CASW", 34, 491, 7, \he, \h600b, \h2000>>,
  <<"HL.CCAT", 35, 498, 5, \he, \h105d, 0>>,
  <<"HL.CCATW", 35, 503, 5, \he, \h205d, 0>>,
  <<"HL.CMP.ANDI", 29, 508, 3, \he, \h2055, 0>>,
  <<"HL.CMP.EQI", 29, 511, 3, \he, \h55, 0>>,
  <<"HL.CMP.GEI", 29, 514, 3, \he, \h5055, 0>>,
  <<"HL.CMP.GEUI", 29, 517, 3, \he, \h7055, 0>>,
  <<"HL.CMP.LTI", 29, 520, 3, \he, \h4055, 0>>,
  <<"HL.CMP.LTUI", 29, 523, 3, \he, \h6055, 0>>,
  <<"HL.CMP.NEI", 29, 526, 3, \he, \h1055, 0>>,
  <<"HL.CMP.ORI", 29, 529, 3, \he, \h3055, 0>>,
  <<"HL.DIV", 36, 532, 4, \he, \h57, 0>>,
  <<"HL.DIVU", 36, 536, 4, \he, \h1057, 0>>,
  <<"HL.DIVUW", 36, 540, 4, \he, \h3057, 0>>,
  <<"HL.DIVW", 36, 544, 4, \he, \h2057, 0>>,
  <<"HL.LB.PCR", 29, 548, 2, \he, \h39, 0>>,
  <<"HL.LB.PO", 35, 550, 6, \h3e, \h9, 0>>,
  <<"HL.LB.PR", 35, 556, 6, \h2e, \h9, 0>>,
  <<"HL.LBI", 37, 562, 3, \he, \h19, 0>>,
  <<"HL.LBI.PO", 37, 565, 4, \h3e, \h19, 0>>,
  <<"HL.LBI.PR", 37, 569, 4, \h2e, \h19, 0>>,
  <<"HL.LBIP", 37, 573, 4, \h1e, \h19, 0>>,
  <<"HL.LBP", 35, 577, 6, \h1e, \h9, 0>>,
  <<"HL.LBU.PCR", 29, 583, 2, \he, \h4039, 0>>,
  <<"HL.LBU.PO", 35, 585, 6, \h3e, \h4009, 0>>,
  <<"HL.LBU.PR", 35, 591, 6, \h2e, \h4009, 0>>,
  <<"HL.LBUI", 37, 597, 3, \he, \h4019, 0>>,
  <<"HL.LBUI.PO", 37, 600, 4, \h3e, \h4019, 0>>,
  <<"HL.LBUI.PR", 37, 604, 4, \h2e, \h4019, 0>>,
  <<"HL.LBUIP", 37, 608, 4, \h1e, \h4019, 0>>,
  <<"HL.LBUP", 35, 612, 6, \h1e, \h4009, 0>>,
  <<"HL.LD.PCR", 29, 618, 2, \he, \h3039, 0>>,
  <<"HL.LD.PO", 35, 620, 6, \h3e, \h3009, 0>>,
  <<"HL.LD.PR", 35, 626, 6, \h2e, \h3009, 0>>,
  <<"HL.LDI", 37, 632, 3, \he, \h3019, 0>>,
  <<"HL.LDI.PO", 37, 635, 4, \h3e, \h3019, 0>>,
  <<"HL.LDI.PR", 37, 639, 4, \h2e, \h3019, 0>>,
  <<"HL.LDI.U", 37, 643, 3, \he, \h3029, 0>>,
  <<"HL.LDI.UPO", 37, 646, 4, \h3e, \h3029, 0>>,
  <<"HL.LDI.UPR", 37, 650, 4, \h2e, \h3029, 0>>,
  <<"HL.LDIP", 37, 654, 4, \h1e, \h3019, 0>>,
  <<"HL.LDIP.U", 37, 658, 4, \h1e, \h3029, 0>>,
  <<"HL.LDP", 35, 662, 6, \h1e, \h3009, 0>>,
  <<"HL.LH.PCR", 29, 668, 2, \he, \h1039, 0>>,
  <<"HL.LH.PO", 35, 670, 6, \h3e, \h1009, 0>>,
  <<"HL.LH.PR", 35, 676, 6, \h2e, \h1009, 0>>,
  <<"HL.LHI", 37, 682, 3, \he, \h1019, 0>>,
  <<"HL.LHI.PO", 37, 685, 4, \h3e, \h1019, 0>>,
  <<"HL.LHI.PR", 37, 689, 4, \h2e, \h1019, 0>>,
  <<"HL.LHI.U", 37, 693, 3, \he, \h1029, 0>>,
  <<"HL.LHI.UPO", 37, 696, 4, \h3e, \h1029, 0>>,
  <<"HL.LHI.UPR", 37, 700, 4, \h2e, \h1029, 0>>,
  <<"HL.LHIP", 37, 704, 4, \h1e, \h1019, 0>>,
  <<"HL.LHIP.U", 37, 708, 4, \h1e, \h1029, 0>>,
  <<"HL.LHP", 35, 712, 6, \h1e, \h1009, 0>>,
  <<"HL.LHU.PCR", 29, 718, 2, \he, \h5039, 0>>,
  <<"HL.LHU.PO", 35, 720, 6, \h3e, \h5009, 0>>,
  <<"HL.LHU.PR", 35, 726, 6, \h2e, \h5009, 0>>,
  <<"HL.LHUI", 37, 732, 3, \he, \h5019, 0>>,
  <<"HL.LHUI.PO", 37, 735, 4, \h3e, \h5019, 0>>,
  <<"HL.LHUI.PR", 37, 739, 4, \h2e, \h5019, 0>>,
  <<"HL.LHUI.U", 37, 743, 3, \he, \h5029, 0>>,
  <<"HL.LHUI.UPO", 37, 746, 4, \h3e, \h5029, 0>>,
  <<"HL.LHUI.UPR", 37, 750, 4, \h2e, \h5029, 0>>,
  <<"HL.LHUIP", 37, 754, 4, \h1e, \h5019, 0>>,
  <<"HL.LHUIP.U", 37, 758, 4, \h1e, \h5029, 0>>,
  <<"HL.LHUP", 35, 762, 6, \h1e, \h5009, 0>>,
  <<"HL.LIS", 30, 768, 2, \he, \hd, 0>>,
  <<"HL.LIU", 30, 770, 2, \he, \h1d, 0>>,
  <<"HL.LUI", 30, 772, 2, \he, \h17, 0>>,
  <<"HL.LW.PCR", 29, 774, 2, \he, \h2039, 0>>,
  <<"HL.LW.PO", 35, 776, 6, \h3e, \h2009, 0>>,
  <<"HL.LW.PR", 35, 782, 6, \h2e, \h2009, 0>>,
  <<"HL.LWI", 37, 788, 3, \he, \h2019, 0>>,
  <<"HL.LWI.PO", 37, 791, 4, \h3e, \h2019, 0>>,
  <<"HL.LWI.PR", 37, 795, 4, \h2e, \h2019, 0>>,
  <<"HL.LWI.U", 37, 799, 3, \he, \h2029, 0>>,
  <<"HL.LWI.UPO", 37, 802, 4, \h3e, \h2029, 0>>,
  <<"HL.LWI.UPR", 37, 806, 4, \h2e, \h2029, 0>>,
  <<"HL.LWIP", 37, 810, 4, \h1e, \h2019, 0>>,
  <<"HL.LWIP.U", 37, 814, 4, \h1e, \h2029, 0>>,
  <<"HL.LWP", 35, 818, 6, \h1e, \h2009, 0>>,
  <<"HL.LWU.PCR", 29, 824, 2, \he, \h6039, 0>>,
  <<"HL.LWU.PO", 35, 826, 6, \h3e, \h6009, 0>>,
  <<"HL.LWU.PR", 35, 832, 6, \h2e, \h6009, 0>>,
  <<"HL.LWUI", 37, 838, 3, \he, \h6019, 0>>,
  <<"HL.LWUI.PO", 37, 841, 4, \h3e, \h6019, 0>>,
  <<"HL.LWUI.PR", 37, 845, 4, \h2e, \h6019, 0>>,
  <<"HL.LWUI.U", 37, 849, 3, \he, \h6029, 0>>,
  <<"HL.LWUI.UPO", 37, 852, 4, \h3e, \h6029, 0>> >>

(* the forms 301 to 450 *)
Forms_3 == <<
  <<"HL.LWUI.UPR", 37, 856, 4, \h2e, \h6029, 0>>,
  <<"HL.LWUIP", 37, 860, 4, \h1e, \h6019, 0>>,
  <<"HL.LWUIP.U", 37, 864, 4, \h1e, \h6029, 0>>,
  <<"HL.LWUP", 35, 868, 6, \h1e, \h6009, 0>>,
  <<"HL.MADD", 38, 874, 5, \he, \h6047, 0>>,
  <<"HL.MADDW", 38, 879, 5, \he, \h7047, 0>>,
  <<"HL.MIADD", 29, 884, 4, \he, \h4d, 0>>,
  <<"HL.MISUB", 29, 888, 4, \he, \h104d, 0>>,
  <<"HL.MUL", 36, 892, 4, \he, \h47, 0>>,
  <<"HL.MULU", 36, 896, 4, \he, \h1047, 0>>,
  <<"HL.ORI", 29, 900, 3, \he, \h3015, 0>>,
  <<"HL.ORIW", 29, 903, 3, \he, \h3035, 0>>,
  <<"HL.PRF", 39, 906, 5, \he, \h7009, 0>>,
  <<"HL.PRF.A", 35, 911, 6, \h1e, \h7009, 0>>,
  <<"HL.PRFI.U", 40, 917, 3, \he, \h7029, 0>>,
  <<"HL.PRFI.UA", 37, 920, 4, \h1e, \h7029, 0>>,
  <<"HL.QMT", 41, 924, 7, \he, \h7d, 0>>,
  <<"HL.QPOP", 42, 931, 6, \he, \h207d, 0>>,
  <<"HL.QPUSH", 43, 937, 6, \he, \h107d, 0>>,
  <<"HL.REM", 36, 943, 4, \he, \h4057, 0>>,
  <<"HL.REMU", 36, 947, 4, \he, \h5057, 0>>,
  <<"HL.REMUW", 36, 951, 4, \he, \h7057, 0>>,
  <<"HL.REMW", 36, 955, 4, \he, \h6057, 0>>,
  <<"HL.SB.PCR", 29, 959, 2, \he, \h69, 0>>,
  <<"HL.SB.PO", 39, 961, 5, \h3e, \h49, 0>>,
  <<"HL.SB.PR", 39, 966, 5, \h2e, \h49, 0>>,
  <<"HL.SBI", 37, 971, 3, \he, \h59, 0>>,
  <<"HL.SBI.PO", 37, 974, 4, \h3e, \h59, 0>>,
  <<"HL.SBI.PR", 37, 978, 4, \h2e, \h59, 0>>,
  <<"HL.SBIP", 37, 982, 4, \h1e, \h59, 0>>,
  <<"HL.SBP", 44, 986, 5, \h1e, \h49, 0>>,
  <<"HL.SD.PCR", 29, 991, 2, \he, \h3069, 0>>,
  <<"HL.SD.PO", 39, 993, 5, \h3e, \h3049, 0>>,
  <<"HL.SD.PR", 39, 998, 5, \h2e, \h3049, 0>>,
  <<"HL.SD.UPO", 39, 1003, 5, \h3e, \h7049, 0>>,
  <<"HL.SD.UPR", 39, 1008, 5, \h2e, \h7049, 0>>,
  <<"HL.SDI", 37, 1013, 3, \he, \h3059, 0>>,
  <<"HL.SDI.PO", 37, 1016, 4, \h3e, \h3059, 0>>,
  <<"HL.SDI.PR", 37, 1020, 4, \h2e, \h3059, 0>>,
  <<"HL.SDI.U", 37, 1024, 3, \he, \h7059, 0>>,
  <<"HL.SDI.UPO", 37, 1027, 4, \h3e, \h7059, 0>>,
  <<"HL.SDI.UPR", 37, 1031, 4, \h2e, \h7059, 0>>,
  <<"HL.SDIP", 37, 1035, 4, \h1e, \h3059, 0>>,
  <<"HL.SDIP.U", 37, 1039, 4, \h1e, \h7059, 0>>,
  <<"HL.SDP", 44, 1043, 5, \h1e, \h3049, 0>>,
  <<"HL.SDP.U", 44, 1048, 5, \h1e, \h7049, 0>>,
  <<"HL.SETC.ANDI", 29, 1053, 3, \he, \h2075, 0>>,
  <<"HL.SETC.EQI", 29, 1056, 3, \he, \h75, 0>>,
  <<"HL.SETC.GEI", 29, 1059, 3, \he, \h5075, 0>>,
  <<"HL.SETC.GEUI", 29, 1062, 3, \he, \h7075, 0>>,
  <<"HL.SETC.LTI", 29, 1065, 3, \he, \h4075, 0>>,
  <<"HL.SETC.LTUI", 29, 1068, 3, \he, \h6075, 0>>,
  <<"HL.SETC.NEI", 29, 1071, 3, \he, \h1075, 0>>,
  <<"HL.SETC.ORI", 29, 1074, 3, \he, \h3075, 0>>,
  <<"HL.SETRET", 45, 1077, 1, \he, \h507, 0>>,
  <<"HL.SH.PCR", 29, 1078, 2, \he, \h1069, 0>>,
  <<"HL.SH.PO", 39, 1080, 5, \h3e, \h1049, 0>>,
  <<"HL.SH.PR", 39, 1085, 5, \h2e, \h1049, 0>>,
  <<"HL.SH.UPO", 39, 1090, 5, \h3e, \h5049, 0>>,
  <<"HL.SH.UPR", 39, 1095, 5, \h2e, \h5049, 0>>,
  <<"HL.SHI", 37, 1100, 3, \he, \h1059, 0>>,
  <<"HL.SHI.PO", 37, 1103, 4, \h3e, \h1059, 0>>,
  <<"HL.SHI.PR", 37, 1107, 4, \h2e, \h1059, 0>>,
  <<"HL.SHI.U", 37, 1111, 3, \he, \h5059, 0>>,
  <<"HL.SHI.UPO", 37, 1114, 4, \h3e, \h5059, 0>>,
  <<"HL.SHI.UPR", 37, 1118, 4, \h2e, \h5059, 0>>,
  <<"HL.SHIP", 37, 1122, 4, \h1e, \h1059, 0>>,
  <<"HL.SHIP.U", 37, 1126, 4, \h1e, \h5059, 0>>,
  <<"HL.SHP", 44, 1130, 5, \h1e, \h1049, 0>>,
  <<"HL.SHP.U", 44, 1135, 5, \h1e, \h5049, 0>>,
  <<"HL.SSRGET", 46, 1140, 2, \he, \h3b, 0>>,
  <<"HL.SSRSET", 33, 1142, 2, \he, \h103b, 0>>,
  <<"HL.SUBI", 29, 1144, 3, \he, \h1015, 0>>,
  <<"HL.SUBIW", 29, 1147, 3, \he, \h1035, 0>>,
  <<"HL.SW.PCR", 29, 1150, 2, \he, \h2069, 0>>,
  <<"HL.SW.PO", 39, 1152, 5, \h3e, \h2049, 0>>,
  <<"HL.SW.PR", 39, 1157, 5, \h2e, \h2049, 0>>,
  <<"HL.SW.UPO", 39, 1162, 5, \h3e, \h6049, 0>>,
  <<"HL.SW.UPR", 39, 1167, 5, \h2e, \h6049, 0>>,
  <<"HL.SWI", 37, 1172, 3, \he, \h2059, 0>>,
  <<"HL.SWI.PO", 37, 1175, 4, \h3e, \h2059, 0>>,
  <<"HL.SWI.PR", 37, 1179, 4, \h2e, \h2059, 0>>,
  <<"HL.SWI.U", 37, 1183, 3, \he, \h6059, 0>>,
  <<"HL.SWI.UPO", 37, 1186, 4, \h3e, \h6059, 0>>,
  <<"HL.SWI.UPR", 37, 1190, 4, \h2e, \h6059, 0>>,
  <<"HL.SWIP", 37, 1194, 4, \h1e, \h2059, 0>>,
  <<"HL.SWIP.U", 37, 1198, 4, \h1e, \h6059, 0>>,
  <<"HL.SWP", 44, 1202, 5, \h1e, \h2049, 0>>,
  <<"HL.SWP.U", 44, 1207, 5, \h1e, \h6049, 0>>,
  <<"HL.XORI", 29, 1212, 3, \he, \h4015, 0>>,
  <<"HL.XORIW", 29, 1215, 3, \he, \h4035, 0>>,
  <<"IC.IALL", 5, 1218, 0, \h502b, \h10>>, <<"IC.IVA", 4, 1218, 1, \h502b, 0>>,
  <<"J", 2, 1219, 1, \h37, 0>>, <<"JR", 2, 1220, 3, \h6027, 0>>,
  <<"LB", 2, 1223, 5, \h9, 0>>, <<"LB.PCR", 2, 1228, 2, \h39, 0>>,
  <<"LBI", 2, 1230, 3, \h19, 0>>, <<"LBU", 2, 1233, 5, \h4009, 0>>,
  <<"LBU.PCR", 2, 1238, 2, \h4039, 0>>, <<"LBUI", 2, 1240, 3, \h4019, 0>>,
  <<"LD", 2, 1243, 5, \h3009, 0>>, <<"LD.ADD", 47, 1248, 6, \h400b, 0>>,
  <<"LD.AND", 47, 1254, 6, \h400b, \h1000>>,
  <<"LD.OR", 47, 1260, 6, \h400b, \h2000>>,
  <<"LD.PCR", 2, 1266, 2, \h3039, 0>>,
  <<"LD.SMAX", 47, 1268, 6, \h400b, \h4000>>,
  <<"LD.SMIN", 47, 1274, 6, \h400b, \h5000>>,
  <<"LD.UMAX", 47, 1280, 6, \h400b, \h6000>>,
  <<"LD.UMIN", 47, 1286, 6, \h400b, \h7000>>,
  <<"LD.XOR", 47, 1292, 6, \h400b, \h3000>>, <<"LDI", 2, 1298, 3, \h3019, 0>>,
  <<"LDI.U", 2, 1301, 3, \h3029, 0>>, <<"LH", 2, 1304, 5, \h1009, 0>>,
  <<"LH.PCR", 2, 1309, 2, \h1039, 0>>, <<"LHI", 2, 1311, 3, \h1019, 0>>,
  <<"LHI.U", 2, 1314, 3, \h1029, 0>>, <<"LHU", 2, 1317, 5, \h5009, 0>>,
  <<"LHU.PCR", 2, 1322, 2, \h5039, 0>>, <<"LHUI", 2, 1324, 3, \h5019, 0>>,
  <<"LHUI.U", 2, 1327, 3, \h5029, 0>>, <<"LR.B", 47, 1330, 6, \hb, 0>>,
  <<"LR.D", 47, 1336, 6, \hb, \h3000>>, <<"LR.H", 47, 1342, 6, \hb, \h1000>>,
  <<"LR.W", 47, 1348, 6, \hb, \h2000>>, <<"LSRGET", 48, 1354, 2, \h303b, 0>>,
  <<"LUI", 3, 1356, 2, \h17, 0>>, <<"LW", 2, 1358, 5, \h2009, 0>>,
  <<"LW.ADD", 47, 1363, 6, \h200b, 0>>,
  <<"LW.AND", 47, 1369, 6, \h200b, \h1000>>,
  <<"LW.OR", 47, 1375, 6, \h200b, \h2000>>,
  <<"LW.PCR", 2, 1381, 2, \h2039, 0>>,
  <<"LW.SMAX", 47, 1383, 6, \h200b, \h4000>>,
  <<"LW.SMIN", 47, 1389, 6, \h200b, \h5000>>,
  <<"LW.UMAX", 47, 1395, 6, \h200b, \h6000>>,
  <<"LW.UMIN", 47, 1401, 6, \h200b, \h7000>>,
  <<"LW.XOR", 47, 1407, 6, \h200b, \h3000>>, <<"LWI", 2, 1413, 3, \h2019, 0>>,
  <<"LWI.U", 2, 1416, 3, \h2029, 0>>, <<"LWU", 2, 1419, 5, \h6009, 0>>,
  <<"LWU.PCR", 2, 1424, 2, \h6039, 0>>, <<"LWUI", 2, 1426, 3, \h6019, 0>>,
  <<"LWUI.U", 2, 1429, 3, \h6029, 0>>, <<"MADD", 9, 1432, 4, \h6047, 0>>,
  <<"MADDW", 9, 1436, 4, \h7047, 0>>, <<"MAX", 24, 1440, 3, \h405b, 0>>,
  <<"MAXU", 24, 1443, 3, \h405b, \h800>>, <<"MCOPY", 16, 1446, 3, \h31, 0>>,
  <<"MIN", 24, 1449, 3, \h505b, 0>>, <<"MINU", 24, 1452, 3, \h505b, \h800>> >>

(* the forms 451 to 600 *)
Forms_4 == <<
  <<"MSET", 16, 1455, 3, \h1031, 0>>, <<"MUL", 24, 1458, 3, \h47, 0>>,
  <<"MULU", 24, 1461, 3, \h1047, 0>>, <<"MULUW", 24, 1464, 3, \h3047, 0>>,
  <<"MULW", 24, 1467, 3, \h2047, 0>>, <<"OR", 2, 1470, 5, \h3005, 0>>,
  <<"ORI", 2, 1475, 3, \h3015, 0>>, <<"ORIW", 2, 1478, 3, \h3035, 0>>,
  <<"ORW", 2, 1481, 5, \h3025, 0>>, <<"PRF", 2, 1486, 5, \h7009, 0>>,
  <<"PRFI.U", 2, 1491, 3, \h7029, 0>>, <<"REM", 24, 1494, 3, \h4057, 0>>,
  <<"REMU", 24, 1497, 3, \h5057, 0>>, <<"REMUW", 24, 1500, 3, \h7057, 0>>,
  <<"REMW", 24, 1503, 3, \h6057, 0>>, <<"REV", 2, 1506, 4, \h7067, 0>>,
  <<"SB", 7, 1510, 4, \h49, 0>>, <<"SB.PCR", 2, 1514, 2, \h69, 0>>,
  <<"SBI", 2, 1516, 3, \h59, 0>>, <<"SC.B", 47, 1519, 6, \h100b, 0>>,
  <<"SC.D", 47, 1525, 6, \h100b, \h3000>>,
  <<"SC.H", 47, 1531, 6, \h100b, \h1000>>,
  <<"SC.W", 47, 1537, 6, \h100b, \h2000>>, <<"SCVTF", 27, 1543, 4, \h606b, 0>>,
  <<"SD", 7, 1547, 4, \h3049, 0>>, <<"SD.ADD", 49, 1551, 4, \h500b, 0>>,
  <<"SD.AND", 49, 1555, 4, \h500b, \h1000>>,
  <<"SD.OR", 49, 1559, 4, \h500b, \h2000>>,
  <<"SD.PCR", 2, 1563, 2, \h3069, 0>>,
  <<"SD.SMAX", 49, 1565, 4, \h500b, \h4000>>,
  <<"SD.SMIN", 49, 1569, 4, \h500b, \h5000>>,
  <<"SD.U", 7, 1573, 4, \h7049, 0>>,
  <<"SD.UMAX", 49, 1577, 4, \h500b, \h6000>>,
  <<"SD.UMIN", 49, 1581, 4, \h500b, \h7000>>,
  <<"SD.XOR", 49, 1585, 4, \h500b, \h3000>>, <<"SDI", 2, 1589, 3, \h3059, 0>>,
  <<"SDI.U", 2, 1592, 3, \h7059, 0>>, <<"SETC.AND", 50, 1595, 3, \h2065, 0>>,
  <<"SETC.ANDI", 2, 1598, 3, \h2075, 0>>, <<"SETC.EQ", 50, 1601, 3, \h65, 0>>,
  <<"SETC.EQI", 2, 1604, 3, \h75, 0>>, <<"SETC.GE", 50, 1607, 3, \h5065, 0>>,
  <<"SETC.GEI", 2, 1610, 3, \h5075, 0>>,
  <<"SETC.GEU", 50, 1613, 3, \h7065, 0>>,
  <<"SETC.GEUI", 2, 1616, 3, \h7075, 0>>,
  <<"SETC.LT", 50, 1619, 3, \h4065, 0>>, <<"SETC.LTI", 2, 1622, 3, \h4075, 0>>,
  <<"SETC.LTU", 50, 1625, 3, \h6065, 0>>,
  <<"SETC.LTUI", 2, 1628, 3, \h6075, 0>>,
  <<"SETC.NE", 50, 1631, 3, \h1065, 0>>, <<"SETC.NEI", 2, 1634, 3, \h1075, 0>>,
  <<"SETC.OR", 50, 1637, 3, \h3065, 0>>, <<"SETC.ORI", 2, 1640, 3, \h3075, 0>>,
  <<"SETC.TGT", 4, 1643, 1, \h403b, 0>>, <<"SETRET", 51, 1644, 1, \h507, 0>>,
  <<"SH", 7, 1645, 4, \h1049, 0>>, <<"SH.PCR", 2, 1649, 2, \h1069, 0>>,
  <<"SH.U", 7, 1651, 4, \h5049, 0>>, <<"SHI", 2, 1655, 3, \h1059, 0>>,
  <<"SHI.U", 2, 1658, 3, \h5059, 0>>, <<"SLL", 24, 1661, 3, \h7005, 0>>,
  <<"SLLI", 52, 1664, 3, \h7015, 0>>, <<"SLLIW", 24, 1667, 3, \h7035, 0>>,
  <<"SLLW", 24, 1670, 3, \h7025, 0>>, <<"SRA", 24, 1673, 3, \h6005, 0>>,
  <<"SRAI", 52, 1676, 3, \h6015, 0>>, <<"SRAIW", 24, 1679, 3, \h6035, 0>>,
  <<"SRAW", 24, 1682, 3, \h6025, 0>>, <<"SRL", 24, 1685, 3, \h5005, 0>>,
  <<"SRLI", 52, 1688, 3, \h5015, 0>>, <<"SRLIW", 24, 1691, 3, \h5035, 0>>,
  <<"SRLW", 24, 1694, 3, \h5025, 0>>, <<"SSRGET", 48, 1697, 2, \h3b, 0>>,
  <<"SSRSET", 7, 1699, 2, \h103b, 0>>, <<"SSRSWAP", 2, 1701, 3, \h203b, 0>>,
  <<"SUB", 2, 1704, 5, \h1005, 0>>, <<"SUBI", 2, 1709, 3, \h1015, 0>>,
  <<"SUBIW", 2, 1712, 3, \h1035, 0>>, <<"SUBW", 2, 1715, 5, \h1025, 0>>,
  <<"SW", 7, 1720, 4, \h2049, 0>>, <<"SW.ADD", 49, 1724, 4, \h300b, 0>>,
  <<"SW.AND", 49, 1728, 4, \h300b, \h1000>>,
  <<"SW.OR", 49, 1732, 4, \h300b, \h2000>>,
  <<"SW.PCR", 2, 1736, 2, \h2069, 0>>,
  <<"SW.SMAX", 49, 1738, 4, \h300b, \h4000>>,
  <<"SW.SMIN", 49, 1742, 4, \h300b, \h5000>>,
  <<"SW.U", 7, 1746, 4, \h6049, 0>>,
  <<"SW.UMAX", 49, 1750, 4, \h300b, \h6000>>,
  <<"SW.UMIN", 49, 1754, 4, \h300b, \h7000>>,
  <<"SW.XOR", 49, 1758, 4, \h300b, \h3000>>,
  <<"SWAPB", 47, 1762, 6, \h600b, 0>>,
  <<"SWAPD", 47, 1768, 6, \h600b, \h3000>>,
  <<"SWAPH", 47, 1774, 6, \h600b, \h1000>>,
  <<"SWAPW", 47, 1780, 6, \h600b, \h2000>>, <<"SWI", 2, 1786, 3, \h2059, 0>>,
  <<"SWI.U", 2, 1789, 3, \h6059, 0>>, <<"TLB.IA", 4, 1792, 1, \h702b, 0>>,
  <<"TLB.IALL", 5, 1793, 0, \h702b, \h30>>,
  <<"TLB.IAV", 4, 1793, 1, \h702b, \h20>>,
  <<"TLB.IV", 4, 1794, 1, \h702b, \h10>>, <<"UCVTF", 27, 1795, 4, \h706b, 0>>,
  <<"V.ADD", 53, 1799, 5, \h7f, 0, \h5, 0>>,
  <<"V.ADDI", 54, 1804, 3, \h7f, 0, \h15, 0>>,
  <<"V.AND", 53, 1807, 5, \h7f, 0, \h2005, 0>>,
  <<"V.ANDI", 54, 1812, 3, \h7f, 0, \h2015, 0>>,
  <<"V.BCNT", 54, 1815, 4, \h7f, 0, \h6067, 0>>,
  <<"V.BIC", 54, 1819, 4, \h7f, 0, \h2067, 0>>,
  <<"V.BIS", 54, 1823, 4, \h7f, 0, \h3067, 0>>,
  <<"V.BXS", 54, 1827, 4, \h7f, 0, \h67, 0>>,
  <<"V.BXU", 54, 1831, 4, \h7f, 0, \h1067, 0>>,
  <<"V.CLZ", 54, 1835, 4, \h7f, 0, \h5067, 0>>,
  <<"V.CMP.AND", 55, 1839, 3, \h7f, 0, \h2045, 0>>,
  <<"V.CMP.ANDI", 54, 1842, 3, \h7f, 0, \h2055, 0>>,
  <<"V.CMP.EQ", 55, 1845, 3, \h7f, 0, \h45, 0>>,
  <<"V.CMP.EQI", 54, 1848, 3, \h7f, 0, \h55, 0>>,
  <<"V.CMP.GE", 55, 1851, 3, \h7f, 0, \h5045, 0>>,
  <<"V.CMP.GEI", 54, 1854, 3, \h7f, 0, \h5055, 0>>,
  <<"V.CMP.GEU", 55, 1857, 3, \h7f, 0, \h7045, 0>>,
  <<"V.CMP.GEUI", 54, 1860, 3, \h7f, 0, \h7055, 0>>,
  <<"V.CMP.LT", 55, 1863, 3, \h7f, 0, \h4045, 0>>,
  <<"V.CMP.LTI", 54, 1866, 3, \h7f, 0, \h4055, 0>>,
  <<"V.CMP.LTU", 55, 1869, 3, \h7f, 0, \h6045, 0>>,
  <<"V.CMP.LTUI", 54, 1872, 3, \h7f, 0, \h6055, 0>>,
  <<"V.CMP.NE", 55, 1875, 3, \h7f, 0, \h1045, 0>>,
  <<"V.CMP.NEI", 54, 1878, 3, \h7f, 0, \h1055, 0>>,
  <<"V.CMP.OR", 55, 1881, 3, \h7f, 0, \h3045, 0>>,
  <<"V.CMP.ORI", 54, 1884, 3, \h7f, 0, \h3055, 0>>,
  <<"V.CSEL", 56, 1887, 5, \h7f, 0, \h77, 0>>,
  <<"V.CTZ", 54, 1892, 4, \h7f, 0, \h4067, 0>>,
  <<"V.DIV", 55, 1896, 3, \h7f, 0, \h57, 0>>,
  <<"V.FABS", 57, 1899, 2, \h7f, 0, \h7b, 0>>,
  <<"V.FADD", 55, 1901, 3, \h7f, 0, \h4b, 0>>,
  <<"V.FCLASS", 57, 1904, 2, \h7f, 0, \h707b, 0>>,
  <<"V.FCVT", 58, 1906, 4, \h7f, 0, \h6b, 0>>,
  <<"V.FCVTI", 58, 1910, 4, \h7f, 0, \h106b, 0>>,
  <<"V.FDIV", 55, 1914, 3, \h7f, 0, \h304b, 0>>,
  <<"V.FEQ", 55, 1917, 3, \h7f, 0, \h5b, 0>>,
  <<"V.FEQS", 55, 1920, 3, \h7f, 0, \h405b, 0>>,
  <<"V.FEXP", 57, 1923, 2, \h7f, 0, \h307b, 0>>,
  <<"V.FGE", 55, 1925, 3, \h7f, 0, \h305b, 0>>,
  <<"V.FGES", 55, 1928, 3, \h7f, 0, \h705b, 0>>,
  <<"V.FLT", 55, 1931, 3, \h7f, 0, \h205b, 0>>,
  <<"V.FLTS", 55, 1934, 3, \h7f, 0, \h605b, 0>>,
  <<"V.FMADD", 59, 1937, 4, \h7f, 0, \h404b, 0>>,
  <<"V.FMAX", 55, 1941, 3, \h107f, 0, \h205b, 0>>,
  <<"V.FMIN", 55, 1944, 3, \h107f, 0, \h305b, 0>>,
  <<"V.FMSUB", 59, 1947, 4, \h7f, 0, \h504b, 0>>,
  <<"V.FMUL", 55, 1951, 3, \h7f, 0, \h204b, 0>>,
  <<"V.FNE", 55, 1954, 3, \h7f, 0, \h105b, 0>>,
  <<"V.FNES", 55, 1957, 3, \h7f, 0, \h505b, 0>> >>

(* the forms 601 to 740 *)
Forms_5 == <<
  <<"V.FNMADD", 59, 1960, 4, \h7f, 0, \h604b, 0>>,
  <<"V.FNMSUB", 59, 1964, 4, \h7f, 0, \h704b, 0>>,
  <<"V.FRECIP", 57, 1968, 2, \h7f, 0, \h207b, 0>>,
  <<"V.FSQRT", 57, 1970, 2, \h7f, 0, \h107b, 0>>,
  <<"V.FSUB", 55, 1972, 3, \h7f, 0, \h104b, 0>>,
  <<"V.ICVT", 58, 1975, 4, \h7f, 0, \h606b, 0>>,
  <<"V.ICVTF", 58, 1979, 4, \h7f, 0, \h706b, 0>>,
  <<"V.LB", 60, 1983, 6, \h7f, 0, \h9, 0>>,
  <<"V.LB.BRG", 60, 1989, 6, \h207f, 0, \h9, 0>>,
  <<"V.LBI", 61, 1995, 5, \h7f, 0, \h19, 0>>,
  <<"V.LBI.BRG", 61, 2000, 5, \h207f, 0, \h19, 0>>,
  <<"V.LBU", 60, 2005, 6, \h7f, 0, \h4009, 0>>,
  <<"V.LBU.BRG", 60, 2011, 6, \h207f, 0, \h4009, 0>>,
  <<"V.LBUI", 61, 2017, 5, \h7f, 0, \h4019, 0>>,
  <<"V.LBUI.BRG", 61, 2022, 5, \h207f, 0, \h4019, 0>>,
  <<"V.LD", 60, 2027, 6, \h7f, 0, \h3009, 0>>,
  <<"V.LD.ADD", 62, 2033, 6, \h207f, 0, \hb, 0>>,
  <<"V.LD.AND", 62, 2039, 6, \h207f, 0, \h100b, 0>>,
  <<"V.LD.BRG", 60, 2045, 6, \h207f, 0, \h3009, 0>>,
  <<"V.LD.MAX", 62, 2051, 6, \h207f, 0, \h400b, 0>>,
  <<"V.LD.MIN", 62, 2057, 6, \h207f, 0, \h500b, 0>>,
  <<"V.LD.OR", 62, 2063, 6, \h207f, 0, \h200b, 0>>,
  <<"V.LD.XOR", 62, 2069, 6, \h207f, 0, \h300b, 0>>,
  <<"V.LDI", 61, 2075, 5, \h7f, 0, \h3019, 0>>,
  <<"V.LDI.BRG", 61, 2080, 5, \h207f, 0, \h3019, 0>>,
  <<"V.LDI.U", 61, 2085, 5, \h7f, 0, \h3029, 0>>,
  <<"V.LDI.U.BRG", 61, 2090, 5, \h207f, 0, \h3029, 0>>,
  <<"V.LH", 60, 2095, 6, \h7f, 0, \h1009, 0>>,
  <<"V.LH.BRG", 60, 2101, 6, \h207f, 0, \h1009, 0>>,
  <<"V.LHI", 61, 2107, 5, \h7f, 0, \h1019, 0>>,
  <<"V.LHI.BRG", 61, 2112, 5, \h207f, 0, \h1019, 0>>,
  <<"V.LHI.U", 61, 2117, 5, \h7f, 0, \h1029, 0>>,
  <<"V.LHI.U.BRG", 61, 2122, 5, \h207f, 0, \h1029, 0>>,
  <<"V.LHU", 60, 2127, 6, \h7f, 0, \h5009, 0>>,
  <<"V.LHU.BRG", 60, 2133, 6, \h207f, 0, \h5009, 0>>,
  <<"V.LHUI", 61, 2139, 5, \h7f, 0, \h5019, 0>>,
  <<"V.LHUI.BRG", 61, 2144, 5, \h207f, 0, \h5019, 0>>,
  <<"V.LHUI.U", 61, 2149, 5, \h7f, 0, \h5029, 0>>,
  <<"V.LHUI.U.BRG", 61, 2154, 5, \h207f, 0, \h5029, 0>>,
  <<"V.LW", 60, 2159, 6, \h7f, 0, \h2009, 0>>,
  <<"V.LW.ADD", 62, 2165, 6, \h7f, 0, \hb, 0>>,
  <<"V.LW.AND", 62, 2171, 6, \h7f, 0, \h100b, 0>>,
  <<"V.LW.BRG", 60, 2177, 6, \h207f, 0, \h2009, 0>>,
  <<"V.LW.MAX", 62, 2183, 6, \h7f, 0, \h400b, 0>>,
  <<"V.LW.MIN", 62, 2189, 6, \h7f, 0, \h500b, 0>>,
  <<"V.LW.OR", 62, 2195, 6, \h7f, 0, \h200b, 0>>,
  <<"V.LW.XOR", 62, 2201, 6, \h7f, 0, \h300b, 0>>,
  <<"V.LWI", 61, 2207, 5, \h7f, 0, \h2019, 0>>,
  <<"V.LWI.BRG", 61, 2212, 5, \h207f, 0, \h2019, 0>>,
  <<"V.LWI.U", 61, 2217, 5, \h7f, 0, \h2029, 0>>,
  <<"V.LWI.U.BRG", 61, 2222, 5, \h207f, 0, \h2029, 0>>,
  <<"V.LWU", 60, 2227, 6, \h7f, 0, \h6009, 0>>,
  <<"V.LWU.BRG", 60, 2233, 6, \h207f, 0, \h6009, 0>>,
  <<"V.LWUI", 61, 2239, 5, \h7f, 0, \h6019, 0>>,
  <<"V.LWUI.BRG", 61, 2244, 5, \h207f, 0, \h6019, 0>>,
  <<"V.LWUI.U", 61, 2249, 5, \h7f, 0, \h6029, 0>>,
  <<"V.LWUI.U.BRG", 61, 2254, 5, \h207f, 0, \h6029, 0>>,
  <<"V.MADD", 59, 2259, 4, \h7f, 0, \h6047, 0>>,
  <<"V.MAX", 55, 2263, 3, \h107f, 0, \h5b, 0>>,
  <<"V.MIN", 55, 2266, 3, \h107f, 0, \h105b, 0>>,
  <<"V.MUL", 55, 2269, 3, \h7f, 0, \h47, 0>>,
  <<"V.OR", 53, 2272, 5, \h7f, 0, \h3005, 0>>,
  <<"V.ORI", 54, 2277, 3, \h7f, 0, \h3015, 0>>,
  <<"V.PSEL", 56, 2280, 5, \h7f, 0, \h1077, 0>>,
  <<"V.QPOP", 57, 2285, 2, \h7f, 0, \h207d, 0>>,
  <<"V.QPUSH", 55, 2287, 3, \h7f, 0, \h107d, 0>>,
  <<"V.RDADD", 57, 2290, 2, \h7f, 0, \hd, 0>>,
  <<"V.RDAND", 57, 2292, 2, \h7f, 0, \h100d, 0>>,
  <<"V.RDFADD", 57, 2294, 2, \h7f, 0, \h400d, 0>>,
  <<"V.RDFMAX", 57, 2296, 2, \h107f, 0, \h200d, 0>>,
  <<"V.RDFMIN", 57, 2298, 2, \h107f, 0, \h300d, 0>>,
  <<"V.RDMAX", 57, 2300, 2, \h107f, 0, \hd, 0>>,
  <<"V.RDMIN", 57, 2302, 2, \h107f, 0, \h100d, 0>>,
  <<"V.RDOR", 57, 2304, 2, \h7f, 0, \h200d, 0>>,
  <<"V.RDXOR", 57, 2306, 2, \h7f, 0, \h300d, 0>>,
  <<"V.REM", 55, 2308, 3, \h7f, 0, \h4057, 0>>,
  <<"V.REV", 54, 2311, 4, \h7f, 0, \h7067, 0>>,
  <<"V.SB", 63, 2315, 6, \h7f, 0, \h49, 0>>,
  <<"V.SB.BRG", 63, 2321, 6, \h207f, 0, \h49, 0>>,
  <<"V.SBI", 61, 2327, 5, \h7f, 0, \h59, 0>>,
  <<"V.SBI.BRG", 61, 2332, 5, \h207f, 0, \h59, 0>>,
  <<"V.SD", 63, 2337, 6, \h7f, 0, \h3049, 0>>,
  <<"V.SD.ADD", 64, 2343, 5, \h307f, 0, \hb, 0>>,
  <<"V.SD.AND", 64, 2348, 5, \h307f, 0, \h100b, 0>>,
  <<"V.SD.BRG", 63, 2353, 6, \h207f, 0, \h3049, 0>>,
  <<"V.SD.MAX", 64, 2359, 5, \h307f, 0, \h400b, 0>>,
  <<"V.SD.MIN", 64, 2364, 5, \h307f, 0, \h500b, 0>>,
  <<"V.SD.OR", 64, 2369, 5, \h307f, 0, \h200b, 0>>,
  <<"V.SD.U", 63, 2374, 6, \h7f, 0, \h7049, 0>>,
  <<"V.SD.U.BRG", 63, 2380, 6, \h207f, 0, \h7049, 0>>,
  <<"V.SD.XOR", 64, 2386, 5, \h307f, 0, \h300b, 0>>,
  <<"V.SDI", 61, 2391, 5, \h7f, 0, \h3059, 0>>,
  <<"V.SDI.BRG", 61, 2396, 5, \h207f, 0, \h3059, 0>>,
  <<"V.SDI.U", 61, 2401, 5, \h7f, 0, \h7059, 0>>,
  <<"V.SDI.U.BRG", 61, 2406, 5, \h207f, 0, \h7059, 0>>,
  <<"V.SH", 63, 2411, 6, \h7f, 0, \h1049, 0>>,
  <<"V.SH.BRG", 63, 2417, 6, \h207f, 0, \h1049, 0>>,
  <<"V.SH.U", 63, 2423, 6, \h7f, 0, \h5049, 0>>,
  <<"V.SH.U.BRG", 63, 2429, 6, \h207f, 0, \h5049, 0>>,
  <<"V.SHFL.BFLY", 65, 2435, 3, \h7f, 0, \h201d, 0>>,
  <<"V.SHFL.DOWN", 59, 2438, 4, \h7f, 0, \h101d, 0>>,
  <<"V.SHFL.IDX", 59, 2442, 4, \h7f, 0, \h301d, 0>>,
  <<"V.SHFL.UP", 59, 2446, 4, \h7f, 0, \h1d, 0>>,
  <<"V.SHFLI.BFLY", 66, 2450, 3, \h7f, 0, \h602d, 0>>,
  <<"V.SHFLI.DOWN", 67, 2453, 4, \h7f, 0, \h502d, 0>>,
  <<"V.SHFLI.IDX", 67, 2457, 4, \h7f, 0, \h702d, 0>>,
  <<"V.SHFLI.UP", 67, 2461, 4, \h7f, 0, \h402d, 0>>,
  <<"V.SHI", 61, 2465, 5, \h7f, 0, \h1059, 0>>,
  <<"V.SHI.BRG", 61, 2470, 5, \h207f, 0, \h1059, 0>>,
  <<"V.SHI.U", 61, 2475, 5, \h7f, 0, \h5059, 0>>,
  <<"V.SHI.U.BRG", 61, 2480, 5, \h207f, 0, \h5059, 0>>,
  <<"V.SLL", 55, 2485, 3, \h7f, 0, \h7005, 0>>,
  <<"V.SLLI", 68, 2488, 3, \h7f, 0, \h7015, 0>>,
  <<"V.SRA", 55, 2491, 3, \h7f, 0, \h6005, 0>>,
  <<"V.SRAI", 68, 2494, 3, \h7f, 0, \h6015, 0>>,
  <<"V.SRL", 55, 2497, 3, \h7f, 0, \h5005, 0>>,
  <<"V.SRLI", 68, 2500, 3, \h7f, 0, \h5015, 0>>,
  <<"V.SUB", 53, 2503, 5, \h7f, 0, \h1005, 0>>,
  <<"V.SUBI", 54, 2508, 3, \h7f, 0, \h1015, 0>>,
  <<"V.SW", 63, 2511, 6, \h7f, 0, \h2049, 0>>,
  <<"V.SW.ADD", 64, 2517, 5, \h107f, 0, \hb, 0>>,
  <<"V.SW.AND", 64, 2522, 5, \h107f, 0, \h100b, 0>>,
  <<"V.SW.BRG", 63, 2527, 6, \h207f, 0, \h2049, 0>>,
  <<"V.SW.MAX", 64, 2533, 5, \h107f, 0, \h400b, 0>>,
  <<"V.SW.MIN", 64, 2538, 5, \h107f, 0, \h500b, 0>>,
  <<"V.SW.OR", 64, 2543, 5, \h107f, 0, \h200b, 0>>,
  <<"V.SW.U", 63, 2548, 6, \h7f, 0, \h6049, 0>>,
  <<"V.SW.U.BRG", 63, 2554, 6, \h207f, 0, \h6049, 0>>,
  <<"V.SW.XOR", 64, 2560, 5, \h107f, 0, \h300b, 0>>,
  <<"V.SWI", 61, 2565, 5, \h7f, 0, \h2059, 0>>,
  <<"V.SWI.BRG", 61, 2570, 5, \h207f, 0, \h2059, 0>>,
  <<"V.SWI.U", 61, 2575, 5, \h7f, 0, \h6059, 0>>,
  <<"V.SWI.U.BRG", 61, 2580, 5, \h207f, 0, \h6059, 0>>,
  <<"V.XOR", 53, 2585, 5, \h7f, 0, \h4005, 0>>,
  <<"V.XORI", 54, 2590, 3, \h7f, 0, \h4015, 0>>,
  <<"XB", 7, 2593, 2, \h6f81, 0>>, <<"XOR", 2, 2595, 5, \h4005, 0>>,
  <<"XORI", 2, 2600, 3, \h4015, 0>>, <<"XORIW", 2, 2603, 3, \h4035, 0>>,
  <<"XORW", 2, 2606, 5, \h4025, 0>> >>

(* linxisa_field_pieces, linxisa_field_pieces_count rows. *)
FieldPieces ==
  LET chunk == <<
        Pieces_1, Pieces_2, Pieces_3, Pieces_4, Pieces_5, Pieces_6, Pieces_7,
        Pieces_8, Pieces_9, Pieces_10, Pieces_11, Pieces_12, Pieces_13,
        Pieces_14, Pieces_15, Pieces_16, Pieces_17, Pieces_18, Pieces_19,
        Pieces_20, Pieces_21, Pieces_22, Pieces_23>>
  IN  FlattenSeq([k \in 1 .. Len(chunk) |-> Rows(PieceRun, chunk[k])])

(* linxisa_fields, linxisa_fields_count rows. *)
FieldTable ==
  LET chunk == <<
        Fields_1, Fields_2, Fields_3, Fields_4, Fields_5, Fields_6, Fields_7,
        Fields_8, Fields_9, Fields_10, Fields_11, Fields_12, Fields_13,
        Fields_14, Fields_15, Fields_16, Fields_17, Fields_18>>
  IN  FlattenSeq([k \in 1 .. Len(chunk) |-> FieldRows(chunk[k].first, chunk[k].runs)])

(* linxisa_inst_forms, linxisa_inst_forms_count rows. *)
InstForms ==
  LET rows == Forms_1 \o Forms_2 \o Forms_3 \o Forms_4 \o Forms_5
  IN  [i \in 1 .. Len(rows) |-> InstForm(rows[i])]

=============================================================================
