---------------------------- MODULE OpcodeCodec ----------------------------
(***************************************************************************)
(* The opcode table at work.  A program holds a word of some form: the      *)
(* form's match, and its fields filled with a pattern (what an assembler    *)
(* does with the pieces of a field; external).  The histogram plugin        *)
(* decodes the word with the same table.                                    *)
(***************************************************************************)
EXTENDS OpcodeTable, FiniteSets, Folds

VARIABLES
  form,           \* the form of the word, an index of linxisa_inst_forms
  word,           \* the word: [bits, size]
  mnemonic        \* what the plugin calls it, "" before it is decoded

codecVars == <<form, word, mnemonic>>

(* Mutant: the parcel with the highest bits comes first. *)
BitsOf_HighFirst(parcels) ==
  {b \in 0 .. 16 * Len(parcels) - 1 :
     (parcels[Len(parcels) - b \div 16] \div 2^(b % 16)) % 2 = 1}

(* The bit positions of 16-bit parcels: a word is assembled from its bytes, *)
(* the first byte lowest.                                                   *)
BitsOf(parcels) ==
  {b \in 0 .. 16 * Len(parcels) - 1 : (parcels[1 + b \div 16] \div 2^(b % 16)) % 2 = 1}

(* Row f of the table, its mask and match as bit positions. *)
Forms ==
  [f \in 1 .. Len(InstForms) |->
     [InstForms[f] EXCEPT !.mask = BitsOf(@), !.match = BitsOf(@)]]

Plugin == INSTANCE InsnDecode WITH FormTable <- Forms, Illegal <- "ILLEGAL"

(* Mutant: the last field of a form is lost. *)
FieldsOf_Short(f) == InstForms[f].start + 1 .. InstForms[f].start + InstForms[f].count - 1

(* field_start and piece_start are positions from zero. *)
FieldsOf(f) == InstForms[f].start + 1 .. InstForms[f].start + InstForms[f].count
PiecesOf(d) == FieldTable[d].start + 1 .. FieldTable[d].start + FieldTable[d].count

(* The instruction bits and the value bits that a piece ties together. *)
InsnBits(p)  == {FieldPieces[p].lsb + b : b \in 0 .. FieldPieces[p].width - 1}

(* Mutant: the piece starts one bit too high in the value. *)
ValueBits_High(p) == {FieldPieces[p].value + b : b \in 1 .. FieldPieces[p].width}

ValueBits(p) == {FieldPieces[p].value + b : b \in 0 .. FieldPieces[p].width - 1}

FieldBits(f) == UNION {InsnBits(p) : p \in UNION {PiecesOf(d) : d \in FieldsOf(f)}}

-----------------------------------------------------------------------------
(* Field bits all zero, all one, and the two alternating patterns. *)
Patterns == {{}, 0 .. 63, {b \in 0 .. 63 : b % 2 = 0}, {b \in 0 .. 63 : b % 2 = 1}}

WordOf(f, pattern) ==
  [bits |-> Forms[f].match \cup (FieldBits(f) \cap pattern), size |-> Forms[f].length \div 8]

CodecInit ==
  /\ form \in 1 .. Len(InstForms)
  /\ word \in {WordOf(form, p) : p \in Patterns}
  /\ mnemonic = ""

Decode ==
  /\ mnemonic = ""
  /\ mnemonic' = Plugin!DecodeMnemonic(word)
  /\ UNCHANGED <<form, word>>

CodecSpec == CodecInit /\ [][Decode]_codecVars

-----------------------------------------------------------------------------
(* gen_c_codec.py writes forms, fields and pieces as three arrays tied by   *)
(* start positions: every bit of an instruction is fixed by the mask or     *)
(* belongs to exactly one piece of one field of its form, and a form fixes  *)
(* no bit outside its mask.                                                 *)
EveryBitHasOneOwner ==
  LET pieces == UNION {PiecesOf(d) : d \in FieldsOf(form)}
  IN  /\ Forms[form].match \subseteq Forms[form].mask
      /\ Forms[form].mask \cup FieldBits(form) = 0 .. Forms[form].length - 1
      /\ Forms[form].mask \cap FieldBits(form) = {}
      /\ \A p, q \in pieces : p # q => InsnBits(p) \cap InsnBits(q) = {}

(* The pieces of a field tie each bit of its value to one instruction bit   *)
(* and reach its top bit; only low bits may be missing, where an immediate  *)
(* is scaled.                                                               *)
ValuesAreWhole ==
  \A d \in FieldsOf(form) :
    LET value == UNION {ValueBits(p) : p \in PiecesOf(d)}
    IN  /\ \A p, q \in PiecesOf(d) : p # q => ValueBits(p) \cap ValueBits(q) = {}
        /\ \E low \in 0 .. FieldTable[d].width - 1 : value = low .. FieldTable[d].width - 1

(* A fused call is a call marker that the return address follows, in one    *)
(* instruction.                                                             *)
FusedCalls == {"BSTART CALL", "HL.BSTART CALL"}

(* The length of an instruction shows in its beginning: no instruction of   *)
(* one length is the beginning of one of another length, so that code can   *)
(* be cut into instructions in one way only.  The fused calls are the       *)
(* exception: they begin as the marker they fuse.                           *)
LengthsDoNotMix ==
  \A f \in 1 .. Len(Forms) :
    Forms[f].length < Forms[form].length /\ Forms[form].mnemonic \notin FusedCalls =>
      \E b \in Forms[f].mask \cap Forms[form].mask :
        ~(b \in Forms[f].match <=> b \in Forms[form].match)

(* The markers of tile operations share one encoding space: with the opcode *)
(* field of BSTART.PAR at certain values the word is that of another.       *)
TileMarkers ==
  {"BSTART.PAR", "BSTART.TEPL", "BSTART.MPAR", "BSTART.MSEQ", "BSTART.VPAR", "BSTART.VSEQ"}

(* decode_mnemonic_from_bytes calls a word of a form by the form's name, or *)
(* by the name of a special case of the form, one that fixes all its bits   *)
(* and more; only the markers of tile operations overlap otherwise.         *)
DecodesAsItsForm ==
  mnemonic # "" =>
    \/ mnemonic = Forms[form].mnemonic
    \/ {mnemonic, Forms[form].mnemonic} \subseteq TileMarkers
    \/ \E f \in 1 .. Len(Forms) :
         /\ Forms[f].mnemonic = mnemonic /\ Plugin!Matches(Forms[f], word)
         /\ Forms[form].mask \subseteq Forms[f].mask /\ Forms[form].mask # Forms[f].mask

(* linxisa_opcodes.h:9 says of a form "unique encodable bit-pattern": a     *)
(* word of a form is decoded as another mnemonic only if the two forms      *)
(* differ in the bits they fix.                                             *)
FormsAreUnique ==
  mnemonic # "" =>
    \/ mnemonic = Forms[form].mnemonic
    \/ \E f \in 1 .. Len(Forms) :
         /\ Forms[f].mnemonic = mnemonic /\ Plugin!Matches(Forms[f], word)
         /\ Forms[f].mask # Forms[form].mask
=============================================================================
