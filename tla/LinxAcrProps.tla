---------------------------- MODULE LinxAcrProps ----------------------------
(***************************************************************************)
(* What a service request and an extended context save must give back.  Two *)
(* history variables remember what was captured: nothing in the code reads  *)
(* them, they only let a property relate the return to its request.         *)
(***************************************************************************)
EXTENDS LinxAcr

CONSTANT MaxServed   \* bound: requests, returns, saves and restores of a behaviour

VARIABLES
  served,         \* how many there have been
  asked,          \* for each ring, what its last ACRC interrupted, or Nothing
  kept            \* for each ring, what its last ESAVE saved, or Nothing

histVars == <<acrVars, served, asked, kept>>

Nothing == [base |-> -1]

(* A capture is void once software writes the bank register that holds it.  *)
Void(h, a) == IF a \in Acr THEN [h EXCEPT ![a] = Nothing] ELSE h

Capture(h, a, c) == IF a \in Acr THEN [h EXCEPT ![a] = c] ELSE h

Request == [base |-> 0, context |-> [w \in {"cs", "tpc", "cur", "tgt", "carg"} |-> Current[w]]]

Saved(base, len) == [base |-> base, len |-> len, context |-> Current]

HistInit ==
  /\ AcrInit
  /\ served = 0
  /\ asked = [a \in Acr |-> Nothing]
  /\ kept = [a \in Acr |-> Nothing]

Serve == served < MaxServed /\ served' = served + 1

HistRequest ==
  /\ Serve
  /\ \E type \in RequestTypes : Acrc(type)
  /\ asked' = Capture(asked, cstate.acr, Request)
  /\ UNCHANGED kept

(* Saving into a buffer that holds another ring's context voids that one. *)
HistSave ==
  \E src0 \in ExtBase, src1, src2 \in ExtLen :
    /\ Serve
    /\ Esave(src0, src1, src2)
    /\ kept' = Capture([a \in Acr |-> IF kept[a].base = src0 THEN Nothing ELSE kept[a]],
                       cstate.acr, Saved(src0, src2))
    /\ UNCHANGED asked

HistRestore ==
  /\ Serve
  /\ \/ \E type \in ReturnTypes : Acre(type)
     \/ \E src0 \in ExtBase, src2 \in ExtLen : Ercov(src0, src2)
  /\ UNCHANGED <<asked, kept>>

HistSsrSet ==
  \E id \in Acr, f \in BankFields :
    /\ SsrSetBank(id, f)
    /\ asked' = IF f \in {"ec", "cur", "tgt", "tpc"} THEN Void(asked, cstate.acr) ELSE asked
    /\ kept' = IF f \in {"ptr", "len"} THEN Void(kept, cstate.acr) ELSE kept
    /\ UNCHANGED served

HistOther ==
  /\ \/ BlockStep
     \/ SsrSetCstate
     \/ \E table \in CacTables : SsrSetXbinfo(table)
     \/ \E id \in XbIds, cid \in 0 .. 1 : Xb(id, cid)
  /\ UNCHANGED <<served, asked, kept>>

HistNext == HistRequest \/ HistSave \/ HistRestore \/ HistSsrSet \/ HistOther

HistSpec == HistInit /\ [][HistNext]_histVars

-----------------------------------------------------------------------------
(* A return resumes what the ring's last request interrupted, whatever the  *)
(* blocks, requests of other rings and context saves in between did: the    *)
(* ring and the other CSTATE fields, the block, its label and the resume    *)
(* address.  Execution continues at the start of the block.                 *)
ReturnResumesRequest ==
  [][cstate.acr \in Acr /\ asked[cstate.acr] # Nothing /\ Acre(0) =>
       LET c == asked[cstate.acr].context
       IN  /\ cstate' = [c.cs EXCEPT !.bi = TRUE]
           /\ barg'.valid /\ barg'.bpcCur = c.cur /\ barg'.bpcTgt = c.tgt
           /\ pc' = c.cur /\ tpc' = c.tpc]_histVars

(* ERCOV without operands restores exactly the words that the ring's last   *)
(* ESAVE wrote, and leaves the registers of the words it did not write, as  *)
(* long as no other save has used the buffer and the length fits the field. *)
ErcovRestoresSave ==
  [][cstate.acr \in Acr /\ kept[cstate.acr] # Nothing
       /\ kept[cstate.acr].len \in 0 .. LenMod - 1 /\ Ercov(0, 0) =>
       LET k == kept[cstate.acr]
           w == Overlay(Current, k.context, Words(k.len))
       IN  /\ cstate' = w.cs /\ pc' = w.pc /\ tpc' = w.tpc
           /\ barg'.bpcCur = w.cur /\ barg'.bpcTgt = w.tgt /\ barg'.carg = w.carg]_histVars
=============================================================================
